CONSTANTS
  w1 = w1
  w2 = w2
  t1 = t1
  t2 = t2
  Workers = {w1}
  Tasks = {t1, t2}
  MaxFaults = 2
SPECIFICATION FairSpec
INVARIANTS AnswersAgree
PROPERTIES ImplementsLifecycle PolledTasksEnd
