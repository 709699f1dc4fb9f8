CONSTANTS
  r1 = r1
  r2 = r2
  w1 = w1
  Runs = {r1, r2}
  Workers = {w1}
SPECIFICATION FairSpec
INVARIANTS AnsweredOnce
PROPERTIES FinalStays  RunsEnd
