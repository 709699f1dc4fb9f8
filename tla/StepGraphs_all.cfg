CONSTANTS
  s1 = s1
  s2 = s2
  s3 = s3
  s4 = s4
  other = other
  Steps = {s1, s2, s3, s4}
  Unknown = other
  Last = s4
  DependsOn <- Lists
  Capability <- Executors
SPECIFICATION FairSpec
CHECK_DEADLOCK FALSE
INVARIANTS RejectsNoDag VerdictIsTrue WorkflowInputsExist
PROPERTIES ImplementsOrder RunsEnd
