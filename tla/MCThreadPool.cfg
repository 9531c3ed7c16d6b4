SPECIFICATION FairSpec
CONSTANTS
  Workers = {w1, w2}
  Submitters = {s1, s2}
  Owner = main
  Nobody = Nobody
  MaxTasks = 3
CHECK_DEADLOCK FALSE
PROPERTIES
  ImplementsExecutor
  EveryTaskRuns
  DestructorReturns
