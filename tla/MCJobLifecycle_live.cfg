SPECIFICATION FairSpec
CONSTANTS
  j1 = j1
  j2 = j2
  j3 = j3
  Jobs <- TwoJobs
  MaxWorkers = 1
  MaxQueueSize = 2
  Durable = TRUE
  MaxRestarts = 0
  MaxSlow = 0
  Faults = {"pool_break"}
PROPERTIES
  EveryJobSettles
  OverdueIsGivenUp
CHECK_DEADLOCK FALSE
