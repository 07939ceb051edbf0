SPECIFICATION Spec
CONSTANTS
  j1 = j1
  j2 = j2
  j3 = j3
  Jobs <- TwoJobs
  MaxWorkers = 1
  MaxQueueSize = 2
  Durable = TRUE
  MaxRestarts = 1
  MaxSlow = 1
  Faults = {"store_error", "cleanup_error", "pool_break", "shutdown"}
SYMMETRY JobSymmetry
INVARIANTS
  TypeOK
  SlotsAccounted
  OneVerdict
  HeldIsRunning
  QueuedHasIntake
  CompleteHasArtifact
  RunningIsOwned
PROPERTY
  TerminalIsFinal
  Contract
CHECK_DEADLOCK FALSE
