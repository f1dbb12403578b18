SPECIFICATION Spec
CONSTANTS
  w1 = w1
  w2 = w2
  NoWorker = NoWorker
  Runs = {1, 2}
  Job <- MCJob
  PoolConfig <- MCPools
  Slots <- MCSlots
  WorkerOf <- MCWorkerOf
  Modes <- MCModes
  MaxInlineInput = 4
  MaxArtifact = 1
  MaxConsecutiveFailures = 2
  MaxAttempts = 2
  MaxFaults = 1
INVARIANT RunningHasLease
CHECK_DEADLOCK FALSE
