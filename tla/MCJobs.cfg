SPECIFICATION FairSpec
CONSTANTS
  w1 = w1
  w2 = w2
  NoWorker = NoWorker
  Runs = {1, 2}
  Job <- MCJob
  PoolConfig <- MCPools
  Slots <- MCSlots
  WorkerOf <- MCWorkerOf
  Modes <- MCModes
  MaxInlineInput = 4
  MaxArtifact = 1
  MaxConsecutiveFailures = 1
  MaxAttempts = 2
  MaxFaults = 1
INVARIANTS  StoredArtifactsWhole
PROPERTIES SweepSparesRunning ImplementsLifecycle ExpiredIsReclaimed CancelledJobsGo
CHECK_DEADLOCK FALSE
