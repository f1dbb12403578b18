SPECIFICATION FairSpec
CONSTANTS
  w1 = w1
  w2 = w2
  id = id
  Workers = {w1, w2}
  WorkerId <- SharedId
  NoOwner = NoOwner
  Creator = Creator
  MaxEpoch = 40
  MaxPosition = 60
  Def <- MCDef
  Signals = {}
  MaxSignals = 0
  Requests = {}
  MaxFaults = 1
  MaxFailures = 3
INVARIANTS DownstreamWaitsForLoop LoopStopsForItsReason ReadingsAreFresh
PROPERTY RunEnds
CHECK_DEADLOCK FALSE
