SPECIFICATION FairSpec
CONSTANTS
  w1 = w1
  w2 = w2
  id = id
  Workers = {w1, w2}
  WorkerId <- SharedId
  NoOwner = NoOwner
  Creator = Creator
  MaxEpoch = 12
  MaxPosition = 40
  Def <- MCDef
  Signals <- MCSignals
  MaxSignals = 1
  Requests <- MCRequests
  MaxFaults = 1
  MaxFailures = 1
INVARIANTS RowAgrees
PROPERTIES ResumedForItsReason TimerWakes
CHECK_DEADLOCK FALSE
