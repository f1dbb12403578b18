SPECIFICATION Spec
CONSTANTS
  w1 = w1
  w2 = w2
  id = id
  Workers = {w1, w2}
  WorkerId <- SharedId
  NoOwner = NoOwner
  Creator = Creator
  MaxEpoch = 5
  MaxPosition = 40
  Def <- MCDef
  Signals = {}
  MaxSignals = 0
  Requests <- Cancellation
  MaxFaults = 2
  MaxFailures = 2
SYMMETRY Sym
INVARIANTS LogFolds ProtectedEffectOnce EffectsAccountedFor EndsSettled LedgerFinalizes
PROPERTIES CompensatedInReverse NoNewEffectOnceCancelled LogIsFenced
CHECK_DEADLOCK FALSE
