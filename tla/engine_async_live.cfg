SPECIFICATION LiveSpec
CONSTANTS
  Sync = {}
  Async = {a1, a2, a3}
  MaxDesc = 2
  MaxReq = 2
  EopFlush = FALSE
  HwErrors = FALSE
  MaxResets = 0
  Wrap = 64
  None = None

INVARIANTS DmaOwned DescUsedExact
PROPERTIES CallbackTruthful CallbackRuns
