SPECIFICATION Spec
CONSTANTS
  Sync = {}
  Async = {a1, a2, a3}
  MaxDesc = 2
  MaxReq = 2
  EopFlush = FALSE
  HwErrors = TRUE
  MaxResets = 1
  Wrap = 64
  None = None
SYMMETRY Symmetry
INVARIANT OfflineQuiet
CHECK_DEADLOCK FALSE
