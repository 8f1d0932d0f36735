SPECIFICATION Spec
CONSTANTS
  Sync = {s1, s2}
  Async = {}
  MaxDesc = 2
  MaxReq = 3
  EopFlush = FALSE
  HwErrors = TRUE
  MaxResets = 2
  Wrap = 64
  None = None
CONSTRAINT NothingLost
SYMMETRY Symmetry
INVARIANTS TypeOK CompletedTruthful DmaOwned QueueSubmitted OfflineQuiet SubmitAccounts
PROPERTIES SettledStays ImplementsService
