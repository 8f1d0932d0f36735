SPECIFICATION FairSpec
CONSTANTS
  Sync = {s1, s2}
  Async = {}
  MaxDesc = 2
  MaxReq = 2
  EopFlush = TRUE
  HwErrors = TRUE
  MaxResets = 1
  Wrap = 64
  None = None
CONSTRAINT NothingLost
INVARIANT SubmitAccounts
PROPERTY SubmitReturns
