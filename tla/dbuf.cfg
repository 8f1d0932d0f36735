SPECIFICATION FairSpec
CONSTANTS
  Threads = {t1}
  Bufs = {b1, b2, b3}
  Period = 3
  Faults = TRUE
  MaxSessions = 2
  NoBuf = NoBuf
INVARIANTS TypeOK InOrder NoTornCopy OnePlace
PROPERTY ReadReturns
