SPECIFICATION Spec
CONSTANTS
  Threads = {t1}
  Bufs = {b1, b2, b3}
  Period = 3
  Faults = TRUE
  MaxSessions = 1
  NoBuf = NoBuf
INVARIANT InFlightLive
