SPECIFICATION Spec
CONSTANTS
  Dev = {d1, d2}
  Kinds = {"msix", "legacy"}
  Extras = {{"user", "bypass"}}
  MaxThreads = 2
  MaxChannels = 2
  MaxIdx = 2
  MaxFaults = 1
SYMMETRY Symmetry
INVARIANTS TypeOK CleanExit HandlerBacked NamesUnique PoolServes ClassOutlives
PROPERTIES IdleFirst
CHECK_DEADLOCK FALSE
