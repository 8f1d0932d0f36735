SPECIFICATION FairSpec
CONSTANTS
  Last = 2
  Flush = {2}
  Faulty = {1}
  MaxDesc = 2
INVARIANTS TypeOK PollTruthful NoFalseFailure
PROPERTY Served
