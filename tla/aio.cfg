SPECIFICATION FairSpec
CONSTANTS
  Calls = {c1, c2}
  MaxSegs = 3
INVARIANTS TypeOK AnswerIsFinal FreedOnlyByLateError
PROPERTY Completes
CHECK_DEADLOCK FALSE
