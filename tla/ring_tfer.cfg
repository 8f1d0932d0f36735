SPECIFICATION Spec
CONSTANTS
  Reqs = {r1, r2}
  Kinds = {"async"}
  Lists <- FittingLists
  Wide <- FittingLists
  Size = 4
  Block = 2
  Blen = 2
  Aperture = 4
  Modes = {"incr"}
  None = None
INVARIANT TwoTransfers
