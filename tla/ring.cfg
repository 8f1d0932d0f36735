SPECIFICATION Spec
CONSTANTS
  Reqs = {r1, r2, r3}
  Kinds = {"sync", "async", "aperture"}
  Lists <- SmallLists
  Wide <- WideLists
  Size = 4
  Block = 2
  Blen = 2
  Aperture = 4
  Modes = {"incr", "fixed", "stream"}
  None = None
INVARIANTS TypeOK ChainIntact BlockInChain DataInPlace
PROPERTY EndsWhole
SYMMETRY Symmetry
CONSTRAINT WithinRing
