\* Wrapper arrays of up to three elements, ids up to the largest usize.
SPECIFICATION Spec
CONSTANTS
  IdMax = 3
  UsizeMax = 3
  Capacities = {0, 2, 3}
  Bounds <- AllBounds
  Parts = {"p"}
  Values = {0, 1}
  Unset = 0
  Lens = {0, 1, 2, 3}
INVARIANTS
  TypeOK
  NeverHalfGrown
PROPERTIES
  IsSparseArray
