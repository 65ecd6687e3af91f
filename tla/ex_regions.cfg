SPECIFICATION Spec
CONSTANTS
  Addrs = {x, y}
  Cells = {c1, c2}
  NULL = NULL
  Kids = {k1, k2}
  MaxForks = 2
  MaxCallbacks = 2
INVARIANTS
  TypeOK
  RegionsListed
  HandedOver
  OwnChildrenOnly
  NewestListed
  
SYMMETRY ExclusionSymmetry
CHECK_DEADLOCK FALSE
