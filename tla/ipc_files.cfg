SPECIFICATION Spec
CONSTANTS
  c1 = c1
  c2 = c2
  c3 = c3
  p1 = p1
  p2 = p2
  None = None
  Cmds = {c1, c2, c3}
  Paths = {p1, p2}
  Types = {"MSG", "SHM"}
INVARIANTS
  TypeOK
  NoPartialLeft
PROPERTY
  ImageStays
CHECK_DEADLOCK FALSE
