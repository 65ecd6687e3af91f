SPECIFICATION Spec
CONSTANTS
  a1 = a1
  a2 = a2
  Admins = {a1, a2}
  MaxNodes = 4
  Here <- HereAllZero
  Counts <- SmallCounts
  Lists <- SomeLists
  Commands = {"del"}
  InitialStates <- AnyStart
  MaxLeaves = 0
  OneAtATime = TRUE
PROPERTY
  DelTotalExact
CHECK_DEADLOCK FALSE
