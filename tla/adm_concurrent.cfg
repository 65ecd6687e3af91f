SPECIFICATION FairSpec
CONSTANTS
  a1 = a1
  a2 = a2
  Admins = {a1, a2}
  MaxNodes = 3
  Here <- HereApart
  Counts <- SmallCounts
  Lists <- SomeLists
  Commands = {"add", "del", "poweroff", "reboot"}
  InitialStates <- AnyStart
  MaxLeaves = 1
  OneAtATime = FALSE
INVARIANTS
  TypeOK
  SelectsLowest
PROPERTIES
  OwnNodeStays
  AddTotalExact
  AddEnds
CHECK_DEADLOCK FALSE
