SPECIFICATION FairSpec
CONSTANTS
  Procs = {p1, p2}
  RProcs = {}
  MaxVersions = 1
  KernelMayFail = TRUE
  Actions = {"CHECKPOINT", "FREEZE", "UNFREEZE", "ALL"}
  HasCallbacks = TRUE
  CallbacksMayFail = TRUE
  ContinueMayFail = TRUE
  CleanMayFail = TRUE
  MaxSignals = 2
  RestartCbMayFail = TRUE
  MaxRestartSignals = 0
PROPERTIES
  AllUnfreezes
CHECK_DEADLOCK FALSE
