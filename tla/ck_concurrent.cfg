SPECIFICATION Spec
CONSTANTS
  Procs = {p1, p2}
  RProcs = {q1}
  MaxVersions = 2
  KernelMayFail = TRUE
  Actions = {"CHECKPOINT", "FREEZE", "UNFREEZE", "ALL"}
  HasCallbacks = TRUE
  CallbacksMayFail = TRUE
  ContinueMayFail = TRUE
  CleanMayFail = TRUE
  MaxSignals = 2
  RestartCbMayFail = TRUE
  MaxRestartSignals = 1
INVARIANTS
  TypeOK
  NotLeftFrozen
  IncompleteIsCleaned
  SuccessMeansImage
PROPERTIES
  ImagesKept
  KillLosesNothing
  LifeSpec
SYMMETRY ProcSymmetry
CHECK_DEADLOCK FALSE
