SPECIFICATION Spec
CONSTANTS
  Procs = {p1}
  RProcs = {q1}
  MaxVersions = 1
  KernelMayFail = FALSE
  Actions = {"ALL"}
  HasCallbacks = FALSE
  CallbacksMayFail = FALSE
  ContinueMayFail = FALSE
  CleanMayFail = FALSE
  MaxSignals = 0
  RestartCbMayFail = FALSE
  MaxRestartSignals = 1
PROPERTY
  ForegroundWaits
CHECK_DEADLOCK FALSE
