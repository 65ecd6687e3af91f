SPECIFICATION Spec
CONSTANTS
  Procs = {p1}
  RProcs = {}
  MaxVersions = 1
  KernelMayFail = FALSE
  Actions = {"ALL"}
  HasCallbacks = FALSE
  CallbacksMayFail = FALSE
  ContinueMayFail = FALSE
  CleanMayFail = FALSE
  MaxSignals = 2
  RestartCbMayFail = FALSE
  MaxRestartSignals = 0
INVARIANT
  SignalsDoNotStrand
CHECK_DEADLOCK FALSE
