SPECIFICATION Spec
CONSTANTS
  Tools = {t1, t2}
  Workers = {w1}
  MaxCallbacks = 1
  MaxApiCalls = 3
  MaxSessions = 2
  MaxInterrupts = 1
  SignalCbMayFail = TRUE
  ThreadCbMayFail = TRUE
  MayExit = TRUE
  CallsMayFail = TRUE
  WaitForWorker = FALSE
INVARIANTS
  TypeOK
  AckMeansPrepared
  NoOrphanQueue
  
SYMMETRY ToolSymmetry
CHECK_DEADLOCK FALSE
