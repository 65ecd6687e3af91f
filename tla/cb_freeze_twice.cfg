SPECIFICATION FairSpec
CONSTANTS
  Tools = {t1, t2}
  Workers = {}
  MaxCallbacks = 1
  MaxApiCalls = 2
  MaxSessions = 2
  MaxInterrupts = 0
  SignalCbMayFail = FALSE
  ThreadCbMayFail = FALSE
  MayExit = FALSE
  CallsMayFail = FALSE
  WaitForWorker = FALSE
PROPERTY
  ToolAnswered
CHECK_DEADLOCK FALSE
