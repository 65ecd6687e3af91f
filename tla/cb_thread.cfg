SPECIFICATION FairSpec
CONSTANTS
  Tools = {t1}
  Workers = {w1}
  MaxCallbacks = 2
  MaxApiCalls = 4
  MaxSessions = 2
  MaxInterrupts = 0
  SignalCbMayFail = TRUE
  ThreadCbMayFail = TRUE
  MayExit = FALSE
  CallsMayFail = FALSE
  WaitForWorker = TRUE
PROPERTIES
  ToolAnswered
  ResumeCallbacksRun
CHECK_DEADLOCK FALSE
