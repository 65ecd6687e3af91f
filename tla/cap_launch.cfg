SPECIFICATION FairSpec
CONSTANTS
  sh = sh
  init = init
  k1 = k1
  k2 = k2
  l1 = l1
  a1 = a1
  Shells = {sh}
  Init1 = init
  Launchers = {l1}
  App <- AppOf
  Setters = {k1, k2}
  Invocations <- SomeInvocations
  RunOptions <- SomeRuns
  MaxSignals = 2
  InitialCaps <- SomeCaps
INVARIANTS
  TypeOK
  FileNamesApplication
  StatusReported
PROPERTIES
  ConfirmedLoss
  OptionsApplied
  LaunchedCheckpointable
  
  LauncherEnds
CHECK_DEADLOCK FALSE
