SPECIFICATION FairSpec
CONSTANTS
  Installs = {i1}
  Machines = {m1}
  NoInstall = NoInstall
  Host <- SameHost
  InitMode = {i1}
  MaxRuns = 1
  MaxGen = 1
  MaxCrashes = 2
  MaxFaults = 2
  MaxSpread = 2
  Lag = FALSE
CHECK_DEADLOCK FALSE
INVARIANT ReadyHasKubeconfig
PROPERTY Settles
