SPECIFICATION Spec
CONSTANTS
  Installs = {i1}
  Machines = {m1, m2}
  NoInstall = NoInstall
  Host <- SameHost
  InitMode = {}
  MaxRuns = 2
  MaxGen = 2
  MaxCrashes = 0
  MaxFaults = 0
  MaxSpread = 2
  Lag = FALSE
CHECK_DEADLOCK FALSE
INVARIANT RunOnce
