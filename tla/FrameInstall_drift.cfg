SPECIFICATION Spec
CONSTANTS
  Installs = {i1}
  Machines = {m1, m2}
  NoInstall = NoInstall
  Host <- SameHost
  InitMode = {}
  MaxRuns = 1
  MaxGen = 2
  MaxCrashes = 1
  MaxFaults = 0
  MaxSpread = 3
  Lag = TRUE
SYMMETRY InstallSymmetry
CHECK_DEADLOCK FALSE
INVARIANT OneDriverPerMachine
INVARIANT ImageOutlivesMedia
INVARIANT MediaHasOwner
