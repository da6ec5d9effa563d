SPECIFICATION Spec
CONSTANTS
  Installs = {i1, i2}
  Machines = {m1, m2}
  NoInstall = NoInstall
  Host <- SameHost
  InitMode = {}
  MaxRuns = 2
  MaxGen = 1
  MaxCrashes = 1
  MaxFaults = 0
  MaxSpread = 2
  Lag = FALSE
SYMMETRY InstallSymmetry
CHECK_DEADLOCK FALSE
INVARIANT TypeOK
INVARIANT OneDriverPerMachine
INVARIANT ImageOutlivesMedia
INVARIANT MediaHasOwner
INVARIANT RunOnce
INVARIANT HostnameExclusive
PROPERTY TerminalIsFinal
