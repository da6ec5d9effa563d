SPECIFICATION Spec
CONSTANTS
  Tunings = {t1}
  Nodes = {n1}
  NoTuning = NoTuning
  NoNode = NoNode
  MaxGen = 1
  MaxCordons = 2
  MaxStarts = 3
  MaxReleases = 0
  Limits <- CrashLimits
CHECK_DEADLOCK FALSE
INVARIANT OneRestart
