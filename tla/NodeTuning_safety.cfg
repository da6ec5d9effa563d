SPECIFICATION Spec
CONSTANTS
  Tunings = {t1, t2}
  Nodes = {n1, n2}
  NoTuning = NoTuning
  NoNode = NoNode
  MaxGen = 2
  MaxCordons = 2
  MaxStarts = 3
  MaxReleases = 1
  Limits <- SafetyLimits
CHECK_DEADLOCK FALSE
SYMMETRY TuningSymmetry
INVARIANT TypeOK
INVARIANT OneNodeAtATime
 
 
INVARIANT OneRestartPerApproval
