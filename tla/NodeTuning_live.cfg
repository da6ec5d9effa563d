SPECIFICATION FairSpec
CONSTANTS
  Tunings = {t1}
  Nodes = {n1}
  NoTuning = NoTuning
  NoNode = NoNode
  MaxGen = 1
  MaxCordons = 1
  MaxStarts = 3
  MaxReleases = 0
  Limits <- LiveLimits
CHECK_DEADLOCK FALSE
PROPERTY RolloutEnds
