SPECIFICATION FairSpec
CONSTANTS
  Claims = {c1, c2}
  Disks = {d1}
  Serials = {s1}
  None = None
  Limits <- LiveLimits
CHECK_DEADLOCK FALSE
PROPERTY ClaimEnds
