SPECIFICATION Spec
CONSTANTS
  Claims = {c1}
  Disks = {d1, d2}
  Serials = {s1, s2}
  None = None
  Limits <- MovedLimits
SYMMETRY ClaimSymmetry
CHECK_DEADLOCK FALSE
INVARIANT OneDiskPerClaim
