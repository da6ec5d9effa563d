SPECIFICATION Spec
CONSTANTS
  Claims = {c1, c2}
  Disks = {d1, d2}
  Serials = {s1, s2}
  None = None
  Limits <- SafetyLimits
SYMMETRY ClaimSymmetry
CHECK_DEADLOCK FALSE
INVARIANT TypeOK
INVARIANT ReadyIsDone
 
PROPERTY OneWipePerDisk
PROPERTY AuthorisedIsRecent
 
PROPERTY TerminalIsTerminal
