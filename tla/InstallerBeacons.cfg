SPECIFICATION Spec
CONSTANTS
  Tokens = {a, b}
  Capacity = 1
  MaxRestarts = 1
  MaxDeletes = 1
SYMMETRY TokenSymmetry
CHECK_DEADLOCK FALSE
INVARIANT TypeOK
INVARIANT HeardIsRemembered
INVARIANT FailureSticks
