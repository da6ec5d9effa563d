SPECIFICATION Spec
CONSTANTS
  Tokens = {a, b, c}
  NoToken = NoToken
  MaxRestarts = 2
SYMMETRY TokenSymmetry
CHECK_DEADLOCK FALSE
INVARIANT TypeOK
INVARIANT BaseIsVerified
INVARIANT NoPoisonedCache
INVARIANT FilesHaveOwner
