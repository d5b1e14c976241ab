SPECIFICATION Spec
CONSTANTS
  Key = {k1, k2}
  Request = {r1, r2}
  Ttl = 2
  MaxTime = 3
  MaxTokens = 3
SYMMETRY Symmetry
INVARIANTS
  TypeOK
  ReloadKeepsForm
PROPERTIES
  AcceptedOnce
