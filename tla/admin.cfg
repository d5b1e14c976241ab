SPECIFICATION Spec
CONSTANTS
  Browser = {b1}
  Sid = {s1, s2}
  Request = {r1, r2}
  NoCookie = NoCookie
  NoToken = NoToken
  Timeout = 2
  AccessTimeout = 2
  MaxTime = 3
  MaxFailures = 1
  Restarts = TRUE
SYMMETRY Symmetry
INVARIANTS
  TypeOK
  RefusedOnceOver
  FormOfOwnSession
  LoginOnRecord
  ManagerOnline
