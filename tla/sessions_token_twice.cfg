SPECIFICATION Spec
CONSTANTS
  Mac = {m1, m2}
  Ip = {i1}
  Token = {t1}
  Session = {s1, s2}
  Request = {r1, r2}
  Duration = 2
  Grace = 1
  Retention = 9
  MaxTime = 1
  Faults = {}
  Crashes = {}
  AdminActs = {}
  AddRefreshes = {TRUE}
  SlowHandlers = TRUE
INVARIANT
  TokenUsedOnce
