SPECIFICATION Spec
CONSTANTS
  Mac = {m1, m2}
  Ip = {i1}
  Token = {t1, t2}
  Session = {s1, s2, s3}
  Request = {r1}
  Duration = 2
  Grace = 0
  Retention = 9
  MaxTime = 3
  Faults = {"job"}
  Crashes = {}
  AdminActs = {"disconnect"}
  AddRefreshes = {TRUE, FALSE}
  SlowHandlers = FALSE
SYMMETRY Symmetry
PROPERTIES
  ImplementsPaidTokens
INVARIANTS
  AccessIsPaidFor
  OnePaidPeriod
