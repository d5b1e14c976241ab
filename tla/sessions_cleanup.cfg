SPECIFICATION FairSpec
CONSTANTS
  Mac = {m1, m2}
  Ip = {i1}
  Token = {t1, t2}
  Session = {s1, s2}
  Request = {r1}
  Duration = 1
  Grace = 0
  Retention = 1
  MaxTime = 2
  Faults = {"delete"}
  Crashes = {}
  AdminActs = {"disconnect"}
  AddRefreshes = {TRUE}
  SlowHandlers = TRUE
PROPERTIES
  ExpiredEventuallyCleaned
