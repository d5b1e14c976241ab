SPECIFICATION FairSpec
CONSTANTS
  Mac = {m1}
  Ip = {i1}
  Token = {t1}
  Session = {s1}
  Request = {r1}
  Duration = 1
  Grace = 1
  Retention = 9
  MaxTime = 3
  Faults = {}
  Crashes = {}
  AdminActs = {}
  AddRefreshes = {TRUE}
  SlowHandlers = TRUE
PROPERTY
  ExpiredEventuallyCleaned
