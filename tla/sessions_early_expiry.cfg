SPECIFICATION FairSpec
CONSTANTS
  Mac = {m1}
  Ip = {i1}
  Token = {t1}
  Session = {s1}
  Request = {r1}
  Duration = 2
  Grace = 1
  Retention = 9
  MaxTime = 2
  Faults = {}
  Crashes = {"reboot"}
  AdminActs = {}
  AddRefreshes = {TRUE}
  SlowHandlers = TRUE
PROPERTY
  ExpiredOnlyWhenOver
