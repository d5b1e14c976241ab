SPECIFICATION ViewSpec
CONSTANTS
  Mac = {m1, m2}
  Ip = {i1}
  Token = {t1, t2}
  Session = {s1, s2, s3}
  Request = {r1}
  Duration = 2
  Grace = 1
  Retention = 9
  MaxTime = 4
  Faults = {}
  Crashes = {"reboot"}
  AdminActs = {}
  AddRefreshes = {TRUE}
  SlowHandlers = FALSE
  SyncEvery = 1
  FetchSeconds = 1
  FetchFails = TRUE
  MaxPages = 1
SYMMETRY Symmetry
INVARIANTS
  PageTypeOK
  ToldTheTruth
  CountdownEnds
  LiveSessionOnline
PROPERTIES
  NeverExpiredEarly
