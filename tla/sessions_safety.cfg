SPECIFICATION Spec
CONSTANTS
  Mac = {m1, m2}
  Ip = {i1}
  Token = {t1, t2}
  Session = {s1, s2}
  Request = {r1, r2}
  Duration = 2
  Grace = 0
  Retention = 0
  MaxTime = 2
  Faults = {"request"}
  Crashes = {"reboot"}
  AdminActs = {"revoke", "disconnect"}
  AddRefreshes = {TRUE}
  SlowHandlers = TRUE
SYMMETRY Symmetry
INVARIANTS
  TypeOK
  OneActivePerMac
  ConsumedTokenHasSession
  ReferentialIntegrity
PROPERTIES
  NeverExpiredEarly
  RestoredFirewall
