---------------------- MODULE SessionsRefinementProofs ----------------------
(***************************************************************************)
(* What a token buys: one period, and access that ends with it, as long as *)
(* no two requests carry the token at a time and none stops where it must  *)
(* not; and the handlers, the manager and the ticker as an implementation  *)
(* of PaidTokens, when one request runs at a time and to its end.  For any *)
(* number of clients, tokens and sessions, any durations, and every        *)
(* kernel.                                                                 *)
(***************************************************************************)
EXTENDS SessionsRefinement, SessionsProofs

(* Portal requests do not overlap and run to their end: no call fails, no  *)
(* client hangs up, the daemon does not stop.  With two requests, or with  *)
(* one that stops before redeem_token, a token is sold twice.              *)
Serial ==
  /\ \A r1, r2 \in Request : r1 = r2
  /\ "request" \notin Faults
  /\ Crashes = {}

-----------------------------------------------------------------------------
(***************************************************************************)
(* What a step does to the tokens and to the handlers.                     *)
(***************************************************************************)

\* No token becomes unused, and the one that is redeemed is not.
LEMMA UnusedStays ==
  ASSUME IInv, [Next]_vars, NEW t \in Token, token'[t].status = "unused"
  PROVE  /\ token[t].status = "unused"
         /\ \A r \in Request : CreateRedeem(r) => req[r].token # t
<1>a. TypeOK
  BY DEF IInv
<1>1. token[t] \in TokenRow
  BY <1>a DEF TypeOK
<1>2. ASSUME NEW u \in Token, NEW e, RedeemToken(u, e)
      PROVE  token[t].status = "unused" /\ u # t
  BY <1>2, <1>1, <1>a DEF RedeemToken, TypeOK
<1>3. ASSUME NEW u \in Token, SetTokenExpired(u)
      PROVE  token[t].status = "unused"
  BY <1>3, <1>1, <1>a DEF SetTokenExpired, TypeOK, TokenRow
<1>4. ASSUME NEW u \in Token, RevokeToken(u)
      PROVE  token[t].status = "unused"
  BY <1>4, <1>1, <1>a DEF RevokeToken, TypeOK, TokenRow
<1>5. ASSUME PurgeTokens
      PROVE  token[t].status = "unused"
  BY <1>5, <1>1, <1>a DEF PurgeTokens, TypeOK, TokenRow
<1>6. token[t].status = "unused"
  BY <1>2, <1>3, <1>4, <1>5, TokenWrites DEF Creating
<1>7. ASSUME NEW r \in Request, CreateRedeem(r)
      PROVE  req[r].token # t
  <2>1. req[r].token \in Token
    BY <1>7, <1>a, RequestShape DEF CreateRedeem, Creating
  <2> QED
    BY <1>2, <1>7, <2>1 DEF CreateRedeem
<1> QED
  BY <1>6, <1>7

\* A handler's step writes no other handler's locals.
LEMMA HandlerAlone ==
  ASSUME TypeOK, NEW r \in Request, PortalAuth(r),
         NEW q \in Request, q # r
  PROVE  req'[q] = req[q]
BY DEF PortalAuth, ValidateUnused, ValidateActive, CreateAuthorize,
       CreateInsert, CreateRedeem, MigrateFind, MigrateFindsNothing,
       MigrateDeauthorize, MigrateClose, MigrateAuthorize, MigrateInsert,
       InsertRefused, RequestFails, Goto, Finish, TypeOK

\* Nor does anybody else, unless the daemon stops.
LEMMA OthersSteps ==
  ASSUME TypeOK, [Next]_vars, NEW r \in Request, ~PortalAuth(r), ~Crash
  PROVE  req'[r] = req[r]
<1>1. ASSUME NEW q \in Request, PortalAuth(q)
      PROVE  req'[r] = req[r]
  BY <1>1, HandlerAlone
<1> QED
  BY <1>1
  DEF Next, AdminStep, RevokeToken, DisconnectRead, DisconnectDeauthorize,
      DisconnectMark, JobStep, TickerStart, BootStart, TickerSkip,
      TickerDeauthorize, BootRestore, BootExpire, ExpireSession, ExpireToken,
      JobStepFails, LoopEnd, PurgeFails, PurgeSessions, PurgeTokens, Tick, vars

\* When it stops there is no handler left, and no row is touched.
LEMMA StoppedRequests ==
  ASSUME Crash
  PROVE  /\ \A r \in Request : req'[r].pc = "idle"
         /\ session' = session /\ token' = token
BY DEF Crash, Idle

\* The same for all handlers at once, of a daemon that does not stop.
LEMMA QuietSteps ==
  ASSUME Serial, [Next]_vars, \A r \in Request : ~PortalAuth(r)
  PROVE  req' = req
<1>1. ~Crash
  BY DEF Serial, Crash
<1> QED
  BY <1>1
  DEF Next, AdminStep, RevokeToken, DisconnectRead, DisconnectDeauthorize,
      DisconnectMark, JobStep, TickerStart, BootStart, TickerSkip,
      TickerDeauthorize, BootRestore, BootExpire, ExpireSession, ExpireToken,
      JobStepFails, LoopEnd, PurgeFails, PurgeSessions, PurgeTokens, Tick, vars

-----------------------------------------------------------------------------
(***************************************************************************)
(* A token buys one period.                                                *)
(***************************************************************************)

(* What goes wrong with a token needs one of two things: two requests that *)
(* carry it at a time,                                                     *)
Apart == \A q, r \in Busy : q # r => req[q].token # req[r].token

(* or a request that has inserted the token's row and stops before it gets *)
(* to redeem_token: by a failure, a client that hangs up, or a crash.      *)
SaleRecorded ==
  \A r \in Request : req[r].pc = "create_redeem" =>
    req'[r] = req[r] \/ CreateRedeem(r)

RowOf(s, t) == Inserted(s) /\ session[s].token = t

MigratePc == {"migrate_deauthorize", "migrate_close", "migrate_authorize",
              "migrate_insert"}

(* A token that is unused has no row, unless the request that redeems it   *)
(* has just inserted the row.                                              *)
UnusedUnsold ==
  \A t \in Token, s \in Session : token[t].status = "unused" /\ RowOf(s, t) =>
    \E r \in Request : req[r].pc = "create_redeem" /\ req[r].token = t

(* So a request that is about to sell a token finds no row of it,          *)
NotSoldTwice ==
  \A r \in Request : req[r].pc \in {"create_authorize", "create_insert"} =>
    \A s \in Session : ~RowOf(s, req[r].token)

(* and a migration's old row is the token's only one that may be active,   *)
(* until it is closed.                                                     *)
OldIsTheOne ==
  \A r \in Request : req[r].pc \in MigratePc =>
    /\ session[req[r].old].token = req[r].token
    /\ \A s \in Session :
         RowOf(s, req[r].token) /\ session[s].status = "active" =>
           /\ s = req[r].old
           /\ req[r].pc \in {"migrate_deauthorize", "migrate_close"}

PeriodInv ==
  IInv /\ OnePaidPeriod /\ UnusedUnsold /\ NotSoldTwice /\ OldIsTheOne

\* The step of a serial request, and of everything else.
LEMMA OneAtATime ==
  ASSUME Serial, NEW r \in Request, NEW q \in Request
  PROVE  q = r /\ ~RequestFails(r)
BY DEF Serial, RequestFails

\* Requests that do not overlap are apart, and record what they sell.
LEMMA SerialIsApart ==
  ASSUME Serial
  PROVE  /\ Apart
         /\ TypeOK /\ [Next]_vars => SaleRecorded
<1>1. Apart
  BY DEF Serial, Apart, Busy
<1>2. ASSUME TypeOK, [Next]_vars, NEW r \in Request,
             req[r].pc = "create_redeem"
      PROVE  req'[r] = req[r] \/ CreateRedeem(r)
  <2>1. ~Crash /\ ~RequestFails(r) /\ req[r] # Idle
    BY <1>2, OneAtATime DEF Crash, Serial, Idle
  <2>2. CASE ~PortalAuth(r)
    BY <1>2, <2>1, <2>2, OthersSteps
  <2>3. CASE PortalAuth(r)
    BY <1>2, <2>1, <2>3
    DEF PortalAuth, ValidateUnused, ValidateActive, Starts, CreateAuthorize,
        CreateInsert, MigrateFind, MigrateFindsNothing, MigrateDeauthorize,
        MigrateClose, MigrateAuthorize, MigrateInsert, InsertRefused
  <2> QED
    BY <2>2, <2>3
<1> QED
  BY <1>1, <1>2 DEF SaleRecorded

\* Closing rows keeps the one period.
LEMMA PeriodClosed ==
  ASSUME IInv, [Next]_vars, Closing, OnePaidPeriod
  PROVE  OnePaidPeriod'
<1> SUFFICES ASSUME NEW s1 \in Session, NEW s2 \in Session,
                    Inserted(s1)', Inserted(s2)',
                    session'[s1].token = session'[s2].token
             PROVE  /\ session'[s1].expires = session'[s2].expires
                    /\ session'[s1].status = "active"
                         /\ session'[s2].status = "active" => s1 = s2
  BY DEF OnePaidPeriod
<1>1. /\ Inserted(s1) /\ Inserted(s2)
      /\ session'[s1].status = "active" => session[s1].status = "active"
      /\ session'[s2].status = "active" => session[s2].status = "active"
  BY DEF Closing
<1>2. SameRow(s1) /\ SameRow(s2)
  BY <1>1, RowsAreKept
<1> QED
  BY <1>1, <1>2 DEF OnePaidPeriod, SameRow

\* So does adding a row, when the token has none that is active, and none
\* with another deadline.
LEMMA PeriodAdded ==
  ASSUME IInv, [Next]_vars, OnePaidPeriod,
         NEW new \in Session, NEW t, NEW c, NEW e, Adding(new, t, c, e),
         \A s \in Session : RowOf(s, t) =>
           session[s].expires = e /\ session[s].status # "active"
  PROVE  OnePaidPeriod'
<1> SUFFICES ASSUME NEW s1 \in Session, NEW s2 \in Session,
                    Inserted(s1)', Inserted(s2)',
                    session'[s1].token = session'[s2].token
             PROVE  /\ session'[s1].expires = session'[s2].expires
                    /\ session'[s1].status = "active"
                         /\ session'[s2].status = "active" => s1 = s2
  BY DEF OnePaidPeriod
<1>1. ASSUME NEW s \in Session, Inserted(s)', s # new
      PROVE  /\ Inserted(s) /\ SameRow(s)
             /\ session'[s].status = "active" => session[s].status = "active"
  BY <1>1, RowsAreKept DEF Adding
<1>2. ASSUME NEW s \in Session, Inserted(s)', s # new, session'[s].token = t
      PROVE  session'[s].expires = e /\ session'[s].status # "active"
  BY <1>1, <1>2 DEF RowOf, SameRow
<1>3. session'[new].token = t /\ session'[new].expires = e
  BY DEF Adding
<1>4. CASE s1 # new /\ s2 # new
  BY <1>1, <1>4 DEF OnePaidPeriod, SameRow
<1>5. CASE s1 = new \/ s2 = new
  BY <1>2, <1>3, <1>5
<1> QED
  BY <1>4, <1>5

\* A row that stood for a sale under way does so until the sale is recorded.
LEMMA UnsoldStays ==
  ASSUME IInv, [Next]_vars, SaleRecorded, UnusedUnsold,
         NEW t \in Token, token'[t].status = "unused",
         NEW s \in Session, RowOf(s, t)
  PROVE  \E r \in Request : /\ req[r].pc = "create_redeem"
                            /\ req[r].token = t
                            /\ req'[r] = req[r]
<1>1. token[t].status = "unused"
  BY UnusedStays
<1>2. PICK r \in Request : req[r].pc = "create_redeem" /\ req[r].token = t
  BY <1>1 DEF UnusedUnsold
<1>3. ~CreateRedeem(r)
  BY <1>2, UnusedStays
<1> QED
  BY <1>2, <1>3 DEF SaleRecorded

\* What a handler that makes no step relies on stays true, unless a row of
\* its token is inserted.
LEMMA OtherRequest ==
  ASSUME PeriodInv, [Next]_vars, NEW q \in Request, req'[q] = req[q],
         \A s \in Session : /\ session'[s].status # "none"
                            /\ session'[s].token = req[q].token
                            => /\ RowOf(s, req[q].token)
                               /\ session'[s].status = "active" =>
                                    session[s].status = "active"
  PROVE  /\ req'[q].pc \in {"create_authorize", "create_insert"} =>
              \A s \in Session : ~(/\ session'[s].status # "none"
                                   /\ session'[s].token = req'[q].token)
         /\ req'[q].pc \in MigratePc =>
              /\ session'[req'[q].old].token = req'[q].token
              /\ \A s \in Session :
                   /\ session'[s].status # "none"
                   /\ session'[s].token = req'[q].token
                   /\ session'[s].status = "active"
                   => /\ s = req'[q].old
                      /\ req'[q].pc \in {"migrate_deauthorize",
                                         "migrate_close"}
<1>a. IInv /\ TypeOK /\ NotSoldTwice /\ OldIsTheOne
  BY DEF PeriodInv, IInv
<1>1. ASSUME req[q].pc \in MigratePc
      PROVE  session'[req[q].old].token = req[q].token
  <2>1. req[q].old \in Session /\ Inserted(req[q].old)
    BY <1>1, <1>a, RequestShape DEF IInv, FetchedRowsExist, MigratePc, Migrating
  <2>2. session'[req[q].old].token = session[req[q].old].token
    BY <1>a, <2>1, RowsAreKept DEF SameRow
  <2> QED
    BY <1>1, <1>a, <2>2 DEF OldIsTheOne
<1> QED
  BY <1>1, <1>a DEF NotSoldTwice, OldIsTheOne

\* Steps of everything but a request.
LEMMA PeriodQuiet ==
  ASSUME PeriodInv, IInv', [Next]_vars, SaleRecorded,
         \A r \in Request : ~PortalAuth(r)
  PROVE  PeriodInv'
<1>a. IInv /\ TypeOK /\ OnePaidPeriod /\ UnusedUnsold
  BY DEF PeriodInv, IInv
<1>1. Closing
  BY <1>a, ClosingSteps DEF PortalAuth
<1>2. UnusedUnsold'
  BY <1>a, <1>1, UnsoldStays, ClosedRows DEF UnusedUnsold, RowOf, Inserted
<1>3. NotSoldTwice' /\ OldIsTheOne'
  <2>1. CASE Crash
    BY <2>1, StoppedRequests DEF NotSoldTwice, OldIsTheOne, MigratePc
  <2>2. CASE ~Crash
    <3>1. \A q \in Request : req'[q] = req[q]
      BY <2>2, <1>a, OthersSteps
    <3> QED
      BY <3>1, <1>a, <1>1, OtherRequest, ClosedRows
      DEF NotSoldTwice, OldIsTheOne, RowOf, Inserted
  <2> QED
    BY <2>1, <2>2
<1> QED
  BY <1>a, <1>1, <1>2, <1>3, PeriodClosed DEF PeriodInv

\* What the request itself relies on after a step that inserts no row.
LEMMA OwnRequest ==
  ASSUME PeriodInv, IInv', [Next]_vars, Closing, Apart',
         NEW r \in Request, PortalAuth(r), ~CreateInsert(r), ~MigrateInsert(r)
  PROVE  /\ req'[r].pc \in {"create_authorize", "create_insert"} =>
              \A s \in Session : ~(/\ session'[s].status # "none"
                                   /\ session'[s].token = req'[r].token)
         /\ req'[r].pc \in MigratePc =>
              /\ session'[req'[r].old].token = req'[r].token
              /\ \A s \in Session :
                   /\ session'[s].status # "none"
                   /\ session'[s].token = req'[r].token
                   /\ session'[s].status = "active"
                   => /\ s = req'[r].old
                      /\ req'[r].pc \in {"migrate_deauthorize",
                                         "migrate_close"}
<1>a. IInv /\ OnePaidPeriod /\ UnusedUnsold /\ NotSoldTwice /\ OldIsTheOne
  BY DEF PeriodInv
<1>b. TypeOK /\ TypeOK'
  BY <1>a DEF IInv
<1>1. \/ req'[r].pc \in {"idle", "migrate_find", "create_redeem"}
      \/ \E t \in Token, c \in Client : ValidateUnused(r, t, c)
      \/ CreateAuthorize(r) \/ MigrateFind(r) \/ MigrateDeauthorize(r)
      \/ MigrateClose(r) \/ MigrateAuthorize(r)
  <2>1. CASE \E t \in Token, c \in Client : ValidateActive(r, t, c)
    BY <2>1, <1>b DEF ValidateActive, TypeOK
  <2>2. CASE \/ CreateRedeem(r) \/ MigrateFindsNothing(r) \/ InsertRefused(r)
             \/ RequestFails(r)
    BY <2>2, <1>b, FinishIdles
    DEF CreateRedeem, MigrateFindsNothing, InsertRefused, RequestFails
  <2> QED
    BY <2>1, <2>2 DEF PortalAuth
<1>2. ASSUME req'[r].pc \in {"create_authorize", "create_insert"},
             NEW s \in Session,
             session'[s].status # "none", session'[s].token = req'[r].token
      PROVE  FALSE
  <2>1. RowOf(s, req'[r].token)
    BY <1>2, <1>a, ClosedRows DEF RowOf, Inserted
  <2>2. ASSUME NEW t \in Token, NEW c \in Client, ValidateUnused(r, t, c)
        PROVE  FALSE
    <3>1. req'[r].token = t /\ token[t].status = "unused"
          /\ req[r].pc = "idle" /\ req'[r].pc # "idle"
      BY <2>2, <1>b DEF ValidateUnused, Starts, TypeOK, Idle
    <3>2. PICK q \in Request : req[q].pc = "create_redeem" /\ req[q].token = t
      BY <2>1, <3>1, <1>a DEF UnusedUnsold
    <3>3. q # r /\ req'[q] = req[q]
      BY <2>2, <3>1, <3>2, <1>b DEF ValidateUnused, TypeOK
    <3>4. q \in Busy' /\ r \in Busy'
      BY <3>1, <3>2, <3>3 DEF Busy, Idle
    <3> QED
      BY <3>1, <3>2, <3>3, <3>4 DEF Apart
  <2>3. CASE CreateAuthorize(r)
    <3>1. req'[r].token = req[r].token /\ req[r].pc = "create_authorize"
      BY <2>3, <1>b, RequestShape, GotoKeeps DEF CreateAuthorize
    <3> QED
      BY <2>1, <3>1, <1>a DEF NotSoldTwice
  <2>4. CASE MigrateFind(r)
    BY <1>2, <2>4, <1>b, FinishIdles DEF MigrateFind, TypeOK
  <2>5. CASE MigrateDeauthorize(r) \/ MigrateClose(r) \/ MigrateAuthorize(r)
    BY <1>2, <2>5, <1>b, RequestShape, GotoKeeps
    DEF MigrateDeauthorize, MigrateClose, MigrateAuthorize
  <2> QED
    BY <1>1, <1>2, <2>2, <2>3, <2>4, <2>5
<1>3. ASSUME req'[r].pc \in MigratePc
      PROVE  /\ session'[req'[r].old].token = req'[r].token
             /\ \A s \in Session :
                  /\ session'[s].status # "none"
                  /\ session'[s].token = req'[r].token
                  /\ session'[s].status = "active"
                  => /\ s = req'[r].old
                     /\ req'[r].pc \in {"migrate_deauthorize",
                                        "migrate_close"}
  <2>1. ASSUME NEW t \in Token, NEW c \in Client, ValidateUnused(r, t, c)
        PROVE  FALSE
    BY <1>3, <2>1, <1>b DEF ValidateUnused, TypeOK, MigratePc
  <2>2. CASE CreateAuthorize(r)
    BY <1>3, <2>2, <1>b, RequestShape, GotoKeeps DEF CreateAuthorize, MigratePc
  <2>3. CASE MigrateFind(r)
    <3>1. PICK o \in ActiveSessions :
            /\ session[o].token = req[r].token
            /\ \/ req' = [req EXCEPT ![r] =
                    [pc |-> "migrate_deauthorize", token |-> req[r].token,
                     client |-> req[r].client, old |-> o,
                     remaining |-> Remaining(o)]]
               \/ Finish(r)
      BY <2>3 DEF MigrateFind
    <3>2. ~Finish(r)
      BY <1>3, <1>b, FinishIdles DEF MigratePc
    <3>3. /\ req'[r].old = o /\ req'[r].token = req[r].token
          /\ req'[r].pc = "migrate_deauthorize"
          /\ o \in Session /\ session[o].status = "active"
      BY <3>1, <3>2, <1>b DEF TypeOK, ActiveSessions
    <3>4. session' = session
      BY <2>3 DEF MigrateFind
    <3> QED
      BY <3>1, <3>3, <3>4, <1>a DEF OnePaidPeriod, Inserted
  <2>4. ASSUME MigrateDeauthorize(r) \/ MigrateClose(r) \/ MigrateAuthorize(r)
        PROVE  /\ req[r] \in Migrating /\ req[r].pc \in MigratePc
               /\ req'[r].old = req[r].old /\ req'[r].token = req[r].token
               /\ req[r].old \in Session /\ Inserted(req[r].old)
               /\ session'[req[r].old].token = session[req[r].old].token
    <3>1. /\ req[r] \in Migrating /\ req[r].pc \in MigratePc
          /\ req'[r].old = req[r].old /\ req'[r].token = req[r].token
      BY <2>4, <1>b, RequestShape, GotoKeeps
      DEF MigrateDeauthorize, MigrateClose, MigrateAuthorize, MigratePc
    <3>2. req[r].old \in Session /\ Inserted(req[r].old)
      BY <1>a, <3>1 DEF Migrating, IInv, FetchedRowsExist, MigratePc
    <3> QED
      BY <1>a, <3>1, <3>2, RowsAreKept DEF SameRow
  <2>5. CASE MigrateDeauthorize(r)
    <3>1. req'[r].pc = "migrate_close" /\ session' = session
      BY <2>4, <2>5, <1>b, GotoKeeps DEF MigrateDeauthorize
    <3> QED
      BY <2>4, <2>5, <3>1, <1>a DEF OldIsTheOne, RowOf, Inserted
  <2>6. CASE MigrateClose(r)
    <3>1. session'[req[r].old].status # "active"
      BY <2>4, <2>6, <1>b, SetSessionCloses DEF MigrateClose
    <3>2. req[r].pc = "migrate_close"
      BY <2>6 DEF MigrateClose
    <3> QED
      BY <2>4, <2>6, <3>1, <3>2, <1>a, ClosedRows
      DEF OldIsTheOne, RowOf, Inserted
  <2>7. CASE MigrateAuthorize(r)
    <3>1. session' = session /\ req[r].pc = "migrate_authorize"
      BY <2>7 DEF MigrateAuthorize
    <3> QED
      BY <2>4, <2>7, <3>1, <1>a DEF OldIsTheOne, RowOf, Inserted
  <2> QED
    BY <1>1, <1>3, <2>1, <2>2, <2>3, <2>5, <2>6, <2>7 DEF MigratePc
<1> QED
  BY <1>2, <1>3

\* Steps of a request that insert no row.
LEMMA PeriodRequest ==
  ASSUME PeriodInv, IInv', [Next]_vars, SaleRecorded, Apart',
         NEW r \in Request, PortalAuth(r),
         \A q \in Request : ~CreateInsert(q) /\ ~MigrateInsert(q)
  PROVE  PeriodInv'
<1>a. IInv /\ TypeOK /\ OnePaidPeriod /\ UnusedUnsold
  BY DEF PeriodInv, IInv
<1>1. Closing
  BY <1>a, ClosingSteps
<1>2. UnusedUnsold'
  BY <1>a, <1>1, UnsoldStays, ClosedRows DEF UnusedUnsold, RowOf, Inserted
<1>3. \A q \in Request : q # r => req'[q] = req[q]
  BY <1>a, HandlerAlone
<1>4. NotSoldTwice' /\ OldIsTheOne'
  BY <1>a, <1>1, <1>3, OwnRequest, OtherRequest, ClosedRows
  DEF NotSoldTwice, OldIsTheOne, RowOf, Inserted
<1> QED
  BY <1>a, <1>1, <1>2, <1>4, PeriodClosed DEF PeriodInv

\* The INSERT of a request.
LEMMA PeriodInsert ==
  ASSUME PeriodInv, IInv', [Next]_vars, SaleRecorded, Apart,
         NEW r \in Request, CreateInsert(r) \/ MigrateInsert(r)
  PROVE  PeriodInv'
<1>a. IInv /\ OnePaidPeriod /\ UnusedUnsold /\ NotSoldTwice /\ OldIsTheOne
  BY DEF PeriodInv
<1>b. TypeOK /\ TypeOK'
  BY <1>a DEF IInv
<1> DEFINE e == IF req[r].pc = "create_insert" THEN req[r].expires
                ELSE session[req[r].old].expires
<1>1. PICK new \in Session : Adding(new, req[r].token, req[r].client, e)
  BY <1>a, RequestAdds
<1>2. ASSUME MigrateInsert(r)
      PROVE  /\ req[r].pc = "migrate_insert"
             /\ req[r].old \in Session /\ Inserted(req[r].old)
             /\ session[req[r].old].token = req[r].token
  <2>1. req[r].pc = "migrate_insert"
    BY <1>2 DEF MigrateInsert
  <2> QED
    BY <2>1, <1>a, <1>b, RequestShape
    DEF Migrating, IInv, FetchedRowsExist, OldIsTheOne, MigratePc
<1>3. \A s \in Session : RowOf(s, req[r].token) =>
        session[s].expires = e /\ session[s].status # "active"
  <2>1. CASE CreateInsert(r)
    BY <2>1, <1>a DEF CreateInsert, NotSoldTwice
  <2>2. CASE MigrateInsert(r)
    <3>1. \A s \in Session : RowOf(s, req[r].token) =>
            session[s].expires = session[req[r].old].expires
      BY <1>2, <2>2, <1>a DEF OnePaidPeriod, RowOf
    <3>2. \A s \in Session : RowOf(s, req[r].token) =>
            session[s].status # "active"
      BY <1>2, <2>2, <1>a DEF OldIsTheOne, MigratePc
    <3> QED
      BY <1>2, <2>2, <3>1, <3>2
  <2> QED
    BY <2>1, <2>2
<1>4. \/ req'[r].pc = "idle" /\ MigrateInsert(r)
      \/ /\ CreateInsert(r)
         /\ req'[r].pc = "create_redeem"
         /\ req'[r].token = req[r].token
  BY <1>b, RequestShape, GotoKeeps, FinishIdles
  DEF CreateInsert, MigrateInsert
<1> HIDE DEF e
<1>5. OnePaidPeriod'
  BY <1>a, <1>1, <1>3, PeriodAdded
\* A row after the step is the new one, or was one before.
<1>6. ASSUME NEW s \in Session, session'[s].status # "none",
             NEW t, session'[s].token = t
      PROVE  \/ s = new /\ t = req[r].token
             \/ /\ RowOf(s, t)
                /\ session'[s].status = "active" => session[s].status = "active"
  BY <1>1, <1>6, <1>a, RowsAreKept DEF Adding, SameRow, RowOf, Inserted
<1>7. UnusedUnsold'
  <2> SUFFICES ASSUME NEW t \in Token, NEW s \in Session,
                      token'[t].status = "unused",
                      session'[s].status # "none", session'[s].token = t
               PROVE  \E q \in Request : /\ req'[q].pc = "create_redeem"
                                         /\ req'[q].token = t
    BY DEF UnusedUnsold, RowOf, Inserted
  <2>1. CASE RowOf(s, t)
    BY <2>1, <1>a, UnsoldStays
  <2>2. CASE s = new /\ t = req[r].token /\ CreateInsert(r)
    <3>1. ~MigrateInsert(r)
      BY <2>2 DEF CreateInsert, MigrateInsert
    <3> QED
      BY <2>2, <3>1, <1>4
  <2>3. CASE s = new /\ t = req[r].token /\ MigrateInsert(r)
    BY <2>3, <1>2, <1>a, UnsoldStays DEF RowOf
  <2> QED
    BY <1>6, <2>1, <2>2, <2>3
<1>8. PortalAuth(r)
  BY DEF PortalAuth
<1>9. ASSUME NEW q \in Request, q # r
      PROVE  /\ req'[q].pc \in {"create_authorize", "create_insert"} =>
                  \A s \in Session : ~(/\ session'[s].status # "none"
                                       /\ session'[s].token = req'[q].token)
             /\ req'[q].pc \in MigratePc =>
                  /\ session'[req'[q].old].token = req'[q].token
                  /\ \A s \in Session :
                       /\ session'[s].status # "none"
                       /\ session'[s].token = req'[q].token
                       /\ session'[s].status = "active"
                       => /\ s = req'[q].old
                          /\ req'[q].pc \in {"migrate_deauthorize",
                                             "migrate_close"}
  <2>1. req'[q] = req[q]
    BY <1>8, <1>9, <1>b, HandlerAlone
  <2>2. CASE req[q].pc = "idle"
    BY <2>1, <2>2 DEF MigratePc
  <2>3. CASE req[q].pc # "idle"
    <3>1. q \in Busy /\ r \in Busy
      BY <2>3 DEF Busy, Idle, CreateInsert, MigrateInsert
    <3>2. req[q].token # req[r].token
      BY <3>1, <1>9 DEF Apart
    <3> QED
      BY <2>1, <3>2, <1>6, OtherRequest
  <2> QED
    BY <2>2, <2>3
<1>10. NotSoldTwice' /\ OldIsTheOne'
  BY <1>4, <1>9 DEF NotSoldTwice, OldIsTheOne, MigratePc, RowOf, Inserted
<1> QED
  BY <1>5, <1>7, <1>10 DEF PeriodInv

\* At first no token is sold.
LEMMA PeriodInit ==
  ASSUME Init
  PROVE  PeriodInv
<1>1. IInv
  BY TypeInit, FetchedRowsInit DEF IInv
<1>2. \A s \in Session : ~Inserted(s)
  BY DEF Init, Inserted, NoRow
<1>3. \A r \in Request : req[r].pc = "idle"
  BY DEF Init, Idle
<1> QED
  BY <1>1, <1>2, <1>3
  DEF PeriodInv, OnePaidPeriod, UnusedUnsold, NotSoldTwice, OldIsTheOne,
      RowOf, MigratePc

\* A step between states in which the requests are apart.
LEMMA PeriodStep ==
  ASSUME PeriodInv, IInv', [Next]_vars, SaleRecorded, Apart, Apart'
  PROVE  PeriodInv'
<1>1. CASE \E r \in Request : CreateInsert(r) \/ MigrateInsert(r)
  BY <1>1, PeriodInsert
<1>2. CASE \A r \in Request : ~CreateInsert(r) /\ ~MigrateInsert(r)
  BY <1>2, PeriodRequest, PeriodQuiet
<1> QED
  BY <1>1, <1>2

(* Whatever fails, hangs up, crashes, is revoked, disconnected or purged,  *)
(* and however the requests of other tokens are interleaved: redeeming and *)
(* migrating a token never gives it a second period, or one period to two  *)
(* devices, as long as no two requests carry it at a time, and none stops  *)
(* between the INSERT and redeem_token of create_session.                  *)
THEOREM OnePeriodWhenApart ==
  Spec /\ []Apart /\ [][SaleRecorded]_vars => []OnePaidPeriod
<1>1. Init => PeriodInv
  BY PeriodInit
<1>2. PeriodInv /\ IInv' /\ Apart /\ Apart' /\ [Next]_vars
        /\ [SaleRecorded]_vars => PeriodInv'
  <2>1. UNCHANGED vars => SaleRecorded
    BY DEF vars, SaleRecorded
  <2> QED
    BY <2>1, PeriodStep
<1>3. PeriodInv => OnePaidPeriod
  BY DEF PeriodInv
<1> QED
  BY <1>1, <1>2, <1>3, InductiveInvariant, PTL DEF Spec

\* Requests that run one at a time are apart.
LEMMA PeriodInductive ==
  ASSUME Serial
  PROVE  Spec => []PeriodInv
<1>1. Init => PeriodInv
  BY PeriodInit
<1>2. PeriodInv /\ IInv' /\ [Next]_vars => PeriodInv'
  <2> SUFFICES ASSUME PeriodInv, IInv', [Next]_vars PROVE PeriodInv'
    OBVIOUS
  <2>1. SaleRecorded
    BY SerialIsApart DEF PeriodInv, IInv
  <2>2. Apart /\ Apart'
    BY DEF Serial, Apart, Busy
  <2> QED
    BY <2>1, <2>2, PeriodStep
<1> QED
  BY <1>1, <1>2, InductiveInvariant, PTL DEF Spec

(* Whatever the ticker, the manager, the purges and their failures do      *)
(* between its awaits, and however long it takes: redeeming and migrating  *)
(* a token, one request at a time, never gives it a second period, or one  *)
(* period to two devices.                                                  *)
THEOREM OnePeriodWhenSerial ==
  ASSUME Serial
  PROVE  Spec => []OnePaidPeriod
<1>1. PeriodInv => OnePaidPeriod
  BY DEF PeriodInv
<1> QED
  BY <1>1, PeriodInductive, PTL

-----------------------------------------------------------------------------
(***************************************************************************)
(* Nobody is on the network beyond the deadline of a row.                  *)
(***************************************************************************)

(* A request that has let its client in goes on to insert the row, unless  *)
(* the kernel's set is lost: it does not fail there, the daemon does not   *)
(* die under it without a reboot, and its token is not purged.             *)
LetInIsRecorded ==
  \A r \in Request : req[r].pc \in {"create_insert", "migrate_insert"} =>
    \/ req'[r] = req[r]
    \/ CreateInsert(r) \/ MigrateInsert(r)
    \/ fw' = [c \in Client |-> 0]

(* The deadlines and remaining times that requests hold are still right.   *)
Timely ==
  \A r \in Request :
    /\ req[r].pc \in {"create_authorize", "create_insert"} =>
         req[r].expires = now + Duration
    /\ req[r].pc \in MigratePc =>
         session[req[r].old].expires = now + req[r].remaining

(* AccessIsPaidFor says nothing of how long a request's element may last:  *)
(* not longer than the row that the request is about to insert.            *)
BackedUntil(c, until) ==
  \/ \E s \in Session : /\ Inserted(s)
                        /\ session[s].client = c
                        /\ until <= session[s].expires
  \/ \E r \in Request :
       /\ req[r].client = c
       /\ \/ req[r].pc = "create_insert" /\ until <= req[r].expires
          \/ /\ req[r].pc = "migrate_insert"
             /\ until <= session[req[r].old].expires

Backed == \A c \in Client : fw[c] # 0 => BackedUntil(c, fw[c])

AccessInv == IInv /\ Timely /\ Backed

\* Time stands still under a request.
LEMMA TimeStep ==
  ASSUME ~SlowHandlers, [Next]_vars
  PROVE  \/ now' = now
         \/ Tick /\ \A r \in Request : req[r] = Idle
<1>1. Tick => \A r \in Request : req[r] = Idle
  BY DEF Tick, Busy
<1> QED
  BY <1>1
  DEF Next, PortalAuth, ValidateUnused, ValidateActive, CreateAuthorize,
      CreateInsert, CreateRedeem, MigrateFind, MigrateFindsNothing,
      MigrateDeauthorize, MigrateClose, MigrateAuthorize, MigrateInsert,
      InsertRefused, RequestFails, AdminStep, RevokeToken, DisconnectRead,
      DisconnectDeauthorize, DisconnectMark, JobStep, TickerStart, BootStart,
      TickerSkip, TickerDeauthorize, BootRestore, BootExpire, ExpireSession,
      ExpireToken, JobStepFails, LoopEnd, PurgeFails, PurgeSessions,
      PurgeTokens, Crash, vars

\* So what a request knows of the time stays right.
LEMMA TimelyStep ==
  ASSUME ~SlowHandlers, IInv, Timely, [Next]_vars
  PROVE  Timely'
<1> SUFFICES ASSUME NEW r \in Request
             PROVE  /\ req'[r].pc \in {"create_authorize", "create_insert"} =>
                         req'[r].expires = now' + Duration
                    /\ req'[r].pc \in MigratePc =>
                         session'[req'[r].old].expires
                           = now' + req'[r].remaining
  BY DEF Timely
<1>a. TypeOK /\ FetchedRowsExist
  BY DEF IInv
\* A row that a request holds keeps its deadline.
<1>c. ASSUME req[r].pc \in MigratePc
      PROVE  session'[req[r].old].expires = session[req[r].old].expires
  <2>1. req[r].old \in Session /\ Inserted(req[r].old)
    BY <1>c, <1>a, RequestShape DEF Migrating, FetchedRowsExist, MigratePc
  <2> QED
    BY <2>1, RowsAreKept DEF SameRow
<1>1. CASE Crash
  BY <1>1, StoppedRequests DEF MigratePc
<1>2. CASE ~PortalAuth(r) /\ ~Crash
  <2>1. req'[r] = req[r]
    BY <1>2, <1>a, OthersSteps
  <2>2. req[r].pc # "idle" => now' = now
    BY TimeStep DEF Idle
  <2> QED
    BY <2>1, <2>2, <1>c DEF Timely, MigratePc
<1>3. CASE PortalAuth(r)
  <2>1. now' = now
    BY <1>3
    DEF PortalAuth, ValidateUnused, ValidateActive, CreateAuthorize,
        CreateInsert, CreateRedeem, MigrateFind, MigrateFindsNothing,
        MigrateDeauthorize, MigrateClose, MigrateAuthorize, MigrateInsert,
        InsertRefused, RequestFails
  <2>2. ASSUME NEW t \in Token, NEW c \in Client, ValidateUnused(r, t, c)
        PROVE  req'[r].pc = "create_authorize"
               /\ req'[r].expires = now + Duration
    BY <2>2, <1>a DEF ValidateUnused, TypeOK
  <2>3. ASSUME NEW t \in Token, NEW c \in Client, ValidateActive(r, t, c)
        PROVE  req'[r].pc = "migrate_find"
    BY <2>3, <1>a DEF ValidateActive, TypeOK
  <2>4. CASE CreateAuthorize(r) \/ CreateInsert(r)
    <3>1. /\ req[r].pc \in {"create_authorize", "create_insert"}
          /\ req'[r].pc \in {"create_insert", "create_redeem"}
          /\ req'[r].expires = req[r].expires
      BY <2>4, <1>a, RequestShape, GotoKeeps DEF CreateAuthorize, CreateInsert
    <3> QED
      BY <2>1, <3>1 DEF Timely, MigratePc
  <2>5. CASE \/ CreateRedeem(r) \/ MigrateFindsNothing(r)
             \/ MigrateInsert(r) \/ InsertRefused(r) \/ RequestFails(r)
    BY <2>5, <1>a, FinishIdles
    DEF CreateRedeem, MigrateFindsNothing, MigrateInsert, InsertRefused,
        RequestFails, MigratePc
  <2>6. CASE MigrateFind(r)
    <3>1. PICK o \in ActiveSessions :
            \/ /\ Remaining(o) > 0
               /\ req' = [req EXCEPT ![r] =
                    [pc |-> "migrate_deauthorize", token |-> req[r].token,
                     client |-> req[r].client, old |-> o,
                     remaining |-> Remaining(o)]]
            \/ Finish(r)
      BY <2>6 DEF MigrateFind
    <3>2. CASE Finish(r)
      BY <3>2, <1>a, FinishIdles DEF MigratePc
    <3>3. CASE ~Finish(r)
      <4>1. /\ req'[r].pc = "migrate_deauthorize"
            /\ req'[r].old = o /\ req'[r].remaining = Remaining(o)
            /\ session' = session /\ Remaining(o) > 0
        BY <2>6, <3>1, <3>3, <1>a DEF MigrateFind, TypeOK
      <4>2. session[o].expires \in Nat /\ now \in Nat
        BY <1>a, RowShape DEF ActiveSessions, Inserted, SessionRow, TypeOK
      <4> QED
        BY <2>1, <4>1, <4>2 DEF Remaining
    <3> QED
      BY <3>2, <3>3
  <2>7. CASE MigrateDeauthorize(r) \/ MigrateClose(r) \/ MigrateAuthorize(r)
    <3>1. /\ req[r].pc \in MigratePc
          /\ req'[r].pc \in MigratePc
          /\ req'[r].old = req[r].old
          /\ req'[r].remaining = req[r].remaining
      BY <2>7, <1>a, RequestShape, GotoKeeps
      DEF MigrateDeauthorize, MigrateClose, MigrateAuthorize, MigratePc
    <3> QED
      BY <2>1, <3>1, <1>c DEF Timely, MigratePc
  <2> QED
    BY <1>3, <2>1, <2>2, <2>3, <2>4, <2>5, <2>6, <2>7 DEF PortalAuth, MigratePc
<1> QED
  BY <1>1, <1>2, <1>3

\* nft delete element takes nobody else's element, and adds none.
LEMMA DeletedElement ==
  ASSUME TypeOK, NEW d, DeleteElement(d)
  PROVE  \A c \in Client : fw'[c] = fw[c] \/ fw'[c] = 0
BY DEF DeleteElement, TypeOK

\* nft add element lets in one client, if any.
LEMMA AddedElement ==
  ASSUME TypeOK, NEW d \in Client, NEW secs, AddElement(d, secs)
  PROVE  \A c \in Client : \/ fw'[c] = fw[c]
                           \/ c = d /\ fw'[c] = now + secs
BY DEF AddElement, TypeOK

\* Whoever lets in nobody leaves the elements as they are or takes some away.
LEMMA FirewallSteps ==
  ASSUME TypeOK, [Next]_vars,
         \A r \in Request : ~CreateAuthorize(r) /\ ~MigrateAuthorize(r),
         \A s \in Session : ~BootRestore(s)
  PROVE  \A c \in Client : fw'[c] = fw[c] \/ fw'[c] = 0
<1>1. CASE fw' = fw
  BY <1>1
<1>2. CASE Tick
  BY <1>2 DEF Tick
<1>3. CASE DisconnectDeauthorize
  BY <1>3, DeletedElement DEF DisconnectDeauthorize
<1>4. CASE \E s \in Session : TickerDeauthorize(s)
  BY <1>4, DeletedElement DEF TickerDeauthorize
<1>5. CASE \E r \in Request : MigrateDeauthorize(r)
  BY <1>5, DeletedElement DEF MigrateDeauthorize
<1>6. CASE Crash
  BY <1>6 DEF Crash
<1> QED
  BY <1>1, <1>2, <1>3, <1>4, <1>5, <1>6
  DEF Next, PortalAuth, ValidateUnused, ValidateActive, CreateInsert,
      CreateRedeem, MigrateFind, MigrateFindsNothing, MigrateClose,
      MigrateInsert, InsertRefused, RequestFails, AdminStep, RevokeToken,
      DisconnectRead, DisconnectMark, JobStep, TickerStart, BootStart,
      TickerSkip, BootExpire, ExpireSession, ExpireToken, JobStepFails,
      LoopEnd, PurgeFails, PurgeSessions, PurgeTokens, vars

\* The same of the next state.
BackedNext(c, until) ==
  \/ \E s \in Session : /\ session'[s].status # "none"
                        /\ session'[s].client = c
                        /\ until <= session'[s].expires
  \/ \E r \in Request :
       /\ req'[r].client = c
       /\ \/ req'[r].pc = "create_insert" /\ until <= req'[r].expires
          \/ /\ req'[r].pc = "migrate_insert"
             /\ until <= session'[req'[r].old].expires

\* A row goes on backing what it backed.
LEMMA RowBacks ==
  ASSUME IInv, [Next]_vars, NEW c \in Client, NEW until, NEW s \in Session,
         Inserted(s), session[s].client = c, until <= session[s].expires
  PROVE  BackedNext(c, until)
BY RowsAreKept DEF SameRow, BackedNext, Inserted

\* An element that the step leaves alone has the row, the request, or the
\* row that the request has just inserted.
LEMMA StillBacked ==
  ASSUME IInv, Backed, [Next]_vars, LetInIsRecorded,
         NEW c \in Client, fw[c] # 0, fw'[c] = fw[c]
  PROVE  BackedNext(c, fw'[c])
<1>a. TypeOK /\ FetchedRowsExist
  BY DEF IInv
<1>1. CASE \E s \in Session : /\ Inserted(s)
                              /\ session[s].client = c
                              /\ fw[c] <= session[s].expires
  BY <1>1, RowBacks
<1>2. ASSUME NEW r \in Request, req[r].client = c,
             \/ req[r].pc = "create_insert" /\ fw[c] <= req[r].expires
             \/ /\ req[r].pc = "migrate_insert"
                /\ fw[c] <= session[req[r].old].expires
      PROVE  BackedNext(c, fw'[c])
  <2>1. CASE req'[r] = req[r]
    <3>1. CASE req[r].pc = "create_insert"
      BY <1>2, <2>1, <3>1 DEF BackedNext
    <3>2. CASE req[r].pc = "migrate_insert"
      <4>1. req[r].old \in Session /\ Inserted(req[r].old)
        BY <3>2, <1>a, RequestShape DEF Migrating, FetchedRowsExist
      <4>2. session'[req[r].old].expires = session[req[r].old].expires
        BY <4>1, RowsAreKept DEF SameRow
      <4> QED
        BY <1>2, <2>1, <3>2, <4>2 DEF BackedNext
    <3> QED
      BY <1>2, <3>1, <3>2
  <2>2. CASE CreateInsert(r) \/ MigrateInsert(r)
    <3>1. PICK new \in Session :
            Adding(new, req[r].token, req[r].client,
                   IF req[r].pc = "create_insert" THEN req[r].expires
                   ELSE session[req[r].old].expires)
      BY <2>2, RequestAdds
    <3>2. /\ session'[new].status # "none"
          /\ session'[new].client = c
          /\ fw[c] <= session'[new].expires
      BY <1>2, <3>1 DEF Adding
    <3> QED
      BY <1>2, <3>2 DEF BackedNext
  <2>3. fw' # [d \in Client |-> 0]
    OBVIOUS
  <2> QED
    BY <1>2, <2>1, <2>2, <2>3 DEF LetInIsRecorded
<1> QED
  BY <1>1, <1>2 DEF Backed, BackedUntil

\* A new element is no longer than what its request has validated.
LEMMA NewElementBacked ==
  ASSUME IInv, Timely, [Next]_vars, NEW r \in Request,
         CreateAuthorize(r) \/ MigrateAuthorize(r)
  PROVE  \A c \in Client : fw'[c] = fw[c] \/ BackedNext(c, fw'[c])
<1>a. TypeOK /\ FetchedRowsExist /\ now \in Nat /\ Duration \in Nat
  BY ConstantsAssumption DEF IInv, TypeOK
<1>1. CASE CreateAuthorize(r)
  <2>1. req[r].pc = "create_authorize" /\ req[r] \in Creating
        /\ req[r].client \in Client
    BY <1>1, <1>a, RequestShape DEF CreateAuthorize, Creating
  <2>2. /\ req'[r].pc = "create_insert" /\ req'[r].client = req[r].client
        /\ req'[r].expires = now + Duration
    BY <1>1, <2>1, <1>a, GotoKeeps DEF CreateAuthorize, Timely
  <2>3. \A c \in Client : \/ fw'[c] = fw[c]
                          \/ c = req[r].client /\ fw'[c] = now + Duration
    BY <1>1, <2>1, <1>a, AddedElement DEF CreateAuthorize
  <2>4. now + Duration \in Nat
    BY <1>a
  <2> QED
    BY <2>2, <2>3, <2>4 DEF BackedNext
<1>2. CASE MigrateAuthorize(r)
  <2>1. req[r].pc = "migrate_authorize" /\ req[r] \in Migrating
        /\ req[r].client \in Client /\ req[r].old \in Session
        /\ Inserted(req[r].old)
    BY <1>2, <1>a, RequestShape
    DEF MigrateAuthorize, Migrating, FetchedRowsExist
  <2>2. /\ req'[r].pc = "migrate_insert" /\ req'[r].client = req[r].client
        /\ req'[r].old = req[r].old
    BY <1>2, <2>1, <1>a, GotoKeeps DEF MigrateAuthorize
  <2>3. /\ session'[req[r].old].expires = now + req[r].remaining
        /\ session'[req[r].old].expires \in Nat
    BY <2>1, <1>a, RowsAreKept, RowShape
    DEF Timely, SameRow, SessionRow, MigratePc
  <2>4. \A c \in Client :
          \/ fw'[c] = fw[c]
          \/ c = req[r].client /\ fw'[c] = now + req[r].remaining
    BY <1>2, <2>1, <1>a, AddedElement DEF MigrateAuthorize
  <2> QED
    BY <2>2, <2>3, <2>4 DEF BackedNext
<1> QED
  BY <1>1, <1>2

\* Nor is what the restore gives back longer than its row.
LEMMA RestoredBacked ==
  ASSUME IInv, [Next]_vars, NEW s \in Session, BootRestore(s)
  PROVE  \A c \in Client : fw'[c] = fw[c] \/ BackedNext(c, fw'[c])
<1>a. TypeOK /\ FetchedRowsExist /\ now \in Nat /\ Grace \in Nat
  BY ConstantsAssumption DEF IInv, TypeOK
<1>1. Inserted(s)
  BY <1>a DEF BootRestore, FetchedRowsExist
<1>2. session[s].client \in Client /\ session[s].expires \in Nat
  BY <1>1, <1>a, RowShape DEF SessionRow
<1>3. Remaining(s) > Grace
  BY DEF BootRestore
<1>4. now + Remaining(s) = session[s].expires
  BY <1>2, <1>3, <1>a DEF Remaining
<1>5. \A c \in Client :
        \/ fw'[c] = fw[c]
        \/ c = session[s].client /\ fw'[c] = now + Remaining(s)
  BY <1>2, <1>a, AddedElement DEF BootRestore
<1> QED
  BY <1>1, <1>2, <1>4, <1>5, RowBacks

\* No step gives anybody more access than a row or a request stands for.
LEMMA BackedStep ==
  ASSUME IInv, Timely, Backed, TypeOK', [Next]_vars, LetInIsRecorded
  PROVE  Backed'
<1> SUFFICES ASSUME NEW c \in Client, fw'[c] # 0
             PROVE  BackedNext(c, fw'[c])
  BY DEF Backed, BackedUntil, BackedNext, Inserted
<1>a. TypeOK
  BY DEF IInv
<1>1. CASE fw'[c] = fw[c]
  BY <1>1, StillBacked
<1>2. CASE \E r \in Request : CreateAuthorize(r) \/ MigrateAuthorize(r)
  BY <1>1, <1>2, NewElementBacked
<1>3. CASE \E s \in Session : BootRestore(s)
  BY <1>1, <1>3, RestoredBacked
<1>4. CASE /\ \A r \in Request : ~CreateAuthorize(r) /\ ~MigrateAuthorize(r)
           /\ \A s \in Session : ~BootRestore(s)
  BY <1>1, <1>4, <1>a, FirewallSteps
<1> QED
  BY <1>2, <1>3, <1>4

(* Whoever is in the kernel's set is there for a row whose deadline the    *)
(* element does not outlive, or for the request that is about to insert    *)
(* it: with any number of requests at a time, on any tokens, whatever      *)
(* fails in the loops and in nft's deletes, over restarts and reboots, as  *)
(* long as a request that has let its client in goes on to insert the row, *)
(* and no second passes inside a request.                                  *)
THEOREM AccessEndsWithItsRow ==
  ASSUME ~SlowHandlers
  PROVE  Spec /\ [][LetInIsRecorded]_vars => []AccessIsPaidFor
<1>1. Init => AccessInv
  <2> SUFFICES ASSUME Init PROVE AccessInv
    OBVIOUS
  <2>1. IInv
    BY TypeInit, FetchedRowsInit DEF IInv
  <2>2. \A r \in Request : req[r].pc = "idle"
    BY DEF Init, Idle
  <2> QED
    BY <2>1, <2>2 DEF Init, AccessInv, Timely, Backed, MigratePc
<1>2. AccessInv /\ IInv' /\ [Next]_vars /\ [LetInIsRecorded]_vars
        => AccessInv'
  <2> SUFFICES ASSUME AccessInv, IInv', [Next]_vars, [LetInIsRecorded]_vars
               PROVE  AccessInv'
    OBVIOUS
  <2>1. LetInIsRecorded
    BY DEF LetInIsRecorded, vars
  <2>2. TypeOK'
    BY DEF IInv
  <2> QED
    BY <2>1, <2>2, TimelyStep, BackedStep DEF AccessInv
<1>3. AccessInv => AccessIsPaidFor
  BY DEF AccessInv, Backed, BackedUntil, AccessIsPaidFor
<1> QED
  BY <1>1, <1>2, <1>3, InductiveInvariant, PTL DEF Spec

-----------------------------------------------------------------------------
(***************************************************************************)
(* Requests that run one at a time are such.                               *)
(***************************************************************************)

(* If they take less than a second, and nobody revokes the token they have *)
(* validated.  Otherwise a device is let in for the seconds the request    *)
(* took, too, or for a token that is deleted before its row is inserted.   *)
Prompt == Serial /\ ~SlowHandlers /\ "revoke" \notin AdminActs

(* A token expires with its period, under no request that sells or moves   *)
(* it, and the requests' deadlines and remaining times are still right.    *)
UpToTime ==
  /\ mode = "up"
  /\ job.pc \in {"expire_session", "expire_token"} =>
       session[job.row].expires <= now
  /\ \A t \in Token : token[t].status # "revoked"
  /\ \A t \in Token, s \in Session :
       token[t].status \in {"expired", "deleted"} /\ RowOf(s, t) =>
         session[s].expires <= now
  /\ \A r \in Request :
       /\ req[r].pc \in {"create_authorize", "create_insert"} =>
            /\ token[req[r].token].status = "unused"
            /\ req[r].expires = now + Duration
       /\ req[r].pc \in MigratePc =>
            session[req[r].old].expires = now + req[r].remaining

PromptInv == PeriodInv /\ UpToTime

\* The daemon keeps running.
LEMMA ModeStep ==
  ASSUME Prompt, [Next]_vars, mode = "up"
  PROVE  mode' = "up"
<1>1. ~Crash
  BY DEF Prompt, Serial, Crash
<1> QED
  BY <1>1
  DEF Next, PortalAuth, ValidateUnused, ValidateActive, CreateAuthorize,
      CreateInsert, CreateRedeem, MigrateFind, MigrateFindsNothing,
      MigrateDeauthorize, MigrateClose, MigrateAuthorize, MigrateInsert,
      InsertRefused, RequestFails, AdminStep, RevokeToken, DisconnectRead,
      DisconnectDeauthorize, DisconnectMark, JobStep, TickerStart, BootStart,
      TickerSkip, TickerDeauthorize, BootRestore, BootExpire, ExpireSession,
      ExpireToken, JobStepFails, LoopEnd, PurgeFails, PurgeSessions,
      PurgeTokens, Tick, vars

\* The steps that write a token, when nobody revokes one.
LEMMA TokenSteps ==
  ASSUME Prompt, [Next]_vars
  PROVE  \/ token' = token
         \/ \E r \in Request : CreateRedeem(r)
         \/ ExpireToken
         \/ PurgeTokens
BY DEF Prompt, Next, PortalAuth, ValidateUnused, ValidateActive,
      CreateAuthorize, CreateInsert, MigrateFind, MigrateFindsNothing,
      MigrateDeauthorize, MigrateClose, MigrateAuthorize, MigrateInsert,
      InsertRefused, RequestFails, AdminStep, RevokeToken, DisconnectRead,
      DisconnectDeauthorize, DisconnectMark, JobStep, TickerStart, BootStart,
      TickerSkip, TickerDeauthorize, BootRestore, BootExpire, ExpireSession,
      JobStepFails, LoopEnd, PurgeFails, PurgeSessions, Crash, Tick, vars

\* What the ticker has decided to expire is over.
LEMMA ExpiringOver ==
  ASSUME Prompt, PromptInv, [Next]_vars, TypeOK',
         job'.pc \in {"expire_session", "expire_token"}
  PROVE  session'[job'.row].expires <= now'
<1>a. IInv /\ TypeOK /\ FetchedRowsExist /\ UpToTime /\ mode = "up"
  BY DEF PromptInv, PeriodInv, IInv, UpToTime
<1>1. now \in Nat /\ now' \in Nat /\ now <= now'
  BY TimeStep, <1>a DEF Prompt, Tick, TypeOK
<1>2. ASSUME NEW s \in Session, Inserted(s), session[s].expires <= now,
             job'.row = s
      PROVE  session'[job'.row].expires <= now'
  <2>1. session'[s].expires = session[s].expires
    BY <1>2, <1>a, RowsAreKept DEF SameRow
  <2>2. session[s].expires \in Nat
    BY <1>2, <1>a, RowShape DEF SessionRow
  <2> QED
    BY <1>1, <1>2, <2>1, <2>2
<1>3. CASE job' = job
  <2>1. job.row \in Session /\ Inserted(job.row)
    BY <1>3, <1>a, JobShape DEF Expiring, FetchedRowsExist
  <2> QED
    BY <1>2, <1>3, <2>1, <1>a DEF UpToTime
<1>4. ASSUME NEW s \in Session, TickerDeauthorize(s)
      PROVE  session'[job'.row].expires <= now'
  <2>1. Inserted(s) /\ job'.row = s
    BY <1>4, <1>a DEF TickerDeauthorize, FetchedRowsExist
  <2>2. Remaining(s) <= 0
    BY <1>4, <2>1, <1>a, RemainingType, ConstantsAssumption
    DEF TickerDeauthorize, Due
  <2>3. session[s].expires \in Nat
    BY <2>1, <1>a, RowShape DEF SessionRow
  <2>4. session[s].expires <= now
    BY <2>2, <2>3, <1>1 DEF Remaining
  <2> QED
    BY <1>2, <2>1, <2>4
<1>5. CASE ExpireSession
  <2>1. job \in Expiring /\ job.pc = "expire_session"
    BY <1>5, <1>a, JobShape DEF ExpireSession
  <2>2. job'.row = job.row /\ job.row \in Session /\ Inserted(job.row)
    BY <1>5, <2>1, <1>a DEF ExpireSession, Expiring, FetchedRowsExist
  <2> QED
    BY <1>2, <2>1, <2>2, <1>a DEF UpToTime
<1>6. ASSUME \/ TickerStart \/ BootStart \/ ExpireToken \/ JobStepFails
             \/ \E s \in Session : \/ TickerSkip(s) \/ BootRestore(s)
                                   \/ BootExpire(s)
             \/ LoopEnd \/ PurgeFails \/ PurgeSessions \/ PurgeTokens \/ Crash
      PROVE  FALSE
  BY <1>6, <1>a
  DEF TickerStart, BootStart, ExpireToken, JobStepFails, TickerSkip,
      BootRestore, BootExpire, LoopEnd, PurgeFails, PurgeSessions,
      PurgeTokens, Crash, Loop, Idle
<1>7. ASSUME \/ \E r \in Request : PortalAuth(r)
             \/ AdminStep \/ Tick \/ UNCHANGED vars
      PROVE  job' = job
  BY <1>7
  DEF PortalAuth, ValidateUnused, ValidateActive, CreateAuthorize,
      CreateInsert, CreateRedeem, MigrateFind, MigrateFindsNothing,
      MigrateDeauthorize, MigrateClose, MigrateAuthorize, MigrateInsert,
      InsertRefused, RequestFails, AdminStep, RevokeToken, DisconnectRead,
      DisconnectDeauthorize, DisconnectMark, Tick, vars
<1> QED
  BY <1>3, <1>4, <1>5, <1>6, <1>7 DEF Next, JobStep

\* The row whose token is to expire is the token's.
LEMMA ExpiredToken ==
  ASSUME IInv, ExpireToken
  PROVE  /\ job.row \in Session /\ Inserted(job.row)
         /\ session[job.row].token \in Token
         /\ \A t \in Token :
              token'[t] = token[t] \/ (/\ t = session[job.row].token
                                       /\ token'[t].status = "expired")
<1>a. TypeOK /\ FetchedRowsExist
  BY DEF IInv
<1>1. job.row \in Session /\ Inserted(job.row)
  BY <1>a, JobShape DEF ExpireToken, Expiring, FetchedRowsExist
<1>2. session[job.row].token \in Token
  BY <1>1, <1>a, RowShape DEF SessionRow
<1>3. ASSUME NEW t \in Token
      PROVE  token'[t] = token[t] \/ (/\ t = session[job.row].token
                                      /\ token'[t].status = "expired")
  <2>1. token[t] \in TokenRow
    BY <1>a DEF TypeOK
  <2> QED
    BY <1>2, <2>1, <1>a DEF ExpireToken, SetTokenExpired, TypeOK, TokenRow
<1> QED
  BY <1>1, <1>2, <1>3

\* What the purge does to a token's status.
LEMMA PurgedToken ==
  ASSUME TypeOK, PurgeTokens, NEW t \in Token
  PROVE  token'[t] = token[t]
           \/ (/\ token[t].status \in {"expired", "revoked"}
               /\ token'[t].status = "deleted")
<1>1. token[t] \in TokenRow
  BY DEF TypeOK
<1> QED
  BY <1>1 DEF PurgeTokens, TokenRow

\* And the redemption.
LEMMA RedeemedToken ==
  ASSUME TypeOK, NEW r \in Request, CreateRedeem(r), NEW t \in Token
  PROVE  token'[t] = token[t]
           \/ (t = req[r].token /\ token'[t].status = "active")
<1>1. req[r].token \in Token
  BY RequestShape DEF CreateRedeem, Creating
<1> QED
  BY <1>1 DEF CreateRedeem, RedeemToken, TypeOK

\* Tokens expire with their period.
LEMMA TokensUpToTime ==
  ASSUME Prompt, PromptInv, TypeOK', [Next]_vars
  PROVE  /\ \A t \in Token : token'[t].status # "revoked"
         /\ \A t \in Token, s \in Session :
              /\ token'[t].status \in {"expired", "deleted"}
              /\ session'[s].status # "none"
              /\ session'[s].token = t
              => session'[s].expires <= now'
<1>a. IInv /\ TypeOK /\ UpToTime /\ PeriodInv
  BY DEF PromptInv, PeriodInv, IInv
<1>b. \A q1, q2 \in Request : q1 = q2
  BY DEF Prompt, Serial
<1>1. now \in Nat /\ now' \in Nat /\ now <= now'
  BY TimeStep, <1>a DEF Prompt, Tick, TypeOK
\* A token that is over after the step, and what it was before.
<1>2. ASSUME NEW t \in Token
      PROVE  /\ token'[t].status # "revoked"
             /\ token'[t].status \in {"expired", "deleted"} =>
                  \/ token'[t] = token[t]
                  \/ token[t].status = "expired"
                  \/ \E x \in Session : RowOf(x, t) /\ session[x].expires <= now
  <2>1. CASE token' = token
    BY <2>1, <1>a DEF UpToTime
  <2>2. CASE \E r \in Request : CreateRedeem(r)
    BY <2>2, <1>a, RedeemedToken DEF UpToTime
  <2>3. CASE ExpireToken
    <3>1. session[job.row].expires <= now
      BY <2>3, <1>a DEF ExpireToken, UpToTime
    <3> QED
      BY <2>3, <3>1, <1>a, ExpiredToken DEF UpToTime, RowOf
  <2>4. CASE PurgeTokens
    BY <2>4, <1>a, PurgedToken DEF UpToTime
  <2> QED
    BY <2>1, <2>2, <2>3, <2>4, TokenSteps
\* Then no row of the token, before the step, outlives the step.
<1>3. ASSUME NEW t \in Token, token'[t].status \in {"expired", "deleted"},
             NEW s \in Session, RowOf(s, t)
      PROVE  session[s].expires <= now'
  <2>1. session[s].expires \in Nat
    BY <1>3, <1>a, RowShape DEF RowOf, SessionRow
  <2>2. CASE token[t].status \in {"expired", "deleted"}
    BY <1>1, <1>3, <2>1, <2>2, <1>a DEF UpToTime
  <2>3. ASSUME NEW x \in Session, RowOf(x, t), session[x].expires <= now
        PROVE  session[s].expires <= now'
    <3>1. session[x].expires = session[s].expires
      BY <1>3, <2>3, <1>a DEF PeriodInv, OnePaidPeriod, RowOf
    <3> QED
      BY <1>1, <2>1, <2>3, <3>1
  <2> QED
    BY <1>2, <1>3, <2>2, <2>3
<1>4. ASSUME NEW t \in Token, NEW s \in Session,
             token'[t].status \in {"expired", "deleted"},
             session'[s].status # "none", session'[s].token = t
      PROVE  session'[s].expires <= now'
  <2>1. CASE Inserted(s)
    BY <1>3, <1>4, <2>1, <1>a, RowsAreKept DEF SameRow, RowOf
  <2>2. CASE ~Inserted(s)
    <3>1. PICK r \in Request : CreateInsert(r) \/ MigrateInsert(r)
      BY <1>4, <2>2, <1>a, ClosingSteps DEF Closing, Inserted
    <3>2. PICK new \in Session :
            Adding(new, req[r].token, req[r].client,
                   IF req[r].pc = "create_insert" THEN req[r].expires
                   ELSE session[req[r].old].expires)
      BY <3>1, <1>a, RequestAdds
    <3>3. /\ s = new /\ t = req[r].token
          /\ session'[s].expires =
               IF req[r].pc = "create_insert" THEN req[r].expires
               ELSE session[req[r].old].expires
      BY <1>4, <2>2, <3>2 DEF Adding, Inserted
    <3>4. token' = token
      BY <3>1 DEF CreateInsert, MigrateInsert
    <3>5. CASE CreateInsert(r)
      BY <1>4, <3>3, <3>4, <3>5, <1>a DEF CreateInsert, UpToTime
    <3>6. CASE MigrateInsert(r)
      <4>1. req[r].pc = "migrate_insert"
        BY <3>6 DEF MigrateInsert
      <4>2. req[r].old \in Session /\ RowOf(req[r].old, req[r].token)
        BY <4>1, <1>a, RequestShape
        DEF Migrating, IInv, FetchedRowsExist, PeriodInv, OldIsTheOne,
            MigratePc, RowOf
      <4>3. session[req[r].old].expires <= now'
        BY <1>3, <1>4, <3>3, <4>2
      <4> QED
        BY <3>3, <4>1, <4>3
    <3> QED
      BY <3>1, <3>5, <3>6
  <2> QED
    BY <2>1, <2>2
<1> QED
  BY <1>2, <1>4

\* A request that sells a token, or moves its session, is up to time.
LEMMA RequestsUpToTime ==
  ASSUME Prompt, PromptInv, TypeOK', [Next]_vars, NEW r \in Request
  PROVE  /\ req'[r].pc \in {"create_authorize", "create_insert"} =>
              /\ token'[req'[r].token].status = "unused"
              /\ req'[r].expires = now' + Duration
         /\ req'[r].pc \in MigratePc =>
              session'[req'[r].old].expires = now' + req'[r].remaining
<1>a. IInv /\ TypeOK /\ FetchedRowsExist /\ UpToTime /\ PeriodInv
  BY DEF PromptInv, PeriodInv, IInv
<1>b. Serial /\ \A q \in Request : q = r
  BY OneAtATime DEF Prompt
<1>c. Timely'
  BY <1>a, TimelyStep DEF Prompt, UpToTime, Timely
<1>1. ASSUME ~PortalAuth(r),
             req[r].pc \in {"create_authorize", "create_insert"}
      PROVE  token'[req[r].token].status = "unused"
  <2>1. req[r].token \in Token
    BY <1>1, <1>a, RequestShape DEF Creating
  <2>2. token[req[r].token].status = "unused"
    BY <1>1, <1>a DEF UpToTime
  <2>3. CASE ExpireToken
    <3>1. session[job.row].token # req[r].token
      BY <1>1, <2>3, <1>a, ExpiredToken DEF PeriodInv, NotSoldTwice, RowOf
    <3> QED
      BY <2>1, <2>2, <2>3, <3>1, <1>a, ExpiredToken
  <2>4. CASE PurgeTokens
    BY <2>1, <2>2, <2>4, <1>a, PurgedToken
  <2>5. ~\E q \in Request : CreateRedeem(q)
    BY <1>1, <1>b DEF PortalAuth
  <2> QED
    BY <2>2, <2>3, <2>4, <2>5, TokenSteps
<1>2. ASSUME PortalAuth(r),
             req'[r].pc \in {"create_authorize", "create_insert"}
      PROVE  token'[req'[r].token].status = "unused"
  <2>1. ASSUME NEW t \in Token, NEW c \in Client, ValidateUnused(r, t, c)
        PROVE  req'[r].token = t /\ token'[t].status = "unused"
    BY <2>1, <1>a DEF ValidateUnused, TypeOK
  <2>2. CASE CreateAuthorize(r)
    <3>1. /\ req[r].pc = "create_authorize"
          /\ req'[r].token = req[r].token /\ token' = token
      BY <2>2, <1>a, RequestShape, GotoKeeps DEF CreateAuthorize
    <3> QED
      BY <3>1, <1>a DEF UpToTime
  <2>3. ASSUME NEW t \in Token, NEW c \in Client, ValidateActive(r, t, c)
        PROVE  FALSE
    BY <1>2, <2>3, <1>a DEF ValidateActive, TypeOK
  <2>4. CASE CreateInsert(r) \/ MigrateDeauthorize(r) \/ MigrateClose(r)
             \/ MigrateAuthorize(r)
    BY <1>2, <2>4, <1>a, RequestShape, GotoKeeps
    DEF CreateInsert, MigrateDeauthorize, MigrateClose, MigrateAuthorize
  <2>5. CASE \/ CreateRedeem(r) \/ MigrateFindsNothing(r)
             \/ MigrateInsert(r) \/ InsertRefused(r) \/ RequestFails(r)
    BY <1>2, <2>5, <1>a, FinishIdles
    DEF CreateRedeem, MigrateFindsNothing, MigrateInsert, InsertRefused,
        RequestFails
  <2>6. CASE MigrateFind(r)
    BY <1>2, <2>6, <1>a, FinishIdles DEF MigrateFind, TypeOK
  <2> QED
    BY <1>2, <2>1, <2>2, <2>3, <2>4, <2>5, <2>6 DEF PortalAuth
<1>3. ~PortalAuth(r) => req' = req
  BY <1>b, QuietSteps
<1> QED
  BY <1>1, <1>2, <1>3, <1>c DEF Timely

\* So everything stays up to time.
LEMMA PromptStep ==
  ASSUME Prompt, PromptInv, PeriodInv', [Next]_vars
  PROVE  PromptInv'
<1>1. TypeOK'
  BY DEF PeriodInv, IInv
<1>2. mode' = "up"
  BY ModeStep DEF PromptInv, UpToTime
<1>3. job'.pc \in {"expire_session", "expire_token"} =>
        session'[job'.row].expires <= now'
  BY <1>1, ExpiringOver
<1>4. \A t \in Token, s \in Session :
        token'[t].status \in {"expired", "deleted"} /\ RowOf(s, t)' =>
          session'[s].expires <= now'
  BY <1>1, TokensUpToTime DEF RowOf, Inserted
<1>5. UpToTime'
  BY <1>1, <1>2, <1>3, <1>4, TokensUpToTime, RequestsUpToTime DEF UpToTime
<1> QED
  BY <1>5 DEF PromptInv

\* The token of a migration that has found its row is not deleted.
LEMMA InsertNotRefused ==
  ASSUME PromptInv, NEW r \in Request
  PROVE  ~InsertRefused(r)
<1> SUFFICES ASSUME InsertRefused(r) PROVE FALSE
  OBVIOUS
<1>a. IInv /\ TypeOK /\ FetchedRowsExist /\ UpToTime /\ OldIsTheOne
  BY DEF PromptInv, PeriodInv, IInv
<1>1. CASE req[r].pc = "create_insert"
  BY <1>1, <1>a DEF InsertRefused, UpToTime
<1>2. CASE req[r].pc = "migrate_insert"
  <2>1. /\ req[r].old \in Session /\ RowOf(req[r].old, req[r].token)
        /\ req[r].remaining \in Nat \ {0} /\ req[r].token \in Token
    BY <1>2, <1>a, RequestShape
    DEF Migrating, FetchedRowsExist, OldIsTheOne, MigratePc, RowOf
  <2>2. session[req[r].old].expires = now + req[r].remaining
    BY <1>2, <1>a DEF UpToTime, MigratePc
  <2>3. session[req[r].old].expires <= now
    BY <1>2, <2>1, <1>a DEF InsertRefused, UpToTime
  <2> QED
    BY <2>1, <2>2, <2>3, <1>a DEF TypeOK
<1> QED
  BY <1>1, <1>2 DEF InsertRefused

\* While the daemon runs, only a portal handler lets anybody in.
LEMMA QuietLowers ==
  ASSUME Prompt, PromptInv, [Next]_vars, \A r \in Request : ~PortalAuth(r)
  PROVE  \A c \in Client : fw'[c] = fw[c] \/ fw'[c] = 0
<1>1. TypeOK /\ mode = "up"
  BY DEF PromptInv, PeriodInv, IInv, UpToTime
<1>2. \A s \in Session : ~BootRestore(s)
  BY <1>1 DEF BootRestore
<1> QED
  BY <1>1, <1>2, FirewallSteps DEF PortalAuth

\* A request that has let its client in goes on.
LEMMA PromptRecords ==
  ASSUME Prompt, PromptInv, [Next]_vars
  PROVE  LetInIsRecorded
<1> SUFFICES ASSUME NEW r \in Request,
                    req[r].pc \in {"create_insert", "migrate_insert"}
             PROVE  req'[r] = req[r] \/ CreateInsert(r) \/ MigrateInsert(r)
  BY DEF LetInIsRecorded
<1>1. TypeOK /\ Serial
  BY DEF Prompt, PromptInv, PeriodInv, IInv
<1>2. ~Crash /\ ~RequestFails(r) /\ ~InsertRefused(r) /\ req[r] # Idle
  BY <1>1, OneAtATime, InsertNotRefused DEF Crash, Serial, Idle
<1>3. CASE ~PortalAuth(r)
  BY <1>1, <1>2, <1>3, OthersSteps
<1>4. CASE PortalAuth(r)
  BY <1>2, <1>4
  DEF PortalAuth, ValidateUnused, ValidateActive, Starts, CreateAuthorize,
      CreateRedeem, MigrateFind, MigrateFindsNothing, MigrateDeauthorize,
      MigrateClose, MigrateAuthorize
<1> QED
  BY <1>3, <1>4

\* The invariants of the period and of the time go on together.
LEMMA PromptInductive ==
  ASSUME Prompt
  PROVE  Spec => []PromptInv
<1>1. Init => PromptInv
  <2> SUFFICES ASSUME Init, PeriodInv PROVE UpToTime
    BY PeriodInit DEF PromptInv, Prompt
  <2>1. \A r \in Request : req[r].pc = "idle"
    BY DEF Init, Idle
  <2>2. \A t \in Token : token[t].status = "unused"
    BY DEF Init
  <2> QED
    BY <2>1, <2>2 DEF Init, UpToTime, Idle, MigratePc
<1>2. PromptInv /\ PeriodInv' /\ [Next]_vars => PromptInv'
  BY PromptStep
<1>3. Spec => []PeriodInv
  BY PeriodInductive DEF Prompt
<1> QED
  BY <1>1, <1>2, <1>3, PTL DEF Spec

(* One request at a time, that runs to its end within the second: its      *)
(* insert is not refused, and nobody is on the network beyond a period.    *)
THEOREM AccessEndsWithThePeriod ==
  ASSUME Prompt
  PROVE  Spec => []AccessIsPaidFor
<1>1. PromptInv /\ [Next]_vars => [LetInIsRecorded]_vars
  BY PromptRecords
<1>2. Spec => [][LetInIsRecorded]_vars
  BY <1>1, PromptInductive, PTL DEF Spec
<1>3. Spec /\ [][LetInIsRecorded]_vars => []AccessIsPaidFor
  BY AccessEndsWithItsRow DEF Prompt
<1> QED
  BY <1>2, <1>3, PTL

-----------------------------------------------------------------------------
(***************************************************************************)
(* The handlers implement PaidTokens.                                      *)
(***************************************************************************)

(* And a device that nft was told to take off the network is off it.       *)
Exact == Prompt /\ "delete" \notin Faults

(* The device that is migrated away from is off the network before its row *)
(* is closed.                                                              *)
OldOff ==
  \A r \in Request : req[r].pc \in {"migrate_close", "migrate_authorize"} =>
    fw[session[req[r].old].client] = 0

\* A request that has let its client in, or that moves a session.
HoldingPc == {"create_insert"} \cup MigratePc
Held(t) == \E r \in Request : req[r].pc \in HoldingPc /\ req[r].token = t

(* What the refinement mapping says of a token: its deadline is that of    *)
(* any of its rows; its holder is who a request has let in for it, or the  *)
(* client of the row that is active.                                       *)
Reading ==
  \A t \in Token :
    /\ \A s \in Session : RowOf(s, t) => DeadlineOf(t) = session[s].expires
    /\ (\A s \in Session : ~RowOf(s, t)) =>
         /\ \A r \in Request : req[r].pc = "create_insert" /\ req[r].token = t
              => DeadlineOf(t) = req[r].expires
         /\ ~Held(t) => DeadlineOf(t) = 0
    /\ \A r \in Request : req[r].token = t =>
         /\ req[r].pc \in {"create_insert", "migrate_insert"} =>
              HolderOf(t) = req[r].client
         /\ req[r].pc \in MigratePc \ {"migrate_insert"} =>
              HolderOf(t) = session[req[r].old].client
    /\ ~Held(t) =>
         /\ \A s \in ActiveSessions : session[s].token = t =>
              HolderOf(t) = session[s].client
         /\ (\A s \in ActiveSessions : session[s].token # t) =>
              HolderOf(t) = Outside

\* The mapping's choices are between rows that agree, or have no choice.
LEMMA ReadingHolds ==
  ASSUME Serial, PromptInv
  PROVE  Reading
<1>a. TypeOK /\ OnePaidPeriod
  BY DEF PromptInv, PeriodInv, IInv
<1>b. \A r, q \in Request : q = r
  BY DEF Serial
<1> SUFFICES ASSUME NEW t \in Token
    PROVE
    /\ \A s \in Session : RowOf(s, t) => DeadlineOf(t) = session[s].expires
    /\ (\A s \in Session : ~RowOf(s, t)) =>
         /\ \A r \in Request : req[r].pc = "create_insert" /\ req[r].token = t
              => DeadlineOf(t) = req[r].expires
         /\ ~Held(t) => DeadlineOf(t) = 0
    /\ \A r \in Request : req[r].token = t =>
         /\ req[r].pc \in {"create_insert", "migrate_insert"} =>
              HolderOf(t) = req[r].client
         /\ req[r].pc \in MigratePc \ {"migrate_insert"} =>
              HolderOf(t) = session[req[r].old].client
    /\ ~Held(t) =>
         /\ \A s \in ActiveSessions : session[s].token = t =>
              HolderOf(t) = session[s].client
         /\ (\A s \in ActiveSessions : session[s].token # t) =>
              HolderOf(t) = Outside
  BY DEF Reading
<1>1. ASSUME NEW s \in Session, RowOf(s, t)
      PROVE  DeadlineOf(t) = session[s].expires
  <2>1. s \in RowsOf(t)
    BY <1>1 DEF RowsOf, RowOf
  <2>2. \A x \in RowsOf(t) : session[x].expires = session[s].expires
    BY <1>1, <1>a DEF RowsOf, RowOf, OnePaidPeriod
  <2> QED
    BY <2>1, <2>2 DEF DeadlineOf
<1>2. ASSUME \A s \in Session : ~RowOf(s, t)
      PROVE  RowsOf(t) = {}
  BY <1>2 DEF RowsOf, RowOf
<1>3. ASSUME NEW r \in Request, req[r].pc = "create_insert", req[r].token = t
      PROVE  /\ Redeeming(t) # {}
             /\ (CHOOSE q \in Redeeming(t) : TRUE) = r
  BY <1>3, <1>b DEF Redeeming
<1>4. ASSUME NEW r \in Request, req[r].pc \in MigratePc, req[r].token = t
      PROVE  /\ Moving(t) # {} /\ Redeeming(t) = {}
             /\ (CHOOSE q \in Moving(t) : TRUE) = r
  BY <1>4, <1>b DEF Moving, Redeeming, MigratePc
<1>5. ASSUME ~Held(t)
      PROVE  Redeeming(t) = {} /\ Moving(t) = {}
  BY <1>5 DEF Held, Redeeming, Moving, HoldingPc, MigratePc
<1>6. ASSUME NEW s \in ActiveSessions, session[s].token = t
      PROVE  RowsOf(t) \cap ActiveSessions = {s}
  BY <1>6, <1>a DEF RowsOf, ActiveSessions, Inserted, OnePaidPeriod
<1>7. ASSUME \A s \in ActiveSessions : session[s].token # t
      PROVE  RowsOf(t) \cap ActiveSessions = {}
  BY <1>7 DEF RowsOf
<1>8. \A r \in Request : req[r].token = t =>
        /\ req[r].pc \in {"create_insert", "migrate_insert"} =>
             HolderOf(t) = req[r].client
        /\ req[r].pc \in MigratePc \ {"migrate_insert"} =>
             HolderOf(t) = session[req[r].old].client
  BY <1>3, <1>4 DEF HolderOf, MigratePc
<1>9. ~Held(t) =>
        /\ \A s \in ActiveSessions : session[s].token = t =>
             HolderOf(t) = session[s].client
        /\ (\A s \in ActiveSessions : session[s].token # t) =>
             HolderOf(t) = Outside
  BY <1>5, <1>6, <1>7 DEF HolderOf
<1>10. (\A s \in Session : ~RowOf(s, t)) =>
         /\ \A r \in Request : req[r].pc = "create_insert" /\ req[r].token = t
              => DeadlineOf(t) = req[r].expires
         /\ ~Held(t) => DeadlineOf(t) = 0
  BY <1>2, <1>3, <1>5 DEF DeadlineOf
<1> QED
  BY <1>1, <1>8, <1>9, <1>10

\* A client is somebody.
LEMMA ClientIsSomebody == \A c \in Client : c # Outside
BY DEF Client, Outside

\* Off it stays until the new device is let in.
LEMMA OldOffStep ==
  ASSUME Exact, PromptInv, OldOff, TypeOK', [Next]_vars
  PROVE  OldOff'
<1> SUFFICES ASSUME NEW r \in Request,
                    req'[r].pc \in {"migrate_close", "migrate_authorize"}
             PROVE  fw'[session'[req'[r].old].client] = 0
  BY DEF OldOff
<1>a. IInv /\ TypeOK /\ FetchedRowsExist /\ Prompt /\ Serial
  BY DEF PromptInv, PeriodInv, IInv, Exact, Prompt
<1>b. \A q \in Request : q = r
  BY <1>a, OneAtATime
<1>c. ASSUME req[r].pc \in MigratePc
      PROVE  /\ req[r].old \in Session /\ session[req[r].old].client \in Client
             /\ session'[req[r].old].client = session[req[r].old].client
  <2>1. req[r].old \in Session /\ Inserted(req[r].old)
    BY <1>c, <1>a, RequestShape DEF Migrating, FetchedRowsExist, MigratePc
  <2> QED
    BY <2>1, <1>a, RowsAreKept, RowShape DEF SameRow, SessionRow
<1>1. CASE ~PortalAuth(r)
  <2>1. req' = req
    BY <1>1, <1>a, <1>b, QuietSteps
  <2>2. \A c \in Client : fw'[c] = fw[c] \/ fw'[c] = 0
    BY <1>1, <1>a, <1>b, QuietLowers
  <2> QED
    BY <2>1, <2>2, <1>c DEF OldOff, MigratePc
<1>2. CASE MigrateDeauthorize(r)
  <2>1. req[r].pc \in MigratePc /\ req'[r].old = req[r].old
    BY <1>2, <1>a, RequestShape, GotoKeeps DEF MigrateDeauthorize, MigratePc
  <2>2. fw' = [fw EXCEPT ![session[req[r].old].client] = 0]
    BY <1>2 DEF MigrateDeauthorize, DeleteElement, Exact
  <2> QED
    BY <2>1, <2>2, <1>c, <1>a DEF TypeOK
<1>3. CASE MigrateClose(r)
  <2>1. /\ req[r].pc = "migrate_close" /\ req'[r].old = req[r].old
        /\ fw' = fw
    BY <1>3, <1>a, RequestShape, GotoKeeps DEF MigrateClose
  <2> QED
    BY <2>1, <1>c DEF OldOff, MigratePc
<1>4. CASE \E t \in Token, c \in Client :
             ValidateUnused(r, t, c) \/ ValidateActive(r, t, c)
  BY <1>4, <1>a DEF ValidateUnused, ValidateActive, TypeOK
<1>5. CASE CreateAuthorize(r) \/ CreateInsert(r) \/ MigrateAuthorize(r)
  BY <1>5, <1>a, RequestShape, GotoKeeps
  DEF CreateAuthorize, CreateInsert, MigrateAuthorize
<1>6. CASE \/ CreateRedeem(r) \/ MigrateFindsNothing(r) \/ MigrateInsert(r)
           \/ InsertRefused(r)
  BY <1>6, <1>a, FinishIdles
  DEF CreateRedeem, MigrateFindsNothing, MigrateInsert, InsertRefused
<1>7. CASE MigrateFind(r)
  BY <1>7, <1>a, FinishIdles DEF MigrateFind, TypeOK
<1> QED
  BY <1>1, <1>2, <1>3, <1>4, <1>5, <1>6, <1>7, <1>a, OneAtATime DEF PortalAuth

\* What the steps of the refinement need of the states they lead from and to.
RefinementInv == PromptInv /\ OldOff /\ OneActivePerMac /\ Reading

\* A step that changes neither a period, nor a holder, nor the set.
LEMMA Stutters ==
  ASSUME now' = now, fw' = fw,
         \A t \in Token : /\ DeadlineOf(t)' = DeadlineOf(t)
                          /\ HolderOf(t)' = HolderOf(t)
  PROVE  UNCHANGED Paid!paidVars
BY DEF Paid!paidVars

\* A step after which one token at most has lost its holder.
LEMMA Releases ==
  ASSUME now' = now, fw' = fw, \A t \in Token : DeadlineOf(t)' = DeadlineOf(t),
         NEW t \in Token, HolderOf(t)' = HolderOf(t) \/ HolderOf(t)' = Outside,
         \A u \in Token : u # t => HolderOf(u)' = HolderOf(u)
  PROVE  [Paid!PaidNext]_(Paid!paidVars)
<1>1. CASE HolderOf(t)' = HolderOf(t)
  BY <1>1, Stutters
<1>2. CASE HolderOf(t)' = Outside
  <2>1. Paid!Release(t)
    BY <1>2 DEF Paid!Release
  <2> QED
    BY <2>1 DEF Paid!PaidNext
<1> QED
  BY <1>1, <1>2

\* A step that takes a client out of the set.
LEMMA Cuts ==
  ASSUME now' = now, NEW c \in Client, fw' = [fw EXCEPT ![c] = 0],
         \A t \in Token : /\ DeadlineOf(t)' = DeadlineOf(t)
                          /\ HolderOf(t)' = HolderOf(t)
  PROVE  [Paid!PaidNext]_(Paid!paidVars)
<1>1. Paid!Cut(c)
  BY DEF Paid!Cut
<1> QED
  BY <1>1 DEF Paid!PaidNext

\* A row of a token is new only if the token's request inserts it.
LEMMA NewRows ==
  ASSUME IInv, [Next]_vars, NEW t \in Token, NEW s \in Session,
         session'[s].status # "none", session'[s].token = t
  PROVE  \/ RowOf(s, t)
         \/ \E r \in Request : /\ CreateInsert(r) \/ MigrateInsert(r)
                               /\ req[r].token = t
<1>1. CASE \A r \in Request : ~CreateInsert(r) /\ ~MigrateInsert(r)
  BY <1>1, ClosingSteps, ClosedRows DEF RowOf, Inserted
<1>2. ASSUME NEW r \in Request, CreateInsert(r) \/ MigrateInsert(r)
      PROVE  RowOf(s, t) \/ req[r].token = t
  <2>1. PICK new \in Session :
          Adding(new, req[r].token, req[r].client,
                 IF req[r].pc = "create_insert" THEN req[r].expires
                 ELSE session[req[r].old].expires)
    BY <1>2, RequestAdds
  <2>2. CASE s = new
    BY <2>1, <2>2 DEF Adding
  <2>3. CASE s # new
    BY <2>1, <2>3, RowsAreKept DEF Adding, SameRow, RowOf, Inserted
  <2> QED
    BY <2>2, <2>3
<1> QED
  BY <1>1, <1>2

\* Only CreateAuthorize gives a token its deadline, and nothing moves it.
LEMMA DeadlineKept ==
  ASSUME Exact, RefinementInv, RefinementInv', [Next]_vars,
         \A r \in Request : ~CreateAuthorize(r),
         NEW t \in Token
  PROVE  DeadlineOf(t)' = DeadlineOf(t)
<1>a. /\ IInv /\ TypeOK /\ TypeOK' /\ Reading /\ Reading' /\ Serial
      /\ PromptInv /\ PromptInv'
  BY DEF RefinementInv, PromptInv, PeriodInv, IInv, Exact, Prompt
<1>b. \A r, q \in Request : r = q
  BY <1>a DEF Serial
<1>1. ASSUME NEW s \in Session, RowOf(s, t)
      PROVE  DeadlineOf(t)' = DeadlineOf(t)
  <2>1. RowOf(s, t)' /\ session'[s].expires = session[s].expires
    BY <1>1, <1>a, RowsAreKept DEF RowOf, SameRow, Inserted
  <2> QED
    BY <1>1, <2>1, <1>a DEF Reading
<1>2. ASSUME \A s \in Session : ~RowOf(s, t),
             NEW r \in Request, req[r].pc = "create_insert", req[r].token = t
      PROVE  DeadlineOf(t)' = DeadlineOf(t)
  <2>1. DeadlineOf(t) = req[r].expires
    BY <1>2, <1>a DEF Reading
  <2>2. CASE CreateInsert(r)
    <3>1. PICK new \in Session :
            Adding(new, req[r].token, req[r].client, req[r].expires)
      BY <1>2, <2>2, <1>a, RequestAdds
    <3>2. RowOf(new, t)' /\ session'[new].expires = req[r].expires
      BY <1>2, <3>1 DEF Adding, RowOf, Inserted
    <3> QED
      BY <2>1, <3>2, <1>a DEF Reading
  <2>3. CASE ~CreateInsert(r)
    <3>1. ~PortalAuth(r)
      BY <1>2, <2>3, <1>a, OneAtATime, InsertNotRefused
      DEF PortalAuth, ValidateUnused, ValidateActive, Starts, Idle,
          CreateAuthorize, CreateRedeem, MigrateFind, MigrateFindsNothing,
          MigrateDeauthorize, MigrateClose, MigrateAuthorize, MigrateInsert
    <3>2. req' = req
      BY <3>1, <1>a, <1>b, QuietSteps
    <3>3. \A s \in Session : ~RowOf(s, t)'
      BY <1>2, <2>3, <3>1, <1>a, <1>b, NewRows DEF RowOf, Inserted, PortalAuth
    <3> QED
      BY <1>2, <2>1, <3>2, <3>3, <1>a DEF Reading
  <2> QED
    BY <2>2, <2>3
<1>3. ASSUME \A s \in Session : ~RowOf(s, t),
             \A r \in Request :
               ~(req[r].pc = "create_insert" /\ req[r].token = t)
      PROVE  DeadlineOf(t)' = DeadlineOf(t)
  <2>1. ASSUME NEW r \in Request, req[r].pc \in MigratePc, req[r].token = t
        PROVE  FALSE
    BY <1>3, <2>1, <1>a, RequestShape
    DEF Migrating, IInv, FetchedRowsExist, PromptInv, PeriodInv, OldIsTheOne,
        MigratePc, RowOf
  <2>2. DeadlineOf(t) = 0
    BY <1>3, <2>1, <1>a DEF Reading, Held, HoldingPc
  <2>3. \A r \in Request : CreateInsert(r) \/ MigrateInsert(r) =>
          req[r].token # t
    BY <1>3, <2>1 DEF CreateInsert, MigrateInsert, MigratePc
  <2>4. \A s \in Session : ~RowOf(s, t)'
    BY <1>3, <2>3, <1>a, NewRows DEF RowOf, Inserted
  <2>5. ASSUME NEW r \in Request, req'[r].pc \in MigratePc, req'[r].token = t
        PROVE  FALSE
    <3>1. /\ req'[r].old \in Session /\ session'[req'[r].old].status # "none"
          /\ session'[req'[r].old].token = t
      <4>1. req'[r] \in Migrating
        BY <2>5, <1>a
        DEF TypeOK, Idle, Creating, Finding, Migrating, MigratePc
      <4> QED
        BY <2>5, <4>1, <1>a
        DEF Migrating, PromptInv, PeriodInv, IInv, FetchedRowsExist, Inserted,
            OldIsTheOne, MigratePc
    <3> QED
      BY <2>4, <3>1 DEF RowOf, Inserted
  <2>6. ASSUME NEW r \in Request, req'[r].pc = "create_insert",
               req'[r].token = t
        PROVE  FALSE
    <3>1. CASE ~PortalAuth(r)
      BY <1>3, <2>6, <3>1, <1>a, <1>b, QuietSteps
    <3>2. CASE PortalAuth(r)
      <4>1. ~ \E u \in Token, c \in Client :
                ValidateUnused(r, u, c) \/ ValidateActive(r, u, c)
        BY <2>6, <1>a DEF ValidateUnused, ValidateActive, TypeOK
      <4>2. /\ ~CreateRedeem(r) /\ ~MigrateFindsNothing(r)
            /\ ~MigrateInsert(r) /\ ~InsertRefused(r) /\ ~RequestFails(r)
        BY <2>6, <1>a, FinishIdles
        DEF CreateRedeem, MigrateFindsNothing, MigrateInsert, InsertRefused,
            RequestFails
      <4>3. ~MigrateFind(r)
        BY <2>6, <1>a, FinishIdles DEF MigrateFind, TypeOK
      <4>4. /\ ~CreateInsert(r) /\ ~MigrateDeauthorize(r) /\ ~MigrateClose(r)
            /\ ~MigrateAuthorize(r)
        BY <2>6, <1>a, RequestShape, GotoKeeps
        DEF CreateInsert, MigrateDeauthorize, MigrateClose, MigrateAuthorize
      <4> QED
        BY <3>2, <4>1, <4>2, <4>3, <4>4 DEF PortalAuth
    <3> QED
      BY <3>1, <3>2
  <2>7. ~Held(t)'
    BY <2>5, <2>6 DEF Held, HoldingPc
  <2> QED
    BY <2>2, <2>4, <2>7, <1>a DEF Reading
<1> QED
  BY <1>1, <1>2, <1>3

\* No active row of the token is new, and what a step closes of them.
NoneOpened(t) ==
  \A s \in Session :
    session'[s].status = "active" /\ session'[s].token = t =>
      session[s].status = "active"
NoneClosed(t) ==
  \A s \in ActiveSessions :
    session[s].token = t => session'[s].status = "active"

\* The holder of a token that no request has in hand.
LEMMA FreeHolder ==
  ASSUME RefinementInv, RefinementInv', [Next]_vars, NEW t \in Token,
         ~Held(t), ~Held(t)', NoneOpened(t)
  PROVE  /\ HolderOf(t)' = HolderOf(t) \/ HolderOf(t)' = Outside
         /\ NoneClosed(t) => HolderOf(t)' = HolderOf(t)
<1>a. IInv /\ OnePaidPeriod /\ Reading /\ Reading'
  BY DEF RefinementInv, PromptInv, PeriodInv
<1>1. ASSUME NEW s \in Session, session'[s].status = "active",
             session'[s].token = t
      PROVE  /\ session[s].status = "active" /\ session[s].token = t
             /\ HolderOf(t)' = HolderOf(t)
  <2>1. session[s].status = "active" /\ Inserted(s)
    BY <1>1 DEF NoneOpened, Inserted
  <2>2. /\ session[s].token = t
        /\ session'[s].client = session[s].client
    BY <1>1, <1>a, <2>1, RowsAreKept DEF SameRow
  <2>3. HolderOf(t) = session[s].client
    BY <2>1, <2>2, <1>a DEF Reading, ActiveSessions
  <2>4. HolderOf(t)' = session'[s].client
    BY <1>1, <1>a DEF Reading, ActiveSessions
  <2> QED
    BY <2>1, <2>2, <2>3, <2>4
<1>2. CASE \E s \in Session : /\ session'[s].status = "active"
                              /\ session'[s].token = t
  BY <1>1, <1>2
<1>3. CASE \A s \in Session : ~(/\ session'[s].status = "active"
                                /\ session'[s].token = t)
  <2>1. HolderOf(t)' = Outside
    BY <1>3, <1>a DEF Reading, ActiveSessions
  <2>2. ASSUME NoneClosed(t)
        PROVE  \A s \in ActiveSessions : session[s].token # t
    <3> SUFFICES ASSUME NEW s \in Session, session[s].status = "active",
                        session[s].token = t
                 PROVE  FALSE
      BY DEF ActiveSessions
    <3>1. session'[s].status = "active" /\ Inserted(s)
      BY <2>2 DEF NoneClosed, ActiveSessions, Inserted
    <3>2. session'[s].token = t
      BY <3>1, <1>a, RowsAreKept DEF SameRow
    <3> QED
      BY <1>3, <3>1, <3>2
  <2>3. NoneClosed(t) => HolderOf(t) = Outside
    BY <2>2, <1>a DEF Reading
  <2> QED
    BY <2>1, <2>3
<1> QED
  BY <1>2, <1>3

\* What is closed, is closed for good.
LEMMA ClosingOpensNone ==
  ASSUME Closing, NEW t \in Token
  PROVE  NoneOpened(t)
BY DEF Closing, NoneOpened

\* Steps that are not a handler's.
LEMMA QuietHolder ==
  ASSUME Exact, RefinementInv, RefinementInv', [Next]_vars,
         \A r \in Request : ~PortalAuth(r), NEW t \in Token
  PROVE  /\ HolderOf(t)' = HolderOf(t) \/ HolderOf(t)' = Outside
         /\ NoneClosed(t) => HolderOf(t)' = HolderOf(t)
<1>a. /\ IInv /\ TypeOK /\ FetchedRowsExist /\ Reading /\ Reading' /\ Serial
  BY DEF RefinementInv, PromptInv, PeriodInv, IInv, Exact, Prompt
<1>1. req' = req
  BY <1>a, QuietSteps
<1>2. Closing
  BY <1>a, ClosingSteps DEF PortalAuth
<1>3. CASE ~Held(t)
  <2>1. ~Held(t)'
    BY <1>1, <1>3 DEF Held
  <2> QED
    BY <1>2, <1>3, <2>1, ClosingOpensNone, FreeHolder
<1>4. ASSUME NEW r \in Request, req[r].pc \in HoldingPc, req[r].token = t
      PROVE  HolderOf(t)' = HolderOf(t)
  <2>1. CASE req[r].pc \in {"create_insert", "migrate_insert"}
    BY <1>1, <1>4, <2>1, <1>a DEF Reading
  <2>2. CASE req[r].pc \in MigratePc \ {"migrate_insert"}
    <3>1. req[r].old \in Session /\ Inserted(req[r].old)
      BY <2>2, <1>a, RequestShape DEF Migrating, FetchedRowsExist, MigratePc
    <3>2. session'[req[r].old].client = session[req[r].old].client
      BY <3>1, <1>a, RowsAreKept DEF SameRow
    <3> QED
      BY <1>1, <1>4, <2>2, <3>2, <1>a DEF Reading
  <2> QED
    BY <1>4, <2>1, <2>2 DEF HoldingPc, MigratePc
<1> QED
  BY <1>3, <1>4 DEF Held

\* A step that is not a handler's closes a row, or takes a client out of the
\* set, or lets time pass.
LEMMA QuietCases ==
  ASSUME Exact, RefinementInv, [Next]_vars, \A r \in Request : ~PortalAuth(r)
  PROVE  \/ /\ now' = now /\ fw' = fw
            /\ \E s \in Session :
                 /\ Inserted(s)
                 /\ \A x \in Session : x # s /\ session[x].status = "active"
                      => session'[x].status = "active"
         \/ /\ now' = now /\ session' = session
            /\ \E c \in Client : fw' = [fw EXCEPT ![c] = 0]
         \/ /\ now' = now /\ fw' = fw
            /\ \A x \in Session : session[x].status = "active"
                 => session'[x].status = "active"
         \/ Tick
<1>a. /\ IInv /\ TypeOK /\ FetchedRowsExist /\ mode = "up" /\ Serial
      /\ "delete" \notin Faults
  BY DEF RefinementInv, PromptInv, PeriodInv, IInv, Exact, Prompt, UpToTime
<1>1. CASE DisconnectMark
  <2>1. admin.target \in Session /\ Inserted(admin.target)
    BY <1>1, <1>a, AdminShape
    DEF DisconnectMark, Disconnecting, FetchedRowsExist
  <2>2. now' = now /\ fw' = fw /\ SetSession(admin.target, "disconnected")
    BY <1>1 DEF DisconnectMark
  <2>3. \A x \in Session : session'[x] = session[x] \/ x = admin.target
    BY <2>1, <2>2, <1>a, SetSessionCloses
  <2> QED
    BY <2>1, <2>2, <2>3
<1>2. CASE ExpireSession
  <2>1. job.row \in Session /\ Inserted(job.row)
    BY <1>2, <1>a, JobShape DEF ExpireSession, Expiring, FetchedRowsExist
  <2>2. now' = now /\ fw' = fw /\ SetSession(job.row, "expired")
    BY <1>2 DEF ExpireSession
  <2>3. \A x \in Session : session'[x] = session[x] \/ x = job.row
    BY <2>1, <2>2, <1>a, SetSessionCloses
  <2> QED
    BY <2>1, <2>2, <2>3
<1>3. CASE DisconnectDeauthorize
  <2>1. admin.target \in Session /\ Inserted(admin.target)
    BY <1>3, <1>a, AdminShape
    DEF DisconnectDeauthorize, Disconnecting, FetchedRowsExist
  <2>2. session[admin.target].client \in Client
    BY <2>1, <1>a, RowShape DEF SessionRow
  <2> QED
    BY <1>3, <2>2, <1>a DEF DisconnectDeauthorize, DeleteElement
<1>4. ASSUME NEW s \in Session, TickerDeauthorize(s)
      PROVE  /\ now' = now /\ session' = session
             /\ \E c \in Client : fw' = [fw EXCEPT ![c] = 0]
  <2>1. Inserted(s)
    BY <1>4, <1>a DEF TickerDeauthorize, FetchedRowsExist
  <2>2. session[s].client \in Client
    BY <2>1, <1>a, RowShape DEF SessionRow
  <2> QED
    BY <1>4, <2>2, <1>a DEF TickerDeauthorize, DeleteElement
<1>5. CASE PurgeSessions
  BY <1>5 DEF PurgeSessions
<1>6. ~Crash /\ \A s \in Session : ~BootRestore(s) /\ ~BootExpire(s)
  BY <1>a DEF Crash, Serial, BootRestore, BootExpire
<1> QED
  BY <1>1, <1>2, <1>3, <1>4, <1>5, <1>6
  DEF Next, AdminStep, RevokeToken, DisconnectRead,
      JobStep, TickerStart, BootStart, TickerSkip, ExpireToken, JobStepFails,
      LoopEnd, PurgeFails, PurgeTokens, vars

\* So it is a step of the abstract specification, or none.
LEMMA QuietRefines ==
  ASSUME Exact, RefinementInv, RefinementInv', [Next]_vars,
         \A r \in Request : ~PortalAuth(r)
  PROVE  [Paid!PaidNext]_(Paid!paidVars)
<1>a. IInv /\ TypeOK
  BY DEF RefinementInv, PromptInv, PeriodInv, IInv
<1>1. \A t \in Token : DeadlineOf(t)' = DeadlineOf(t)
  BY DeadlineKept DEF PortalAuth
<1>2. ASSUME \A x \in Session :
               session[x].status = "active" => session'[x].status = "active"
      PROVE  \A t \in Token : HolderOf(t)' = HolderOf(t)
  BY <1>2, QuietHolder DEF NoneClosed, ActiveSessions
<1>3. ASSUME now' = now, fw' = fw, NEW s \in Session, Inserted(s),
             \A x \in Session : x # s /\ session[x].status = "active"
               => session'[x].status = "active"
      PROVE  [Paid!PaidNext]_(Paid!paidVars)
  <2>1. PICK t \in Token : t = session[s].token
    BY <1>3, <1>a, RowShape DEF SessionRow
  <2>2. \A u \in Token : u # t => HolderOf(u)' = HolderOf(u)
    BY <1>3, <2>1, QuietHolder DEF NoneClosed, ActiveSessions
  <2>3. HolderOf(t)' = HolderOf(t) \/ HolderOf(t)' = Outside
    BY QuietHolder
  <2> QED
    BY <1>1, <1>3, <2>2, <2>3, Releases
<1>4. ASSUME now' = now, session' = session, NEW c \in Client,
             fw' = [fw EXCEPT ![c] = 0]
      PROVE  [Paid!PaidNext]_(Paid!paidVars)
  BY <1>1, <1>2, <1>4, Cuts
<1>5. ASSUME now' = now, fw' = fw,
             \A x \in Session :
               session[x].status = "active" => session'[x].status = "active"
      PROVE  [Paid!PaidNext]_(Paid!paidVars)
  BY <1>1, <1>2, <1>5, Stutters
<1>6. CASE Tick
  <2>1. \A t \in Token : HolderOf(t)' = HolderOf(t)
    BY <1>2, <1>6 DEF Tick
  <2>2. /\ now' = now + 1
        /\ fw' = [c \in Client |-> IF fw[c] <= now' THEN 0 ELSE fw[c]]
    BY <1>6 DEF Tick
  <2>3. Paid!Elapse
    BY <1>1, <2>1, <2>2 DEF Paid!Elapse
  <2> QED
    BY <2>3 DEF Paid!PaidNext
<1> QED
  BY <1>3, <1>4, <1>5, <1>6, QuietCases

\* No client is in the middle of two tokens.
LEMMA OtherTokensFree ==
  ASSUME Serial, NEW r \in Request, NEW t \in Token,
         req[r].token # t \/ req[r].pc \notin HoldingPc
  PROVE  ~Held(t)
BY DEF Serial, Held

\* What nft does when a client is added is what the abstract kernel may do.
LEMMA AddGrants ==
  ASSUME NEW c \in Client, NEW secs, AddElement(c, secs)
  PROVE  Paid!Grant(c, now + secs)
BY DEF AddElement, Paid!Grant

\* A step that sells a token's period.
LEMMA Redeems ==
  ASSUME now' = now, NEW t \in Token, NEW c \in Client,
         DeadlineOf(t) = 0, DeadlineOf(t)' = now + Duration, HolderOf(t)' = c,
         \A u \in Token : u # t => /\ DeadlineOf(u)' = DeadlineOf(u)
                                   /\ HolderOf(u)' = HolderOf(u),
         Paid!Grant(c, now + Duration)
  PROVE  [Paid!PaidNext]_(Paid!paidVars)
<1>1. Paid!Redeem(t, c)
  BY DEF Paid!Redeem
<1> QED
  BY <1>1 DEF Paid!PaidNext

\* A step that gives what is left of it to another client.
LEMMA Migrates ==
  ASSUME now' = now, NEW t \in Token, NEW c \in Client,
         now < DeadlineOf(t), HolderOf(t) # Outside, fw[HolderOf(t)] = 0,
         HolderOf(t)' = c,
         \A u \in Token : /\ DeadlineOf(u)' = DeadlineOf(u)
                          /\ u # t => HolderOf(u)' = HolderOf(u),
         Paid!Grant(c, DeadlineOf(t))
  PROVE  [Paid!PaidNext]_(Paid!paidVars)
<1>1. [u \in Token |-> DeadlineOf(u)][t] = DeadlineOf(t)
  OBVIOUS
<1>2. [u \in Token |-> HolderOf(u)][t] = HolderOf(t)
  OBVIOUS
<1>3. Paid!Migrate(t, c)
  BY <1>1, <1>2 DEF Paid!Migrate
<1> QED
  BY <1>3 DEF Paid!PaidNext

\* A token's period starts when the kernel lets the client in.
LEMMA AuthorizeRedeems ==
  ASSUME Exact, RefinementInv, RefinementInv', [Next]_vars,
         NEW r \in Request, CreateAuthorize(r)
  PROVE  [Paid!PaidNext]_(Paid!paidVars)
<1>a. /\ IInv /\ TypeOK /\ TypeOK' /\ Reading /\ Reading' /\ Serial
      /\ NotSoldTwice /\ UpToTime
  BY DEF RefinementInv, PromptInv, PeriodInv, IInv, Exact, Prompt
<1>b. \A q \in Request : q = r
  BY <1>a, OneAtATime
<1>0. PICK t \in Token, c \in Client : t = req[r].token /\ c = req[r].client
  BY <1>a, RequestShape DEF CreateAuthorize, Creating
<1>1. /\ req[r].pc = "create_authorize" /\ req[r].token = t
      /\ req[r].client = c /\ req[r].expires = now + Duration
  BY <1>a, <1>0 DEF CreateAuthorize, UpToTime
<1>2. /\ req'[r].pc = "create_insert" /\ req'[r].token = t
      /\ req'[r].client = c /\ req'[r].expires = now + Duration
  BY <1>a, <1>1, RequestShape, GotoKeeps DEF CreateAuthorize
<1>3. now' = now /\ session' = session /\ AddElement(c, Duration)
  BY <1>1 DEF CreateAuthorize
<1>4. \A s \in Session : ~RowOf(s, t) /\ ~RowOf(s, t)'
  BY <1>a, <1>1, <1>3 DEF NotSoldTwice, RowOf, Inserted
<1>5. \A u \in Token : ~Held(u) /\ (u # t => ~Held(u)')
  BY <1>b, <1>1, <1>2 DEF Held, HoldingPc, MigratePc
<1>6. DeadlineOf(t) = 0 /\ DeadlineOf(t)' = now + Duration
  BY <1>a, <1>1, <1>2, <1>4, <1>5 DEF Reading
<1>7. HolderOf(t)' = c
  BY <1>a, <1>1, <1>2 DEF Reading
<1>8. ASSUME NEW u \in Token, u # t
      PROVE  DeadlineOf(u)' = DeadlineOf(u) /\ HolderOf(u)' = HolderOf(u)
  <2>1. HolderOf(u)' = HolderOf(u)
    BY <1>3, <1>5, <1>8, FreeHolder DEF NoneOpened, NoneClosed, ActiveSessions
  <2>2. ~Held(u) /\ ~Held(u)'
    BY <1>5, <1>8
  <2>3. CASE \E s \in Session : RowOf(s, u)
    <3>1. PICK s \in Session : RowOf(s, u)
      BY <2>3
    <3>2. RowOf(s, u)' /\ session'[s].expires = session[s].expires
      BY <1>3, <3>1 DEF RowOf, Inserted
    <3> QED
      BY <1>a, <2>1, <3>1, <3>2 DEF Reading
  <2>4. CASE \A s \in Session : ~RowOf(s, u)
    <3>1. \A s \in Session : ~RowOf(s, u)'
      BY <1>3, <2>4 DEF RowOf, Inserted
    <3> QED
      BY <1>a, <2>1, <2>2, <2>4, <3>1 DEF Reading
  <2> QED
    BY <2>3, <2>4
<1>9. Paid!Grant(c, now + Duration)
  BY <1>3, AddGrants
<1> QED
  BY <1>3, <1>6, <1>7, <1>8, <1>9, Redeems

\* A period changes hands when the kernel lets the next device in, which is
\* after the first has been taken off the network.
LEMMA AuthorizeMigrates ==
  ASSUME Exact, RefinementInv, RefinementInv', [Next]_vars,
         NEW r \in Request, MigrateAuthorize(r)
  PROVE  [Paid!PaidNext]_(Paid!paidVars)
<1>a. /\ IInv /\ TypeOK /\ FetchedRowsExist /\ Reading /\ Reading' /\ Serial
      /\ OldIsTheOne /\ UpToTime /\ OldOff
  BY DEF RefinementInv, PromptInv, PeriodInv, IInv, Exact, Prompt
<1>b. \A q \in Request : q = r
  BY <1>a, OneAtATime
<1>0. PICK t \in Token, c \in Client, o \in Session, left \in Nat \ {0} :
        /\ t = req[r].token /\ c = req[r].client
        /\ o = req[r].old /\ left = req[r].remaining
  BY <1>a, RequestShape DEF MigrateAuthorize, Migrating
<1>1. /\ req[r].pc = "migrate_authorize" /\ req[r].token = t
      /\ req[r].client = c /\ req[r].old = o /\ req[r].remaining = left
      /\ RowOf(o, t) /\ session[o].client \in Client
      /\ session[o].expires = now + left
  BY <1>a, <1>0, RowShape
  DEF MigrateAuthorize, FetchedRowsExist, OldIsTheOne, UpToTime, MigratePc,
      RowOf, SessionRow
<1>2. req'[r].pc = "migrate_insert" /\ req'[r].token = t /\ req'[r].client = c
  BY <1>a, <1>1, RequestShape, GotoKeeps DEF MigrateAuthorize
<1>3. now' = now /\ session' = session /\ AddElement(c, left)
  BY <1>1 DEF MigrateAuthorize
<1>4. \A u \in Token : DeadlineOf(u)' = DeadlineOf(u)
  BY <1>1, <1>b, DeadlineKept DEF CreateAuthorize
<1>5. DeadlineOf(t) = now + left /\ now < DeadlineOf(t)
  BY <1>a, <1>1 DEF Reading, TypeOK
<1>6. HolderOf(t) = session[o].client /\ HolderOf(t)' = c
  BY <1>a, <1>1, <1>2 DEF Reading, MigratePc
<1>7. fw[HolderOf(t)] = 0 /\ HolderOf(t) # Outside
  BY <1>a, <1>1, <1>6, ClientIsSomebody DEF OldOff
<1>8. ASSUME NEW u \in Token, u # t
      PROVE  HolderOf(u)' = HolderOf(u)
  <2>1. ~Held(u) /\ ~Held(u)'
    BY <1>b, <1>1, <1>2, <1>8 DEF Held
  <2> QED
    BY <1>3, <2>1, FreeHolder DEF NoneOpened, NoneClosed, ActiveSessions
<1>9. Paid!Grant(c, DeadlineOf(t))
  BY <1>3, <1>5, AddGrants
<1> QED
  BY <1>3, <1>4, <1>5, <1>6, <1>7, <1>8, <1>9, Migrates

\* The row of a token that is sold or moved changes nothing for it, and may
\* close the row of the token that the device used before.
LEMMA InsertRefines ==
  ASSUME Exact, RefinementInv, RefinementInv', [Next]_vars,
         NEW r \in Request, CreateInsert(r) \/ MigrateInsert(r)
  PROVE  [Paid!PaidNext]_(Paid!paidVars)
<1>a. /\ IInv /\ TypeOK /\ Reading /\ Reading' /\ Serial /\ OneActivePerMac
  BY DEF RefinementInv, PromptInv, PeriodInv, IInv, Exact, Prompt
<1>b. \A q \in Request : q = r
  BY <1>a, OneAtATime
<1>0. PICK t \in Token, c \in Client : t = req[r].token /\ c = req[r].client
  BY <1>a, RequestShape DEF CreateInsert, MigrateInsert, Creating, Migrating
<1>1. /\ req[r].pc \in {"create_insert", "migrate_insert"}
      /\ now' = now /\ fw' = fw
  BY DEF CreateInsert, MigrateInsert
<1>2. req'[r].pc \in {"create_redeem", "idle"}
  BY <1>a, RequestShape, GotoKeeps, FinishIdles DEF CreateInsert, MigrateInsert
<1>3. PICK e : \E new \in Session : Adding(new, t, c, e)
  BY <1>0, <1>a, RequestAdds
<1>4. PICK new \in Session : Adding(new, t, c, e)
  BY <1>3
<1>5. \A u \in Token : DeadlineOf(u)' = DeadlineOf(u)
  BY <1>1, <1>b, DeadlineKept DEF CreateAuthorize
<1>6. \A u \in Token : ~Held(u)' /\ (u # t => ~Held(u))
  BY <1>b, <1>0, <1>2 DEF Held, HoldingPc, MigratePc
<1>7. HolderOf(t) = c
  BY <1>0, <1>1, <1>a DEF Reading
<1>8. HolderOf(t)' = c
  <2>1. /\ session'[new].status = "active"
        /\ session'[new].token = t /\ session'[new].client = c
    BY <1>4 DEF Adding
  <2> QED
    BY <2>1, <1>6, <1>a DEF Reading, ActiveSessions
<1>9. ASSUME NEW u \in Token, u # t
      PROVE  /\ HolderOf(u)' = HolderOf(u) \/ HolderOf(u)' = Outside
             /\ NoneClosed(u) => HolderOf(u)' = HolderOf(u)
  <2>1. NoneOpened(u)
    BY <1>4, <1>9 DEF NoneOpened, Adding
  <2> QED
    BY <1>6, <1>9, <2>1, FreeHolder
<1>10. CASE \E x \in ActiveSessions : MacOf(session[x].client) = MacOf(c)
  <2>1. PICK x \in ActiveSessions : MacOf(session[x].client) = MacOf(c)
    BY <1>10
  <2>2. x \in Session /\ Inserted(x)
    BY DEF ActiveSessions, Inserted
  <2>3. PICK t1 \in Token : t1 = session[x].token
    BY <2>2, <1>a, RowShape DEF SessionRow
  <2>4. \A s \in ActiveSessions : s # x => session'[s].status = "active"
    BY <1>4, <1>a, <2>1 DEF OneActivePerMac, Adding, ActiveSessions, Inserted
  <2>5. \A u \in Token : u # t1 => HolderOf(u)' = HolderOf(u)
    BY <1>7, <1>8, <1>9, <2>3, <2>4 DEF NoneClosed
  <2>6. HolderOf(t1)' = HolderOf(t1) \/ HolderOf(t1)' = Outside
    BY <1>7, <1>8, <1>9
  <2> QED
    BY <1>1, <1>5, <2>5, <2>6, Releases
<1>11. CASE \A x \in ActiveSessions : MacOf(session[x].client) # MacOf(c)
  <2>1. \A s \in ActiveSessions : session'[s].status = "active"
    BY <1>4, <1>11 DEF Adding, ActiveSessions, Inserted
  <2>2. \A u \in Token : HolderOf(u)' = HolderOf(u)
    BY <1>7, <1>8, <1>9, <2>1 DEF NoneClosed
  <2> QED
    BY <1>1, <1>5, <2>2, Stutters
<1> QED
  BY <1>10, <1>11

\* A handler's other steps change nothing, but for the device that is taken
\* off the network.
LEMMA OtherRefines ==
  ASSUME Exact, RefinementInv, RefinementInv', [Next]_vars,
         NEW r \in Request, PortalAuth(r),
         ~CreateAuthorize(r), ~MigrateAuthorize(r),
         ~CreateInsert(r), ~MigrateInsert(r)
  PROVE  [Paid!PaidNext]_(Paid!paidVars)
<1>a. /\ IInv /\ TypeOK /\ FetchedRowsExist /\ Reading /\ Reading' /\ Serial
      /\ PromptInv /\ OldIsTheOne /\ "delete" \notin Faults
  BY DEF RefinementInv, PromptInv, PeriodInv, IInv, Exact, Prompt
<1>b. \A q \in Request : q = r
  BY <1>a, OneAtATime
<1>1. \A u \in Token : DeadlineOf(u)' = DeadlineOf(u)
  BY <1>b, DeadlineKept
<1>2. ASSUME NEW u \in Token, ~Held(u), ~Held(u)', session' = session
      PROVE  HolderOf(u)' = HolderOf(u)
  BY <1>2, FreeHolder DEF NoneOpened, NoneClosed, ActiveSessions
<1>3. ASSUME req[r].pc \notin HoldingPc, req'[r].pc \notin HoldingPc,
             session' = session, now' = now, fw' = fw
      PROVE  [Paid!PaidNext]_(Paid!paidVars)
  BY <1>b, <1>1, <1>2, <1>3, Stutters DEF Held
<1>4. ASSUME \/ \E t \in Token, c \in Client :
                  ValidateUnused(r, t, c) \/ ValidateActive(r, t, c)
             \/ CreateRedeem(r) \/ MigrateFindsNothing(r)
      PROVE  [Paid!PaidNext]_(Paid!paidVars)
  <2>1. now' = now /\ session' = session /\ fw' = fw
    BY <1>4
    DEF ValidateUnused, ValidateActive, CreateRedeem, MigrateFindsNothing
  <2>2. req[r].pc \notin HoldingPc
    BY <1>4 DEF ValidateUnused, ValidateActive, Starts, CreateRedeem,
                MigrateFindsNothing, Idle, HoldingPc, MigratePc
  <2>3. req'[r].pc \in {"create_authorize", "migrate_find", "idle"}
    BY <1>4, <1>a, FinishIdles
    DEF ValidateUnused, ValidateActive, CreateRedeem, MigrateFindsNothing,
        TypeOK
  <2> QED
    BY <1>3, <2>1, <2>2, <2>3 DEF HoldingPc, MigratePc
<1>5. CASE MigrateFind(r)
  <2>1. /\ now' = now /\ session' = session /\ fw' = fw
        /\ req[r].pc = "migrate_find"
    BY <1>5 DEF MigrateFind
  <2>2. PICK o \in ActiveSessions :
          /\ session[o].token = req[r].token
          /\ \/ req' = [req EXCEPT ![r] =
                  [pc |-> "migrate_deauthorize", token |-> req[r].token,
                   client |-> req[r].client, old |-> o,
                   remaining |-> Remaining(o)]]
             \/ Finish(r)
    BY <1>5 DEF MigrateFind
  <2>3. CASE Finish(r)
    <3>1. req'[r].pc = "idle"
      BY <2>3, <1>a, FinishIdles
    <3> QED
      BY <1>3, <2>1, <3>1 DEF HoldingPc, MigratePc
  <2>4. CASE ~Finish(r)
    <3>1. /\ req'[r].pc = "migrate_deauthorize" /\ req'[r].old = o
          /\ req'[r].token = req[r].token
      BY <2>2, <2>4, <1>a DEF TypeOK
    <3>2. PICK t \in Token : t = req[r].token
      BY <2>1, <1>a, RequestShape DEF Finding
    <3>3. \A u \in Token : ~Held(u) /\ (u # t => ~Held(u)')
      BY <1>b, <2>1, <3>1, <3>2 DEF Held, HoldingPc, MigratePc
    <3>4. HolderOf(t) = session[o].client
      BY <2>2, <3>2, <3>3, <1>a DEF Reading
    <3>5. HolderOf(t)' = session[o].client
      BY <2>1, <3>1, <3>2, <1>a DEF Reading, MigratePc
    <3>6. \A u \in Token : HolderOf(u)' = HolderOf(u)
      BY <1>2, <2>1, <3>3, <3>4, <3>5
    <3> QED
      BY <1>1, <2>1, <3>6, Stutters
  <2> QED
    BY <2>3, <2>4
<1>6. ASSUME MigrateDeauthorize(r) \/ MigrateClose(r)
      PROVE  /\ now' = now
             /\ session[req[r].old].client \in Client
             /\ \A u \in Token : HolderOf(u)' = HolderOf(u)
  <2>0. PICK t \in Token, o \in Session :
          t = req[r].token /\ o = req[r].old
    BY <1>6, <1>a, RequestShape DEF MigrateDeauthorize, MigrateClose, Migrating
  <2>1. /\ req[r].pc \in {"migrate_deauthorize", "migrate_close"}
        /\ req'[r].pc \in {"migrate_close", "migrate_authorize"}
        /\ req'[r].token = t /\ req'[r].old = o
        /\ now' = now
    BY <1>6, <1>a, <2>0, RequestShape, GotoKeeps
    DEF MigrateDeauthorize, MigrateClose
  <2>2. Inserted(o) /\ session[o].token = t
    BY <2>0, <2>1, <1>a DEF FetchedRowsExist, OldIsTheOne, MigratePc
  <2>3. /\ session'[o].client = session[o].client
        /\ session[o].client \in Client
    BY <2>2, <1>a, RowsAreKept, RowShape DEF SameRow, SessionRow
  <2>4. HolderOf(t)' = HolderOf(t)
    <3>1. HolderOf(t) = session[o].client
      BY <2>0, <2>1, <1>a DEF Reading, MigratePc
    <3>2. HolderOf(t)' = session'[o].client
      BY <2>1, <1>a DEF Reading, MigratePc
    <3> QED
      BY <2>3, <3>1, <3>2
  <2>5. \A x \in Session : x # o => session'[x] = session[x]
    <3>1. CASE session' = session
      BY <3>1
    <3>2. CASE MigrateClose(r)
      BY <3>2, <2>0, <1>a, SetSessionCloses DEF MigrateClose
    <3> QED
      BY <1>6, <3>1, <3>2 DEF MigrateDeauthorize
  <2>6. ASSUME NEW u \in Token, u # t
        PROVE  HolderOf(u)' = HolderOf(u)
    <3>1. ~Held(u) /\ ~Held(u)'
      BY <1>b, <2>0, <2>1, <2>6 DEF Held
    <3>2. Closing
      BY <1>b, <1>a, ClosingSteps
    <3>3. NoneClosed(u)
      BY <2>2, <2>5, <2>6 DEF NoneClosed, ActiveSessions
    <3> QED
      BY <3>1, <3>2, <3>3, ClosingOpensNone, FreeHolder
  <2> QED
    BY <2>0, <2>1, <2>3, <2>4, <2>6
<1>7. CASE MigrateDeauthorize(r)
  <2>1. PICK c \in Client : c = session[req[r].old].client
    BY <1>6, <1>7
  <2>2. fw' = [fw EXCEPT ![c] = 0]
    BY <1>7, <1>a, <2>1 DEF MigrateDeauthorize, DeleteElement
  <2> QED
    BY <1>1, <1>6, <1>7, <2>2, Cuts
<1>8. CASE MigrateClose(r)
  <2>1. fw' = fw
    BY <1>8 DEF MigrateClose
  <2> QED
    BY <1>1, <1>6, <1>8, <2>1, Stutters
<1>9. ~InsertRefused(r) /\ ~RequestFails(r)
  BY <1>a, InsertNotRefused, OneAtATime
<1> QED
  BY <1>4, <1>5, <1>7, <1>8, <1>9 DEF PortalAuth

\* At first no period is sold.
LEMMA RefinementInit ==
  ASSUME Init
  PROVE  Paid!PaidInit /\ OldOff
<1>1. \A r \in Request : req[r].pc = "idle"
  BY DEF Init, Idle
<1>2. \A s \in Session : ~Inserted(s) /\ session[s].status # "active"
  BY DEF Init, Inserted, NoRow
<1>3. ASSUME NEW t \in Token
      PROVE  RowsOf(t) = {} /\ Redeeming(t) = {} /\ Moving(t) = {}
  BY <1>1, <1>2 DEF RowsOf, Redeeming, Moving
<1>4. \A t \in Token : DeadlineOf(t) = 0 /\ HolderOf(t) = Outside
  BY <1>3 DEF DeadlineOf, HolderOf
<1>5. OldOff
  BY <1>1 DEF OldOff
<1> QED
  BY <1>4, <1>5 DEF Paid!PaidInit, Init

(* While portal requests come one at a time, run to their end within a     *)
(* second and nft deletes what it is told to, every step of the handlers,  *)
(* the manager, the ticker with its failures, the purges and the kernel is *)
(* a step of PaidTokens or changes nothing of it: a token is redeemed      *)
(* once, its period never gets longer, it passes from device to device     *)
(* only when the first is off the network, and the set grants no time      *)
(* beyond a deadline.                                                      *)
THEOREM SessionsImplementPaidTokens ==
  ASSUME Exact
  PROVE  Spec => ImplementsPaidTokens
<1>1. Init => Paid!PaidInit /\ OldOff
  BY RefinementInit
<1>2. PromptInv => Reading
  BY ReadingHolds DEF Exact, Prompt
<1>3. PromptInv /\ OldOff /\ PromptInv' /\ [Next]_vars => OldOff'
  <2> SUFFICES ASSUME PromptInv, OldOff, PromptInv', [Next]_vars
               PROVE  OldOff'
    OBVIOUS
  <2>1. TypeOK'
    BY DEF PromptInv, PeriodInv, IInv
  <2> QED
    BY <2>1, OldOffStep
<1>4. RefinementInv /\ RefinementInv' /\ [Next]_vars
        => [Paid!PaidNext]_(Paid!paidVars)
  BY QuietRefines, AuthorizeRedeems, AuthorizeMigrates, InsertRefines,
     OtherRefines
<1>5. Spec => []PromptInv
  BY PromptInductive, PTL DEF Exact
<1>6. PromptInv /\ OldOff /\ OneActivePerMac /\ Reading => RefinementInv
  BY DEF RefinementInv
<1> QED
  BY <1>1, <1>2, <1>3, <1>4, <1>5, <1>6, OneSessionPerDevice, PTL
  DEF Spec, ImplementsPaidTokens, Paid!PaidSpec
=============================================================================
