--------------------------- MODULE SessionsProofs ---------------------------
(***************************************************************************)
(* Proofs about Sessions, for any number of clients, tokens, sessions and  *)
(* portal handlers, any durations, and every choice of failures, restarts  *)
(* and kernels.                                                            *)
(***************************************************************************)
EXTENDS Sessions, TLAPS

-----------------------------------------------------------------------------
(***************************************************************************)
(* What the local states of a handler hold at each program counter.        *)
(***************************************************************************)

\* The locals a handler has at each of its program counters.
LEMMA RequestShape ==
  ASSUME TypeOK, NEW r \in Request
  PROVE  /\ req[r].pc \in {"create_authorize", "create_insert", "create_redeem"}
              => req[r] \in Creating
         /\ req[r].pc = "migrate_find" => req[r] \in Finding
         /\ req[r].pc \in {"migrate_deauthorize", "migrate_close",
                           "migrate_authorize", "migrate_insert"}
              => req[r] \in Migrating
BY DEF TypeOK, Idle, Creating, Finding, Migrating

\* The locals a loop has at each of its program counters.
LEMMA JobShape ==
  ASSUME TypeOK
  PROVE  /\ job.pc = "loop" => job \in Looping
         /\ job.pc \in {"expire_session", "expire_token"} => job \in Expiring
         /\ job.pc \in {"purge_sessions", "purge_tokens"} => job \in Purging
BY DEF TypeOK, Idle, Looping, Expiring, Purging

\* The locals of the admin's disconnect.
LEMMA AdminShape ==
  ASSUME TypeOK
  PROVE  admin.pc \in {"deauthorize", "mark"} => admin \in Disconnecting
BY DEF TypeOK, Idle, Disconnecting

(* The handlers, the admin and the loops hold copies of rows that they have *)
(* fetched; here they hold the ids, and every id they hold was handed out. *)
FetchedRowsExist ==
  /\ \A r \in Request :
       req[r].pc \in {"migrate_deauthorize", "migrate_close",
                      "migrate_authorize", "migrate_insert"}
         => Inserted(req[r].old)
  /\ admin.pc \in {"deauthorize", "mark"} => Inserted(admin.target)
  /\ job.pc \in {"loop", "expire_session", "expire_token"}
       => \A s \in job.rows : Inserted(s)
  /\ job.pc \in {"expire_session", "expire_token"} => Inserted(job.row)

(* TypeOK is not inductive alone: the columns of a fetched row have their   *)
(* types only if the row was inserted.                                     *)
IInv == TypeOK /\ FetchedRowsExist

\* A row that was inserted is a row, in the table or purged.
LEMMA RowShape ==
  ASSUME TypeOK, NEW s \in Session
  PROVE  Inserted(s) => session[s] \in SessionRow
BY DEF TypeOK, Inserted, NoRow, SessionRow, SessionStatus

-----------------------------------------------------------------------------
(***************************************************************************)
(* What the statements and commands return.                                *)
(***************************************************************************)

\* UPDATE of a status keeps the session table's type.
LEMMA SetSessionType ==
  ASSUME TypeOK, NEW s \in Session, NEW st \in SessionStatus, SetSession(s, st)
  PROVE  session' \in [Session -> SessionRow \cup {NoRow}]
BY RowShape DEF TypeOK, SetSession, InTable, Inserted, SessionRow, SessionStatus

\* So does the INSERT, with the older rows it closes.
LEMMA InsertSessionType ==
  ASSUME TypeOK, NEW t \in Token, NEW c \in Client, NEW e \in Nat,
         InsertSession(t, c, e)
  PROVE  session' \in [Session -> SessionRow \cup {NoRow}]
<1>1. PICK new \in Session :
        session' = [s \in Session |->
          IF s = new
            THEN [status |-> "active", token |-> t, client |-> c,
                  expires |-> e, started |-> now]
            ELSE IF session[s].status = "active"
                      /\ MacOf(session[s].client) = MacOf(c)
                   THEN [session[s] EXCEPT !.status = "disconnected"]
                   ELSE session[s]]
  BY DEF InsertSession
<1>2. ASSUME NEW s \in Session
      PROVE  session'[s] \in SessionRow \cup {NoRow}
  <2>1. CASE s = new
    BY <1>1, <2>1 DEF TypeOK, SessionRow, SessionStatus
  <2>2. CASE s # new /\ session[s].status = "active"
    <3>1. session[s] \in SessionRow
      BY <2>2, RowShape DEF Inserted
    <3>2. [session[s] EXCEPT !.status = "disconnected"] \in SessionRow
      BY <3>1 DEF SessionRow, SessionStatus
    <3> QED
      BY <1>1, <2>2, <3>1, <3>2
  <2>3. CASE s # new /\ session[s].status # "active"
    BY <1>1, <2>3 DEF TypeOK
  <2> QED
    BY <2>1, <2>2, <2>3
<1> QED
  BY <1>1, <1>2

\* The updates of a token keep the token table's type.
LEMMA TokenUpdateType ==
  ASSUME TypeOK, NEW t \in Token, NEW e \in Nat,
         RedeemToken(t, e) \/ SetTokenExpired(t)
  PROVE  token' \in [Token -> TokenRow]
BY DEF TypeOK, RedeemToken, SetTokenExpired, TokenRow, TokenStatus

\* An nft command leaves a time-out, or none, for every client.
LEMMA FirewallType ==
  ASSUME TypeOK, NEW c \in Client, NEW secs \in Nat,
         AddElement(c, secs) \/ DeleteElement(c)
  PROVE  fw' \in [Client -> Nat]
<1>1. now + secs \in Nat
  BY DEF TypeOK
<1>2. \/ fw' = [fw EXCEPT ![c] = now + secs]
      \/ fw' = [fw EXCEPT ![c] = 0]
      \/ fw' = fw
  BY DEF AddElement, DeleteElement
<1> QED
  BY <1>1, <1>2 DEF TypeOK

\* The clamped remaining time is never negative.
LEMMA RemainingType ==
  ASSUME TypeOK, NEW s \in Session, Inserted(s)
  PROVE  Remaining(s) \in Nat
BY RowShape DEF TypeOK, Remaining, SessionRow

-----------------------------------------------------------------------------
(***************************************************************************)
(* Type correctness.                                                       *)
(***************************************************************************)

\* The empty database, set and handlers have their types.
LEMMA TypeInit == Init => TypeOK
BY ConstantsAssumption
DEF Init, TypeOK, TokenRow, TokenStatus, Client

\* A step of a portal handler keeps the types.
LEMMA RequestTypeStep ==
  ASSUME IInv, NEW r \in Request, PortalAuth(r)
  PROVE  TypeOK'
<1> USE ConstantsAssumption
<1>a. TypeOK /\ FetchedRowsExist
  BY DEF IInv
<1> USE <1>a
<1>1. Idle \in {Idle} \cup Creating \cup Finding \cup Migrating
  OBVIOUS
<1>2. ASSUME Finish(r)
      PROVE  req' \in [Request -> {Idle} \cup Creating \cup Finding \cup Migrating]
  BY <1>2, <1>1 DEF TypeOK, Finish
<1>3. ASSUME NEW t \in Token, NEW c \in Client, ValidateUnused(r, t, c)
      PROVE  TypeOK'
  <2>1. now + Duration \in Nat
    BY DEF TypeOK
  <2>2. [pc |-> "create_authorize", token |-> t, client |-> c,
         expires |-> now + Duration] \in Creating
    BY <2>1 DEF Creating
  <2> QED
    BY <1>3, <2>2 DEF TypeOK, ValidateUnused
<1>4. ASSUME NEW t \in Token, NEW c \in Client, ValidateActive(r, t, c)
      PROVE  TypeOK'
  <2>1. [pc |-> "migrate_find", token |-> t, client |-> c] \in Finding
    BY DEF Finding
  <2> QED
    BY <1>4, <2>1 DEF TypeOK, ValidateActive
<1>5. CASE CreateAuthorize(r)
  <2>1. req[r] \in Creating
    BY <1>5, RequestShape DEF CreateAuthorize
  <2>2. req[r].client \in Client /\ Duration \in Nat
    BY <2>1 DEF Creating
  <2>3. fw' \in [Client -> Nat]
    BY <1>5, <2>2, FirewallType DEF CreateAuthorize
  <2>4. [req[r] EXCEPT !.pc = "create_insert"] \in Creating
    BY <2>1 DEF Creating
  <2> QED
    BY <1>5, <2>3, <2>4 DEF TypeOK, CreateAuthorize, Goto
<1>6. CASE CreateInsert(r)
  <2>1. req[r] \in Creating
    BY <1>6, RequestShape DEF CreateInsert
  <2>2. /\ req[r].token \in Token
        /\ req[r].client \in Client
        /\ req[r].expires \in Nat
    BY <2>1 DEF Creating
  <2>3. session' \in [Session -> SessionRow \cup {NoRow}]
    BY <1>6, <2>2, InsertSessionType DEF CreateInsert
  <2>4. [req[r] EXCEPT !.pc = "create_redeem"] \in Creating
    BY <2>1 DEF Creating
  <2> QED
    BY <1>6, <2>3, <2>4 DEF TypeOK, CreateInsert, Goto
<1>7. CASE CreateRedeem(r)
  <2>1. req[r] \in Creating
    BY <1>7, RequestShape DEF CreateRedeem
  <2>2. req[r].token \in Token /\ req[r].expires \in Nat
    BY <2>1 DEF Creating
  <2>3. token' \in [Token -> TokenRow]
    BY <1>7, <2>2, TokenUpdateType DEF CreateRedeem
  <2> QED
    BY <1>7, <1>2, <2>3 DEF TypeOK, CreateRedeem
<1>8. CASE MigrateFind(r)
  <2>1. PICK s \in ActiveSessions :
          IF Remaining(s) > 0
            THEN req' = [req EXCEPT ![r] =
                   [pc |-> "migrate_deauthorize", token |-> req[r].token,
                    client |-> req[r].client, old |-> s,
                    remaining |-> Remaining(s)]]
            ELSE Finish(r)
    BY <1>8 DEF MigrateFind
  <2>2. s \in Session /\ Remaining(s) \in Nat
    BY RemainingType DEF ActiveSessions, Inserted
  <2>3. req[r].token \in Token /\ req[r].client \in Client
    BY <1>8, RequestShape DEF MigrateFind, Finding
  <2>4. CASE Remaining(s) > 0
    <3>1. [pc |-> "migrate_deauthorize", token |-> req[r].token,
           client |-> req[r].client, old |-> s,
           remaining |-> Remaining(s)] \in Migrating
      BY <2>2, <2>3, <2>4 DEF Migrating
    <3> QED
      BY <1>8, <2>1, <2>4, <3>1 DEF TypeOK, MigrateFind
  <2>5. CASE ~(Remaining(s) > 0)
    BY <1>2, <1>8, <2>1, <2>5 DEF TypeOK, MigrateFind
  <2> QED
    BY <2>4, <2>5
<1>9. CASE MigrateFindsNothing(r) \/ InsertRefused(r) \/ RequestFails(r)
  BY <1>9, <1>2 DEF TypeOK, MigrateFindsNothing, InsertRefused, RequestFails
<1>10. ASSUME NEW pc \in {"migrate_close", "migrate_authorize", "migrate_insert"},
              req[r] \in Migrating, Goto(r, pc)
       PROVE  req' \in [Request -> {Idle} \cup Creating \cup Finding \cup Migrating]
  <2>1. [req[r] EXCEPT !.pc = pc] \in Migrating
    BY <1>10 DEF Migrating
  <2> QED
    BY <1>10, <2>1 DEF TypeOK, Goto
<1>11. ASSUME req[r] \in Migrating
       PROVE  /\ req[r].token \in Token
              /\ req[r].client \in Client
              /\ req[r].old \in Session
              /\ req[r].remaining \in Nat
  BY <1>11 DEF Migrating
<1>12. CASE MigrateDeauthorize(r)
  <2>1. req[r] \in Migrating
    BY <1>12, RequestShape DEF MigrateDeauthorize
  <2>2. fw' \in [Client -> Nat]
    <3>1. fw' = [fw EXCEPT ![session[req[r].old].client] = 0] \/ fw' = fw
      BY <1>12 DEF MigrateDeauthorize, DeleteElement
    <3> QED
      BY <3>1 DEF TypeOK
  <2> QED
    BY <1>12, <1>10, <2>1, <2>2 DEF TypeOK, MigrateDeauthorize
<1>13. CASE MigrateClose(r)
  <2>1. req[r] \in Migrating
    BY <1>13, RequestShape DEF MigrateClose
  <2>2. session' \in [Session -> SessionRow \cup {NoRow}]
    BY <1>13, <1>11, <2>1, SetSessionType DEF MigrateClose, SessionStatus
  <2> QED
    BY <1>13, <1>10, <2>1, <2>2 DEF TypeOK, MigrateClose
<1>14. CASE MigrateAuthorize(r)
  <2>1. req[r] \in Migrating
    BY <1>14, RequestShape DEF MigrateAuthorize
  <2>2. fw' \in [Client -> Nat]
    BY <1>14, <1>11, <2>1, FirewallType DEF MigrateAuthorize
  <2> QED
    BY <1>14, <1>10, <2>1, <2>2 DEF TypeOK, MigrateAuthorize
<1>15. CASE MigrateInsert(r)
  <2>1. req[r] \in Migrating
    BY <1>15, RequestShape DEF MigrateInsert
  <2>2. session[req[r].old].expires \in Nat
    <3>1. Inserted(req[r].old)
      BY <1>15 DEF FetchedRowsExist, MigrateInsert
    <3> QED
      BY <3>1, <1>11, <2>1, RowShape DEF SessionRow
  <2>3. session' \in [Session -> SessionRow \cup {NoRow}]
    BY <1>15, <1>11, <2>1, <2>2, InsertSessionType DEF MigrateInsert
  <2> QED
    BY <1>15, <1>2, <2>3 DEF TypeOK, MigrateInsert
<1> QED
  BY <1>3, <1>4, <1>5, <1>6, <1>7, <1>8, <1>9, <1>12, <1>13, <1>14, <1>15
  DEF PortalAuth

\* A step of the admin keeps the types.
LEMMA AdminTypeStep ==
  ASSUME IInv, AdminStep
  PROVE  TypeOK'
<1>a. TypeOK /\ FetchedRowsExist
  BY DEF IInv
<1> USE <1>a
<1>1. ASSUME NEW t \in Token, RevokeToken(t)
      PROVE  TypeOK'
  BY <1>1 DEF TypeOK, RevokeToken, TokenRow, TokenStatus
<1>2. ASSUME NEW s \in Session, DisconnectRead(s)
      PROVE  TypeOK'
  BY <1>2 DEF TypeOK, DisconnectRead, Disconnecting
<1>3. CASE DisconnectDeauthorize
  <2>1. admin \in Disconnecting
    BY <1>3, AdminShape DEF DisconnectDeauthorize
  <2>2. admin' \in Disconnecting
    BY <1>3, <2>1 DEF DisconnectDeauthorize, Disconnecting
  <2>3. fw' = [fw EXCEPT ![session[admin.target].client] = 0] \/ fw' = fw
    BY <1>3 DEF DisconnectDeauthorize, DeleteElement
  <2>4. fw' \in [Client -> Nat]
    BY <2>3 DEF TypeOK
  <2> QED
    BY <1>3, <2>2, <2>4 DEF TypeOK, DisconnectDeauthorize
<1>4. CASE DisconnectMark
  <2>1. admin \in Disconnecting
    BY <1>4, AdminShape DEF DisconnectMark
  <2>2. session' \in [Session -> SessionRow \cup {NoRow}]
    BY <1>4, <2>1, SetSessionType DEF DisconnectMark, Disconnecting, SessionStatus
  <2> QED
    BY <1>4, <2>2 DEF TypeOK, DisconnectMark
<1> QED
  BY <1>1, <1>2, <1>3, <1>4 DEF AdminStep

\* A step of the ticker or of the restore keeps the types.
LEMMA JobTypeStep ==
  ASSUME IInv, JobStep
  PROVE  TypeOK'
<1>a. TypeOK /\ FetchedRowsExist
  BY DEF IInv
<1> USE <1>a, ConstantsAssumption
<1>1. ASSUME NEW rows \in SUBSET Session, Loop(rows)
      PROVE  job' \in Looping
  BY <1>1 DEF Loop, Looping
<1>2. ASSUME NEW rows \in SUBSET Session, NEW s \in Session,
             job' = [pc |-> "expire_session", rows |-> rows, row |-> s]
      PROVE  job' \in Expiring
  BY <1>2 DEF Expiring
<1>3. ActiveSessions \in SUBSET Session
  BY DEF ActiveSessions
<1>4. CASE TickerStart \/ BootStart
  <2>1. job' \in Looping
    BY <1>1, <1>3, <1>4 DEF TickerStart, BootStart
  <2> QED
    BY <1>4, <2>1 DEF TypeOK, TickerStart, BootStart
<1>5. ASSUME NEW s \in Session, job.pc = "loop"
      PROVE  job.rows \in SUBSET Session /\ job.rows \ {s} \in SUBSET Session
  BY <1>5, JobShape DEF Looping
<1>6. ASSUME NEW s \in Session, s \in job.rows, job.pc = "loop"
      PROVE  Inserted(s) /\ session[s].client \in Client
  <2>1. Inserted(s)
    BY <1>6 DEF FetchedRowsExist
  <2> QED
    BY <2>1, RowShape DEF SessionRow
<1>7. ASSUME NEW s \in Session, TickerSkip(s)
      PROVE  TypeOK'
  <2>1. job' \in Looping
    BY <1>1, <1>5, <1>7 DEF TickerSkip
  <2> QED
    BY <1>7, <2>1 DEF TypeOK, TickerSkip
<1>8. ASSUME NEW s \in Session, TickerDeauthorize(s)
      PROVE  TypeOK'
  <2>1. job' \in Expiring
    BY <1>2, <1>5, <1>8 DEF TickerDeauthorize
  <2>2. 0 \in Nat /\ session[s].client \in Client
    BY <1>6, <1>8 DEF TickerDeauthorize
  <2>3. fw' \in [Client -> Nat]
    BY <1>8, <2>2, FirewallType DEF TickerDeauthorize
  <2> QED
    BY <1>8, <2>1, <2>3 DEF TypeOK, TickerDeauthorize
<1>9. ASSUME NEW s \in Session, BootRestore(s)
      PROVE  TypeOK'
  <2>1. job' \in Looping
    BY <1>1, <1>5, <1>9 DEF BootRestore
  <2>2. Remaining(s) \in Nat /\ session[s].client \in Client
    BY <1>6, <1>9, RemainingType DEF BootRestore
  <2>3. fw' \in [Client -> Nat]
    BY <1>9, <2>2, FirewallType DEF BootRestore
  <2> QED
    BY <1>9, <2>1, <2>3 DEF TypeOK, BootRestore
<1>10. ASSUME NEW s \in Session, BootExpire(s)
       PROVE  TypeOK'
  <2>1. job' \in Expiring
    BY <1>2, <1>5, <1>10 DEF BootExpire
  <2> QED
    BY <1>10, <2>1 DEF TypeOK, BootExpire
<1>11. CASE ExpireSession
  <2>1. job \in Expiring
    BY <1>11, JobShape DEF ExpireSession
  <2>2. job' \in Expiring
    BY <1>11, <2>1 DEF ExpireSession, Expiring
  <2>3. session' \in [Session -> SessionRow \cup {NoRow}]
    BY <1>11, <2>1, SetSessionType DEF ExpireSession, Expiring, SessionStatus
  <2> QED
    BY <1>11, <2>2, <2>3 DEF TypeOK, ExpireSession
<1>12. CASE ExpireToken
  <2>1. job \in Expiring
    BY <1>12, JobShape DEF ExpireToken
  <2>2. job.row \in Session /\ Inserted(job.row)
    BY <1>12, <2>1 DEF Expiring, FetchedRowsExist, ExpireToken
  <2>3. session[job.row].token \in Token /\ 0 \in Nat
    BY <2>2, RowShape DEF SessionRow
  <2>4. token' \in [Token -> TokenRow]
    BY <1>12, <2>3, TokenUpdateType DEF ExpireToken
  <2>5. job' \in Looping
    BY <1>1, <1>12, <2>1 DEF ExpireToken, Expiring
  <2> QED
    BY <1>12, <2>4, <2>5 DEF TypeOK, ExpireToken
<1>13. CASE JobStepFails
  <2>1. job.pc \in {"expire_session", "expire_token"} => job.rows \in SUBSET Session
    BY JobShape DEF Expiring
  <2>2. job.pc = "loop" => job.rows \in SUBSET Session
    BY JobShape DEF Looping
  <2>3. job' \in Looping
    BY <1>1, <1>13, <2>1, <2>2 DEF JobStepFails
  <2> QED
    BY <1>13, <2>3 DEF TypeOK, JobStepFails
<1>14. CASE LoopEnd
  BY <1>14 DEF TypeOK, LoopEnd, Purging
<1>15. CASE PurgeSessions
  <2>1. ASSUME NEW s \in Session
        PROVE  session'[s] \in SessionRow \cup {NoRow}
    <3>1. CASE session[s].status \in {"expired", "disconnected"}
      <4>1. session[s] \in SessionRow
        BY <3>1, RowShape DEF Inserted
      <4> QED
        BY <1>15, <4>1 DEF PurgeSessions, SessionRow
    <3>2. CASE session[s].status \notin {"expired", "disconnected"}
      BY <1>15, <3>2 DEF PurgeSessions, TypeOK
    <3> QED
      BY <3>1, <3>2
  <2>2. session' \in [Session -> SessionRow \cup {NoRow}]
    BY <1>15, <2>1 DEF PurgeSessions
  <2> QED
    BY <1>15, <2>2 DEF TypeOK, PurgeSessions, Purging
<1>16. CASE PurgeTokens
  <2>1. token' \in [Token -> TokenRow]
    BY <1>16 DEF TypeOK, PurgeTokens, TokenRow
  <2> QED
    BY <1>16, <2>1 DEF TypeOK, PurgeTokens
<1>17. CASE PurgeFails
  BY <1>17 DEF TypeOK, PurgeFails
<1> QED
  BY <1>4, <1>7, <1>8, <1>9, <1>10, <1>11, <1>12, <1>13, <1>14, <1>15, <1>16,
     <1>17
  DEF JobStep

\* Every step keeps the types.
LEMMA TypeStep == IInv /\ [Next]_vars => TypeOK'
<1> SUFFICES ASSUME IInv, [Next]_vars
             PROVE  TypeOK'
  OBVIOUS
<1>a. TypeOK
  BY DEF IInv
<1>1. CASE Crash
  BY <1>a, <1>1 DEF TypeOK, Crash
<1>2. CASE Tick
  BY <1>a, <1>2 DEF TypeOK, Tick
<1>3. CASE UNCHANGED vars
  BY <1>a, <1>3 DEF TypeOK, vars
<1> QED
  BY <1>1, <1>2, <1>3, RequestTypeStep, AdminTypeStep, JobTypeStep DEF Next

-----------------------------------------------------------------------------
(***************************************************************************)
(* A row that was inserted stays known, with the columns it was given.     *)
(***************************************************************************)

\* Columns other than status are written once, by the INSERT.
SameRow(s) ==
  /\ Inserted(s)'
  /\ session'[s].token = session[s].token
  /\ session'[s].client = session[s].client
  /\ session'[s].expires = session[s].expires

\* UPDATE of a status leaves a row's other columns alone.
LEMMA SetSessionKeepsRow ==
  ASSUME TypeOK, NEW s \in Session, NEW st \in SessionStatus,
         SetSession(s, st), NEW x \in Session, Inserted(x)
  PROVE  SameRow(x)
<1>1. session[x] \in SessionRow
  BY RowShape
<1>2. CASE session' = session
  BY <1>2 DEF SameRow, Inserted
<1>3. CASE session' = [session EXCEPT ![s].status = st]
  BY <1>1, <1>3 DEF TypeOK, SameRow, Inserted, SessionRow, SessionStatus
<1> QED
  BY <1>2, <1>3 DEF SetSession

\* The INSERT leaves the columns of the rows before it alone.
LEMMA InsertSessionKeepsRow ==
  ASSUME TypeOK, NEW t \in Token, NEW c \in Client, NEW e \in Nat,
         InsertSession(t, c, e), NEW x \in Session, Inserted(x)
  PROVE  SameRow(x)
<1>1. session[x] \in SessionRow
  BY RowShape
<1>2. PICK new \in Session :
        /\ session[new] = NoRow
        /\ session' = [s \in Session |->
             IF s = new
               THEN [status |-> "active", token |-> t, client |-> c,
                     expires |-> e, started |-> now]
               ELSE IF session[s].status = "active"
                         /\ MacOf(session[s].client) = MacOf(c)
                      THEN [session[s] EXCEPT !.status = "disconnected"]
                      ELSE session[s]]
  BY DEF InsertSession
<1>3. x # new
  BY <1>2 DEF Inserted, NoRow
<1>4. \/ session'[x] = session[x]
      \/ session'[x] = [session[x] EXCEPT !.status = "disconnected"]
  BY <1>2, <1>3
<1> QED
  BY <1>1, <1>4 DEF SameRow, Inserted, SessionRow

\* A purged row keeps its columns, for whoever still holds a copy.
LEMMA PurgeSessionsKeepsRow ==
  ASSUME TypeOK, PurgeSessions, NEW x \in Session, Inserted(x)
  PROVE  SameRow(x)
<1>1. session[x] \in SessionRow
  BY RowShape
<1>2. \/ session'[x] = session[x]
      \/ session'[x] = [session[x] EXCEPT !.status = "purged"]
  BY DEF PurgeSessions
<1> QED
  BY <1>1, <1>2 DEF SameRow, Inserted, SessionRow

\* The steps that write a session row, each with what its statement is given.
LEMMA SessionWrites ==
  ASSUME IInv, [Next]_vars
  PROVE  \/ session' = session
         \/ \E s \in Session, st \in {"expired", "disconnected"} : SetSession(s, st)
         \/ \E t \in Token, c \in Client, e \in Nat : InsertSession(t, c, e)
         \/ PurgeSessions
<1>a. TypeOK /\ FetchedRowsExist
  BY DEF IInv
<1> USE <1>a
<1>1. ASSUME NEW r \in Request, CreateInsert(r)
      PROVE  \E t \in Token, c \in Client, e \in Nat : InsertSession(t, c, e)
  <2>1. req[r] \in Creating
    BY <1>1, RequestShape DEF CreateInsert
  <2> QED
    BY <1>1, <2>1 DEF CreateInsert, Creating
<1>2. ASSUME NEW r \in Request, MigrateInsert(r)
      PROVE  \E t \in Token, c \in Client, e \in Nat : InsertSession(t, c, e)
  <2>1. req[r] \in Migrating
    BY <1>2, RequestShape DEF MigrateInsert
  <2>2. Inserted(req[r].old)
    BY <1>2 DEF FetchedRowsExist, MigrateInsert
  <2>3. session[req[r].old].expires \in Nat
    BY <2>1, <2>2, RowShape DEF Migrating, SessionRow
  <2> QED
    BY <1>2, <2>1, <2>3 DEF MigrateInsert, Migrating
<1>3. ASSUME NEW r \in Request, MigrateClose(r)
      PROVE  \E s \in Session, st \in {"expired", "disconnected"} : SetSession(s, st)
  <2>1. req[r] \in Migrating
    BY <1>3, RequestShape DEF MigrateClose
  <2> QED
    BY <1>3, <2>1 DEF MigrateClose, Migrating
<1>4. ASSUME NEW r \in Request, PortalAuth(r),
             ~CreateInsert(r), ~MigrateInsert(r), ~MigrateClose(r)
      PROVE  session' = session
  BY <1>4 DEF PortalAuth, ValidateUnused, ValidateActive, CreateAuthorize,
       CreateRedeem, MigrateFind, MigrateFindsNothing, MigrateDeauthorize,
       MigrateAuthorize, InsertRefused, RequestFails
<1>5. ASSUME AdminStep
      PROVE  \/ session' = session
             \/ \E s \in Session, st \in {"expired", "disconnected"} :
                  SetSession(s, st)
  <2>1. CASE DisconnectMark
    <3>1. admin.target \in Session
      BY <2>1, AdminShape DEF DisconnectMark, Disconnecting
    <3> QED
      BY <2>1, <3>1 DEF DisconnectMark
  <2>2. CASE ~DisconnectMark
    BY <1>5, <2>2 DEF AdminStep, RevokeToken, DisconnectRead, DisconnectDeauthorize
  <2> QED
    BY <2>1, <2>2
<1>6. ASSUME JobStep
      PROVE  \/ session' = session
             \/ \E s \in Session, st \in {"expired", "disconnected"} :
                  SetSession(s, st)
             \/ PurgeSessions
  <2>1. CASE ExpireSession
    <3>1. job.row \in Session
      BY <2>1, JobShape DEF ExpireSession, Expiring
    <3> QED
      BY <2>1, <3>1 DEF ExpireSession
  <2>2. CASE ~ExpireSession /\ ~PurgeSessions
    BY <1>6, <2>2 DEF JobStep, TickerStart, BootStart, TickerSkip,
         TickerDeauthorize, BootRestore, BootExpire, ExpireToken,
         JobStepFails, LoopEnd, PurgeFails, PurgeTokens
  <2> QED
    BY <2>1, <2>2
<1>7. CASE Crash \/ Tick \/ UNCHANGED vars
  BY <1>7 DEF Crash, Tick, vars
<1> QED
  BY <1>1, <1>2, <1>3, <1>4, <1>5, <1>6, <1>7 DEF Next

\* No step takes an inserted row's columns away.
LEMMA RowsAreKept ==
  ASSUME IInv, [Next]_vars, NEW x \in Session, Inserted(x)
  PROVE  SameRow(x)
<1>a. TypeOK
  BY DEF IInv
<1>1. CASE session' = session
  BY <1>1 DEF SameRow, Inserted
<1>2. ASSUME NEW s \in Session, NEW st \in {"expired", "disconnected"},
             SetSession(s, st)
      PROVE  SameRow(x)
  BY <1>a, <1>2, SetSessionKeepsRow DEF SessionStatus
<1>3. ASSUME NEW t \in Token, NEW c \in Client, NEW e \in Nat,
             InsertSession(t, c, e)
      PROVE  SameRow(x)
  BY <1>a, <1>3, InsertSessionKeepsRow
<1>4. CASE PurgeSessions
  BY <1>a, <1>4, PurgeSessionsKeepsRow
<1> QED
  BY <1>1, <1>2, <1>3, <1>4, SessionWrites

-----------------------------------------------------------------------------
\* At first nobody holds a row.
LEMMA FetchedRowsInit == Init => FetchedRowsExist
BY DEF Init, FetchedRowsExist, Idle

\* A handler writes its own locals only.
LEMMA OtherRequests ==
  ASSUME TypeOK, NEW x \in Request, PortalAuth(x), NEW r \in Request, r # x
  PROVE  req'[r] = req[r]
<1>1. ASSUME NEW v, req' = [req EXCEPT ![x] = v]
      PROVE  req'[r] = req[r]
  BY <1>1 DEF TypeOK
<1>2. ASSUME Finish(x)
      PROVE  req'[r] = req[r]
  BY <1>1, <1>2 DEF Finish
<1>3. ASSUME NEW t \in Token, NEW c \in Client,
             ValidateUnused(x, t, c) \/ ValidateActive(x, t, c)
      PROVE  req'[r] = req[r]
  BY <1>1, <1>3 DEF ValidateUnused, ValidateActive
<1>4. CASE MigrateFind(x)
  BY <1>1, <1>2, <1>4 DEF MigrateFind
<1>5. CASE \/ CreateAuthorize(x) \/ CreateInsert(x) \/ MigrateDeauthorize(x)
           \/ MigrateClose(x) \/ MigrateAuthorize(x)
  BY <1>5 DEF TypeOK, CreateAuthorize, CreateInsert, MigrateDeauthorize,
     MigrateClose, MigrateAuthorize, Goto
<1>6. CASE \/ CreateRedeem(x) \/ MigrateFindsNothing(x) \/ MigrateInsert(x)
           \/ InsertRefused(x) \/ RequestFails(x)
  BY <1>2, <1>6 DEF CreateRedeem, MigrateFindsNothing, MigrateInsert,
     InsertRefused, RequestFails
<1> QED
  BY <1>3, <1>4, <1>5, <1>6 DEF PortalAuth

\* The row that a migration goes on with was inserted.
LEMMA FetchedByRequests ==
  ASSUME IInv, [Next]_vars, NEW r \in Request,
         req'[r].pc \in {"migrate_deauthorize", "migrate_close",
                         "migrate_authorize", "migrate_insert"}
  PROVE  session'[req'[r].old].status # "none"
<1>a. TypeOK /\ FetchedRowsExist
  BY DEF IInv
<1> USE <1>a
<1> DEFINE Migrates(q) == q.pc \in {"migrate_deauthorize", "migrate_close",
                                   "migrate_authorize", "migrate_insert"}
<1>1. ASSUME Migrates(req[r]), req'[r].old = req[r].old
      PROVE  session'[req'[r].old].status # "none"
  <2>1. req[r] \in Migrating
    BY <1>1, RequestShape
  <2>2. req[r].old \in Session /\ Inserted(req[r].old)
    BY <1>1, <2>1 DEF Migrating, FetchedRowsExist
  <2>3. Inserted(req[r].old)'
    <3>1. SameRow(req[r].old)
      BY <2>2, RowsAreKept
    <3> QED
      BY <3>1 DEF SameRow, Inserted
  <2> QED
    BY <1>1, <2>3 DEF Inserted
<1>2. ASSUME req'[r] = req[r]
      PROVE  session'[req'[r].old].status # "none"
  BY <1>1, <1>2
<1>3. ASSUME NEW x \in Request, PortalAuth(x)
      PROVE  session'[req'[r].old].status # "none"
  <2>1. CASE x # r
    BY <1>2, <1>3, <2>1, OtherRequests
  <2>2. ASSUME x = r, Finish(r)
        PROVE  FALSE
    BY <2>2 DEF TypeOK, Finish, Idle
  <2>3. ASSUME x = r, NEW t \in Token, NEW c \in Client,
               ValidateUnused(r, t, c) \/ ValidateActive(r, t, c)
        PROVE  FALSE
    BY <2>3 DEF TypeOK, ValidateUnused, ValidateActive
  <2>4. ASSUME x = r, CreateAuthorize(r) \/ CreateInsert(r)
        PROVE  FALSE
    <3>1. req[r] \in Creating
      BY <2>4, RequestShape DEF CreateAuthorize, CreateInsert
    <3> QED
      BY <2>4, <3>1 DEF TypeOK, CreateAuthorize, CreateInsert, Goto, Creating
  <2>5. ASSUME x = r, MigrateFind(r)
        PROVE  session'[req'[r].old].status # "none"
    <3>1. PICK s \in ActiveSessions :
            IF Remaining(s) > 0
              THEN req' = [req EXCEPT ![r] =
                     [pc |-> "migrate_deauthorize", token |-> req[r].token,
                      client |-> req[r].client, old |-> s,
                      remaining |-> Remaining(s)]]
              ELSE Finish(r)
      BY <2>5 DEF MigrateFind
    <3>2. req'[r].old = s
      BY <2>2, <2>5, <3>1 DEF TypeOK
    <3>3. s \in Session /\ Inserted(s)
      BY DEF ActiveSessions, Inserted
    <3>4. session' = session
      BY <2>5 DEF MigrateFind
    <3> QED
      BY <3>2, <3>3, <3>4 DEF Inserted
  <2>6. ASSUME x = r,
               MigrateDeauthorize(r) \/ MigrateClose(r) \/ MigrateAuthorize(r)
        PROVE  session'[req'[r].old].status # "none"
    <3>1. Migrates(req[r])
      BY <2>6 DEF MigrateDeauthorize, MigrateClose, MigrateAuthorize
    <3>2. req[r] \in Migrating
      BY <3>1, RequestShape
    <3>3. \E pc \in {"migrate_close", "migrate_authorize", "migrate_insert"} :
            req' = [req EXCEPT ![r].pc = pc]
      BY <2>6 DEF MigrateDeauthorize, MigrateClose, MigrateAuthorize, Goto
    <3>4. PICK pc : req'[r] = [req[r] EXCEPT !.pc = pc]
      BY <3>3 DEF TypeOK
    <3>5. req'[r].old = req[r].old
      BY <3>2, <3>4 DEF Migrating
    <3> QED
      BY <1>1, <3>1, <3>5
  <2> QED
    BY <1>3, <2>1, <2>2, <2>3, <2>4, <2>5, <2>6
    DEF PortalAuth, CreateRedeem, MigrateFindsNothing, MigrateInsert,
        InsertRefused, RequestFails
<1>4. CASE Crash
  BY <1>4 DEF Crash, Idle
<1>5. CASE AdminStep \/ JobStep \/ Tick \/ UNCHANGED vars
  <2>1. req' = req
    BY <1>5 DEF AdminStep, RevokeToken, DisconnectRead, DisconnectDeauthorize,
         DisconnectMark, JobStep, TickerStart, BootStart, TickerSkip,
         TickerDeauthorize, BootRestore, BootExpire, ExpireSession, ExpireToken,
         JobStepFails, LoopEnd, PurgeFails, PurgeSessions, PurgeTokens, Tick, vars
  <2> QED
    BY <1>2, <2>1
<1> QED
  BY <1>3, <1>4, <1>5 DEF Next

\* The row that a disconnect goes on with was inserted.
LEMMA FetchedByAdmin ==
  ASSUME IInv, [Next]_vars, admin'.pc \in {"deauthorize", "mark"}
  PROVE  session'[admin'.target].status # "none"
<1>a. TypeOK /\ FetchedRowsExist
  BY DEF IInv
<1> USE <1>a
<1>1. ASSUME admin.pc \in {"deauthorize", "mark"}, admin'.target = admin.target
      PROVE  session'[admin'.target].status # "none"
  <2>1. admin.target \in Session /\ Inserted(admin.target)
    BY <1>1, AdminShape DEF Disconnecting, FetchedRowsExist
  <2>2. SameRow(admin.target)
    BY <2>1, RowsAreKept
  <2> QED
    BY <1>1, <2>2 DEF SameRow, Inserted
<1>2. ASSUME NEW s \in Session, DisconnectRead(s)
      PROVE  session'[admin'.target].status # "none"
  BY <1>2 DEF DisconnectRead, InTable, SessionStatus
<1>3. CASE DisconnectDeauthorize
  <2>1. admin \in Disconnecting
    BY <1>3, AdminShape DEF DisconnectDeauthorize
  <2>2. admin'.target = admin.target
    BY <1>3, <2>1 DEF DisconnectDeauthorize, Disconnecting
  <2> QED
    BY <1>1, <1>3, <2>2 DEF DisconnectDeauthorize
<1>4. CASE DisconnectMark
  BY <1>4 DEF DisconnectMark, Idle
<1>5. CASE Crash
  BY <1>5 DEF Crash, Idle
<1>6. ASSUME admin' = admin
      PROVE  session'[admin'.target].status # "none"
  BY <1>1, <1>6
<1>7. ASSUME NEW t \in Token, RevokeToken(t)
      PROVE  session'[admin'.target].status # "none"
  BY <1>6, <1>7 DEF RevokeToken
<1>8. ASSUME NEW r \in Request, PortalAuth(r)
      PROVE  session'[admin'.target].status # "none"
  <2>1. admin' = admin
    BY <1>8 DEF PortalAuth, ValidateUnused, ValidateActive, CreateAuthorize,
         CreateInsert, CreateRedeem, MigrateFind, MigrateFindsNothing,
         MigrateDeauthorize, MigrateClose, MigrateAuthorize, MigrateInsert,
         InsertRefused, RequestFails
  <2> QED
    BY <1>6, <2>1
<1>9. CASE JobStep
  <2>1. admin' = admin
    BY <1>9 DEF JobStep, TickerStart, BootStart, TickerSkip,
         TickerDeauthorize, BootRestore, BootExpire, ExpireSession,
         ExpireToken, JobStepFails, LoopEnd, PurgeFails, PurgeSessions, PurgeTokens
  <2> QED
    BY <1>6, <2>1
<1>10. CASE Tick \/ UNCHANGED vars
  BY <1>6, <1>10 DEF Tick, vars
<1> QED
  BY <1>2, <1>3, <1>4, <1>5, <1>7, <1>8, <1>9, <1>10 DEF Next, AdminStep

\* The rows of a loop's snapshot were inserted.
LEMMA FetchedByJob ==
  ASSUME IInv, [Next]_vars
  PROVE  /\ job'.pc \in {"loop", "expire_session", "expire_token"}
              => \A s \in job'.rows : session'[s].status # "none"
         /\ job'.pc \in {"expire_session", "expire_token"}
              => session'[job'.row].status # "none"
<1>a. TypeOK /\ FetchedRowsExist
  BY DEF IInv
<1> USE <1>a
<1> DEFINE Known(s) == session'[s].status # "none"
           Kept(j) == /\ j.pc \in {"loop", "expire_session", "expire_token"}
                           => \A s \in j.rows : Known(s)
                      /\ j.pc \in {"expire_session", "expire_token"}
                           => Known(j.row)
<1>1. ASSUME NEW s \in Session, Inserted(s)
      PROVE  Known(s)
  <2>1. SameRow(s)
    BY <1>1, RowsAreKept
  <2> QED
    BY <2>1 DEF SameRow, Inserted
<1>2. ASSUME job.pc \in {"loop", "expire_session", "expire_token"}
      PROVE  job.rows \in SUBSET Session /\ \A s \in job.rows : Known(s)
  <2>1. job.rows \in SUBSET Session
    BY <1>2, JobShape DEF Looping, Expiring
  <2> QED
    BY <1>1, <1>2, <2>1 DEF FetchedRowsExist
<1>3. ASSUME job.pc \in {"expire_session", "expire_token"}
      PROVE  Known(job.row)
  <2>1. job.row \in Session
    BY <1>3, JobShape DEF Expiring
  <2> QED
    BY <1>1, <1>3, <2>1 DEF FetchedRowsExist
<1>4. CASE job' = job
  BY <1>2, <1>3, <1>4
<1>5. ASSUME NEW rows, \A s \in rows : Known(s), Loop(rows)
      PROVE  Kept(job')
  BY <1>5 DEF Loop
<1>6. CASE TickerStart \/ BootStart
  <2>1. \A s \in ActiveSessions : Known(s)
    BY <1>1 DEF ActiveSessions, Inserted
  <2> QED
    BY <1>5, <1>6, <2>1 DEF TickerStart, BootStart
<1>7. ASSUME NEW s \in Session, TickerSkip(s) \/ BootRestore(s)
      PROVE  Kept(job')
  <2>1. \A x \in job.rows \ {s} : Known(x)
    BY <1>2, <1>7 DEF TickerSkip, BootRestore
  <2> QED
    BY <1>5, <1>7, <2>1 DEF TickerSkip, BootRestore
<1>8. ASSUME NEW s \in Session, TickerDeauthorize(s) \/ BootExpire(s)
      PROVE  Kept(job')
  <2>1. \A x \in job.rows : Known(x)
    BY <1>2, <1>8 DEF TickerDeauthorize, BootExpire
  <2>2. s \in job.rows
    BY <1>8 DEF TickerDeauthorize, BootExpire
  <2>3. job' = [pc |-> "expire_session", rows |-> job.rows \ {s}, row |-> s]
    BY <1>8 DEF TickerDeauthorize, BootExpire
  <2> QED
    BY <2>1, <2>2, <2>3
<1>9. CASE ExpireSession
  <2>1. job \in Expiring
    BY <1>9, JobShape DEF ExpireSession
  <2>2. job'.rows = job.rows /\ job'.row = job.row
    BY <1>9, <2>1 DEF ExpireSession, Expiring
  <2> QED
    BY <1>2, <1>3, <1>9, <2>2 DEF ExpireSession
<1>10. CASE ExpireToken
  BY <1>2, <1>5, <1>10 DEF ExpireToken
<1>11. CASE JobStepFails
  <2>1. CASE job.pc \in {"expire_session", "expire_token"} /\ Loop(job.rows)
    BY <1>2, <1>5, <2>1
  <2>2. CASE job.pc = "loop" /\ \E s \in job.rows : Loop(job.rows \ {s})
    <3>1. PICK s \in job.rows : Loop(job.rows \ {s})
      BY <2>2
    <3>2. \A x \in job.rows \ {s} : Known(x)
      BY <1>2, <2>2
    <3> QED
      BY <1>5, <3>1, <3>2
  <2> QED
    BY <1>11, <2>1, <2>2 DEF JobStepFails
<1>12. CASE LoopEnd \/ PurgeFails \/ PurgeSessions \/ PurgeTokens
  BY <1>12 DEF LoopEnd, PurgeFails, PurgeSessions, PurgeTokens, Idle
<1>13. CASE Crash
  BY <1>13 DEF Crash, Idle
<1>14. ASSUME NEW r \in Request, PortalAuth(r)
       PROVE  job' = job
  BY <1>14 DEF PortalAuth, ValidateUnused, ValidateActive, CreateAuthorize,
       CreateInsert, CreateRedeem, MigrateFind, MigrateFindsNothing,
       MigrateDeauthorize, MigrateClose, MigrateAuthorize, MigrateInsert,
       InsertRefused, RequestFails
<1>15. ASSUME AdminStep \/ Tick \/ UNCHANGED vars
       PROVE  job' = job
  BY <1>15 DEF AdminStep, RevokeToken, DisconnectRead, DisconnectDeauthorize,
       DisconnectMark, Tick, vars
<1> QED
  BY <1>4, <1>6, <1>7, <1>8, <1>9, <1>10, <1>11, <1>12, <1>13, <1>14, <1>15
  DEF Next, JobStep

(* Every variable keeps its type, and no handler ever acts on a row that was*)
(* never inserted.                                                         *)
THEOREM InductiveInvariant == Spec => []IInv
<1>1. Init => IInv
  BY TypeInit, FetchedRowsInit DEF IInv
<1>2. IInv /\ [Next]_vars => IInv'
  <2> SUFFICES ASSUME IInv, [Next]_vars
               PROVE  IInv'
    OBVIOUS
  <2>1. TypeOK'
    BY TypeStep
  <2>2. FetchedRowsExist'
    BY FetchedByRequests, FetchedByAdmin, FetchedByJob
    DEF FetchedRowsExist, Inserted
  <2> QED
    BY <2>1, <2>2 DEF IInv
<1> QED
  BY <1>1, <1>2, PTL DEF Spec

(* Type correctness, which every other theorem rests on.                   *)
THEOREM TypeCorrect == Spec => []TypeOK
<1>1. IInv => TypeOK
  BY DEF IInv
<1> QED
  BY <1>1, InductiveInvariant, PTL

-----------------------------------------------------------------------------
(***************************************************************************)
(* One active session per device.                                          *)
(***************************************************************************)

\* The INSERT's transaction closes the device's other rows.
LEMMA InsertClosesTheMac ==
  ASSUME TypeOK, OneActivePerMac,
         NEW t \in Token, NEW c \in Client, NEW e \in Nat, InsertSession(t, c, e)
  PROVE  OneActivePerMac'
<1>1. PICK new \in Session :
        session' = [s \in Session |->
          IF s = new
            THEN [status |-> "active", token |-> t, client |-> c,
                  expires |-> e, started |-> now]
            ELSE IF session[s].status = "active"
                      /\ MacOf(session[s].client) = MacOf(c)
                   THEN [session[s] EXCEPT !.status = "disconnected"]
                   ELSE session[s]]
  BY DEF InsertSession
<1>2. session'[new].client = c
  BY <1>1
<1>3. ASSUME NEW s \in Session, s # new, session'[s].status = "active"
      PROVE  /\ session'[s] = session[s]
             /\ session[s].status = "active"
             /\ MacOf(session[s].client) # MacOf(c)
  <2>1. CASE session[s].status = "active" /\ MacOf(session[s].client) = MacOf(c)
    <3>1. session[s] \in SessionRow
      BY <2>1, RowShape DEF Inserted
    <3>2. session'[s] = [session[s] EXCEPT !.status = "disconnected"]
      BY <1>1, <1>3, <2>1
    <3>3. session'[s].status = "disconnected"
      BY <3>1, <3>2 DEF SessionRow
    <3> QED
      BY <1>3, <3>3
  <2>2. CASE ~(session[s].status = "active" /\ MacOf(session[s].client) = MacOf(c))
    <3>1. session'[s] = session[s]
      BY <1>1, <1>3, <2>2
    <3> QED
      BY <1>3, <2>2, <3>1
  <2> QED
    BY <2>1, <2>2
<1>4. ASSUME NEW s1 \in Session, NEW s2 \in Session,
             session'[s1].status = "active", session'[s2].status = "active",
             MacOf(session'[s1].client) = MacOf(session'[s2].client)
      PROVE  s1 = s2
  <2>1. CASE s1 = new /\ s2 # new
    BY <1>2, <1>3, <1>4, <2>1
  <2>2. CASE s1 # new /\ s2 = new
    BY <1>2, <1>3, <1>4, <2>2
  <2>3. CASE s1 # new /\ s2 # new
    <3>1. s1 \in ActiveSessions /\ s2 \in ActiveSessions
      BY <1>3, <1>4, <2>3 DEF ActiveSessions
    <3>2. MacOf(session[s1].client) = MacOf(session[s2].client)
      BY <1>3, <1>4, <2>3
    <3> QED
      BY <3>1, <3>2 DEF OneActivePerMac
  <2> QED
    BY <2>1, <2>2, <2>3
<1> QED
  BY <1>4 DEF OneActivePerMac, ActiveSessions

\* Steps that close rows, and open none.
LEMMA FewerActive ==
  ASSUME TypeOK, OneActivePerMac,
         \A s \in Session : session'[s].status = "active" => session'[s] = session[s]
  PROVE  OneActivePerMac'
BY DEF OneActivePerMac, ActiveSessions

(* The portal, which looks a client up by its MAC, finds at most one active *)
(* session, for any number of handlers, failures and restarts.             *)
THEOREM OneSessionPerDevice == Spec => []OneActivePerMac
<1>1. Init => OneActivePerMac
  BY DEF Init, OneActivePerMac, ActiveSessions, NoRow
<1>2. IInv /\ OneActivePerMac /\ [Next]_vars => OneActivePerMac'
  <2> SUFFICES ASSUME IInv, OneActivePerMac, [Next]_vars
               PROVE  OneActivePerMac'
    OBVIOUS
  <2>a. TypeOK
    BY DEF IInv
  <2>1. CASE session' = session
    BY <2>a, <2>1, FewerActive
  <2>2. ASSUME NEW s \in Session, NEW st \in {"expired", "disconnected"},
               SetSession(s, st)
        PROVE  OneActivePerMac'
    <3>1. ASSUME NEW x \in Session, session'[x].status = "active"
          PROVE  session'[x] = session[x]
      <4>1. CASE x = s /\ InTable(s)
        <5>1. session[s] \in SessionRow
          BY <2>a, <4>1, RowShape DEF InTable, Inserted, SessionStatus
        <5>2. session'[s].status = st
          BY <2>a, <2>2, <4>1, <5>1 DEF SetSession, TypeOK, SessionRow
        <5> QED
          BY <3>1, <4>1, <5>2
      <4>2. CASE ~(x = s /\ InTable(s))
        BY <2>a, <2>2, <4>2 DEF SetSession, TypeOK
      <4> QED
        BY <4>1, <4>2
    <3> QED
      BY <2>a, <3>1, FewerActive
  <2>3. ASSUME NEW t \in Token, NEW c \in Client, NEW e \in Nat,
               InsertSession(t, c, e)
        PROVE  OneActivePerMac'
    BY <2>a, <2>3, InsertClosesTheMac
  <2>4. CASE PurgeSessions
    <3>1. ASSUME NEW x \in Session, session'[x].status = "active"
          PROVE  session'[x] = session[x]
      <4>1. CASE session'[x] = [session[x] EXCEPT !.status = "purged"]
                 /\ session[x].status \in {"expired", "disconnected"}
        <5>1. session[x] \in SessionRow
          BY <2>a, <4>1, RowShape DEF Inserted
        <5> QED
          BY <3>1, <4>1, <5>1 DEF SessionRow
      <4> QED
        BY <2>4, <4>1 DEF PurgeSessions
    <3> QED
      BY <2>a, <3>1, FewerActive
  <2> QED
    BY <2>1, <2>2, <2>3, <2>4, SessionWrites
<1> QED
  BY <1>1, <1>2, InductiveInvariant, PTL DEF Spec

-----------------------------------------------------------------------------
(***************************************************************************)
(* Tokens: consumed for a session only, and never deleted under one.       *)
(***************************************************************************)

\* The steps that write a token row, each with what its statement is given.
LEMMA TokenWrites ==
  ASSUME IInv, [Next]_vars
  PROVE  \/ token' = token
         \/ \E r \in Request :
              /\ req[r].pc = "create_redeem"
              /\ req[r] \in Creating
              /\ RedeemToken(req[r].token, req[r].expires)
              /\ session' = session
         \/ \E s \in Session :
              /\ Inserted(s)
              /\ session[s].token \in Token
              /\ SetTokenExpired(session[s].token)
              /\ session' = session
         \/ \E t \in Token : RevokeToken(t)
         \/ PurgeTokens
<1>a. TypeOK /\ FetchedRowsExist
  BY DEF IInv
<1> USE <1>a
<1>1. ASSUME NEW r \in Request, CreateRedeem(r)
      PROVE  /\ req[r].pc = "create_redeem"
             /\ req[r] \in Creating
             /\ RedeemToken(req[r].token, req[r].expires)
             /\ session' = session
  BY <1>1, RequestShape DEF CreateRedeem
<1>2. ASSUME NEW r \in Request, PortalAuth(r), ~CreateRedeem(r)
      PROVE  token' = token
  BY <1>2 DEF PortalAuth, ValidateUnused, ValidateActive, CreateAuthorize,
       CreateInsert, MigrateFind, MigrateFindsNothing, MigrateDeauthorize,
       MigrateClose, MigrateAuthorize, MigrateInsert, InsertRefused,
       RequestFails
<1>3. ASSUME AdminStep
      PROVE  token' = token \/ \E t \in Token : RevokeToken(t)
  BY <1>3 DEF AdminStep, DisconnectRead, DisconnectDeauthorize, DisconnectMark
<1>4. CASE ExpireToken
  <2>1. job \in Expiring /\ job.row \in Session
    BY <1>4, JobShape DEF ExpireToken, Expiring
  <2>2. Inserted(job.row)
    BY <1>4, <2>1 DEF FetchedRowsExist, ExpireToken
  <2>3. session[job.row].token \in Token
    BY <2>1, <2>2, RowShape DEF SessionRow
  <2> QED
    BY <1>4, <2>1, <2>2, <2>3 DEF ExpireToken
<1>5. ASSUME JobStep, ~ExpireToken, ~PurgeTokens
      PROVE  token' = token
  BY <1>5 DEF JobStep, TickerStart, BootStart, TickerSkip, TickerDeauthorize,
       BootRestore, BootExpire, ExpireSession, JobStepFails, LoopEnd, PurgeFails,
       PurgeSessions
<1>6. CASE Crash \/ Tick \/ UNCHANGED vars
  BY <1>6 DEF Crash, Tick, vars
<1> QED
  BY <1>1, <1>2, <1>3, <1>4, <1>5, <1>6 DEF Next

(* A row still in the table refers to a token still in the table, through   *)
(* the two separate DELETEs of the purge and any insert between them.      *)
THEOREM ForeignKeyHolds == Spec => []ReferentialIntegrity
<1>1. Init => ReferentialIntegrity
  BY DEF Init, ReferentialIntegrity, InTable, NoRow, SessionStatus
<1>2. IInv /\ ReferentialIntegrity /\ [Next]_vars => ReferentialIntegrity'
  <2> SUFFICES ASSUME IInv, ReferentialIntegrity, [Next]_vars,
                      NEW x \in Session, session'[x].status \in SessionStatus
               PROVE  token'[session'[x].token].status # "deleted"
    BY DEF ReferentialIntegrity, InTable
  <2>a. TypeOK
    BY DEF IInv
  <2>b. ASSUME InTable(x), session'[x].token = session[x].token
        PROVE  /\ session'[x].token \in Token
               /\ token[session'[x].token].status # "deleted"
    <3>1. session[x] \in SessionRow
      BY <2>a, <2>b, RowShape DEF InTable, Inserted, SessionStatus
    <3> QED
      BY <2>b, <3>1 DEF ReferentialIntegrity, SessionRow
  <2>1. \* the row was there, or is inserted for a token that is there
        /\ session'[x].token \in Token
        /\ token[session'[x].token].status # "deleted"
    <3>1. CASE Inserted(x)
      <4>1. session'[x].token = session[x].token
        BY <3>1, RowsAreKept DEF SameRow
      <4>2. InTable(x)
        <5>1. CASE session' = session
          BY <5>1 DEF InTable
        <5>2. ASSUME NEW s \in Session, NEW st \in {"expired", "disconnected"},
                     SetSession(s, st)
              PROVE  InTable(x)
          BY <2>a, <5>2 DEF SetSession, TypeOK, InTable
        <5>3. ASSUME NEW t \in Token, NEW c \in Client, NEW e \in Nat,
                     InsertSession(t, c, e)
              PROVE  InTable(x)
          BY <3>1, <5>3 DEF InsertSession, InTable, Inserted, NoRow,
             SessionStatus
        <5>4. CASE PurgeSessions
          BY <5>4 DEF PurgeSessions, InTable, SessionStatus
        <5> QED
          BY <5>1, <5>2, <5>3, <5>4, SessionWrites
      <4> QED
        BY <2>b, <4>1, <4>2
    <3>2. CASE ~Inserted(x)
      <4>1. ~InTable(x)
        BY <3>2 DEF InTable, Inserted, SessionStatus
      <4>2. ASSUME NEW s \in Session, NEW st \in {"expired", "disconnected"},
                   SetSession(s, st)
            PROVE  FALSE
        BY <2>a, <4>1, <4>2 DEF SetSession, TypeOK, InTable
      <4>3. ~PurgeSessions /\ session' # session
        BY <4>1 DEF PurgeSessions, InTable, SessionStatus
      <4>4. PICK t \in Token, c \in Client, e \in Nat : InsertSession(t, c, e)
        BY <4>2, <4>3, SessionWrites
      <4>5. session'[x].token = t
        BY <3>2, <4>1, <4>4 DEF InsertSession, InTable, Inserted, NoRow
      <4> QED
        BY <4>4, <4>5 DEF InsertSession
    <3> QED
      BY <3>1, <3>2
  <2>2. CASE token' = token
    BY <2>1, <2>2
  <2>3. ASSUME NEW t \in Token, NEW e \in Nat,
               RedeemToken(t, e) \/ SetTokenExpired(t)
        PROVE  token'[session'[x].token].status # "deleted"
    BY <2>a, <2>1, <2>3 DEF TypeOK, RedeemToken, SetTokenExpired, TokenRow
  <2>4. ASSUME NEW t \in Token, RevokeToken(t)
        PROVE  token'[session'[x].token].status # "deleted"
    BY <2>a, <2>1, <2>4 DEF TypeOK, RevokeToken, TokenRow
  <2>5. CASE PurgeTokens
    <3>1. session' = session /\ InTable(x)
      BY <2>5 DEF PurgeTokens, InTable
    <3> QED
      BY <2>1, <2>5, <3>1 DEF PurgeTokens
  <2> QED
    BY <2>2, <2>3, <2>4, <2>5, TokenWrites DEF Creating
<1> QED
  BY <1>1, <1>2, InductiveInvariant, PTL DEF Spec

\* A handler that is about to redeem its token has inserted a row for it.
RedeemersHaveSession ==
  \A r \in Request : req[r].pc = "create_redeem" =>
    \E s \in Session : /\ Inserted(s)
                       /\ session[s].token = req[r].token
                       /\ session[s].expires = req[r].expires

\* Who is about to redeem a token goes on to have its session.
LEMMA RedeemersStep ==
  ASSUME IInv, RedeemersHaveSession, [Next]_vars,
         NEW r \in Request, req'[r].pc = "create_redeem"
  PROVE  \E s \in Session : /\ session'[s].status # "none"
                            /\ session'[s].token = req'[r].token
                            /\ session'[s].expires = req'[r].expires
<1>a. TypeOK
  BY DEF IInv
<1> USE <1>a
<1>1. ASSUME req'[r] = req[r]
      PROVE  \E s \in Session : /\ session'[s].status # "none"
                                /\ session'[s].token = req'[r].token
                                /\ session'[s].expires = req'[r].expires
  <2>1. PICK s \in Session : /\ Inserted(s)
                             /\ session[s].token = req[r].token
                             /\ session[s].expires = req[r].expires
    BY <1>1 DEF RedeemersHaveSession
  <2>2. SameRow(s)
    BY <2>1, RowsAreKept
  <2> QED
    BY <1>1, <2>1, <2>2 DEF SameRow, Inserted
<1>2. CASE CreateInsert(r)
  <2>1. req[r] \in Creating
    BY <1>2, RequestShape DEF CreateInsert
  <2>2. req'[r].token = req[r].token /\ req'[r].expires = req[r].expires
    BY <1>2, <2>1 DEF CreateInsert, Goto, Creating, TypeOK
  <2>3. PICK new \in Session :
          session' = [s \in Session |->
            IF s = new
              THEN [status |-> "active", token |-> req[r].token,
                    client |-> req[r].client, expires |-> req[r].expires,
                    started |-> now]
              ELSE IF session[s].status = "active"
                        /\ MacOf(session[s].client) = MacOf(req[r].client)
                     THEN [session[s] EXCEPT !.status = "disconnected"]
                     ELSE session[s]]
    BY <1>2 DEF CreateInsert, InsertSession
  <2>4. session'[new] =
          [status |-> "active", token |-> req[r].token,
           client |-> req[r].client, expires |-> req[r].expires,
           started |-> now]
    BY <2>3
  <2> QED
    BY <2>2, <2>4
<1>3. ASSUME NEW x \in Request, PortalAuth(x), x # r
      PROVE  req'[r] = req[r]
  BY <1>3, OtherRequests
<1>4. ASSUME PortalAuth(r), ~CreateInsert(r)
      PROVE  FALSE
  <2>1. ASSUME Finish(r)
        PROVE  FALSE
    BY <2>1 DEF TypeOK, Finish, Idle
  <2>2. ASSUME NEW t \in Token, NEW c \in Client,
               ValidateUnused(r, t, c) \/ ValidateActive(r, t, c)
        PROVE  FALSE
    BY <2>2 DEF TypeOK, ValidateUnused, ValidateActive
  <2>3. CASE CreateAuthorize(r)
    <3>1. req[r] \in Creating
      BY <2>3, RequestShape DEF CreateAuthorize
    <3> QED
      BY <2>3, <3>1 DEF TypeOK, CreateAuthorize, Goto, Creating
  <2>4. CASE MigrateFind(r)
    BY <2>1, <2>4 DEF TypeOK, MigrateFind
  <2>5. CASE MigrateDeauthorize(r) \/ MigrateClose(r) \/ MigrateAuthorize(r)
    <3>1. req[r] \in Migrating
      BY <2>5, RequestShape DEF MigrateDeauthorize, MigrateClose, MigrateAuthorize
    <3>2. \E pc \in {"migrate_close", "migrate_authorize", "migrate_insert"} :
            req' = [req EXCEPT ![r].pc = pc]
      BY <2>5 DEF MigrateDeauthorize, MigrateClose, MigrateAuthorize, Goto
    <3> QED
      BY <3>1, <3>2 DEF TypeOK, Migrating
  <2> QED
    BY <1>4, <2>1, <2>2, <2>3, <2>4, <2>5
    DEF PortalAuth, CreateRedeem, MigrateFindsNothing, MigrateInsert,
        InsertRefused, RequestFails
<1>5. CASE Crash
  BY <1>5 DEF Crash, Idle
<1>6. CASE AdminStep \/ JobStep \/ Tick \/ UNCHANGED vars
  <2>1. req' = req
    BY <1>6 DEF AdminStep, RevokeToken, DisconnectRead, DisconnectDeauthorize,
         DisconnectMark, JobStep, TickerStart, BootStart, TickerSkip,
         TickerDeauthorize, BootRestore, BootExpire, ExpireSession, ExpireToken,
         JobStepFails, LoopEnd, PurgeFails, PurgeSessions, PurgeTokens, Tick, vars
  <2> QED
    BY <1>1, <2>1
<1> QED
  BY <1>1, <1>2, <1>3, <1>4, <1>5, <1>6 DEF Next

(* A failure or a crash anywhere in create_session never consumes a token   *)
(* for which no session was recorded.                                      *)
THEOREM NoTokenConsumedForNothing == Spec => []ConsumedTokenHasSession
<1> DEFINE Both == RedeemersHaveSession /\ ConsumedTokenHasSession
<1>1. Init => Both
  BY DEF Init, RedeemersHaveSession, ConsumedTokenHasSession, Idle
<1>2. IInv /\ Both /\ [Next]_vars => Both'
  <2> SUFFICES ASSUME IInv, RedeemersHaveSession, ConsumedTokenHasSession,
                      [Next]_vars
               PROVE  Both'
    OBVIOUS
  <2>a. TypeOK
    BY DEF IInv
  <2>1. RedeemersHaveSession'
    BY RedeemersStep DEF RedeemersHaveSession, Inserted
  <2>2. ASSUME NEW t \in Token, token'[t].status \in {"active", "expired"}
        PROVE  \E s \in Session :
                 /\ session'[s].status # "none"
                 /\ session'[s].token = t
                 /\ token'[t].status = "active"
                      => session'[s].expires = token'[t].expires
    <3>1. ASSUME NEW s \in Session, Inserted(s), session[s].token = t,
                 token'[t].status = "active"
                   => session[s].expires = token'[t].expires
          PROVE  \E x \in Session :
                   /\ session'[x].status # "none"
                   /\ session'[x].token = t
                   /\ token'[t].status = "active"
                        => session'[x].expires = token'[t].expires
      <4>1. SameRow(s)
        BY <3>1, RowsAreKept
      <4> QED
        BY <3>1, <4>1 DEF SameRow, Inserted
    <3>2. CASE token'[t] = token[t]
      <4>1. PICK s \in Session :
              /\ Inserted(s)
              /\ session[s].token = t
              /\ token[t].status = "active"
                   => session[s].expires = token[t].expires
        BY <2>2, <3>2 DEF ConsumedTokenHasSession
      <4> QED
        BY <3>1, <3>2, <4>1
    <3>3. ASSUME NEW r \in Request, req[r].pc = "create_redeem",
                 req[r] \in Creating,
                 RedeemToken(req[r].token, req[r].expires)
          PROVE  \E x \in Session :
                   /\ session'[x].status # "none"
                   /\ session'[x].token = t
                   /\ token'[t].status = "active"
                        => session'[x].expires = token'[t].expires
      <4>1. CASE t = req[r].token /\ token[t].status # "deleted"
        <5>1. token'[t] = [status |-> "active", expires |-> req[r].expires]
          BY <2>a, <3>3, <4>1 DEF RedeemToken, TypeOK
        <5>2. PICK s \in Session : /\ Inserted(s)
                                   /\ session[s].token = req[r].token
                                   /\ session[s].expires = req[r].expires
          BY <3>3 DEF RedeemersHaveSession
        <5> QED
          BY <3>1, <4>1, <5>1, <5>2
      <4>2. CASE t # req[r].token \/ token[t].status = "deleted"
        <5>1. token'[t] = token[t]
          BY <2>a, <3>3, <4>2 DEF RedeemToken, TypeOK
        <5> QED
          BY <3>2, <5>1
      <4> QED
        BY <4>1, <4>2
    <3>4. ASSUME NEW s \in Session, Inserted(s), session[s].token \in Token,
                 SetTokenExpired(session[s].token)
          PROVE  \E x \in Session :
                   /\ session'[x].status # "none"
                   /\ session'[x].token = t
                   /\ token'[t].status = "active"
                        => session'[x].expires = token'[t].expires
      <4>1. CASE t = session[s].token /\ token[t].status # "deleted"
        <5>1. token[t] \in TokenRow
          BY <2>a DEF TypeOK
        <5>2. token'[t] = [token[t] EXCEPT !.status = "expired"]
          BY <2>a, <3>4, <4>1 DEF SetTokenExpired, TypeOK
        <5>3. token'[t].status = "expired"
          BY <5>1, <5>2 DEF TokenRow
        <5> QED
          BY <3>1, <3>4, <4>1, <5>3
      <4>2. CASE t # session[s].token \/ token[t].status = "deleted"
        <5>1. token'[t] = token[t]
          BY <2>a, <3>4, <4>2 DEF SetTokenExpired, TypeOK
        <5> QED
          BY <3>2, <5>1
      <4> QED
        BY <4>1, <4>2
    <3>5. ASSUME NEW u \in Token, RevokeToken(u)
          PROVE  token'[t] = token[t]
      <4>1. token[t] \in TokenRow /\ token' = [token EXCEPT ![u].status = "revoked"]
        BY <2>a, <3>5 DEF RevokeToken, TypeOK
      <4>2. t # u
        BY <2>2, <2>a, <4>1 DEF TypeOK, TokenRow
      <4> QED
        BY <2>a, <4>1, <4>2 DEF TypeOK
    <3>6. ASSUME PurgeTokens
          PROVE  token'[t] = token[t]
      <4>1. token[t] \in TokenRow
        BY <2>a DEF TypeOK
      <4>2. \/ token'[t] = token[t]
            \/ token'[t] = [token[t] EXCEPT !.status = "deleted"]
        BY <3>6 DEF PurgeTokens
      <4> QED
        BY <2>2, <4>1, <4>2 DEF TokenRow
    <3> QED
      BY <3>2, <3>3, <3>4, <3>5, <3>6, TokenWrites
  <2>3. ConsumedTokenHasSession'
    BY <2>2 DEF ConsumedTokenHasSession, Inserted
  <2> QED
    BY <2>1, <2>3
<1>3. Both => ConsumedTokenHasSession
  OBVIOUS
<1> QED
  BY <1>1, <1>2, <1>3, InductiveInvariant, PTL DEF Spec

-----------------------------------------------------------------------------
(***************************************************************************)
(* Expiry.                                                                 *)
(***************************************************************************)

\* Until when a row may be marked expired now.
Latest == IF mode = "booting" THEN now + Grace ELSE now

\* A row that a loop has decided to expire is over, but for the restore's
\* grace.
ExpiringIsOver ==
  job.pc = "expire_session" => session[job.row].expires <= Latest

\* Sums keep the order of what is added to.
LEMMA SumsInOrder ==
  \A m, n, k \in Nat : m <= n => m + k \in Nat /\ n + k \in Nat
                                /\ m + k <= n + k
OBVIOUS

\* The clock does not go back.
LEMMA ClockStep ==
  ASSUME TypeOK, [Next]_vars
  PROVE  now \in Nat /\ now' \in Nat /\ now <= now'
<1>1. now' = now \/ now' = now + 1
  BY DEF Next, PortalAuth, ValidateUnused, ValidateActive, CreateAuthorize,
     CreateInsert, CreateRedeem, MigrateFind, MigrateFindsNothing,
     MigrateDeauthorize, MigrateClose, MigrateAuthorize, MigrateInsert,
     InsertRefused, RequestFails, AdminStep, RevokeToken, DisconnectRead,
     DisconnectDeauthorize, DisconnectMark, JobStep, TickerStart, BootStart,
     TickerSkip, TickerDeauthorize, BootRestore, BootExpire, ExpireSession,
     ExpireToken, JobStepFails, LoopEnd, PurgeFails, PurgeSessions,
     PurgeTokens, Crash, Tick, vars
<1> QED
  BY <1>1 DEF TypeOK

\* What a loop has decided to expire goes on to be over.
LEMMA ExpiringStep ==
  ASSUME IInv, ExpiringIsOver, [Next]_vars, job'.pc = "expire_session"
  PROVE  session'[job'.row].expires <= Latest'
<1>a. TypeOK /\ FetchedRowsExist
  BY DEF IInv
<1> USE <1>a, ConstantsAssumption
<1>1. now \in Nat /\ now' \in Nat /\ now <= now' /\ Grace \in Nat
  BY ClockStep
<1>2. CASE job' = job /\ mode' = mode
  <2>1. job.row \in Session
    BY <1>2, JobShape DEF Expiring
  <2>2. Inserted(job.row)
    BY <1>2 DEF FetchedRowsExist
  <2>3. /\ session'[job.row].expires = session[job.row].expires
        /\ session[job.row].expires \in Nat
    BY <2>1, <2>2, RowsAreKept, RowShape DEF SameRow, SessionRow
  <2>4. Latest \in Nat /\ Latest' \in Nat /\ Latest <= Latest'
    <3>1. CASE mode = "booting"
      <4>1. Latest = now + Grace /\ Latest' = now' + Grace
        BY <1>2, <3>1, Zenon DEF Latest
      <4>2. /\ now + Grace \in Nat /\ now' + Grace \in Nat
            /\ now + Grace <= now' + Grace
        BY <1>1, SumsInOrder
      <4> QED
        BY <4>1, <4>2, Zenon
    <3>2. CASE mode # "booting"
      <4>1. Latest = now /\ Latest' = now'
        BY <1>2, <3>2, Zenon DEF Latest
      <4> QED
        BY <1>1, <4>1
    <3> QED
      BY <3>1, <3>2
  <2>5. session[job.row].expires <= Latest
    BY <1>2 DEF ExpiringIsOver
  <2> QED
    BY <1>2, <2>3, <2>4, <2>5
<1>3. ASSUME NEW s \in Session, TickerDeauthorize(s)
      PROVE  session'[job'.row].expires <= Latest'
  <2>1. Inserted(s)
    BY <1>3 DEF TickerDeauthorize, FetchedRowsExist
  <2>2. Remaining(s) \in Nat /\ Remaining(s) <= -Grace
    BY <1>3, <2>1, RemainingType DEF TickerDeauthorize, Due
  <2>3. session[s].expires \in Nat
    BY <2>1, RowShape DEF SessionRow
  <2>4. session[s].expires <= now
    BY <1>1, <2>2, <2>3 DEF Remaining
  <2>5. /\ job'.row = s /\ session' = session
        /\ now' = now /\ mode' = mode /\ mode = "up"
    BY <1>3 DEF TickerDeauthorize
  <2> QED
    BY <2>4, <2>5 DEF Latest
<1>4. ASSUME NEW s \in Session, BootExpire(s)
      PROVE  session'[job'.row].expires <= Latest'
  <2>1. Inserted(s)
    BY <1>4 DEF BootExpire, FetchedRowsExist
  <2>2. session[s].expires \in Nat
    BY <2>1, RowShape DEF SessionRow
  <2>3. session[s].expires <= now + Grace
    BY <1>1, <1>4, <2>2 DEF BootExpire, Remaining
  <2>4. /\ job'.row = s /\ session' = session
        /\ now' = now /\ mode' = mode /\ mode = "booting"
    BY <1>4 DEF BootExpire
  <2> QED
    BY <2>3, <2>4 DEF Latest
<1>5. ASSUME NEW r \in Request, PortalAuth(r)
      PROVE  job' = job /\ mode' = mode
  BY <1>5 DEF PortalAuth, ValidateUnused, ValidateActive, CreateAuthorize,
     CreateInsert, CreateRedeem, MigrateFind, MigrateFindsNothing,
     MigrateDeauthorize, MigrateClose, MigrateAuthorize, MigrateInsert,
     InsertRefused, RequestFails
<1>6. ASSUME AdminStep \/ Tick \/ UNCHANGED vars
      PROVE  job' = job /\ mode' = mode
  BY <1>6 DEF AdminStep, RevokeToken, DisconnectRead, DisconnectDeauthorize,
     DisconnectMark, Tick, vars
<1>7. ASSUME \/ TickerStart \/ BootStart \/ ExpireToken \/ JobStepFails
             \/ \E s \in Session : TickerSkip(s) \/ BootRestore(s)
             \/ LoopEnd \/ PurgeFails \/ PurgeSessions \/ PurgeTokens \/ Crash
      PROVE  FALSE
  BY <1>7 DEF TickerStart, BootStart, ExpireToken, JobStepFails, TickerSkip,
     BootRestore, LoopEnd, PurgeFails, PurgeSessions, PurgeTokens, Crash, Loop,
     Idle
<1>8. ASSUME ExpireSession
      PROVE  FALSE
  <2>1. job \in Expiring
    BY <1>8, JobShape DEF ExpireSession
  <2> QED
    BY <1>8, <2>1 DEF ExpireSession, Expiring
<1> QED
  BY <1>2, <1>3, <1>4, <1>5, <1>6, <1>7, <1>8 DEF Next, JobStep

\* A row becomes expired at the loops' UPDATE only.
LEMMA OnlyExpireSessionExpires ==
  ASSUME IInv, [Next]_vars, NEW s \in Session,
         session[s].status = "active", session'[s].status = "expired"
  PROVE  job.pc = "expire_session" /\ job.row = s
<1>a. TypeOK
  BY DEF IInv
<1> USE <1>a
<1>1. session[s] \in SessionRow
  BY RowShape DEF Inserted
<1>2. ASSUME NEW x \in Session, SetSession(x, "disconnected")
      PROVE  FALSE
  BY <1>1, <1>2 DEF TypeOK, SetSession, SessionRow
<1>3. ASSUME NEW t, NEW c, NEW e, InsertSession(t, c, e)
      PROVE  FALSE
  <2>1. PICK new \in Session :
          session' = [x \in Session |->
            IF x = new
              THEN [status |-> "active", token |-> t, client |-> c,
                    expires |-> e, started |-> now]
              ELSE IF session[x].status = "active"
                        /\ MacOf(session[x].client) = MacOf(c)
                     THEN [session[x] EXCEPT !.status = "disconnected"]
                     ELSE session[x]]
    BY <1>3 DEF InsertSession
  <2> QED
    BY <1>1, <2>1 DEF SessionRow
<1>4. ASSUME PurgeSessions
      PROVE  FALSE
  BY <1>4 DEF PurgeSessions
<1>5. CASE ExpireSession
  <2>1. job.row \in Session
    BY <1>5, JobShape DEF ExpireSession, Expiring
  <2>2. job.row = s
    BY <1>1, <1>5, <2>1 DEF ExpireSession, SetSession, TypeOK, SessionRow
  <2> QED
    BY <1>5, <2>2 DEF ExpireSession
<1>6. ASSUME session' = session
      PROVE  FALSE
  BY <1>6
<1>7. ASSUME NEW r \in Request, PortalAuth(r)
      PROVE  FALSE
  <2>1. ASSUME MigrateClose(r)
        PROVE  FALSE
    <3>1. req[r].old \in Session
      BY <2>1, RequestShape DEF MigrateClose, Migrating
    <3> QED
      BY <1>2, <2>1, <3>1 DEF MigrateClose
  <2>2. ASSUME CreateInsert(r) \/ MigrateInsert(r)
        PROVE  FALSE
    BY <1>3, <2>2 DEF CreateInsert, MigrateInsert
  <2> QED
    BY <1>6, <1>7, <2>1, <2>2 DEF PortalAuth, ValidateUnused, ValidateActive,
       CreateAuthorize, CreateRedeem, MigrateFind, MigrateFindsNothing,
       MigrateDeauthorize, MigrateAuthorize, InsertRefused, RequestFails
<1>8. ASSUME AdminStep
      PROVE  FALSE
  <2>1. ASSUME DisconnectMark
        PROVE  FALSE
    <3>1. admin.target \in Session
      BY <2>1, AdminShape DEF DisconnectMark, Disconnecting
    <3> QED
      BY <1>2, <2>1, <3>1 DEF DisconnectMark
  <2> QED
    BY <1>6, <1>8, <2>1 DEF AdminStep, RevokeToken, DisconnectRead,
       DisconnectDeauthorize
<1>9. ASSUME JobStep, ~ExpireSession
      PROVE  FALSE
  BY <1>4, <1>6, <1>9 DEF JobStep, TickerStart, BootStart, TickerSkip,
     TickerDeauthorize, BootRestore, BootExpire, ExpireToken, JobStepFails,
     LoopEnd, PurgeFails, PurgeTokens
<1>10. ASSUME Crash \/ Tick \/ UNCHANGED vars
       PROVE  FALSE
  BY <1>6, <1>10 DEF Crash, Tick, vars
<1> QED
  BY <1>5, <1>7, <1>8, <1>9, <1>10 DEF Next

(* Whatever the grace period is, the ticker marks no session expired before*)
(* its deadline, from whatever snapshot it walks over, and the restore none*)
(* more than the grace period before it: what a restart may cost a customer*)
(* is bounded by grace_period_seconds.                                     *)
THEOREM NeverEarlierThanTheGrace == Spec => NeverExpiredEarly
<1>1. Init => ExpiringIsOver
  BY DEF Init, ExpiringIsOver, Idle
<1>2. IInv /\ ExpiringIsOver /\ [Next]_vars => ExpiringIsOver'
  BY ExpiringStep DEF ExpiringIsOver
<1>3. IInv /\ ExpiringIsOver /\ [Next]_vars =>
        [\A s \in Session :
           /\ session[s].status = "active"
           /\ session'[s].status = "expired"
           => session[s].expires <= IF mode = "booting" THEN now + Grace
                                    ELSE now]_vars
  <2> SUFFICES ASSUME IInv, ExpiringIsOver, [Next]_vars, NEW s \in Session,
                      session[s].status = "active",
                      session'[s].status = "expired"
               PROVE  session[s].expires <= Latest
    BY DEF Latest
  <2>1. job.pc = "expire_session" /\ job.row = s
    BY OnlyExpireSessionExpires
  <2> QED
    BY <2>1 DEF ExpiringIsOver
<1> QED
  BY <1>1, <1>2, <1>3, InductiveInvariant, PTL DEF Spec, NeverExpiredEarly

-----------------------------------------------------------------------------
(***************************************************************************)
(* What a step does to the table of sessions.                              *)
(***************************************************************************)

\* No row is inserted, and none is opened again.
Closing ==
  \A s \in Session :
    /\ Inserted(s)' <=> Inserted(s)
    /\ session'[s].status = "active" => session[s].status = "active"

\* One row is inserted; the others are as they were or closed.
Adding(new, t, c, e) ==
  /\ ~Inserted(new)
  /\ session'[new] = [status |-> "active", token |-> t, client |-> c,
                      expires |-> e, started |-> now]
  /\ \A s \in Session : s # new =>
       /\ Inserted(s)' <=> Inserted(s)
       /\ session'[s].status = "active" =>
            /\ session[s].status = "active"
            /\ MacOf(session[s].client) # MacOf(c)
       /\ /\ session[s].status = "active"
          /\ MacOf(session[s].client) # MacOf(c)
          => session'[s].status = "active"

\* An UPDATE of a status closes at most the row it is given.
LEMMA SetSessionCloses ==
  ASSUME TypeOK, NEW s \in Session, NEW st \in {"expired", "disconnected"},
         SetSession(s, st)
  PROVE  /\ Closing
         /\ session'[s].status # "active"
         /\ \A x \in Session :
              session'[x] = session[x] \/ (x = s /\ session'[x].status = st)
<1>1. CASE session' = session /\ ~InTable(s)
  BY <1>1 DEF Closing, Inserted, InTable, SessionStatus
<1>2. CASE InTable(s)
  <2>1. session[s] \in SessionRow /\ session[s].status # "none"
    BY <1>2, RowShape DEF InTable, Inserted, SessionStatus
  <2>2. /\ session'[s].status = st
        /\ \A x \in Session : x # s => session'[x] = session[x]
    BY <1>2, <2>1 DEF SetSession, TypeOK, SessionRow
  <2>3. \A x \in Session :
          /\ session'[x].status # "none" <=> session[x].status # "none"
          /\ session'[x].status = "active" => session[x].status = "active"
    BY <2>1, <2>2
  <2> QED
    BY <2>2, <2>3 DEF Closing, Inserted
<1> QED
  BY <1>1, <1>2 DEF SetSession

\* The purge takes rows that are closed.
LEMMA PurgeCloses ==
  ASSUME TypeOK, PurgeSessions
  PROVE  Closing
<1> SUFFICES ASSUME NEW s \in Session
             PROVE  /\ session'[s].status # "none"
                         <=> session[s].status # "none"
                    /\ session'[s].status = "active"
                         => session[s].status = "active"
  BY DEF Closing, Inserted
<1>1. CASE session'[s] = session[s]
  BY <1>1
<1>2. CASE /\ session[s].status \in {"expired", "disconnected"}
           /\ session'[s] = [session[s] EXCEPT !.status = "purged"]
  <2>1. session[s] \in SessionRow
    BY <1>2, RowShape DEF Inserted
  <2> QED
    BY <1>2, <2>1 DEF SessionRow
<1> QED
  BY <1>1, <1>2 DEF PurgeSessions

\* The INSERT adds its row and closes the rows of the same device.
LEMMA InsertAdds ==
  ASSUME TypeOK, NEW t \in Token, NEW c \in Client, NEW e \in Nat,
         InsertSession(t, c, e)
  PROVE  \E new \in Session : Adding(new, t, c, e)
<1>1. PICK new \in Session :
        /\ session[new] = NoRow
        /\ session' = [s \in Session |->
             IF s = new
               THEN [status |-> "active", token |-> t, client |-> c,
                     expires |-> e, started |-> now]
               ELSE IF session[s].status = "active"
                         /\ MacOf(session[s].client) = MacOf(c)
                      THEN [session[s] EXCEPT !.status = "disconnected"]
                      ELSE session[s]]
  BY DEF InsertSession
<1>2. ~Inserted(new)
  BY <1>1 DEF NoRow, Inserted
<1>3. session'[new] = [status |-> "active", token |-> t, client |-> c,
                       expires |-> e, started |-> now]
  BY <1>1
<1>4. ASSUME NEW s \in Session, s # new
      PROVE  /\ session'[s].status # "none" <=> session[s].status # "none"
             /\ session'[s].status = "active" =>
                  /\ session[s].status = "active"
                  /\ MacOf(session[s].client) # MacOf(c)
             /\ /\ session[s].status = "active"
                /\ MacOf(session[s].client) # MacOf(c)
                => session'[s].status = "active"
  <2>1. CASE session[s].status = "active" /\ MacOf(session[s].client) = MacOf(c)
    <3>1. session[s] \in SessionRow
      BY <2>1, RowShape DEF Inserted
    <3>2. session'[s] = [session[s] EXCEPT !.status = "disconnected"]
      BY <1>1, <1>4, <2>1
    <3> QED
      BY <2>1, <3>1, <3>2 DEF SessionRow
  <2>2. CASE ~(session[s].status = "active"
               /\ MacOf(session[s].client) = MacOf(c))
    <3>1. session'[s] = session[s]
      BY <1>1, <1>4, <2>2
    <3> QED
      BY <2>2, <3>1
  <2> QED
    BY <2>1, <2>2
<1>5. \A s \in Session : s # new =>
        /\ Inserted(s)' <=> Inserted(s)
        /\ session'[s].status = "active" =>
             /\ session[s].status = "active"
             /\ MacOf(session[s].client) # MacOf(c)
        /\ /\ session[s].status = "active"
           /\ MacOf(session[s].client) # MacOf(c)
           => session'[s].status = "active"
  BY <1>4 DEF Inserted
<1> QED
  BY <1>2, <1>3, <1>5 DEF Adding

\* Every step but a request's INSERT closes rows at most.
LEMMA ClosingSteps ==
  ASSUME IInv, [Next]_vars,
         \A r \in Request : ~CreateInsert(r) /\ ~MigrateInsert(r)
  PROVE  Closing
<1>a. TypeOK
  BY DEF IInv
<1>1. CASE session' = session
  BY <1>1 DEF Closing, Inserted
<1>2. ASSUME NEW r \in Request, PortalAuth(r)
      PROVE  Closing
  <2>1. CASE MigrateClose(r)
    <3>1. req[r].old \in Session
      BY <2>1, <1>a, RequestShape DEF MigrateClose, Migrating
    <3> QED
      BY <2>1, <3>1, <1>a, SetSessionCloses DEF MigrateClose
  <2> QED
    BY <1>1, <1>2, <2>1
    DEF PortalAuth, ValidateUnused, ValidateActive, CreateAuthorize,
        CreateRedeem, MigrateFind, MigrateFindsNothing, MigrateDeauthorize,
        MigrateAuthorize, InsertRefused, RequestFails
<1>3. CASE AdminStep
  <2>1. CASE DisconnectMark
    <3>1. admin.target \in Session
      BY <2>1, <1>a, AdminShape DEF DisconnectMark, Disconnecting
    <3> QED
      BY <2>1, <3>1, <1>a, SetSessionCloses DEF DisconnectMark
  <2> QED
    BY <1>1, <1>3, <2>1
    DEF AdminStep, RevokeToken, DisconnectRead, DisconnectDeauthorize
<1>4. CASE JobStep
  <2>1. CASE ExpireSession
    <3>1. job.row \in Session
      BY <2>1, <1>a, JobShape DEF ExpireSession, Expiring
    <3> QED
      BY <2>1, <3>1, <1>a, SetSessionCloses DEF ExpireSession
  <2>2. CASE PurgeSessions
    BY <2>2, <1>a, PurgeCloses
  <2> QED
    BY <1>1, <1>4, <2>1, <2>2
    DEF JobStep, TickerStart, BootStart, TickerSkip, TickerDeauthorize,
        BootRestore, BootExpire, ExpireToken, JobStepFails, LoopEnd,
        PurgeTokens, PurgeFails
<1>5. CASE Crash \/ Tick \/ UNCHANGED vars
  BY <1>1, <1>5 DEF Crash, Tick, vars
<1> QED
  BY <1>2, <1>3, <1>4, <1>5 DEF Next

\* Steps that insert no row leave the rows what they were, or close them.
LEMMA ClosedRows ==
  ASSUME IInv, [Next]_vars, Closing
  PROVE  \A s \in Session : session'[s].status # "none" =>
           /\ session[s].status # "none"
           /\ session'[s].token = session[s].token
           /\ session'[s].client = session[s].client
           /\ session'[s].expires = session[s].expires
           /\ session'[s].status = "active" => session[s].status = "active"
BY RowsAreKept DEF Closing, SameRow, Inserted

\* A handler that goes on keeps its locals.
LEMMA GotoKeeps ==
  ASSUME TypeOK, NEW r \in Request, NEW pc, Goto(r, pc)
  PROVE  /\ req[r] \in Creating =>
              /\ req'[r].pc = pc
              /\ req'[r].token = req[r].token
              /\ req'[r].client = req[r].client
              /\ req'[r].expires = req[r].expires
         /\ req[r] \in Migrating =>
              /\ req'[r].pc = pc
              /\ req'[r].token = req[r].token
              /\ req'[r].client = req[r].client
              /\ req'[r].old = req[r].old
              /\ req'[r].remaining = req[r].remaining
<1>1. req' = [req EXCEPT ![r].pc = pc] /\ r \in DOMAIN req
  BY DEF Goto, TypeOK
<1>2. CASE req[r] \in Creating
  BY <1>1, <1>2 DEF Creating, Migrating
<1>3. CASE req[r] \in Migrating
  BY <1>1, <1>3 DEF Creating, Migrating
<1> QED
  BY <1>2, <1>3

\* A handler that ends has no locals.
LEMMA FinishIdles ==
  ASSUME TypeOK, NEW r \in Request, Finish(r)
  PROVE  req'[r].pc = "idle"
BY DEF Finish, TypeOK, Idle

\* What MigrateInsert and CreateInsert add.
LEMMA RequestAdds ==
  ASSUME IInv, NEW r \in Request, CreateInsert(r) \/ MigrateInsert(r)
  PROVE  \E new \in Session :
           Adding(new, req[r].token, req[r].client,
                  IF req[r].pc = "create_insert" THEN req[r].expires
                  ELSE session[req[r].old].expires)
<1>a. TypeOK /\ FetchedRowsExist
  BY DEF IInv
<1>1. CASE CreateInsert(r)
  <2>1. /\ req[r].pc = "create_insert"
        /\ req[r].token \in Token /\ req[r].client \in Client
        /\ req[r].expires \in Nat
    BY <1>1, <1>a, RequestShape DEF CreateInsert, Creating
  <2> QED
    BY <1>1, <1>a, <2>1, InsertAdds DEF CreateInsert
<1>2. CASE MigrateInsert(r)
  <2>1. /\ req[r].pc = "migrate_insert"
        /\ req[r].token \in Token /\ req[r].client \in Client
        /\ req[r].old \in Session /\ Inserted(req[r].old)
    BY <1>2, <1>a, RequestShape DEF MigrateInsert, Migrating, FetchedRowsExist
  <2>2. session[req[r].old].expires \in Nat
    BY <2>1, <1>a, RowShape DEF SessionRow
  <2> QED
    BY <1>2, <1>a, <2>1, <2>2, InsertAdds DEF MigrateInsert
<1> QED
  BY <1>1, <1>2

-----------------------------------------------------------------------------
(***************************************************************************)
(* The kernel's set when the daemon has come back, and while it runs: the  *)
(* restore grants every running session its remaining time and nobody else *)
(* any, and a customer whose session runs is on the network.               *)
(***************************************************************************)

\* While the daemon does not serve, no handler runs.
DownIdle ==
  mode # "up" => /\ \A r \in Request : req[r] = Idle
                 /\ admin = Idle

\* The rows that a loop has in its snapshot and is not done with.
LoopPc == {"loop", "expire_session", "expire_token"}
Pending(s) ==
  \/ job.pc \in LoopPc /\ s \in job.rows
  \/ job.pc = "expire_session" /\ s = job.row

\* What the restore does in a step, when no handler runs.
BootStep ==
  \/ \E s \in Session : BootRestore(s) \/ BootExpire(s)
  \/ ExpireSession \/ ExpireToken \/ JobStepFails \/ PurgeSessions
  \/ LoopEnd /\ job' = [pc |-> "purge_sessions"]
  \/ Tick
  \/ UNCHANGED vars

-----------------------------------------------------------------------------
(***************************************************************************)
(* Steps of a daemon that does not serve.                                  *)
(***************************************************************************)

\* The daemon stops, begins to restore, or opens its servers.
LEMMA ModeSteps ==
  ASSUME [Next]_vars
  PROVE  \/ mode' = mode
         \/ Crash
         \/ BootStart
         \/ /\ PurgeTokens \/ PurgeFails
            /\ mode' = "up"
BY DEF Next, PortalAuth, ValidateUnused, ValidateActive, CreateAuthorize,
      CreateInsert, CreateRedeem, MigrateFind, MigrateFindsNothing,
      MigrateDeauthorize, MigrateClose, MigrateAuthorize, MigrateInsert,
      InsertRefused, RequestFails, AdminStep, RevokeToken, DisconnectRead,
      DisconnectDeauthorize, DisconnectMark, JobStep, TickerStart, BootStart,
      TickerSkip, TickerDeauthorize, BootRestore, BootExpire, ExpireSession,
      ExpireToken, JobStepFails, LoopEnd, PurgeFails, PurgeSessions,
      PurgeTokens, Tick, vars

\* No handler takes a step then.
LEMMA NoHandlerStep ==
  ASSUME DownIdle, mode # "up"
  PROVE  (\A r \in Request : ~PortalAuth(r)) /\ ~AdminStep
<1>1. \A r \in Request : req[r] = Idle /\ req[r].pc = "idle"
  BY DEF DownIdle, Idle
<1>2. admin = Idle /\ admin.pc = "idle"
  BY DEF DownIdle, Idle
<1>3. \A r \in Request : ~PortalAuth(r)
  BY <1>1
  DEF PortalAuth, ValidateUnused, ValidateActive, Starts, CreateAuthorize,
      CreateInsert, CreateRedeem, MigrateFind, MigrateFindsNothing,
      MigrateDeauthorize, MigrateClose, MigrateAuthorize, MigrateInsert,
      InsertRefused, RequestFails
<1>4. ~AdminStep
  BY <1>2
  DEF AdminStep, RevokeToken, DisconnectRead, DisconnectDeauthorize,
      DisconnectMark
<1> QED
  BY <1>3, <1>4

\* And none starts.
LEMMA DownIdleStep ==
  ASSUME DownIdle, [Next]_vars
  PROVE  DownIdle'
<1> SUFFICES ASSUME mode' # "up"
             PROVE  (\A r \in Request : req'[r] = Idle) /\ admin' = Idle
  BY DEF DownIdle
<1>1. CASE Crash
  BY <1>1 DEF Crash
<1>2. CASE ~Crash
  <2>1. mode # "up"
    BY <1>2, ModeSteps DEF BootStart
  <2>2. (\A r \in Request : req[r] = Idle) /\ admin = Idle
    BY <2>1 DEF DownIdle
  <2>3. req' = req /\ admin' = admin
    BY <1>2, <2>1, NoHandlerStep
    DEF Next, JobStep, TickerStart, BootStart, TickerSkip, TickerDeauthorize,
        BootRestore, BootExpire, ExpireSession, ExpireToken, JobStepFails,
        LoopEnd, PurgeFails, PurgeSessions, PurgeTokens, Tick, vars
  <2> QED
    BY <2>2, <2>3
<1> QED
  BY <1>1, <1>2

\* While it restores, the daemon takes the steps of the restore.
LEMMA BootSteps ==
  ASSUME DownIdle, [Next]_vars, mode' = "booting"
  PROVE  \/ BootStart
         \/ mode = "booting" /\ BootStep
<1>1. CASE mode = "booting"
  <2>1. (\A r \in Request : ~PortalAuth(r)) /\ ~AdminStep /\ ~Crash
    BY <1>1, NoHandlerStep DEF Crash
  <2>2. ~PurgeTokens /\ ~PurgeFails
    BY DEF PurgeTokens, PurgeFails
  <2> QED
    BY <1>1, <2>1, <2>2
    DEF BootStep, Next, JobStep, TickerStart, TickerSkip, TickerDeauthorize,
        LoopEnd
<1>2. CASE mode # "booting"
  BY <1>2, ModeSteps DEF Crash
<1> QED
  BY <1>1, <1>2

\* UPDATE session SET status = 'expired' on a row that is active.
LEMMA ExpiresTheRow ==
  ASSUME TypeOK, ExpireSession, session[job.row].status = "active"
  PROVE  /\ job \in Expiring /\ job.row \in Session
         /\ job'.pc = "expire_token" /\ job'.rows = job.rows
         /\ session'[job.row].status # "active"
         /\ \A s \in Session : s # job.row => session'[s] = session[s]
<1>1. job \in Expiring
  BY JobShape DEF ExpireSession
<1>2. job.row \in Session /\ session[job.row] \in SessionRow
  BY <1>1, RowShape DEF Expiring, Inserted
<1>3. session' = [session EXCEPT ![job.row].status = "expired"]
  BY DEF ExpireSession, SetSession, InTable, SessionStatus
<1>4. /\ session'[job.row].status # "active"
      /\ \A s \in Session : s # job.row => session'[s] = session[s]
  BY <1>2, <1>3 DEF TypeOK, SessionRow
<1>5. job'.pc = "expire_token" /\ job'.rows = job.rows
  BY <1>1 DEF ExpireSession, Expiring
<1> QED
  BY <1>1, <1>2, <1>4, <1>5

\* The purge leaves the active rows alone, and opens none.
LEMMA PurgeLeavesActive ==
  ASSUME TypeOK, PurgeSessions
  PROVE  \A s \in Session :
           \/ session'[s] = session[s]
           \/ session[s].status # "active" /\ session'[s].status # "active"
<1> SUFFICES ASSUME NEW s \in Session, session'[s] # session[s]
             PROVE  /\ session[s].status # "active"
                    /\ session'[s].status # "active"
  OBVIOUS
<1>1. /\ session[s].status \in {"expired", "disconnected"}
      /\ session'[s] = [session[s] EXCEPT !.status = "purged"]
  BY DEF PurgeSessions
<1>2. session[s] \in SessionRow
  BY <1>1, RowShape DEF Inserted
<1> QED
  BY <1>1, <1>2 DEF SessionRow

(* The restore's snapshot holds rows that are active, each once.           *)
SnapshotActive ==
  mode = "booting" =>
    /\ job.pc \in LoopPc \cup {"purge_sessions", "purge_tokens"}
    /\ job.pc \in LoopPc => \A s \in job.rows : session[s].status = "active"
    /\ job.pc = "expire_session" =>
         session[job.row].status = "active" /\ job.row \notin job.rows

\* What the restore does to the rows, when it does not let a client in.
LEMMA BootProgress ==
  ASSUME "job" \notin Faults, TypeOK, SnapshotActive, mode = "booting",
         BootStep, \A s \in Session : ~BootRestore(s)
  PROVE  /\ \A s \in Session : session'[s].status = "active" =>
              session'[s] = session[s] /\ (Pending(s)' <=> Pending(s))
         /\ \A s \in Session : session[s].status = "active" /\ ~Pending(s) =>
              session'[s].status = "active"
         /\ (now' = now /\ fw' = fw) \/ Tick
         /\ job'.pc \in LoopPc \cup {"purge_sessions", "purge_tokens"}
         /\ job'.pc \in LoopPc =>
              \A s \in job'.rows : session'[s].status = "active"
         /\ job'.pc = "expire_session" =>
              session'[job'.row].status = "active" /\ job'.row \notin job'.rows
<1>a. /\ job.pc \in LoopPc \cup {"purge_sessions", "purge_tokens"}
      /\ job.pc \in LoopPc => \A s \in job.rows : session[s].status = "active"
      /\ job.pc = "expire_session" =>
           session[job.row].status = "active" /\ job.row \notin job.rows
  BY DEF SnapshotActive
<1>1. CASE \E s \in Session : BootExpire(s)
  <2>1. PICK s \in Session : BootExpire(s)
    BY <1>1
  <2>2. /\ session' = session /\ fw' = fw /\ now' = now
        /\ job'.pc = "expire_session" /\ job'.row = s
        /\ job'.rows = job.rows \ {s} /\ s \in job.rows /\ job.pc = "loop"
    BY <2>1 DEF BootExpire
  <2>3. \A x \in Session : Pending(x)' <=> Pending(x)
    BY <2>2 DEF Pending, LoopPc
  <2> QED
    BY <1>a, <2>2, <2>3 DEF LoopPc
<1>2. CASE ExpireSession
  <2>1. job.pc = "expire_session" /\ fw' = fw /\ now' = now
    BY <1>2 DEF ExpireSession
  <2>2. /\ job \in Expiring /\ job.row \in Session
        /\ job'.pc = "expire_token" /\ job'.rows = job.rows
        /\ session'[job.row].status # "active"
        /\ \A s \in Session : s # job.row => session'[s] = session[s]
    BY <1>2, <1>a, <2>1, ExpiresTheRow
  <2>3. job.rows \subseteq Session
    BY <2>2 DEF Expiring
  <2>4. Pending(job.row) /\ \A x \in Session : x # job.row =>
                              (Pending(x)' <=> Pending(x))
    BY <2>1, <2>2 DEF Pending, LoopPc
  <2>5. \A s \in job'.rows : session'[s].status = "active"
    BY <1>a, <2>1, <2>2, <2>3 DEF LoopPc
  <2> QED
    BY <2>1, <2>2, <2>4, <2>5 DEF LoopPc
<1>3. CASE ExpireToken
  <2>1. /\ job.pc = "expire_token" /\ job'.pc = "loop" /\ job'.rows = job.rows
        /\ session' = session /\ fw' = fw /\ now' = now
    BY <1>3 DEF ExpireToken, Loop
  <2>2. \A x \in Session : Pending(x)' <=> Pending(x)
    BY <2>1 DEF Pending, LoopPc
  <2> QED
    BY <1>a, <2>1, <2>2 DEF LoopPc
<1>4. CASE LoopEnd /\ job' = [pc |-> "purge_sessions"]
  <2>1. /\ job.pc = "loop" /\ job.rows = {} /\ job'.pc = "purge_sessions"
        /\ session' = session /\ fw' = fw /\ now' = now
    BY <1>4 DEF LoopEnd
  <2>2. \A x \in Session : ~Pending(x)' /\ ~Pending(x)
    BY <2>1 DEF Pending, LoopPc
  <2> QED
    BY <2>1, <2>2 DEF LoopPc
<1>5. CASE PurgeSessions
  <2>1. /\ job.pc = "purge_sessions" /\ job'.pc = "purge_tokens"
        /\ fw' = fw /\ now' = now
    BY <1>5 DEF PurgeSessions
  <2>2. \A s \in Session :
          \/ session'[s] = session[s]
          \/ session[s].status # "active" /\ session'[s].status # "active"
    BY <1>5, PurgeLeavesActive
  <2>3. \A x \in Session : ~Pending(x)' /\ ~Pending(x)
    BY <2>1 DEF Pending, LoopPc
  <2> QED
    BY <2>1, <2>2, <2>3 DEF LoopPc
<1>6. CASE Tick \/ UNCHANGED vars
  <2>1. job' = job /\ session' = session
    BY <1>6 DEF Tick, vars
  <2>2. \A x \in Session : Pending(x)' <=> Pending(x)
    BY <2>1 DEF Pending
  <2>3. (now' = now /\ fw' = fw) \/ Tick
    BY <1>6 DEF vars
  <2> QED
    BY <1>a, <2>1, <2>2, <2>3
<1>7. ~JobStepFails
  BY DEF JobStepFails
<1> QED
  BY <1>1, <1>2, <1>3, <1>4, <1>5, <1>6, <1>7 DEF BootStep

\* A client that the restore lets in is waiting for it, and its row stays.
LEMMA RestoreProgress ==
  ASSUME SnapshotActive, NEW s \in Session, BootRestore(s)
  PROVE  /\ mode = "booting" /\ session' = session /\ now' = now
         /\ job.pc = "loop" /\ s \in job.rows
         /\ job'.pc = "loop" /\ job'.rows = job.rows \ {s}
         /\ \A x \in job.rows : session[x].status = "active"
         /\ Remaining(s) > Grace
         /\ AddElement(session[s].client, Remaining(s))
         /\ Pending(s) /\ ~Pending(s)'
         /\ \A x \in Session : x # s => (Pending(x)' <=> Pending(x))
<1>1. /\ mode = "booting" /\ session' = session /\ now' = now
      /\ job.pc = "loop" /\ s \in job.rows
      /\ job'.pc = "loop" /\ job'.rows = job.rows \ {s}
      /\ Remaining(s) > Grace /\ AddElement(session[s].client, Remaining(s))
  BY DEF BootRestore, Loop
<1>2. \A x \in job.rows : session[x].status = "active"
  BY <1>1 DEF SnapshotActive, LoopPc
<1>3. /\ Pending(s) /\ ~Pending(s)'
      /\ \A x \in Session : x # s => (Pending(x)' <=> Pending(x))
  BY <1>1 DEF Pending, LoopPc
<1> QED
  BY <1>1, <1>2, <1>3

\* The snapshot that the restore begins with is right, and stays right.
LEMMA SnapshotStep ==
  ASSUME "job" \notin Faults, TypeOK, DownIdle, SnapshotActive, [Next]_vars
  PROVE  SnapshotActive'
<1>1. CASE BootStart
  <2>1. session' = session /\ job'.pc = "loop" /\ job'.rows = ActiveSessions
    BY <1>1 DEF BootStart, Loop
  <2> QED
    BY <2>1 DEF SnapshotActive, LoopPc, ActiveSessions
<1>2. ASSUME NEW s \in Session, BootRestore(s)
      PROVE  SnapshotActive'
  BY <1>2, RestoreProgress DEF SnapshotActive, LoopPc
<1>3. CASE /\ mode = "booting" /\ BootStep
           /\ \A s \in Session : ~BootRestore(s)
  BY <1>3, BootProgress DEF SnapshotActive
<1>4. CASE mode' # "booting"
  BY <1>4 DEF SnapshotActive
<1> QED
  BY <1>1, <1>2, <1>3, <1>4, BootSteps

-----------------------------------------------------------------------------
(***************************************************************************)
(* The set after a reboot.                                                 *)
(***************************************************************************)

(* The set is empty when the daemon comes back, and no call of the restore *)
(* fails.  A daemon that only dies finds the old set and takes nobody off. *)
Reboots == "process" \notin Crashes /\ "job" \notin Faults

DownEmpty == mode = "down" => job = Idle /\ \A c \in Client : fw[c] = 0

(* Whoever the restore has let in is there for a row it is done with,      *)
GrantedToRunning ==
  mode = "booting" => \A c \in Client : fw[c] # 0 =>
    \E s \in ActiveSessions : /\ session[s].client = c
                              /\ fw[c] = session[s].expires
                              /\ ~Pending(s)

(* and every running session it is done with has been let in.              *)
RunningGranted ==
  mode = "booting" => \A s \in ActiveSessions : session[s].expires > now =>
    Pending(s) \/ fw[session[s].client] = session[s].expires

RestoreInv ==
  DownIdle /\ DownEmpty /\ SnapshotActive /\ GrantedToRunning /\ RunningGranted

\* The set of a daemon that is down stays empty.
LEMMA DownEmptyStep ==
  ASSUME Reboots, TypeOK, RestoreInv, [Next]_vars
  PROVE  DownEmpty'
<1> SUFFICES ASSUME mode' = "down"
             PROVE  job' = Idle /\ \A c \in Client : fw'[c] = 0
  BY DEF DownEmpty
<1>1. CASE Crash
  BY <1>1 DEF Crash, Reboots
<1>2. CASE ~Crash
  <2>1. mode = "down"
    BY <1>2, ModeSteps DEF BootStart
  <2>2. job = Idle /\ job.pc = "idle" /\ \A c \in Client : fw[c] = 0
    BY <2>1 DEF RestoreInv, DownEmpty, Idle
  <2>3. (\A r \in Request : ~PortalAuth(r)) /\ ~AdminStep
    BY <2>1, NoHandlerStep DEF RestoreInv
  <2>4. CASE Tick
    BY <2>2, <2>4 DEF Tick
  <2>5. ~JobStep
    BY <2>1, <2>2
    DEF JobStep, TickerStart, BootStart, TickerSkip, TickerDeauthorize,
        BootRestore, BootExpire, ExpireSession, ExpireToken, JobStepFails,
        LoopEnd, PurgeFails, PurgeSessions, PurgeTokens
  <2> QED
    BY <1>2, <2>2, <2>3, <2>4, <2>5 DEF Next, vars
<1> QED
  BY <1>1, <1>2

\* nft add element, for a session that the restore lets in.
LEMMA RestoresTheRow ==
  ASSUME IInv, OneActivePerMac, RestoreInv, NEW s \in Session, BootRestore(s)
  PROVE  /\ session[s].status = "active" /\ session[s].client \in Client
         /\ fw[session[s].client] = 0
         /\ fw' = [fw EXCEPT ![session[s].client] = session[s].expires]
<1>a. TypeOK
  BY DEF IInv
<1>1. /\ mode = "booting" /\ job.pc = "loop" /\ s \in job.rows
      /\ Remaining(s) > Grace /\ AddElement(session[s].client, Remaining(s))
      /\ session[s].status = "active" /\ Pending(s)
  BY RestoreProgress DEF RestoreInv
<1>2. session[s] \in SessionRow /\ session[s].client \in Client
      /\ session[s].expires \in Nat /\ now \in Nat
  BY <1>1, <1>a, RowShape DEF Inserted, SessionRow, TypeOK
<1>3. fw[session[s].client] = 0
  <2> SUFFICES ASSUME fw[session[s].client] # 0
               PROVE  FALSE
    OBVIOUS
  <2>1. PICK x \in ActiveSessions :
          session[x].client = session[s].client /\ ~Pending(x)
    BY <1>1, <1>2 DEF RestoreInv, GrantedToRunning
  <2>2. x = s
    BY <1>1, <2>1 DEF OneActivePerMac, ActiveSessions
  <2> QED
    BY <1>1, <2>1, <2>2
<1>4. now + Remaining(s) = session[s].expires
  BY <1>1, <1>2, ConstantsAssumption DEF Remaining
<1>5. fw' = [fw EXCEPT ![session[s].client] = session[s].expires]
  BY <1>1, <1>3, <1>4 DEF AddElement
<1> QED
  BY <1>1, <1>2, <1>3, <1>5

\* The restore keeps the two sides of the set's books.
LEMMA RestoreStep ==
  ASSUME Reboots, IInv, OneActivePerMac, RestoreInv, [Next]_vars,
         mode' = "booting"
  PROVE  GrantedToRunning' /\ RunningGranted'
<1>a. /\ TypeOK /\ DownIdle /\ DownEmpty /\ SnapshotActive
      /\ "job" \notin Faults
  BY DEF IInv, RestoreInv, Reboots
<1>1. CASE BootStart
  <2>1. /\ session' = session /\ fw' = fw
        /\ \A c \in Client : fw[c] = 0
        /\ job'.pc = "loop" /\ job'.rows = ActiveSessions
    BY <1>1, <1>a DEF BootStart, Loop, DownEmpty
  <2> QED
    BY <2>1
    DEF GrantedToRunning, RunningGranted, LoopPc, Pending, ActiveSessions
<1> SUFFICES ASSUME mode = "booting", BootStep
    PROVE  /\ \A c \in Client : fw'[c] # 0 =>
                \E s \in Session : /\ session'[s].status = "active"
                                   /\ session'[s].client = c
                                   /\ fw'[c] = session'[s].expires
                                   /\ ~Pending(s)'
           /\ \A s \in Session :
                session'[s].status = "active" /\ session'[s].expires > now' =>
                  Pending(s)' \/ fw'[session'[s].client] = session'[s].expires
  BY <1>1, <1>a, BootSteps
  DEF GrantedToRunning, RunningGranted, ActiveSessions
\* What is known before the step.
<1>b. \A c \in Client : fw[c] # 0 =>
        \E s \in Session : /\ session[s].status = "active"
                           /\ session[s].client = c
                           /\ fw[c] = session[s].expires
                           /\ ~Pending(s)
  BY DEF RestoreInv, GrantedToRunning, ActiveSessions
<1>c. \A s \in Session :
        session[s].status = "active" /\ session[s].expires > now =>
          Pending(s) \/ fw[session[s].client] = session[s].expires
  BY DEF RestoreInv, RunningGranted, ActiveSessions
<1>d. \A s \in Session : session[s].status = "active" =>
        /\ session[s].client \in Client /\ session[s].expires \in Nat
        /\ now \in Nat
  BY <1>a, RowShape DEF Inserted, SessionRow, TypeOK
<1>2. CASE \E s \in Session : BootRestore(s)
  <2>1. PICK s \in Session : BootRestore(s)
    BY <1>2
  <2>2. /\ session' = session /\ now' = now
        /\ ~Pending(s)'
        /\ \A x \in Session : x # s => (Pending(x)' <=> Pending(x))
    BY <2>1, <1>a, RestoreProgress
  <2>3. /\ session[s].status = "active" /\ session[s].client \in Client
        /\ fw[session[s].client] = 0
        /\ fw' = [fw EXCEPT ![session[s].client] = session[s].expires]
    BY <2>1, RestoresTheRow
  <2>4. /\ fw'[session[s].client] = session[s].expires
        /\ \A c \in Client : c # session[s].client => fw'[c] = fw[c]
    BY <2>3, <1>a DEF TypeOK
  <2>5. ASSUME NEW c \in Client, fw'[c] # 0
        PROVE  \E x \in Session : /\ session'[x].status = "active"
                                  /\ session'[x].client = c
                                  /\ fw'[c] = session'[x].expires
                                  /\ ~Pending(x)'
    <3>1. CASE c = session[s].client
      BY <2>2, <2>3, <2>4, <3>1
    <3>2. CASE c # session[s].client
      <4>1. PICK x \in Session : /\ session[x].status = "active"
                                 /\ session[x].client = c
                                 /\ fw[c] = session[x].expires
                                 /\ ~Pending(x)
        BY <1>b, <2>4, <2>5, <3>2
      <4>2. x # s
        BY <3>2, <4>1
      <4> QED
        BY <2>2, <2>4, <3>2, <4>1, <4>2
    <3> QED
      BY <3>1, <3>2
  <2>6. ASSUME NEW x \in Session, session[x].status = "active",
               session[x].expires > now
        PROVE  Pending(x)' \/ fw'[session[x].client] = session[x].expires
    <3>1. CASE x = s
      BY <2>4, <3>1
    <3>2. CASE x # s /\ ~Pending(x)
      <4>1. fw[session[x].client] = session[x].expires
        BY <1>c, <2>6, <3>2
      <4>2. session[x].client # session[s].client
        BY <2>3, <2>6, <1>d, <4>1
      <4> QED
        BY <2>4, <2>6, <1>d, <4>1, <4>2
    <3> QED
      BY <2>2, <3>1, <3>2
  <2> QED
    BY <2>2, <2>5, <2>6
<1>3. CASE \A s \in Session : ~BootRestore(s)
  <2>1. /\ \A s \in Session : session'[s].status = "active" =>
             session'[s] = session[s] /\ (Pending(s)' <=> Pending(s))
        /\ \A s \in Session : session[s].status = "active" /\ ~Pending(s) =>
             session'[s].status = "active"
        /\ (now' = now /\ fw' = fw) \/ Tick
    BY <1>a, <1>3, BootProgress
  <2>2. \A c \in Client : fw'[c] # 0 => fw'[c] = fw[c]
    BY <2>1 DEF Tick
  <2>3. \A c \in Client : fw'[c] # 0 =>
          \E s \in Session : /\ session'[s].status = "active"
                             /\ session'[s].client = c
                             /\ fw'[c] = session'[s].expires
                             /\ ~Pending(s)'
    BY <1>b, <2>1, <2>2
  <2>4. ASSUME NEW s \in Session, session'[s].status = "active",
               session'[s].expires > now', ~Pending(s)'
        PROVE  fw'[session'[s].client] = session'[s].expires
    <3>1. /\ session'[s] = session[s] /\ ~Pending(s)
          /\ session[s].status = "active"
      BY <2>1, <2>4
    <3>2. CASE now' = now /\ fw' = fw
      BY <1>c, <2>4, <3>1, <3>2
    <3>3. CASE Tick
      BY <1>c, <1>d, <2>4, <3>1, <3>3 DEF Tick
    <3> QED
      BY <2>1, <3>2, <3>3
  <2> QED
    BY <2>3, <2>4
<1> QED
  BY <1>2, <1>3

\* The invariant of a daemon that restores.
LEMMA RestoreInductive ==
  ASSUME Reboots
  PROVE  Spec => []RestoreInv
<1>1. Init => RestoreInv
  BY DEF Init, RestoreInv, DownIdle, DownEmpty, SnapshotActive,
         GrantedToRunning, RunningGranted
<1>2. IInv /\ OneActivePerMac /\ RestoreInv /\ [Next]_vars => RestoreInv'
  <2> SUFFICES ASSUME IInv, OneActivePerMac, RestoreInv, [Next]_vars
               PROVE  RestoreInv'
    OBVIOUS
  <2>1. DownIdle' /\ DownEmpty' /\ SnapshotActive'
    BY DownIdleStep, DownEmptyStep, SnapshotStep
    DEF RestoreInv, IInv, Reboots
  <2>2. GrantedToRunning' /\ RunningGranted'
    <3>1. CASE mode' = "booting"
      BY <3>1, RestoreStep
    <3>2. CASE mode' # "booting"
      BY <3>2 DEF GrantedToRunning, RunningGranted
    <3> QED
      BY <3>1, <3>2
  <2> QED
    BY <2>1, <2>2 DEF RestoreInv
<1> QED
  BY <1>1, <1>2, InductiveInvariant, OneSessionPerDevice, PTL DEF Spec

(* When the daemon opens its servers after a reboot, the set grants every  *)
(* running session exactly its remaining time and nobody else any,         *)
(* whatever handler the reboot cut short, whatever requests had failed     *)
(* before and whatever nft does about an element that is already there.    *)
THEOREM RebootRestoresTheSet ==
  ASSUME Reboots
  PROVE  Spec => RestoredFirewall
<1>1. RestoreInv /\ [Next]_vars =>
        [mode = "booting" /\ mode' = "up" =>
           /\ \A s \in ActiveSessions : session[s].expires > now =>
                fw[session[s].client] = session[s].expires
           /\ \A c \in Client : fw[c] # 0 =>
                \E s \in ActiveSessions : session[s].client = c]_vars
  <2> SUFFICES ASSUME RestoreInv, [Next]_vars, mode = "booting", mode' = "up"
               PROVE  /\ \A s \in ActiveSessions : session[s].expires > now =>
                           fw[session[s].client] = session[s].expires
                      /\ \A c \in Client : fw[c] # 0 =>
                           \E s \in ActiveSessions : session[s].client = c
    OBVIOUS
  <2>1. job.pc = "purge_tokens"
    <3>1. PurgeTokens \/ PurgeFails
      BY ModeSteps DEF Crash, BootStart
    <3> QED
      BY <3>1 DEF PurgeTokens, PurgeFails, Reboots
  <2>2. \A s \in Session : ~Pending(s)
    BY <2>1 DEF Pending, LoopPc
  <2> QED
    BY <2>2 DEF RestoreInv, GrantedToRunning, RunningGranted, ActiveSessions
<1> QED
  BY <1>1, RestoreInductive, PTL DEF Spec, RestoredFirewall

-----------------------------------------------------------------------------
(***************************************************************************)
(* A customer whose session runs is on the network.                        *)
(***************************************************************************)

(* One portal request at a time, which runs to its end unless the daemon   *)
(* stops; the manager disconnects nobody; the ticker takes nobody off,     *)
(* which is so when there is a grace period; and nft restarts the timeout  *)
(* of a client that it lets in again.  Each of these is needed.            *)
Attended ==
  /\ \A r1, r2 \in Request : r1 = r2
  /\ "request" \notin Faults
  /\ "job" \notin Faults
  /\ "disconnect" \notin AdminActs
  /\ Grace > 0
  /\ AddRefreshes = {TRUE}

MovingPc == {"migrate_deauthorize", "migrate_close", "migrate_authorize",
             "migrate_insert"}

(* Then only the restore expires a session.                                *)
NobodyTakenOff ==
  /\ admin = Idle
  /\ mode = "down" => job = Idle
  /\ mode = "up" => job.pc \notin {"expire_session", "expire_token"}

(* No deadline is further away than one period.                            *)
WithinAPeriod ==
  /\ \A s \in Session : Inserted(s) => session[s].expires <= now + Duration
  /\ \A r \in Request : req[r].pc \in {"create_authorize", "create_insert"} =>
       req[r].expires <= now + Duration

(* A request that has let its client in has done so for the whole of the   *)
(* row it is about to insert, and the row it migrates is open until it     *)
(* closes it itself.                                                       *)
LetIn(r) ==
  /\ req[r].pc = "create_insert" /\ req[r].expires > now =>
       fw[req[r].client] >= req[r].expires
  /\ req[r].pc \in MovingPc \cup {"migrate_find"} =>
       token[req[r].token].status = "active"
  /\ req[r].pc \in MovingPc =>
       session[req[r].old].expires <= now + req[r].remaining
  /\ req[r].pc \in {"migrate_deauthorize", "migrate_close"} =>
       session[req[r].old].status = "active"
  /\ req[r].pc = "migrate_insert" /\ session[req[r].old].expires > now =>
       fw[req[r].client] >= session[req[r].old].expires

(* The rows a migration is about to close: the one it moves, and one that  *)
(* its device had before.                                                  *)
Leaving(s) ==
  \E r \in Request :
    \/ req[r].pc = "migrate_close" /\ req[r].old = s
    \/ /\ req[r].pc = "migrate_insert"
       /\ MacOf(req[r].client) = MacOf(session[s].client)

(* Every running session is in the set to its deadline, but for those, and *)
(* those the restore has still to come to.                                 *)
RunningOnline ==
  \A s \in ActiveSessions :
    session[s].expires > now /\ mode # "down" =>
      \/ mode = "booting" /\ Pending(s)
      \/ Leaving(s)
      \/ fw[session[s].client] >= session[s].expires

OnlineInv ==
  /\ DownIdle /\ SnapshotActive /\ NobodyTakenOff
  /\ WithinAPeriod
  /\ \A r \in Request : LetIn(r)
  /\ RunningOnline

\* With a grace period the ticker, which clamps what remains, finds nothing
\* due.
LEMMA NothingDue ==
  ASSUME TypeOK, Grace > 0, NEW s \in Session, Inserted(s)
  PROVE  ~Due(s)
BY RemainingType, ConstantsAssumption DEF Due

\* The handlers of the manager and the ticker take nobody off.
LEMMA NobodyTakenOffStep ==
  ASSUME Attended, IInv, OnlineInv, [Next]_vars
  PROVE  NobodyTakenOff'
<1>a. /\ TypeOK /\ FetchedRowsExist /\ NobodyTakenOff /\ SnapshotActive
      /\ admin.pc = "idle" /\ Idle.pc = "idle"
  BY DEF IInv, OnlineInv, NobodyTakenOff, Idle
<1>1. CASE Crash
  BY <1>1 DEF Crash, NobodyTakenOff
<1>2. CASE AdminStep
  BY <1>2, <1>a
  DEF AdminStep, RevokeToken, DisconnectRead, DisconnectDeauthorize,
      DisconnectMark, NobodyTakenOff, Attended
<1>3. CASE \/ \E r \in Request : PortalAuth(r)
           \/ Tick \/ UNCHANGED vars
  <2>1. admin' = admin /\ job' = job /\ mode' = mode
    BY <1>3
    DEF PortalAuth, ValidateUnused, ValidateActive, CreateAuthorize,
        CreateInsert, CreateRedeem, MigrateFind, MigrateFindsNothing,
        MigrateDeauthorize, MigrateClose, MigrateAuthorize, MigrateInsert,
        InsertRefused, RequestFails, Tick, vars
  <2> QED
    BY <2>1, <1>a DEF NobodyTakenOff
<1>4. CASE JobStep
  <2>1. ASSUME NEW s \in Session
        PROVE  ~TickerDeauthorize(s)
    BY <1>a, NothingDue DEF TickerDeauthorize, FetchedRowsExist, Attended
  <2>2. CASE mode = "up"
    <3>1. ~ExpireSession /\ ~ExpireToken /\ ~JobStepFails /\ ~PurgeFails
      BY <2>2, <1>a
      DEF ExpireSession, ExpireToken, JobStepFails, PurgeFails,
          NobodyTakenOff, Attended
    <3> QED
      BY <1>4, <2>1, <2>2, <3>1, <1>a
      DEF JobStep, TickerStart, BootStart, TickerSkip, BootRestore, BootExpire,
          LoopEnd, PurgeSessions, PurgeTokens, Loop, NobodyTakenOff
  <2>3. CASE mode # "up"
    BY <1>4, <2>1, <2>3, <1>a
    DEF JobStep, TickerStart, BootStart, TickerSkip, BootRestore, BootExpire,
        ExpireSession, ExpireToken, JobStepFails, LoopEnd, PurgeSessions,
        PurgeTokens, PurgeFails, Loop, NobodyTakenOff
  <2> QED
    BY <2>2, <2>3
<1> QED
  BY <1>1, <1>2, <1>3, <1>4 DEF Next

\* What a daemon that serves does when no handler takes a step.
LEMMA ServingSteps ==
  ASSUME Attended, IInv, OnlineInv, [Next]_vars, mode = "up", mode' = "up",
         \A r \in Request : ~PortalAuth(r)
  PROVE  /\ req' = req
         /\ (now' = now /\ fw' = fw) \/ Tick
         /\ \A s \in Session :
              \/ session'[s] = session[s]
              \/ session[s].status # "active" /\ session'[s].status # "active"
         /\ \A t \in Token :
              token[t].status = "active" => token'[t].status = "active"
<1>a. /\ TypeOK /\ FetchedRowsExist /\ NobodyTakenOff /\ admin.pc = "idle"
      /\ job.pc \notin {"expire_session", "expire_token"}
  BY DEF IInv, OnlineInv, NobodyTakenOff, Idle
<1>1. CASE PurgeSessions
  BY <1>1, <1>a, PurgeLeavesActive DEF PurgeSessions
<1>2. CASE PurgeTokens
  BY <1>2 DEF PurgeTokens
<1>3. ASSUME NEW t \in Token, RevokeToken(t)
      PROVE  \A u \in Token :
               token[u].status = "active" => token'[u].status = "active"
  BY <1>3, <1>a DEF RevokeToken, TypeOK
<1>4. CASE \E t \in Token : RevokeToken(t)
  BY <1>3, <1>4 DEF RevokeToken
<1>5. CASE Tick \/ UNCHANGED vars
  BY <1>5 DEF Tick, vars
<1>6. ~Crash /\ ~DisconnectDeauthorize /\ ~DisconnectMark
      /\ ~ExpireSession /\ ~ExpireToken /\ ~JobStepFails /\ ~PurgeFails
  BY <1>a
  DEF Crash, DisconnectDeauthorize, DisconnectMark, ExpireSession,
      ExpireToken, JobStepFails, PurgeFails, Attended
<1>7. ASSUME NEW s \in Session
      PROVE  ~TickerDeauthorize(s) /\ ~BootRestore(s) /\ ~BootExpire(s)
  BY <1>a, NothingDue
  DEF TickerDeauthorize, BootRestore, BootExpire, FetchedRowsExist, Attended
<1> QED
  BY <1>1, <1>2, <1>4, <1>5, <1>6, <1>7
  DEF Next, AdminStep, DisconnectRead, JobStep, TickerStart, BootStart,
      TickerSkip, LoopEnd

\* A deadline comes closer, and a new one is a period away.
LEMMA WithinAPeriodStep ==
  ASSUME Attended, IInv, TypeOK', OnlineInv, [Next]_vars
  PROVE  WithinAPeriod'
<1>a. TypeOK /\ FetchedRowsExist /\ WithinAPeriod
  BY DEF IInv, OnlineInv
<1>b. \A r, q \in Request : r = q
  BY DEF Attended
<1>c. now \in Nat /\ now' \in Nat /\ now <= now' /\ Duration \in Nat
  BY <1>a, ClockStep, ConstantsAssumption
<1>1. ASSUME NEW s \in Session, Inserted(s)
      PROVE  session'[s].expires <= now' + Duration
  <2>1. /\ session'[s].expires = session[s].expires
        /\ session[s].expires \in Nat
        /\ session[s].expires <= now + Duration
    BY <1>1, <1>a, RowsAreKept, RowShape
    DEF SameRow, SessionRow, WithinAPeriod
  <2> QED
    BY <2>1, <1>c
<1>2. ASSUME NEW s \in Session, session'[s].status # "none", ~Inserted(s)
      PROVE  session'[s].expires <= now' + Duration
  <2>1. PICK r \in Request : CreateInsert(r) \/ MigrateInsert(r)
    BY <1>2, ClosingSteps DEF Closing, Inserted
  <2>2. PICK new \in Session :
          Adding(new, req[r].token, req[r].client,
                 IF req[r].pc = "create_insert" THEN req[r].expires
                 ELSE session[req[r].old].expires)
    BY <2>1, RequestAdds
  <2>3. session'[s].expires = IF req[r].pc = "create_insert" THEN req[r].expires
                              ELSE session[req[r].old].expires
    BY <1>2, <2>2 DEF Adding, Inserted
  <2>4. now' = now
    BY <2>1 DEF CreateInsert, MigrateInsert
  <2>5. CASE req[r].pc = "create_insert"
    BY <2>3, <2>4, <2>5, <1>a DEF WithinAPeriod
  <2>6. CASE req[r].pc = "migrate_insert"
    <3>1. req[r].old \in Session /\ Inserted(req[r].old)
      BY <2>6, <1>a, RequestShape DEF Migrating, FetchedRowsExist
    <3> QED
      BY <2>3, <2>4, <2>6, <3>1, <1>a DEF WithinAPeriod
  <2> QED
    BY <2>1, <2>5, <2>6 DEF CreateInsert, MigrateInsert
<1>3. ASSUME NEW r \in Request,
             req'[r].pc \in {"create_authorize", "create_insert"}
      PROVE  req'[r].expires <= now' + Duration
  <2>1. ASSUME NEW t \in Token, NEW c \in Client, ValidateUnused(r, t, c)
        PROVE  req'[r].expires <= now' + Duration
    BY <2>1, <1>a, <1>c DEF ValidateUnused, TypeOK
  <2>2. CASE CreateAuthorize(r)
    BY <2>2, <1>a, RequestShape, GotoKeeps DEF CreateAuthorize, WithinAPeriod
  <2>3. CASE req' = req
    <3>1. req[r].expires \in Nat /\ req[r].expires <= now + Duration
      BY <1>3, <2>3, <1>a, RequestShape DEF Creating, WithinAPeriod
    <3> QED
      BY <2>3, <3>1, <1>c
  <2>4. CASE Crash
    BY <1>3, <2>4 DEF Crash, Idle
  <2>5. ASSUME NEW t \in Token, NEW c \in Client
        PROVE  ~ValidateActive(r, t, c)
    BY <1>3, <1>a DEF ValidateActive, TypeOK
  <2>6. ~CreateInsert(r) /\ ~MigrateDeauthorize(r) /\ ~MigrateClose(r)
        /\ ~MigrateAuthorize(r)
    BY <1>3, <1>a, RequestShape, GotoKeeps
    DEF CreateInsert, MigrateDeauthorize, MigrateClose, MigrateAuthorize
  <2>7. ~CreateRedeem(r) /\ ~MigrateFindsNothing(r) /\ ~MigrateInsert(r)
        /\ ~InsertRefused(r) /\ ~RequestFails(r)
    BY <1>3, <1>a, FinishIdles
    DEF CreateRedeem, MigrateFindsNothing, MigrateInsert, InsertRefused,
        RequestFails
  <2>8. ~MigrateFind(r)
    BY <1>3, <1>a, FinishIdles DEF MigrateFind, TypeOK
  <2>9. CASE PortalAuth(r)
    BY <2>1, <2>2, <2>5, <2>6, <2>7, <2>8, <2>9 DEF PortalAuth
  <2>10. CASE ~PortalAuth(r) /\ ~Crash
    <3>1. req' = req
      BY <1>b, <2>10
      DEF Next, AdminStep, RevokeToken, DisconnectRead, DisconnectDeauthorize,
          DisconnectMark, JobStep, TickerStart, BootStart, TickerSkip,
          TickerDeauthorize, BootRestore, BootExpire, ExpireSession,
          ExpireToken, JobStepFails, LoopEnd, PurgeFails, PurgeSessions,
          PurgeTokens, Tick, vars
    <3> QED
      BY <2>3, <3>1
  <2> QED
    BY <2>4, <2>9, <2>10
<1> QED
  BY <1>1, <1>2, <1>3 DEF WithinAPeriod, Inserted

\* A request keeps its promise while others take steps.
LEMMA LetInServing ==
  ASSUME Attended, IInv, OnlineInv, [Next]_vars, mode = "up", mode' = "up",
         \A r \in Request : ~PortalAuth(r), NEW r \in Request
  PROVE  LetIn(r)'
<1>a. TypeOK /\ FetchedRowsExist /\ LetIn(r)
  BY DEF IInv, OnlineInv
<1>b. /\ req' = req
      /\ (now' = now /\ fw' = fw) \/ Tick
      /\ \A s \in Session :
           \/ session'[s] = session[s]
           \/ session[s].status # "active" /\ session'[s].status # "active"
      /\ \A t \in Token :
           token[t].status = "active" => token'[t].status = "active"
  BY ServingSteps
<1>c. now \in Nat /\ now' \in Nat /\ now <= now'
  BY <1>a, ClockStep
<1>1. ASSUME NEW c \in Client, NEW e \in Nat, e > now', fw[c] >= e
      PROVE  fw'[c] >= e
  <2>1. fw[c] \in Nat
    BY <1>a DEF TypeOK
  <2> QED
    BY <1>1, <1>b, <1>c, <2>1 DEF Tick
<1>2. CASE req[r].pc = "create_insert"
  <2>1. req[r].client \in Client /\ req[r].expires \in Nat
    BY <1>2, <1>a, RequestShape DEF Creating
  <2> QED
    BY <1>1, <1>2, <1>a, <1>b, <1>c, <2>1 DEF LetIn, MovingPc
<1>3. CASE req[r].pc \in MovingPc
  <2>1. /\ req[r].client \in Client /\ req[r].token \in Token
        /\ req[r].old \in Session /\ Inserted(req[r].old)
        /\ req[r].remaining \in Nat
    BY <1>3, <1>a, RequestShape DEF Migrating, FetchedRowsExist, MovingPc
  <2>2. /\ session'[req[r].old].expires = session[req[r].old].expires
        /\ session[req[r].old].expires \in Nat
    BY <2>1, <1>a, RowsAreKept, RowShape DEF SameRow, SessionRow
  <2>3. token'[req[r].token].status = "active"
    BY <1>3, <1>a, <1>b, <2>1 DEF LetIn
  <2>4. session[req[r].old].expires <= now' + req[r].remaining
    BY <1>3, <1>a, <1>c, <2>1, <2>2 DEF LetIn
  <2>5. req[r].pc \in {"migrate_deauthorize", "migrate_close"} =>
          session'[req[r].old].status = "active"
    BY <1>a, <1>b, <2>1 DEF LetIn
  <2>6. req[r].pc = "migrate_insert" /\ session[req[r].old].expires > now' =>
          fw'[req[r].client] >= session[req[r].old].expires
    BY <1>1, <1>a, <1>c, <2>1, <2>2 DEF LetIn
  <2> QED
    BY <1>3, <1>b, <2>2, <2>3, <2>4, <2>5, <2>6 DEF LetIn, MovingPc
<1>4. CASE req[r].pc = "migrate_find"
  <2>1. req[r].token \in Token
    BY <1>4, <1>a, RequestShape DEF Finding
  <2> QED
    BY <1>4, <1>a, <1>b, <2>1 DEF LetIn, MovingPc
<1> QED
  BY <1>2, <1>3, <1>4, <1>b DEF LetIn, MovingPc

\* nft add element, when it restarts the timeout of an element that is there.
LEMMA AddRestarts ==
  ASSUME Attended, TypeOK, NEW c \in Client, NEW secs \in Nat,
         AddElement(c, secs)
  PROVE  fw'[c] = now + secs /\ \A d \in Client : d # c => fw'[d] = fw[d]
<1>1. fw' = [fw EXCEPT ![c] = now + secs]
  BY DEF AddElement, Attended
<1> QED
  BY <1>1 DEF TypeOK

\* A request keeps its promise when it goes on.
LEMMA LetInRequest ==
  ASSUME Attended, IInv, TypeOK', OnlineInv, [Next]_vars,
         NEW r \in Request, PortalAuth(r)
  PROVE  LetIn(r)'
<1>a. /\ TypeOK /\ FetchedRowsExist /\ LetIn(r) /\ WithinAPeriod
      /\ Duration \in Nat /\ now \in Nat
  BY ConstantsAssumption DEF IInv, OnlineInv, TypeOK
<1>b. ASSUME req[r].pc \in MovingPc
      PROVE  /\ req[r].client \in Client /\ req[r].token \in Token
             /\ req[r].old \in Session /\ Inserted(req[r].old)
             /\ req[r].remaining \in Nat
             /\ session'[req[r].old].expires = session[req[r].old].expires
             /\ session[req[r].old].expires \in Nat
  <2>1. /\ req[r].client \in Client /\ req[r].token \in Token
        /\ req[r].old \in Session /\ Inserted(req[r].old)
        /\ req[r].remaining \in Nat
    BY <1>b, <1>a, RequestShape DEF Migrating, FetchedRowsExist, MovingPc
  <2> QED
    BY <2>1, <1>a, RowsAreKept, RowShape DEF SameRow, SessionRow
<1>1. ASSUME NEW t \in Token, NEW c \in Client, ValidateUnused(r, t, c)
      PROVE  LetIn(r)'
  BY <1>1, <1>a DEF ValidateUnused, TypeOK, LetIn, MovingPc
<1>2. ASSUME NEW t \in Token, NEW c \in Client, ValidateActive(r, t, c)
      PROVE  LetIn(r)'
  BY <1>2, <1>a DEF ValidateActive, TypeOK, LetIn, MovingPc
<1>3. CASE CreateAuthorize(r)
  <2>1. /\ req[r].pc = "create_authorize" /\ req[r].client \in Client
        /\ req'[r].pc = "create_insert" /\ req'[r].client = req[r].client
        /\ req'[r].expires = req[r].expires
    BY <1>3, <1>a, RequestShape, GotoKeeps DEF CreateAuthorize, Creating
  <2>2. fw'[req[r].client] = now + Duration
    BY <1>3, <1>a, <2>1, AddRestarts DEF CreateAuthorize
  <2>3. req[r].expires <= now + Duration
    BY <2>1, <1>a DEF WithinAPeriod
  <2> QED
    BY <2>1, <2>2, <2>3 DEF LetIn, MovingPc
<1>4. CASE CreateInsert(r)
  <2>1. req'[r].pc = "create_redeem"
    BY <1>4, <1>a, RequestShape, GotoKeeps DEF CreateInsert
  <2> QED
    BY <2>1 DEF LetIn, MovingPc
<1>5. CASE \/ CreateRedeem(r) \/ MigrateFindsNothing(r) \/ MigrateInsert(r)
           \/ InsertRefused(r) \/ RequestFails(r)
  <2>1. req'[r].pc = "idle"
    BY <1>5, <1>a, FinishIdles
    DEF CreateRedeem, MigrateFindsNothing, MigrateInsert, InsertRefused,
        RequestFails
  <2> QED
    BY <2>1 DEF LetIn, MovingPc
<1>6. CASE MigrateFind(r)
  <2>1. PICK o \in ActiveSessions :
          /\ session[o].token = req[r].token
          /\ \/ req' = [req EXCEPT ![r] =
                  [pc |-> "migrate_deauthorize", token |-> req[r].token,
                   client |-> req[r].client, old |-> o,
                   remaining |-> Remaining(o)]]
             \/ Finish(r)
    BY <1>6 DEF MigrateFind
  <2>2. CASE Finish(r)
    <3>1. req'[r].pc = "idle"
      BY <2>2, <1>a, FinishIdles
    <3> QED
      BY <3>1 DEF LetIn, MovingPc
  <2>3. CASE ~Finish(r)
    <3>1. /\ req'[r].pc = "migrate_deauthorize" /\ req'[r].old = o
          /\ req'[r].token = req[r].token
          /\ req'[r].remaining = Remaining(o)
      BY <2>1, <2>3, <1>a DEF TypeOK
    <3>2. /\ session' = session /\ now' = now /\ token' = token
          /\ req[r].pc = "migrate_find"
      BY <1>6 DEF MigrateFind
    <3>3. session[o].expires \in Nat /\ session[o].status = "active"
      BY <1>a, RowShape DEF ActiveSessions, Inserted, SessionRow
    <3>4. session[o].expires <= now + Remaining(o)
      BY <3>3, <1>a DEF Remaining
    <3> QED
      BY <3>1, <3>2, <3>3, <3>4, <1>a DEF LetIn, MovingPc
  <2> QED
    BY <2>2, <2>3
<1>7. ASSUME MigrateDeauthorize(r) \/ MigrateClose(r) \/ MigrateAuthorize(r)
      PROVE  /\ req[r].pc \in MovingPc /\ req'[r].pc \in MovingPc
             /\ req'[r].client = req[r].client /\ req'[r].old = req[r].old
             /\ req'[r].token = req[r].token
             /\ req'[r].remaining = req[r].remaining
             /\ now' = now /\ token' = token
  BY <1>7, <1>a, RequestShape, GotoKeeps
  DEF MigrateDeauthorize, MigrateClose, MigrateAuthorize, MovingPc
<1>8. CASE MigrateDeauthorize(r)
  <2>1. /\ session' = session /\ req[r].pc = "migrate_deauthorize"
        /\ req'[r].pc = "migrate_close"
    BY <1>8, <1>a, RequestShape, GotoKeeps DEF MigrateDeauthorize
  <2> QED
    BY <1>7, <1>8, <2>1, <1>a, <1>b DEF LetIn
<1>9. CASE MigrateClose(r)
  <2>1. req'[r].pc = "migrate_authorize"
    BY <1>9, <1>a, RequestShape, GotoKeeps DEF MigrateClose
  <2> QED
    BY <1>7, <1>9, <2>1, <1>a, <1>b DEF LetIn
<1>10. CASE MigrateAuthorize(r)
  <2>1. /\ req'[r].pc = "migrate_insert"
        /\ AddElement(req[r].client, req[r].remaining)
    BY <1>10, <1>a, RequestShape, GotoKeeps DEF MigrateAuthorize
  <2>2. fw'[req[r].client] = now + req[r].remaining
    BY <1>7, <1>10, <1>a, <1>b, <2>1, AddRestarts
  <2> QED
    BY <1>7, <1>10, <2>1, <2>2, <1>a, <1>b DEF LetIn
<1> QED
  BY <1>1, <1>2, <1>3, <1>4, <1>5, <1>6, <1>8, <1>9, <1>10 DEF PortalAuth

\* So every request keeps its promise.
LEMMA LetInStep ==
  ASSUME Attended, IInv, TypeOK', OnlineInv, DownIdle', [Next]_vars,
         NEW r \in Request
  PROVE  LetIn(r)'
<1>a. DownIdle /\ \A q \in Request : q = r
  BY DEF OnlineInv, Attended
<1>1. CASE PortalAuth(r)
  BY <1>1, LetInRequest
<1>2. CASE mode' # "up"
  BY <1>2 DEF DownIdle, Idle, LetIn, MovingPc
<1>3. CASE mode' = "up" /\ mode # "up"
  <2>1. req[r] = Idle
    BY <1>3, <1>a DEF DownIdle
  <2>2. req' = req
    BY <1>3, ModeSteps DEF Crash, BootStart, PurgeTokens, PurgeFails
  <2> QED
    BY <2>1, <2>2 DEF LetIn, MovingPc, Idle
<1>4. CASE mode' = "up" /\ mode = "up" /\ ~PortalAuth(r)
  BY <1>4, <1>a, LetInServing
<1> QED
  BY <1>1, <1>2, <1>3, <1>4

\* What RunningOnline says of a session that is running after a step.
OnlineNext(s) ==
  \/ mode' = "booting" /\ Pending(s)'
  \/ Leaving(s)'
  \/ fw'[session'[s].client] >= session'[s].expires

\* The restore lets in whom it comes to, and nobody is let out.
LEMMA OnlineBooting ==
  ASSUME Attended, IInv, OneActivePerMac, OnlineInv, [Next]_vars,
         mode' = "booting", NEW s \in Session,
         session'[s].status = "active", session'[s].expires > now'
  PROVE  OnlineNext(s)
<1>a. /\ TypeOK /\ DownIdle /\ SnapshotActive /\ "job" \notin Faults
  BY DEF IInv, OnlineInv, Attended
<1>b. ASSUME mode = "booting", session[s].status = "active",
             session[s].expires > now
      PROVE  /\ Pending(s) \/ fw[session[s].client] >= session[s].expires
             /\ session[s].client \in Client /\ session[s].expires \in Nat
             /\ now \in Nat /\ fw[session[s].client] \in Nat
  <2>1. \A r \in Request : req[r].pc = "idle"
    BY <1>b, <1>a DEF DownIdle, Idle
  <2>2. Pending(s) \/ fw[session[s].client] >= session[s].expires
    BY <1>b, <2>1 DEF OnlineInv, RunningOnline, Leaving, ActiveSessions
  <2>3. /\ session[s].client \in Client /\ session[s].expires \in Nat
        /\ now \in Nat
    BY <1>b, <1>a, RowShape DEF Inserted, SessionRow, TypeOK
  <2>4. fw[session[s].client] \in Nat
    BY <1>a, <2>3 DEF TypeOK
  <2> QED
    BY <2>2, <2>3, <2>4
<1>1. CASE BootStart
  <2>1. session' = session /\ job'.pc = "loop" /\ job'.rows = ActiveSessions
    BY <1>1 DEF BootStart, Loop
  <2> QED
    BY <2>1 DEF OnlineNext, Pending, LoopPc, ActiveSessions
<1>2. ASSUME mode = "booting", NEW x \in Session, BootRestore(x)
      PROVE  OnlineNext(s)
  <2>1. /\ session' = session /\ now' = now
        /\ x \in job.rows /\ \A y \in job.rows : session[y].status = "active"
        /\ Remaining(x) > Grace /\ AddElement(session[x].client, Remaining(x))
        /\ \A y \in Session : y # x => (Pending(y)' <=> Pending(y))
    BY <1>2, <1>a, RestoreProgress
  <2>2. session[x].status = "active" /\ Inserted(x)
    BY <2>1 DEF Inserted
  <2>3. /\ session[x].client \in Client /\ session[x].expires \in Nat
        /\ now \in Nat /\ Remaining(x) \in Nat
    BY <2>2, <1>a, RowShape, RemainingType DEF SessionRow, TypeOK
  <2>4. /\ fw'[session[x].client] = now + Remaining(x)
        /\ \A d \in Client : d # session[x].client => fw'[d] = fw[d]
    BY <2>1, <2>3, <1>a, AddRestarts
  <2>5. CASE s = x
    <3>1. now + Remaining(x) >= session[x].expires
      BY <2>3 DEF Remaining
    <3> QED
      BY <2>1, <2>4, <2>5, <3>1 DEF OnlineNext
  <2>6. CASE s # x
    <3>1. session[s].client # session[x].client
      BY <2>1, <2>2, <2>6 DEF OneActivePerMac, ActiveSessions
    <3> QED
      BY <1>2, <1>b, <2>1, <2>4, <2>6, <3>1 DEF OnlineNext
  <2> QED
    BY <2>5, <2>6
<1>3. CASE mode = "booting" /\ BootStep /\ \A x \in Session : ~BootRestore(x)
  <2>1. /\ session'[s] = session[s] /\ (Pending(s)' <=> Pending(s))
        /\ (now' = now /\ fw' = fw) \/ Tick
    BY <1>a, <1>3, BootProgress
  <2>2. CASE now' = now /\ fw' = fw
    BY <1>3, <1>b, <2>1, <2>2 DEF OnlineNext
  <2>3. CASE Tick
    <3>1. session[s].expires \in Nat /\ now \in Nat
      BY <2>1, <1>a, RowShape DEF Inserted, SessionRow, TypeOK
    <3>2. now' = now + 1 /\ session[s].expires > now
      BY <2>1, <2>3, <3>1 DEF Tick
    <3>3. Pending(s) \/ fw'[session[s].client] >= session[s].expires
      BY <1>3, <1>b, <2>1, <2>3, <3>1, <3>2 DEF Tick
    <3> QED
      BY <2>1, <3>3 DEF OnlineNext
  <2> QED
    BY <2>1, <2>2, <2>3
<1> QED
  BY <1>1, <1>2, <1>3, <1>a, BootSteps

\* A daemon that serves takes nobody off unless a handler does.
LEMMA OnlineServing ==
  ASSUME Attended, IInv, OnlineInv, [Next]_vars, mode' = "up",
         \A r \in Request : ~PortalAuth(r), NEW s \in Session,
         session'[s].status = "active", session'[s].expires > now'
  PROVE  OnlineNext(s)
<1>a. /\ TypeOK /\ DownIdle /\ SnapshotActive /\ "job" \notin Faults
  BY DEF IInv, OnlineInv, Attended
<1>1. CASE mode = "up"
  <2>1. /\ req' = req
        /\ (now' = now /\ fw' = fw) \/ Tick
        /\ session'[s] = session[s]
    BY <1>1, ServingSteps
  <2>2. /\ session[s].client \in Client /\ session[s].expires \in Nat
        /\ now \in Nat
    BY <2>1, <1>a, RowShape DEF Inserted, SessionRow, TypeOK
  <2>3. fw[session[s].client] \in Nat
    BY <2>2, <1>a DEF TypeOK
  <2>4. session[s].expires > now
    BY <2>1, <2>2 DEF Tick
  <2>5. Leaving(s) \/ fw[session[s].client] >= session[s].expires
    BY <1>1, <2>1, <2>4 DEF OnlineInv, RunningOnline, ActiveSessions
  <2>6. CASE Leaving(s)
    BY <2>1, <2>6 DEF OnlineNext, Leaving
  <2>7. CASE fw[session[s].client] >= session[s].expires
    BY <2>1, <2>2, <2>3, <2>7 DEF OnlineNext, Tick
  <2> QED
    BY <2>5, <2>6, <2>7
<1>2. CASE mode # "up"
  <2>1. PurgeTokens /\ mode = "booting"
    BY <1>2, ModeSteps, <1>a
    DEF Crash, BootStart, PurgeTokens, PurgeFails, TypeOK, OnlineInv,
        NobodyTakenOff, Idle
  <2>2. session' = session /\ fw' = fw /\ now' = now /\ ~Pending(s)
    BY <2>1 DEF PurgeTokens, Pending, LoopPc
  <2>3. \A r \in Request : req[r].pc = "idle"
    BY <1>2, <1>a DEF DownIdle, Idle
  <2>4. fw[session[s].client] >= session[s].expires
    BY <2>1, <2>2, <2>3
    DEF OnlineInv, RunningOnline, Leaving, ActiveSessions
  <2> QED
    BY <2>2, <2>4 DEF OnlineNext
<1> QED
  BY <1>1, <1>2

\* Nor does a handler, but for the row that it is about to close.
LEMMA OnlineRequest ==
  ASSUME Attended, IInv, OneActivePerMac, OnlineInv, TypeOK', [Next]_vars,
         NEW r \in Request, PortalAuth(r), NEW s \in Session,
         session'[s].status = "active", session'[s].expires > now'
  PROVE  OnlineNext(s)
<1>a. /\ TypeOK /\ FetchedRowsExist /\ DownIdle /\ LetIn(r) /\ WithinAPeriod
      /\ RunningOnline /\ Duration \in Nat /\ now \in Nat
      /\ \A q \in Request : q = r
  BY ConstantsAssumption DEF IInv, OnlineInv, TypeOK, Attended
<1>b. mode = "up" /\ now' = now
  <2>1. mode = "up"
    BY <1>a, NoHandlerStep
  <2>2. now' = now
    BY DEF PortalAuth, ValidateUnused, ValidateActive, CreateAuthorize,
           CreateInsert, CreateRedeem, MigrateFind, MigrateFindsNothing,
           MigrateDeauthorize, MigrateClose, MigrateAuthorize, MigrateInsert,
           InsertRefused, RequestFails
  <2> QED
    BY <2>1, <2>2
\* What is known of a row that was active before the step.
<1>c. ASSUME session[s].status = "active", session[s].expires > now
      PROVE  /\ session[s].client \in Client /\ session[s].expires \in Nat
             /\ \/ req[r].pc = "migrate_close" /\ req[r].old = s
                \/ /\ req[r].pc = "migrate_insert"
                   /\ MacOf(req[r].client) = MacOf(session[s].client)
                \/ fw[session[s].client] >= session[s].expires
  <2>1. session[s].client \in Client /\ session[s].expires \in Nat
    BY <1>c, <1>a, RowShape DEF Inserted, SessionRow
  <2>2. Leaving(s) \/ fw[session[s].client] >= session[s].expires
    BY <1>a, <1>b, <1>c DEF RunningOnline, ActiveSessions
  <2> QED
    BY <1>a, <2>1, <2>2 DEF Leaving
<1>1. CASE \/ \E t \in Token, c \in Client :
                ValidateUnused(r, t, c) \/ ValidateActive(r, t, c)
           \/ CreateRedeem(r) \/ MigrateFind(r) \/ MigrateFindsNothing(r)
  <2>1. /\ session' = session /\ fw' = fw
        /\ req[r].pc \notin {"migrate_close", "migrate_insert"}
    BY <1>1
    DEF ValidateUnused, ValidateActive, Starts, CreateRedeem, MigrateFind,
        MigrateFindsNothing, Idle
  <2> QED
    BY <2>1, <1>b, <1>c DEF OnlineNext
<1>2. CASE CreateAuthorize(r)
  <2>1. /\ session' = session
        /\ req[r].pc = "create_authorize" /\ req[r].client \in Client
        /\ AddElement(req[r].client, Duration)
    BY <1>2, <1>a, RequestShape DEF CreateAuthorize, Creating
  <2>2. /\ fw'[req[r].client] = now + Duration
        /\ \A d \in Client : d # req[r].client => fw'[d] = fw[d]
    BY <2>1, <1>a, AddRestarts
  <2>3. session[s].expires <= now + Duration
    BY <2>1, <1>a DEF WithinAPeriod, Inserted
  <2>4. CASE session[s].client = req[r].client
    BY <2>1, <2>2, <2>3, <2>4, <1>b, <1>c DEF OnlineNext
  <2>5. CASE session[s].client # req[r].client
    BY <2>1, <2>2, <2>5, <1>b, <1>c DEF OnlineNext
  <2> QED
    BY <2>4, <2>5
<1>3. CASE CreateInsert(r) \/ MigrateInsert(r)
  <2>1. PICK new \in Session :
          Adding(new, req[r].token, req[r].client,
                 IF req[r].pc = "create_insert" THEN req[r].expires
                 ELSE session[req[r].old].expires)
    BY <1>3, RequestAdds
  <2>2. fw' = fw /\ req[r].pc \in {"create_insert", "migrate_insert"}
    BY <1>3 DEF CreateInsert, MigrateInsert
  <2>3. CASE s = new
    <3>1. /\ session'[s].client = req[r].client
          /\ session'[s].expires =
               IF req[r].pc = "create_insert" THEN req[r].expires
               ELSE session[req[r].old].expires
      BY <2>1, <2>3 DEF Adding
    <3> QED
      BY <2>2, <3>1, <1>a, <1>b DEF LetIn, OnlineNext
  <2>4. CASE s # new
    <3>1. /\ session[s].status = "active"
          /\ MacOf(session[s].client) # MacOf(req[r].client)
      BY <2>1, <2>4 DEF Adding
    <3>2. /\ session'[s].client = session[s].client
          /\ session'[s].expires = session[s].expires
      BY <3>1, RowsAreKept DEF SameRow, Inserted
    <3> QED
      BY <2>2, <3>1, <3>2, <1>b, <1>c DEF OnlineNext
  <2> QED
    BY <2>3, <2>4
<1>4. ASSUME MigrateDeauthorize(r) \/ MigrateClose(r) \/ MigrateAuthorize(r)
      PROVE  /\ req[r].old \in Session /\ req[r].client \in Client
             /\ req[r].remaining \in Nat
             /\ req'[r].old = req[r].old /\ req'[r].client = req[r].client
             /\ session[req[r].old].client \in Client
  <2>1. /\ req[r] \in Migrating /\ req[r].pc \in MovingPc
        /\ req'[r].old = req[r].old /\ req'[r].client = req[r].client
    BY <1>4, <1>a, RequestShape, GotoKeeps
    DEF MigrateDeauthorize, MigrateClose, MigrateAuthorize, MovingPc
  <2>2. req[r].old \in Session /\ Inserted(req[r].old)
    BY <2>1, <1>a DEF Migrating, FetchedRowsExist, MovingPc
  <2> QED
    BY <2>1, <2>2, <1>a, RowShape DEF Migrating, SessionRow
<1>5. CASE MigrateDeauthorize(r)
  <2>1. /\ session' = session /\ req[r].pc = "migrate_deauthorize"
        /\ req'[r].pc = "migrate_close"
        /\ DeleteElement(session[req[r].old].client)
    BY <1>5, <1>a, RequestShape, GotoKeeps DEF MigrateDeauthorize
  <2>2. CASE s = req[r].old
    BY <2>1, <2>2, <1>4, <1>5 DEF OnlineNext, Leaving
  <2>3. CASE s # req[r].old
    <3>1. session[req[r].old].status = "active"
      BY <2>1, <1>a DEF LetIn
    <3>2. session[s].client # session[req[r].old].client
      BY <2>1, <2>3, <3>1, <1>4, <1>5 DEF OneActivePerMac, ActiveSessions
    <3>3. fw'[session[s].client] = fw[session[s].client]
      BY <2>1, <3>2, <1>a, <1>b, <1>c, <1>4, <1>5 DEF DeleteElement, TypeOK
    <3> QED
      BY <2>1, <3>3, <1>b, <1>c DEF OnlineNext
  <2> QED
    BY <2>2, <2>3
<1>6. CASE MigrateClose(r)
  <2>1. /\ fw' = fw /\ req[r].pc = "migrate_close"
        /\ SetSession(req[r].old, "disconnected")
    BY <1>6 DEF MigrateClose
  <2>2. s # req[r].old /\ session'[s] = session[s]
    BY <2>1, <1>a, <1>4, <1>6, SetSessionCloses
  <2> QED
    BY <2>1, <2>2, <1>b, <1>c DEF OnlineNext
<1>7. CASE MigrateAuthorize(r)
  <2>1. /\ session' = session /\ req[r].pc = "migrate_authorize"
        /\ req'[r].pc = "migrate_insert"
        /\ AddElement(req[r].client, req[r].remaining)
    BY <1>7, <1>a, RequestShape, GotoKeeps DEF MigrateAuthorize
  <2>2. CASE session[s].client = req[r].client
    BY <2>1, <2>2, <1>4, <1>7 DEF OnlineNext, Leaving
  <2>3. CASE session[s].client # req[r].client
    <3>1. \A d \in Client : d # req[r].client => fw'[d] = fw[d]
      BY <2>1, <1>a, <1>4, <1>7, AddRestarts
    <3> QED
      BY <2>1, <2>3, <3>1, <1>b, <1>c DEF OnlineNext
  <2> QED
    BY <2>2, <2>3
<1>8. CASE InsertRefused(r)
  <2>1. /\ session' = session /\ fw' = fw
        /\ req[r].pc \in {"create_insert", "migrate_insert"}
        /\ token[req[r].token].status = "deleted"
    BY <1>8 DEF InsertRefused
  <2>2. req[r].pc # "migrate_insert"
    BY <2>1, <1>a DEF LetIn, MovingPc
  <2> QED
    BY <2>1, <2>2, <1>b, <1>c DEF OnlineNext
<1>9. ~RequestFails(r)
  BY DEF RequestFails, Attended
<1> QED
  BY <1>1, <1>2, <1>3, <1>5, <1>6, <1>7, <1>8, <1>9 DEF PortalAuth

\* The invariant of the customers that stay online.
LEMMA OnlineInductive ==
  ASSUME Attended
  PROVE  Spec => []OnlineInv
<1>1. Init => OnlineInv
  <2> SUFFICES ASSUME Init
               PROVE  OnlineInv
    OBVIOUS
  <2>1. \A r \in Request : req[r].pc = "idle"
    BY DEF Init, Idle
  <2>2. \A s \in Session : session[s].status = "none"
    BY DEF Init, NoRow
  <2> QED
    BY <2>1, <2>2
    DEF Init, OnlineInv, DownIdle, SnapshotActive, NobodyTakenOff,
        WithinAPeriod, LetIn, MovingPc, RunningOnline, ActiveSessions,
        Inserted, Idle
<1>2. IInv /\ IInv' /\ OneActivePerMac /\ OnlineInv /\ [Next]_vars
        => OnlineInv'
  <2> SUFFICES ASSUME IInv, IInv', OneActivePerMac, OnlineInv, [Next]_vars
               PROVE  OnlineInv'
    OBVIOUS
  <2>a. TypeOK /\ TypeOK' /\ DownIdle /\ SnapshotActive
    BY DEF IInv, OnlineInv
  <2>1. DownIdle' /\ SnapshotActive' /\ NobodyTakenOff' /\ WithinAPeriod'
    BY <2>a, DownIdleStep, SnapshotStep, NobodyTakenOffStep,
       WithinAPeriodStep
    DEF Attended
  <2>2. \A r \in Request : LetIn(r)'
    BY <2>a, <2>1, LetInStep
  <2>3. ASSUME NEW s \in Session, session'[s].status = "active",
               session'[s].expires > now', mode' # "down"
        PROVE  OnlineNext(s)
    <3>1. CASE mode' = "booting"
      BY <2>3, <3>1, OnlineBooting
    <3>2. CASE mode' = "up" /\ \A r \in Request : ~PortalAuth(r)
      BY <2>3, <3>2, OnlineServing
    <3>3. CASE \E r \in Request : PortalAuth(r)
      BY <2>a, <2>3, <3>3, OnlineRequest
    <3> QED
      BY <2>a, <2>3, <3>1, <3>2, <3>3 DEF TypeOK
  <2>4. RunningOnline'
    BY <2>3 DEF RunningOnline, OnlineNext, ActiveSessions
  <2> QED
    BY <2>1, <2>2, <2>4 DEF OnlineInv
<1> QED
  BY <1>1, <1>2, InductiveInvariant, OneSessionPerDevice, PTL DEF Spec

(* While nothing is in flight, a customer whose session runs is in the     *)
(* kernel's set until the session's deadline: after migrations, a second   *)
(* token on the same device, purges, revocations, slow handlers, deletes   *)
(* that nft refuses, and after the daemon or the machine has stopped       *)
(* between any two steps.                                                  *)
THEOREM RunningSessionsAreOnline ==
  ASSUME Attended
  PROVE  Spec => []LiveSessionOnline
<1>1. OnlineInv => LiveSessionOnline
  <2> SUFFICES ASSUME OnlineInv, mode = "up", Busy = {},
                      NEW s \in ActiveSessions, session[s].expires > now
               PROVE  fw[session[s].client] >= session[s].expires
    BY DEF LiveSessionOnline
  <2>1. \A r \in Request : req[r].pc = "idle"
    BY DEF Busy, Idle
  <2> QED
    BY <2>1 DEF OnlineInv, RunningOnline, Leaving
<1> QED
  BY <1>1, OnlineInductive, PTL
=============================================================================
