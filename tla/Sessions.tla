------------------------------ MODULE Sessions ------------------------------
(***************************************************************************)
(* The life of a paid token and of the sessions it buys: the portal        *)
(* request that redeems or migrates a token, the admin's revoke and        *)
(* disconnect, the cleanup ticker, the start-up restore, the SQLite rows   *)
(* they share and the kernel's nftables set they keep in step with it.     *)
(*                                                                         *)
(* The daemon has no lock over a session: every handler is a sequence of   *)
(* awaits, and each database statement, each nft command and each read of  *)
(* the clock is a step of its own here.  Seconds are the unit of time, as  *)
(* they are in the database's timestamps and in nft's timeouts.            *)
(***************************************************************************)
EXTENDS Integers, FiniteSets

CONSTANTS
  Mac, Ip,       \* the addresses of the clients that come to the portal
  Token,         \* ids of the token rows; all are generated before Init
  Session,       \* ids the session table may hand out: bounds the inserts
  Request,       \* POST /portal/auth handlers that may run at one time
  Duration,      \* seconds a token buys (plan.duration_minutes)
  Grace,         \* session.grace_period_seconds
  Retention,     \* session.retention_days, in this module's seconds
  MaxTime,       \* bound of the clock
  Faults,        \* which failures may happen, see FaultKind
  Crashes,       \* which ways the daemon may stop, see CrashKind
  AdminActs,     \* which admin calls are made: see AdminCall
  AddRefreshes,  \* whether `nft add element` on an element that is already
                 \* in the set may restart its timeout (kernel dependent)
  SlowHandlers   \* whether a second may pass inside a portal handler

FaultKind == {"request",  \* a call of a portal handler fails, or the client
                          \* hangs up and the handler's future is dropped
              "delete",   \* `nft delete element` fails, element present
              "job"}      \* a call of the ticker or of the restore fails
CrashKind == {"process",  \* the daemon dies, the kernel keeps its set
              "reboot"}   \* the set is empty when the daemon comes back
AdminCall == {"revoke", "disconnect"}

ASSUME ConstantsAssumption ==
  /\ Duration \in Nat \ {0}       \* validate_plan_input refuses 0
  /\ Grace \in Nat
  /\ Retention \in Nat
  /\ MaxTime \in Nat
  /\ Faults \subseteq FaultKind
  /\ Crashes \subseteq CrashKind
  /\ AdminActs \subseteq AdminCall
  /\ AddRefreshes \in (SUBSET BOOLEAN) \ {{}}
  /\ SlowHandlers \in BOOLEAN

Client == Mac \X Ip
MacOf(c) == c[1]

VARIABLES
  now,      \* the wall clock, in seconds
  token,    \* rows of table token
  session,  \* rows of table session
  fw,       \* the kernel's auth_clients set: when an element times out, or 0
  mode,     \* the daemon: "up", "down" or "booting"
  req,      \* the portal handlers' program counters and locals
  admin,    \* the admin's disconnect handler
  job       \* the ticker's loop, or the restore loop while booting

vars == <<now, token, session, fw, mode, req, admin, job>>

(***************************************************************************)
(* Rows and local states.                                                  *)
(***************************************************************************)

\* "deleted" and "purged" stand for a row that is gone from its table; a
\* purged row keeps its columns for the handlers that fetched it before.
TokenStatus == {"unused", "active", "expired", "revoked"}
TokenRow == [status: TokenStatus \cup {"deleted"}, expires: Nat]

SessionStatus == {"active", "expired", "disconnected"}
SessionRow == [status: SessionStatus \cup {"purged"}, token: Token,
               client: Client, expires: Nat, started: Nat]
NoRow == [status |-> "none"]

Idle == [pc |-> "idle"]
Creating == [pc: {"create_authorize", "create_insert", "create_redeem"},
             token: Token, client: Client, expires: Nat]
Finding == [pc: {"migrate_find"}, token: Token, client: Client]
\* `remaining` becomes an nft timeout, and a timeout of 0 would never end.
Migrating == [pc: {"migrate_deauthorize", "migrate_close",
                   "migrate_authorize", "migrate_insert"},
              token: Token, client: Client, old: Session, remaining: Nat \ {0}]

Disconnecting == [pc: {"deauthorize", "mark"}, target: Session]

Looping == [pc: {"loop"}, rows: SUBSET Session]
Expiring == [pc: {"expire_session", "expire_token"},
             rows: SUBSET Session, row: Session]
Purging == [pc: {"purge_sessions", "purge_tokens"}]

(* Every variable has its type; in particular no handler goes on with a     *)
(* row that it has not found, nor hands nft a timeout of 0.                 *)
TypeOK ==
  /\ now \in Nat
  /\ token \in [Token -> TokenRow]
  /\ session \in [Session -> SessionRow \cup {NoRow}]
  /\ fw \in [Client -> Nat]
  /\ mode \in {"up", "down", "booting"}
  /\ req \in [Request -> {Idle} \cup Creating \cup Finding \cup Migrating]
  /\ admin \in {Idle} \cup Disconnecting
  /\ job \in {Idle} \cup Looping \cup Expiring \cup Purging

(* Everything a fresh database holds once the staff has generated the      *)
(* tokens: unused tokens, no session, nobody in the set.                   *)
Init ==
  /\ now = 0
  /\ token = [t \in Token |-> [status |-> "unused", expires |-> 0]]
  /\ session = [s \in Session |-> NoRow]
  /\ fw = [c \in Client |-> 0]
  /\ mode = "up"
  /\ req = [r \in Request |-> Idle]
  /\ admin = Idle
  /\ job = Idle

-----------------------------------------------------------------------------
(***************************************************************************)
(* Database statements and nft commands.                                   *)
(***************************************************************************)

Inserted(s) == session[s].status # "none"
InTable(s) == session[s].status \in SessionStatus
ActiveSessions == {s \in Session : session[s].status = "active"}

\* Mutant: the last second is rounded away.
RemainingRoundedDown(s) ==
  IF session[s].expires > now + 1 THEN session[s].expires - now - 1 ELSE 0

\* Session::remaining_seconds, which never goes below zero.
Remaining(s) ==
  IF session[s].expires > now THEN session[s].expires - now ELSE 0

\* UPDATE session SET status = st WHERE id = s: whatever the status was.
SetSession(s, st) ==
  session' = IF InTable(s) THEN [session EXCEPT ![s].status = st] ELSE session

\* Mutant: the transaction without its UPDATE.
InsertSessionKeepsPrior(t, c, e) ==
  /\ token[t].status # "deleted"
  /\ \E new \in Session :
       /\ session[new] = NoRow
       /\ session' = [session EXCEPT ![new] =
            [status |-> "active", token |-> t, client |-> c,
             expires |-> e, started |-> now]]

\* Database::create_session, one transaction: close the MAC's active rows,
\* insert the new one.  The foreign key refuses a token that was deleted.
InsertSession(t, c, e) ==
  /\ token[t].status # "deleted"
  /\ \E new \in Session :
       /\ session[new] = NoRow
       /\ session' = [s \in Session |->
            IF s = new
              THEN [status |-> "active", token |-> t, client |-> c,
                    expires |-> e, started |-> now]
              ELSE IF session[s].status = "active"
                        /\ MacOf(session[s].client) = MacOf(c)
                     THEN [session[s] EXCEPT !.status = "disconnected"]
                     ELSE session[s]]

\* UPDATE token SET status = 'active', expires_at = e WHERE id = t.
RedeemToken(t, e) ==
  token' = IF token[t].status = "deleted" THEN token
           ELSE [token EXCEPT ![t] = [status |-> "active", expires |-> e]]

\* UPDATE token SET status = 'expired' WHERE id = t.
SetTokenExpired(t) ==
  token' = IF token[t].status = "deleted" THEN token
           ELSE [token EXCEPT ![t].status = "expired"]

\* nft add element { mac . ip timeout Ns }.  On an element that is already
\* there nft succeeds, and the kernel's version decides about its timeout.
AddElement(c, secs) ==
  \/ /\ fw[c] = 0 \/ TRUE \in AddRefreshes
     /\ fw' = [fw EXCEPT ![c] = now + secs]
  \/ /\ fw[c] # 0 /\ FALSE \in AddRefreshes
     /\ fw' = fw

\* nft delete element { mac . ip }: deauthorize_client returns Ok in any case.
DeleteElement(c) ==
  \/ fw' = [fw EXCEPT ![c] = 0]
  \/ "delete" \in Faults /\ fw' = fw

-----------------------------------------------------------------------------
(***************************************************************************)
(* POST /portal/auth.  CSRF, rate limit and the token's format are checked *)
(* before; they touch none of this module's state.                         *)
(***************************************************************************)

Busy == {r \in Request : req[r] # Idle}
Free == {s \in Session : ~Inserted(s)}

Goto(r, pc) == req' = [req EXCEPT ![r].pc = pc]
Finish(r) == req' = [req EXCEPT ![r] = Idle]

\* A request starts only if every request in flight can still insert its row
\* (the bound Session).
Starts(r) ==
  /\ mode = "up"
  /\ req[r] = Idle
  /\ Cardinality(Busy) < Cardinality(Free)

\* validate_token answers Unused: create_session computes the deadline first.
ValidateUnused(r, t, c) ==
  /\ Starts(r)
  /\ token[t].status = "unused"
  /\ req' = [req EXCEPT ![r] = [pc |-> "create_authorize", token |-> t,
                                client |-> c, expires |-> now + Duration]]
  /\ UNCHANGED <<now, token, session, fw, mode, admin, job>>

\* validate_token answers Active: the raw status counts, not the deadline.
ValidateActive(r, t, c) ==
  /\ Starts(r)
  /\ token[t].status = "active"
  /\ req' = [req EXCEPT ![r] = [pc |-> "migrate_find", token |-> t,
                                client |-> c]]
  /\ UNCHANGED <<now, token, session, fw, mode, admin, job>>

\* Mutant: the token is consumed before its session is on record.
CreateAuthorizeRedeems(r) ==
  /\ req[r].pc = "create_authorize"
  /\ AddElement(req[r].client, Duration)
  /\ RedeemToken(req[r].token, req[r].expires)
  /\ Goto(r, "create_insert")
  /\ UNCHANGED <<now, session, mode, admin, job>>

CreateAuthorize(r) ==
  /\ req[r].pc = "create_authorize"
  /\ AddElement(req[r].client, Duration)
  /\ Goto(r, "create_insert")
  /\ UNCHANGED <<now, token, session, mode, admin, job>>

CreateInsert(r) ==
  /\ req[r].pc = "create_insert"
  /\ InsertSession(req[r].token, req[r].client, req[r].expires)
  /\ Goto(r, "create_redeem")
  /\ UNCHANGED <<now, token, fw, mode, admin, job>>

CreateRedeem(r) ==
  /\ req[r].pc = "create_redeem"
  /\ RedeemToken(req[r].token, req[r].expires)
  /\ Finish(r)
  /\ UNCHANGED <<now, session, fw, mode, admin, job>>

\* Mutant: the check of the remaining time is missing.
MigrateFindUnchecked(r) ==
  /\ req[r].pc = "migrate_find"
  /\ \E s \in ActiveSessions :
       /\ session[s].token = req[r].token
       /\ req' = [req EXCEPT ![r] =
            [pc |-> "migrate_deauthorize", token |-> req[r].token,
             client |-> req[r].client, old |-> s,
             remaining |-> Remaining(s)]]
  /\ UNCHANGED <<now, token, session, fw, mode, admin, job>>

\* get_active_session_by_token returns the first of the token's active rows,
\* in no order the query asks for.
MigrateFind(r) ==
  /\ req[r].pc = "migrate_find"
  /\ \E s \in ActiveSessions :
       /\ session[s].token = req[r].token
       /\ IF Remaining(s) > 0
            THEN req' = [req EXCEPT ![r] =
                   [pc |-> "migrate_deauthorize", token |-> req[r].token,
                    client |-> req[r].client, old |-> s,
                    remaining |-> Remaining(s)]]
            ELSE Finish(r)     \* "has already expired"
  /\ UNCHANGED <<now, token, session, fw, mode, admin, job>>

MigrateFindsNothing(r) ==
  /\ req[r].pc = "migrate_find"
  /\ \A s \in ActiveSessions : session[s].token # req[r].token
  /\ Finish(r)                 \* "no active session for token"
  /\ UNCHANGED <<now, token, session, fw, mode, admin, job>>

\* Mutant: the old device is left to its timeout.
MigrateDeauthorizeForgotten(r) ==
  /\ req[r].pc = "migrate_deauthorize"
  /\ Goto(r, "migrate_close")
  /\ UNCHANGED <<now, token, session, fw, mode, admin, job>>

MigrateDeauthorize(r) ==
  /\ req[r].pc = "migrate_deauthorize"
  /\ DeleteElement(session[req[r].old].client)
  /\ Goto(r, "migrate_close")
  /\ UNCHANGED <<now, token, session, mode, admin, job>>

\* Mutant: the old session's row stays active.
MigrateCloseForgotten(r) ==
  /\ req[r].pc = "migrate_close"
  /\ Goto(r, "migrate_authorize")
  /\ UNCHANGED <<now, token, session, fw, mode, admin, job>>

MigrateClose(r) ==
  /\ req[r].pc = "migrate_close"
  /\ SetSession(req[r].old, "disconnected")
  /\ Goto(r, "migrate_authorize")
  /\ UNCHANGED <<now, token, fw, mode, admin, job>>

\* Mutant: the new device gets a whole period.
MigrateAuthorizeWholePeriod(r) ==
  /\ req[r].pc = "migrate_authorize"
  /\ AddElement(req[r].client, Duration)
  /\ Goto(r, "migrate_insert")
  /\ UNCHANGED <<now, token, session, mode, admin, job>>

MigrateAuthorize(r) ==
  /\ req[r].pc = "migrate_authorize"
  /\ AddElement(req[r].client, req[r].remaining)
  /\ Goto(r, "migrate_insert")
  /\ UNCHANGED <<now, token, session, mode, admin, job>>

\* Mutant: the old device is taken off the network last.
MigrateInsertDeauthorizes(r) ==
  /\ req[r].pc = "migrate_insert"
  /\ InsertSession(req[r].token, req[r].client, session[req[r].old].expires)
  /\ DeleteElement(session[req[r].old].client)
  /\ Finish(r)
  /\ UNCHANGED <<now, token, mode, admin, job>>

MigrateInsert(r) ==
  /\ req[r].pc = "migrate_insert"
  /\ InsertSession(req[r].token, req[r].client, session[req[r].old].expires)
  /\ Finish(r)
  /\ UNCHANGED <<now, token, fw, mode, admin, job>>

\* INSERT INTO session fails on the foreign key: the handler answers an error.
InsertRefused(r) ==
  /\ req[r].pc \in {"create_insert", "migrate_insert"}
  /\ token[req[r].token].status = "deleted"
  /\ Finish(r)
  /\ UNCHANGED <<now, token, session, fw, mode, admin, job>>

\* A call fails with `?`, or the connection closes and the future is dropped:
\* the handler stops where it is and nothing is undone.
RequestFails(r) ==
  /\ "request" \in Faults
  /\ req[r] # Idle
  /\ Finish(r)
  /\ UNCHANGED <<now, token, session, fw, mode, admin, job>>

-----------------------------------------------------------------------------
(***************************************************************************)
(* The admin.                                                              *)
(***************************************************************************)

\* The handler reads the status and then runs the guarded UPDATE; a token
\* never becomes unused again, so the UPDATE's own guard is the one that
\* counts.
RevokeToken(t) ==
  /\ "revoke" \in AdminActs
  /\ mode = "up"
  /\ token[t].status = "unused"
  /\ token' = [token EXCEPT ![t].status = "revoked"]
  /\ UNCHANGED <<now, session, fw, mode, req, admin, job>>

\* services::session::disconnect takes an id from a page that may be stale:
\* the row may have any status.
DisconnectRead(s) ==
  /\ "disconnect" \in AdminActs
  /\ mode = "up"
  /\ admin = Idle
  /\ InTable(s)
  /\ admin' = [pc |-> "deauthorize", target |-> s]
  /\ UNCHANGED <<now, token, session, fw, mode, req, job>>

DisconnectDeauthorize ==
  /\ admin.pc = "deauthorize"
  /\ DeleteElement(session[admin.target].client)
  /\ admin' = [admin EXCEPT !.pc = "mark"]
  /\ UNCHANGED <<now, token, session, mode, req, job>>

DisconnectMark ==
  /\ admin.pc = "mark"
  /\ SetSession(admin.target, "disconnected")
  /\ admin' = Idle
  /\ UNCHANGED <<now, token, fw, mode, req, job>>

-----------------------------------------------------------------------------
(***************************************************************************)
(* The cleanup ticker, and the restore loop of main, which walk over a     *)
(* snapshot of the active rows and share the statements that expire one.   *)
(***************************************************************************)

Loop(rows) == job' = [pc |-> "loop", rows |-> rows]

TickerStart ==
  /\ mode = "up"
  /\ job = Idle
  /\ Loop(ActiveSessions)
  /\ UNCHANGED <<now, token, session, fw, mode, req, admin>>

\* Mutant: `<` for `<=`.
DueStrict(s) == Remaining(s) < -Grace

\* `remaining <= -grace`, with the clamped remaining.
Due(s) == Remaining(s) <= -Grace

TickerSkip(s) ==
  /\ mode = "up" /\ job.pc = "loop" /\ s \in job.rows
  /\ ~Due(s)
  /\ Loop(job.rows \ {s})
  /\ UNCHANGED <<now, token, session, fw, mode, req, admin>>

TickerDeauthorize(s) ==
  /\ mode = "up" /\ job.pc = "loop" /\ s \in job.rows
  /\ Due(s)
  /\ DeleteElement(session[s].client)
  /\ job' = [pc |-> "expire_session", rows |-> job.rows \ {s}, row |-> s]
  /\ UNCHANGED <<now, token, session, mode, req, admin>>

BootStart ==
  /\ mode = "down"
  /\ mode' = "booting"
  /\ Loop(ActiveSessions)
  /\ UNCHANGED <<now, token, session, fw, req, admin>>

\* Mutant: a restored session starts over.
BootRestoreWholePeriod(s) ==
  /\ mode = "booting" /\ job.pc = "loop" /\ s \in job.rows
  /\ Remaining(s) > Grace
  /\ AddElement(session[s].client, Duration)
  /\ Loop(job.rows \ {s})
  /\ UNCHANGED <<now, token, session, mode, req, admin>>

BootRestore(s) ==
  /\ mode = "booting" /\ job.pc = "loop" /\ s \in job.rows
  /\ Remaining(s) > Grace
  /\ AddElement(session[s].client, Remaining(s))
  /\ Loop(job.rows \ {s})
  /\ UNCHANGED <<now, token, session, mode, req, admin>>

BootExpire(s) ==
  /\ mode = "booting" /\ job.pc = "loop" /\ s \in job.rows
  /\ Remaining(s) <= Grace
  /\ job' = [pc |-> "expire_session", rows |-> job.rows \ {s}, row |-> s]
  /\ UNCHANGED <<now, token, session, fw, mode, req, admin>>

ExpireSession ==
  /\ job.pc = "expire_session"
  /\ SetSession(job.row, "expired")
  /\ job' = [job EXCEPT !.pc = "expire_token"]
  /\ UNCHANGED <<now, token, fw, mode, req, admin>>

ExpireToken ==
  /\ job.pc = "expire_token"
  /\ SetTokenExpired(session[job.row].token)
  /\ Loop(job.rows)
  /\ UNCHANGED <<now, session, fw, mode, req, admin>>

\* A call for a row fails: it is logged and the loop goes on with the next.
JobStepFails ==
  /\ "job" \in Faults
  /\ \/ job.pc \in {"expire_session", "expire_token"} /\ Loop(job.rows)
     \/ job.pc = "loop" /\ \E s \in job.rows : Loop(job.rows \ {s})
  /\ UNCHANGED <<now, token, session, fw, mode, req, admin>>

\* The ticker purges once an hour, the start-up always.
LoopEnd ==
  /\ job.pc = "loop" /\ job.rows = {}
  /\ \/ mode = "up" /\ job' = Idle
     \/ job' = [pc |-> "purge_sessions"]
  /\ UNCHANGED <<now, token, session, fw, mode, req, admin>>

PurgeSessions ==
  /\ job.pc = "purge_sessions"
  /\ session' = [s \in Session |->
       IF /\ session[s].status \in {"expired", "disconnected"}
          /\ session[s].started < now - Retention
         THEN [session[s] EXCEPT !.status = "purged"]
         ELSE session[s]]
  /\ job' = [pc |-> "purge_tokens"]
  /\ UNCHANGED <<now, token, fw, mode, req, admin>>

\* Mutant: only active sessions keep their token.
PurgeTokensWithoutActive ==
  /\ job.pc = "purge_tokens"
  /\ token' = [t \in Token |->
       IF /\ token[t].status \in {"expired", "revoked"}
          /\ \A s \in ActiveSessions : session[s].token # t
         THEN [token[t] EXCEPT !.status = "deleted"]
         ELSE token[t]]
  /\ job' = Idle
  /\ mode' = "up"
  /\ UNCHANGED <<now, session, fw, req, admin>>

PurgeTokens ==
  /\ job.pc = "purge_tokens"
  /\ token' = [t \in Token |->
       IF /\ token[t].status \in {"expired", "revoked"}
          /\ \A s \in Session : InTable(s) => session[s].token # t
         THEN [token[t] EXCEPT !.status = "deleted"]
         ELSE token[t]]
  /\ job' = Idle
  /\ mode' = "up"          \* the servers start, if they had not
  /\ UNCHANGED <<now, session, fw, req, admin>>

\* A DELETE fails: it is logged, and there is no second one after the first.
PurgeFails ==
  /\ "job" \in Faults
  /\ job.pc \in {"purge_sessions", "purge_tokens"}
  /\ job' = Idle
  /\ mode' = "up"
  /\ UNCHANGED <<now, token, session, fw, req, admin>>

-----------------------------------------------------------------------------
\* The daemon stops between two steps of whatever it was doing.
Crash ==
  /\ mode # "down"
  /\ mode' = "down"
  /\ \/ "process" \in Crashes /\ fw' = fw
     \/ "reboot" \in Crashes /\ fw' = [c \in Client |-> 0]
  /\ req' = [r \in Request |-> Idle]
  /\ admin' = Idle
  /\ job' = Idle
  /\ UNCHANGED <<now, token, session>>

\* A second passes and the kernel drops the elements that time out.
Tick ==
  /\ now < MaxTime
  /\ SlowHandlers \/ Busy = {}
  /\ now' = now + 1
  /\ fw' = [c \in Client |-> IF fw[c] <= now + 1 THEN 0 ELSE fw[c]]
  /\ UNCHANGED <<token, session, mode, req, admin, job>>

PortalAuth(r) ==
  \/ \E t \in Token, c \in Client : ValidateUnused(r, t, c)
                                    \/ ValidateActive(r, t, c)
  \/ CreateAuthorize(r) \/ CreateInsert(r) \/ CreateRedeem(r)
  \/ MigrateFind(r) \/ MigrateFindsNothing(r)
  \/ MigrateDeauthorize(r) \/ MigrateClose(r)
  \/ MigrateAuthorize(r) \/ MigrateInsert(r)
  \/ InsertRefused(r) \/ RequestFails(r)

AdminStep ==
  \/ \E t \in Token : RevokeToken(t)
  \/ \E s \in Session : DisconnectRead(s)
  \/ DisconnectDeauthorize \/ DisconnectMark

JobStep ==
  \/ TickerStart \/ BootStart
  \/ \E s \in Session : \/ TickerSkip(s) \/ TickerDeauthorize(s)
                        \/ BootRestore(s) \/ BootExpire(s)
  \/ ExpireSession \/ ExpireToken \/ JobStepFails
  \/ LoopEnd \/ PurgeSessions \/ PurgeTokens \/ PurgeFails

Next ==
  \/ \E r \in Request : PortalAuth(r)
  \/ AdminStep
  \/ JobStep
  \/ Crash
  \/ Tick

Spec == Init /\ [][Next]_vars

\* The tokio interval keeps firing and the loop's body has no unbounded wait.
FairSpec == Spec /\ WF_vars(JobStep)
-----------------------------------------------------------------------------
(***************************************************************************)
(* Properties.                                                             *)
(***************************************************************************)

(* A device has at most one active session row, whatever requests, admin   *)
(* calls, expiries, failures and restarts are interleaved: the portal looks*)
(* a client up by its MAC alone (Database::create_session's transaction).  *)
OneActivePerMac ==
  \A s1, s2 \in ActiveSessions :
    MacOf(session[s1].client) = MacOf(session[s2].client) => s1 = s2

(* A token is consumed only for a session: a token that is active has a    *)
(* session row with its own deadline, and one that is expired has had a    *)
(* row, however the request that redeemed it was cut short (the order of   *)
(* create_session).  An expired token may lack a deadline: its session can *)
(* run out before redeem_token is reached.                                 *)
ConsumedTokenHasSession ==
  \A t \in Token :
    token[t].status \in {"active", "expired"} =>
      \E s \in Session :
        /\ Inserted(s)
        /\ session[s].token = t
        /\ token[t].status = "active" =>
             session[s].expires = token[t].expires

(* The purge never deletes a token that a row still in the session table   *)
(* refers to, whatever requests are in flight between its two statements.  *)
ReferentialIntegrity ==
  \A s \in Session :
    InTable(s) => token[session[s].token].status # "deleted"

(* What a restart costs: the ticker marks a row expired after its deadline *)
(* only, the restore up to Grace before it and no earlier, however old the *)
(* snapshot is that they walk over.  With the delivered file that is up to *)
(* ten seconds of paid time (see ExpiredOnlyWhenOver).                     *)
NeverExpiredEarly ==
  [][\A s \in Session :
       /\ session[s].status = "active"
       /\ session'[s].status = "expired"
       => session[s].expires <= IF mode = "booting" THEN now + Grace
                                ELSE now]_vars

(* Everybody in the kernel's set is there for a session: an element is     *)
(* backed by a row of the same client and does not outlive the row's       *)
(* deadline, or by the request that is about to insert the row.  In        *)
(* particular a migration gives no time away.  (A handler that takes       *)
(* longer than a second adds what it took: SlowHandlers is FALSE here.)    *)
AccessIsPaidFor ==
  \A c \in Client : fw[c] # 0 =>
    \/ \E s \in Session : /\ Inserted(s)
                          /\ session[s].client = c
                          /\ fw[c] <= session[s].expires
    \/ \E r \in Request : /\ req[r].pc \in {"create_insert", "migrate_insert"}
                          /\ req[r].client = c

(* A token buys one period on one device at a time: its rows all carry the *)
(* same deadline, and at most one of them is active.                       *)
OnePaidPeriod ==
  \A s1, s2 \in Session :
    /\ Inserted(s1) /\ Inserted(s2)
    /\ session[s1].token = session[s2].token
    => /\ session[s1].expires = session[s2].expires
       /\ session[s1].status = "active" /\ session[s2].status = "active"
            => s1 = s2

(* When the daemon opens its servers after a restart, the set grants every *)
(* running session exactly its remaining time, and grants nobody else any. *)
RestoredFirewall ==
  [][mode = "booting" /\ mode' = "up" =>
       /\ \A s \in ActiveSessions : session[s].expires > now =>
            fw[session[s].client] = session[s].expires
       /\ \A c \in Client : fw[c] # 0 =>
            \E s \in ActiveSessions : session[s].client = c]_vars

(* While nothing is in flight, a customer whose session runs is in the     *)
(* kernel's set until the session's deadline.                              *)
LiveSessionOnline ==
  mode = "up" /\ job.pc # "expire_session" /\ admin = Idle /\ Busy = {} =>
    \A s \in ActiveSessions : session[s].expires > now =>
      fw[session[s].client] >= session[s].expires

(* The ticker closes every session that is over.                           *)
ExpiredEventuallyCleaned ==
  \A s \in Session :
    session[s].status = "active" /\ session[s].expires + Grace <= now
      ~> session[s].status # "active"

-----------------------------------------------------------------------------
(***************************************************************************)
(* What the documentation says and the code does not do.                   *)
(***************************************************************************)

(* "Each token can only be used once": never two active sessions for one   *)
(* token.                                                                  *)
TokenUsedOnce ==
  \A s1, s2 \in ActiveSessions :
    session[s1].token = session[s2].token => s1 = s2

(* The start-up is to "expire any sessions that have already elapsed", and *)
(* the grace period is extra time after the deadline: no row is marked     *)
(* expired before its deadline.                                            *)
ExpiredOnlyWhenOver ==
  [][\A s \in Session :
       /\ session[s].status = "active"
       /\ session'[s].status = "expired"
       => session[s].expires <= now]_vars
=============================================================================
