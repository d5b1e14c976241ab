---------------------------- MODULE AdminAccess ----------------------------
(***************************************************************************)
(* Who may act as the manager: the login and logout forms, the in-memory   *)
(* session store, the cookie each browser holds, the two extractors that   *)
(* guard every admin page and API call, and the synchronizer token of the  *)
(* forms.  Requests run on several threads: each lock of the store and     *)
(* each await is a step.  The login form's own token and its rate limit    *)
(* are the modules FormTokens and RateLimiter; a login starts here once it *)
(* has passed both.                                                        *)
(***************************************************************************)
EXTENDS Integers, FiniteSets

CONSTANTS
  Browser,        \* the manager's browsers, each on a device of its own
  Sid,            \* session ids create() may draw; never drawn twice
  Request,        \* requests that may be in flight at one time
  NoCookie,       \* no didicafe_admin cookie in the jar
  NoToken,        \* the empty string that unwrap_or_default returns
  Timeout,        \* admin.session_timeout_seconds
  AccessTimeout,  \* ADMIN_AUTHORIZE_TIMEOUT_SECS
  MaxTime,        \* bound of the clock
  MaxFailures,    \* bound of the refused logins
  Restarts        \* whether the daemon may stop and come back

ASSUME ConstantsAssumption ==
  /\ Timeout \in Nat \ {0} /\ AccessTimeout \in Nat /\ MaxTime \in Nat
  /\ MaxFailures \in Nat
  /\ Restarts \in BOOLEAN
  /\ NoCookie \notin Sid /\ NoToken \notin Sid

VARIABLES
  now,     \* seconds
  store,   \* the HashMap of AdminSessionStore; "gone" ids stay remembered
  jar,     \* the cookie a browser sends
  forms,   \* the csrf tokens in the pages a browser has open
  device,  \* the kernel's element of a browser's device: its timeout, or 0
  audit,   \* how many rows of each login action the audit log holds
  lost,    \* history: logins that went on although the database refused the row
  req,     \* the requests in flight
  over     \* history: ids given up by a logout, a new login or a restart

vars == <<now, store, jar, forms, device, audit, lost, req, over>>

\* A session's csrf token is drawn with its id and stands and falls with it:
\* the id names both.
Cookie == Sid \cup {NoCookie}
Csrf == Sid \cup {NoToken}

\* For the properties: `since` repeats what expires_at was computed from, and
\* `timed` tells whether the login's nft command set the device's timeout.
Entry == [st: {"fresh", "open", "gone"}, expires: Nat, since: Nat,
          timed: BOOLEAN]

Idle == [pc |-> "idle"]
Kind == {"call", "page", "form"}
Guarded == [kind: Kind, pc: {"session", "csrf", "token", "act"},
            browser: Browser, sid: Sid, sent: Csrf, csrf: Csrf, late: BOOLEAN]
Entering == [kind: {"login"}, browser: Browser, sid: Cookie, timed: BOOLEAN,
             pc: {"audit", "replace", "authorize", "create"}]
Answered == [kind: {"cookie"}, pc: {"answer"}, browser: Browser, sid: Cookie]

(* Every variable has its type.                                            *)
TypeOK ==
  /\ now \in Nat
  /\ store \in [Sid -> Entry]
  /\ jar \in [Browser -> Cookie]
  /\ forms \in [Browser -> SUBSET Csrf]
  /\ device \in [Browser -> Nat]
  /\ audit \in [{"login", "login_failed"} -> Nat]
  /\ lost \in Nat
  /\ req \in [Request -> {Idle} \cup Guarded \cup Entering \cup Answered]
  /\ over \in SUBSET Sid

Init ==
  /\ now = 0
  /\ store = [s \in Sid |-> [st |-> "fresh", expires |-> 0, since |-> 0,
                             timed |-> FALSE]]
  /\ jar = [b \in Browser |-> NoCookie]
  /\ forms = [b \in Browser |-> {}]
  /\ device = [b \in Browser |-> 0]
  /\ audit = [a \in {"login", "login_failed"} |-> 0]
  /\ lost = 0
  /\ req = [r \in Request |-> Idle]
  /\ over = {}

-----------------------------------------------------------------------------
Finish(r) == req' = [req EXCEPT ![r] = Idle]
Goto(r, pc) == req' = [req EXCEPT ![r].pc = pc]
Record(a) == audit' = [audit EXCEPT ![a] = @ + 1]

Present(s) == s \in Sid /\ store[s].st = "open"

\* AdminSessionStore::remove
Removed(s) == IF Present(s) THEN [store EXCEPT ![s].st = "gone"] ELSE store

\* AdminSessionStore::validate: whether it answers true.
Valid(s) == Present(s) /\ now < store[s].expires

\* AdminSessionStore::csrf_token
CsrfOf(s) == IF Present(s) THEN s ELSE NoToken

\* The session is over by what was done to it, not by what the store holds.
Over(s) == s \in over \/ store[s].since + Timeout <= now

-----------------------------------------------------------------------------
(* POST /admin/login                                                       *)

\* A login starts only if it can still have an id (the bound Sid).
Starts(r) ==
  /\ req[r] = Idle
  /\ Cardinality({q \in Request : req[q].pc = "audit"}) + audit["login"] + lost
       < Cardinality(Sid)

\* When the database refuses this row, nothing changes.
LoginRefused(r) ==
  /\ req[r] = Idle
  /\ audit["login_failed"] < MaxFailures
  /\ Record("login_failed")
  /\ UNCHANGED <<now, store, jar, forms, device, lost, req, over>>

Entered(b, pc) ==
  [kind |-> "login", pc |-> pc, browser |-> b, sid |-> jar[b], timed |-> FALSE]

\* Mutant: the session is open before the login is on record.
LoginAcceptedUnrecorded(r, b) ==
  /\ Starts(r)
  /\ req' = [req EXCEPT ![r] = Entered(b, "authorize")]
  /\ UNCHANGED <<now, store, jar, forms, device, audit, lost, over>>

LoginAccepted(r, b) ==
  /\ Starts(r)
  /\ req' = [req EXCEPT ![r] = Entered(b, "audit")]
  /\ UNCHANGED <<now, store, jar, forms, device, audit, lost, over>>

\* The row is inserted, or the database refuses it and the login goes on.
LoginAudit(r) ==
  /\ req[r].pc = "audit"
  /\ \/ Record("login") /\ UNCHANGED lost
     \/ lost' = lost + 1 /\ UNCHANGED audit
  /\ Goto(r, "replace")
  /\ UNCHANGED <<now, store, jar, forms, device, over>>

\* The session of the cookie that came with the form ends.
LoginReplace(r) ==
  /\ req[r].pc = "replace"
  /\ store' = Removed(req[r].sid)
  /\ over' = over \cup ({req[r].sid} \cap Sid)
  /\ Goto(r, "authorize")
  /\ UNCHANGED <<now, jar, forms, device, audit, lost>>

\* Either the device enters the kernel's set, or gets a new timeout there; or it
\* keeps what it has, for want of an ARP entry, because nft fails, or on a kernel
\* that leaves an element's timeout alone (AddRefreshes in Sessions).  The login
\* goes on whatever comes of it.
LoginAuthorize(r) ==
  /\ req[r].pc = "authorize"
  /\ \E done \in BOOLEAN :
       /\ device' = IF done
            THEN [device EXCEPT ![req[r].browser] = now + AccessTimeout]
            ELSE device
       /\ req' = [req EXCEPT ![r].pc = "create", ![r].timed = done]
  /\ UNCHANGED <<now, store, jar, forms, audit, lost, over>>

\* AdminSessionStore::create.  The answer sets the cookie.
LoginCreate(r) ==
  /\ req[r].pc = "create"
  /\ \E s \in Sid :
       /\ store[s].st = "fresh"
       /\ store' = [store EXCEPT ![s] =
            [st |-> "open", since |-> now, expires |-> now + Timeout,
             timed |-> req[r].timed]]
       /\ req' = [req EXCEPT ![r] = [kind |-> "cookie", pc |-> "answer",
                                     browser |-> req[r].browser, sid |-> s]]
  /\ UNCHANGED <<now, jar, forms, device, audit, lost, over>>

\* POST /admin/logout: no extractor guards it, and the answer clears the jar.
Logout(r, b) ==
  /\ req[r] = Idle
  /\ store' = Removed(jar[b])
  /\ over' = over \cup ({jar[b]} \cap Sid)
  /\ req' = [req EXCEPT ![r] = [kind |-> "cookie", pc |-> "answer",
                                browser |-> b, sid |-> NoCookie]]
  /\ UNCHANGED <<now, jar, forms, device, audit, lost>>

\* The browser stores what Set-Cookie says, in the order the answers arrive.
Answer(r) ==
  /\ req[r].pc = "answer"
  /\ jar' = [jar EXCEPT ![req[r].browser] = req[r].sid]
  /\ Finish(r)
  /\ UNCHANGED <<now, store, forms, device, audit, lost, over>>

-----------------------------------------------------------------------------
(* Every other admin request.  A "call" is an API call, GET /admin/audit or*)
(* GET /admin/: AdminSession alone guards it.  A "page" and a "form" take  *)
(* CsrfToken too, which validates once more and then reads the token.      *)

Guard(r, b, kind, sent) ==
  /\ req[r] = Idle
  /\ jar[b] # NoCookie        \* without a cookie: Unauthorized at once
  /\ req' = [req EXCEPT ![r] =
       [kind |-> kind, pc |-> "session", browser |-> b, sid |-> jar[b],
        sent |-> sent, csrf |-> NoToken, late |-> Over(jar[b])]]
  /\ UNCHANGED <<now, store, jar, forms, device, audit, lost, over>>

Call(r, b) == Guard(r, b, "call", NoToken)
Page(r, b) == Guard(r, b, "page", NoToken)
SubmitForm(r, b) == \E t \in forms[b] : Guard(r, b, "form", t)

\* Mutant: an entry is good as long as it is in the map.
ValidatePresence(r) ==
  /\ req[r].pc \in {"session", "csrf"}
  /\ IF Present(req[r].sid)
       THEN Goto(r, IF req[r].kind = "call" THEN "act"
                    ELSE IF req[r].pc = "session" THEN "csrf" ELSE "token")
       ELSE Finish(r)
  /\ UNCHANGED <<now, store, jar, forms, device, audit, lost, over>>

\* Mutant: a session that is used goes on for another while.
ValidateProlongs(r) ==
  /\ req[r].pc \in {"session", "csrf"}
  /\ IF Valid(req[r].sid)
       THEN /\ Goto(r, IF req[r].kind = "call" THEN "act"
                       ELSE IF req[r].pc = "session" THEN "csrf" ELSE "token")
            /\ store' = [store EXCEPT ![req[r].sid].expires = now + Timeout]
       ELSE Finish(r) /\ store' = Removed(req[r].sid)
  /\ UNCHANGED <<now, jar, forms, device, audit, lost, over>>

\* AdminSession, and the first half of CsrfToken.  An expired entry is removed
\* by whoever meets it.
Validate(r) ==
  /\ req[r].pc \in {"session", "csrf"}
  /\ IF Valid(req[r].sid)
       THEN /\ Goto(r, IF req[r].kind = "call" THEN "act"
                       ELSE IF req[r].pc = "session" THEN "csrf" ELSE "token")
            /\ UNCHANGED store
       ELSE Finish(r) /\ store' = Removed(req[r].sid)
  /\ UNCHANGED <<now, jar, forms, device, audit, lost, over>>

\* Mutant: any token the browser was given will do.
ReadCsrfUnchecked(r) ==
  /\ req[r].pc = "token"
  /\ req' = [req EXCEPT ![r].pc = "act", ![r].csrf = CsrfOf(req[r].sid)]
  /\ UNCHANGED <<now, store, jar, forms, device, audit, lost, over>>

\* csrf_token takes the lock anew: the session may have ended since.
ReadCsrf(r) ==
  /\ req[r].pc = "token"
  /\ LET csrf == CsrfOf(req[r].sid)
     IN IF req[r].kind = "page" \/ req[r].sent = csrf
          THEN req' = [req EXCEPT ![r].pc = "act", ![r].csrf = csrf]
          ELSE Finish(r)                     \* admin.error.csrf
  /\ UNCHANGED <<now, store, jar, forms, device, audit, lost, over>>

\* Mutant: the new form carries the cookie that is in the jar by now.
ActJar(r) ==
  /\ req[r].pc = "act"
  /\ forms' = IF req[r].kind = "call" THEN forms
              ELSE [forms EXCEPT ![req[r].browser] = @ \cup {jar[req[r].browser]}]
  /\ Finish(r)
  /\ UNCHANGED <<now, store, jar, device, audit, lost, over>>

\* The handler proper; a page and an accepted form answer with a new form.
Act(r) ==
  /\ req[r].pc = "act"
  /\ forms' = IF req[r].kind = "call" THEN forms
              ELSE [forms EXCEPT ![req[r].browser] = @ \cup {req[r].csrf}]
  /\ Finish(r)
  /\ UNCHANGED <<now, store, jar, device, audit, lost, over>>

-----------------------------------------------------------------------------
\* The client hangs up: the handler is dropped at an await, before or after what
\* it waits for is done, or its answer is lost and the cookie never set.  A
\* handler proper may also answer an error.
Dropped(r) ==
  /\ req[r].pc \in {"audit", "replace", "authorize", "create", "answer", "act"}
  /\ Finish(r)
  /\ UNCHANGED <<now, store, jar, forms, device, audit, lost, over>>

\* The store lives in memory; the kernel's set and the jars do not.
Restart ==
  /\ Restarts
  /\ store' = [s \in Sid |-> IF Present(s) THEN [store[s] EXCEPT !.st = "gone"]
                             ELSE store[s]]
  /\ over' = over \cup {s \in Sid : store[s].st # "fresh"}
  /\ req' = [r \in Request |-> Idle]
  /\ UNCHANGED <<now, jar, forms, device, audit, lost>>

\* create follows on the nft command's answer without an await.
Tick ==
  /\ now < MaxTime
  /\ \A r \in Request : req[r].pc # "create"
  /\ now' = now + 1
  /\ device' = [b \in Browser |-> IF device[b] <= now + 1 THEN 0 ELSE device[b]]
  /\ UNCHANGED <<store, jar, forms, audit, lost, req, over>>

Next ==
  \/ \E r \in Request :
       \/ \E b \in Browser : \/ LoginAccepted(r, b) \/ Logout(r, b)
                             \/ Call(r, b) \/ Page(r, b) \/ SubmitForm(r, b)
       \/ LoginRefused(r) \/ LoginAudit(r) \/ LoginReplace(r)
       \/ LoginAuthorize(r) \/ LoginCreate(r) \/ Answer(r)
       \/ Validate(r) \/ ReadCsrf(r) \/ Act(r)
       \/ Dropped(r)
  \/ Restart
  \/ Tick

Spec == Init /\ [][Next]_vars

-----------------------------------------------------------------------------
(* A request sent when its session was already over - by a logout, by a    *)
(* login from the same browser, by its timeout, by a restart - never       *)
(* reaches its handler, whatever other requests keep using the session     *)
(* (validate and remove; no request prolongs a session).                   *)
RefusedOnceOver ==
  \A r \in Request : req[r].pc = "act" => ~req[r].late

(* A form is accepted only with the token of the session it is sent under: *)
(* a page left open from before a login is refused.  The one exception is  *)
(* a page rendered, and a form judged, while a logout ran in between the   *)
(* extractor's two locks: then both sides are the empty string.            *)
FormOfOwnSession ==
  \A r \in Request :
    req[r].pc = "act" /\ req[r].kind = "form" =>
      \/ req[r].sent = req[r].sid
      \/ req[r].sent = NoToken /\ Over(req[r].sid)

(* No session without an attempt to write its row to the audit log: there  *)
(* are never more sessions than logins on record, but for the logins whose *)
(* row the database refused, over which login_submit goes on (.ok()), and  *)
(* whatever handlers are dropped, which may leave a row without a session. *)
LoginOnRecord ==
  Cardinality({s \in Sid : store[s].st # "fresh"}) <= audit["login"] + lost

(* A manager whose login set the timeout of the device is on the network   *)
(* as long as the session lasts, whatever other requests, logins that fail *)
(* half-way, commands that fail and restarts come between: the device goes *)
(* into the kernel's set before the session opens, for a time that is no   *)
(* shorter, and nothing prolongs a session.  (No customer's session ends on*)
(* the same device here.)                                                  *)
ManagerOnline ==
  Timeout <= AccessTimeout =>
    \A b \in Browser :
      jar[b] # NoCookie /\ Valid(jar[b]) /\ store[jar[b]].timed
        => device[b] >= store[jar[b]].expires
=============================================================================
