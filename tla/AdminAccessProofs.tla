------------------------- MODULE AdminAccessProofs -------------------------
(***************************************************************************)
(* Proofs about AdminAccess, for any number of browsers, session ids and   *)
(* requests in flight, any time-outs, with or without restarts.            *)
(***************************************************************************)
EXTENDS AdminAccess, FiniteSetTheorems, TLAPS

-----------------------------------------------------------------------------
(***************************************************************************)
(* Type correctness.                                                       *)
(***************************************************************************)

\* What a request holds at each of its program counters.
LEMMA RequestShape ==
  ASSUME TypeOK, NEW r \in Request
  PROVE  /\ req[r] = Idle \/ req[r] \in Guarded \/ req[r] \in Entering
            \/ req[r] \in Answered
         /\ req[r].pc \in {"session", "csrf", "token", "act"}
              => req[r] \in Guarded
         /\ req[r].pc \in {"audit", "replace", "authorize", "create"}
              => req[r] \in Entering
         /\ req[r].pc = "answer" => req[r] \in Answered
BY DEF TypeOK, Idle, Guarded, Entering, Answered

\* Removing an entry keeps the map's type.
LEMMA RemovedType ==
  ASSUME TypeOK, NEW s
  PROVE  Removed(s) \in [Sid -> Entry]
BY DEF TypeOK, Removed, Present, Entry

\* The locals that any other request starts with.
LEMMA GuardType ==
  ASSUME TypeOK, NEW r \in Request, NEW b \in Browser, NEW k \in Kind,
         NEW t \in Csrf, Guard(r, b, k, t)
  PROVE  TypeOK'
<1>1. jar[b] \in Sid /\ Over(jar[b]) \in BOOLEAN
  BY DEF Guard, TypeOK, Cookie, Over
<1>2. [kind |-> k, pc |-> "session", browser |-> b, sid |-> jar[b],
       sent |-> t, csrf |-> NoToken, late |-> Over(jar[b])] \in Guarded
  BY <1>1 DEF Guarded, Csrf
<1> QED
  BY <1>2 DEF Guard, TypeOK

\* The locals of a login that starts.
LEMMA LoginType ==
  ASSUME TypeOK, NEW r \in Request, NEW b \in Browser, LoginAccepted(r, b)
  PROVE  TypeOK'
<1>1. Entered(b, "audit") \in Entering
  BY DEF TypeOK, Entering, Entered
<1> QED
  BY <1>1 DEF LoginAccepted, TypeOK

\* Every step keeps the types.
LEMMA TypeStep == TypeOK /\ [Next]_vars => TypeOK'
<1> SUFFICES ASSUME TypeOK, [Next]_vars PROVE TypeOK'
  OBVIOUS
<1> USE ConstantsAssumption
<1>1. ASSUME NEW r \in Request, NEW b \in Browser,
             \/ LoginAccepted(r, b) \/ Logout(r, b)
             \/ Call(r, b) \/ Page(r, b) \/ SubmitForm(r, b)
      PROVE  TypeOK'
  <2>1. CASE LoginAccepted(r, b)
    BY <2>1, LoginType
  <2>2. CASE Logout(r, b)
    <3>1. [kind |-> "cookie", pc |-> "answer", browser |-> b,
           sid |-> NoCookie] \in Answered
      BY DEF Answered, Cookie
    <3> QED
      BY <2>2, <3>1, RemovedType DEF Logout, TypeOK
  <2>3. CASE Call(r, b) \/ Page(r, b)
    BY <2>3, GuardType DEF Call, Page, Kind, Csrf
  <2>4. CASE SubmitForm(r, b)
    BY <2>4, GuardType DEF SubmitForm, Kind, Csrf, TypeOK
  <2> QED
    BY <1>1, <2>1, <2>2, <2>3, <2>4
<1>2. ASSUME NEW r \in Request,
             \/ LoginRefused(r) \/ LoginAudit(r) \/ LoginReplace(r)
             \/ LoginAuthorize(r) \/ LoginCreate(r) \/ Answer(r)
      PROVE  TypeOK'
  <2>1. CASE LoginRefused(r)
    BY <2>1 DEF LoginRefused, Record, TypeOK
  <2>2. CASE LoginAudit(r)
    <3>1. [req[r] EXCEPT !.pc = "replace"] \in Entering
      BY <2>2, RequestShape DEF LoginAudit, Entering
    <3> QED
      BY <2>2, <3>1 DEF LoginAudit, Record, Goto, TypeOK
  <2>3. CASE LoginReplace(r)
    <3>1. [req[r] EXCEPT !.pc = "authorize"] \in Entering
      BY <2>3, RequestShape DEF LoginReplace, Entering
    <3> QED
      BY <2>3, <3>1, RemovedType DEF LoginReplace, Goto, TypeOK
  <2>4. CASE LoginAuthorize(r)
    <3>1. req[r] \in Entering
      BY <2>4, RequestShape DEF LoginAuthorize
    <3>2. \A done \in BOOLEAN :
            [req[r] EXCEPT !.pc = "create", !.timed = done] \in Entering
      BY <3>1 DEF Entering
    <3>3. now + AccessTimeout \in Nat
      BY DEF TypeOK
    <3>4. PICK done \in BOOLEAN :
            req' = [req EXCEPT ![r].pc = "create", ![r].timed = done]
      BY <2>4 DEF LoginAuthorize
    <3>5. req' \in [Request -> {Idle} \cup Guarded \cup Entering \cup Answered]
      BY <3>2, <3>4 DEF TypeOK
    <3>6. device' \in [Browser -> Nat]
      BY <2>4, <3>3 DEF LoginAuthorize, TypeOK
    <3> QED
      BY <2>4, <3>5, <3>6 DEF LoginAuthorize, TypeOK
  <2>5. CASE LoginCreate(r)
    <3>1. req[r].browser \in Browser /\ req[r].timed \in BOOLEAN
      BY <2>5, RequestShape DEF LoginCreate, Entering
    <3>2. PICK s \in Sid :
            /\ store' = [store EXCEPT ![s] =
             [st |-> "open", since |-> now, expires |-> now + Timeout,
              timed |-> req[r].timed]]
            /\ req' = [req EXCEPT ![r] = [kind |-> "cookie", pc |-> "answer",
                                          browser |-> req[r].browser,
                                          sid |-> s]]
      BY <2>5 DEF LoginCreate
    <3>3. [st |-> "open", since |-> now, expires |-> now + Timeout,
           timed |-> req[r].timed] \in Entry
      BY <3>1 DEF TypeOK, Entry
    <3>4. [kind |-> "cookie", pc |-> "answer", browser |-> req[r].browser,
           sid |-> s] \in Answered
      BY <3>1 DEF Answered, Cookie
    <3> QED
      BY <2>5, <3>2, <3>3, <3>4 DEF LoginCreate, TypeOK
  <2>6. CASE Answer(r)
    <3>1. req[r].sid \in Cookie
      BY <2>6, RequestShape DEF Answer, Answered
    <3> QED
      BY <2>6, <3>1 DEF Answer, Finish, TypeOK
  <2> QED
    BY <1>2, <2>1, <2>2, <2>3, <2>4, <2>5, <2>6
<1>3. ASSUME NEW r \in Request,
             Validate(r) \/ ReadCsrf(r) \/ Act(r) \/ Dropped(r)
      PROVE  TypeOK'
  <2>1. CASE Validate(r)
    <3>1. \A pc \in {"act", "csrf", "token"} :
            [req[r] EXCEPT !.pc = pc] \in Guarded
      BY <2>1, RequestShape DEF Validate, Guarded
    <3> QED
      BY <2>1, <3>1, RemovedType DEF Validate, Goto, Finish, TypeOK
  <2>2. CASE ReadCsrf(r)
    <3>1. req[r] \in Guarded
      BY <2>2, RequestShape DEF ReadCsrf
    <3>2. CsrfOf(req[r].sid) \in Csrf
      BY <3>1 DEF CsrfOf, Csrf, Guarded
    <3>3. [req[r] EXCEPT !.pc = "act", !.csrf = CsrfOf(req[r].sid)]
            \in Guarded
      BY <3>1, <3>2 DEF Guarded
    <3> QED
      BY <2>2, <3>3, ZenonT(40) DEF ReadCsrf, Finish, TypeOK
  <2>3. CASE Act(r)
    <3>1. req[r].csrf \in Csrf
      BY <2>3, RequestShape DEF Act, Guarded
    <3> QED
      BY <2>3, <3>1 DEF Act, Finish, TypeOK
  <2>4. CASE Dropped(r)
    BY <2>4 DEF Dropped, Finish, TypeOK
  <2> QED
    BY <1>3, <2>1, <2>2, <2>3, <2>4
<1>4. CASE Restart
  <2>1. \A s \in Sid : [store[s] EXCEPT !.st = "gone"] \in Entry
    BY DEF TypeOK, Entry
  <2> QED
    BY <1>4, <2>1 DEF Restart, TypeOK
<1>5. CASE Tick
  BY <1>5 DEF Tick, TypeOK
<1>6. CASE UNCHANGED vars
  BY <1>6 DEF vars, TypeOK
<1> QED
  BY <1>1, <1>2, <1>3, <1>4, <1>5, <1>6 DEF Next

(* Every variable has its type, whatever requests, time-outs and restarts  *)
(* are interleaved.                                                        *)
THEOREM TypeCorrect == Spec => []TypeOK
<1>1. Init => TypeOK
  BY DEF Init, TypeOK, Entry, Cookie, Idle
<1> QED
  BY <1>1, TypeStep, PTL DEF Spec

-----------------------------------------------------------------------------
(***************************************************************************)
(* What is over stays over.                                                *)
(***************************************************************************)

\* No step turns the clock back, takes back a logout, or lets an id that was
\* drawn become another session: its times stay, and what is gone stays gone.
StoreKept ==
  /\ now <= now'
  /\ over \subseteq over'
  /\ \A s \in Sid : store[s].st # "fresh" =>
       /\ store'[s].st # "fresh"
       /\ store'[s].since = store[s].since
       /\ store'[s].expires = store[s].expires
       /\ store'[s].timed = store[s].timed
       /\ store[s].st = "gone" => store'[s].st = "gone"

\* remove keeps them, too.
LEMMA RemovedKeeps ==
  ASSUME TypeOK, NEW x
  PROVE  \A s \in Sid :
           /\ Removed(x)[s].st = IF s = x /\ store[s].st = "open" THEN "gone"
                                 ELSE store[s].st
           /\ Removed(x)[s].since = store[s].since
           /\ Removed(x)[s].expires = store[s].expires
           /\ Removed(x)[s].timed = store[s].timed
BY DEF TypeOK, Removed, Present, Entry

\* What a step may do to the store.
LEMMA StoreStep ==
  ASSUME TypeOK, [Next]_vars
  PROVE  StoreKept
<1>1. ASSUME UNCHANGED <<now, store, over>>
      PROVE  StoreKept
  BY <1>1 DEF StoreKept, TypeOK
<1>2. ASSUME NEW x, store' = Removed(x), now' = now, over \subseteq over'
      PROVE  StoreKept
  BY <1>2, RemovedKeeps DEF StoreKept, TypeOK
<1>3. ASSUME NEW r \in Request, NEW b \in Browser,
             \/ LoginAccepted(r, b) \/ Logout(r, b)
             \/ Call(r, b) \/ Page(r, b) \/ SubmitForm(r, b)
      PROVE  StoreKept
  BY <1>1, <1>2, <1>3
  DEF LoginAccepted, Entered, Logout, Call, Page, SubmitForm, Guard
<1>4. ASSUME NEW r \in Request,
             \/ LoginRefused(r) \/ LoginAudit(r) \/ LoginReplace(r)
             \/ LoginAuthorize(r) \/ Answer(r)
             \/ Validate(r) \/ ReadCsrf(r) \/ Act(r) \/ Dropped(r)
      PROVE  StoreKept
  BY <1>1, <1>2, <1>4
  DEF LoginRefused, LoginAudit, LoginReplace, LoginAuthorize, Answer, Validate,
      ReadCsrf, Act, Dropped
<1>5. ASSUME NEW r \in Request, LoginCreate(r)
      PROVE  StoreKept
  BY <1>5 DEF LoginCreate, StoreKept, TypeOK
<1>6. CASE Restart
  BY <1>6 DEF Restart, StoreKept, TypeOK, Present, Entry
<1>7. CASE Tick
  BY <1>7 DEF Tick, StoreKept, TypeOK
<1>8. CASE UNCHANGED vars
  BY <1>1, <1>8 DEF vars
<1> QED
  BY <1>3, <1>4, <1>5, <1>6, <1>7, <1>8 DEF Next

\* So whatever is over stays over.
LEMMA OverStays ==
  ASSUME TypeOK, StoreKept, NEW s \in Sid, store[s].st # "fresh", Over(s),
         TypeOK'
  PROVE  Over(s)'
BY ConstantsAssumption DEF StoreKept, Over, TypeOK, Entry

(* The browsers and the requests hold ids that create() has drawn.         *)
IdsDrawn ==
  /\ \A b \in Browser : jar[b] \in Sid => store[jar[b]].st # "fresh"
  /\ \A r \in Request :
       req[r] # Idle /\ req[r].sid \in Sid => store[req[r].sid].st # "fresh"

(* What the store says of a session is what was done to it: a session that *)
(* was given up is gone, one that is gone is over, and expires_at is its   *)
(* start and the time-out.                                                 *)
StoreTells ==
  \A s \in Sid :
    /\ s \in over => store[s].st = "gone"
    /\ store[s].st = "gone" => Over(s)
    /\ store[s].st # "fresh" => store[s].expires = store[s].since + Timeout

(* A request that was late finds its session over, and gets nowhere.       *)
LateStopped ==
  \A r \in Request : req[r].pc \in {"session", "csrf", "token", "act"} =>
    /\ req[r].late => Over(req[r].sid)
    /\ req[r].pc # "session" => ~req[r].late

(* RefusedOnceOver and FormOfOwnSession are not inductive: whether a        *)
(* request is let through depends on the entry, and the entry on what was  *)
(* done to the session.                                                    *)
AccessInv ==
  TypeOK /\ IdsDrawn /\ StoreTells /\ LateStopped /\ FormOfOwnSession

\* A session that validate accepts is not over.
LEMMA ValidNotOver ==
  ASSUME TypeOK, StoreTells, NEW s, Valid(s)
  PROVE  s \in Sid /\ ~Over(s)
BY ConstantsAssumption DEF Valid, Present, StoreTells, Over, TypeOK, Entry

\* Ids stay drawn.
LEMMA IdsStep ==
  ASSUME AccessInv, [Next]_vars, TypeOK'
  PROVE  IdsDrawn'
<1>a. TypeOK /\ IdsDrawn
  BY DEF AccessInv
<1>b. StoreKept
  BY <1>a, StoreStep
<1>1. ASSUME UNCHANGED <<jar, req>>
      PROVE  IdsDrawn'
  BY <1>1, <1>a, <1>b DEF IdsDrawn, StoreKept
<1>2. ASSUME NEW r \in Request, jar' = jar,
             \/ req' = [req EXCEPT ![r] = Idle]
             \/ \E pc : req' = [req EXCEPT ![r].pc = pc] /\ req[r] # Idle
             \/ \E csrf : /\ req' = [req EXCEPT ![r].pc = "act",
                                               ![r].csrf = csrf]
                          /\ req[r] # Idle
      PROVE  IdsDrawn'
  <2>1. \A q \in Request : req'[q] # Idle =>
          req[q] # Idle /\ req'[q].sid = req[q].sid
    BY <1>2, <1>a DEF TypeOK, Idle, Guarded, Entering, Answered
  <2> QED
    BY <1>2, <2>1, <1>a, <1>b DEF IdsDrawn, StoreKept
<1>3. ASSUME NEW r \in Request, NEW b \in Browser, NEW q,
             jar' = jar, req' = [req EXCEPT ![r] = q],
             q.sid \in {jar[b], NoCookie}
      PROVE  IdsDrawn'
  BY <1>3, <1>a, <1>b, ConstantsAssumption
  DEF IdsDrawn, StoreKept, TypeOK, Cookie
<1>4. ASSUME NEW r \in Request, NEW b \in Browser,
             \/ LoginAccepted(r, b) \/ Logout(r, b)
             \/ Call(r, b) \/ Page(r, b) \/ SubmitForm(r, b)
      PROVE  IdsDrawn'
  <2>1. CASE LoginAccepted(r, b) \/ Logout(r, b)
    BY <1>3, <2>1 DEF LoginAccepted, Entered, Logout
  <2>2. ASSUME NEW k, NEW t, Guard(r, b, k, t)
        PROVE  IdsDrawn'
    BY <1>3, <2>2 DEF Guard
  <2> QED
    BY <1>4, <2>1, <2>2 DEF Call, Page, SubmitForm
<1>5. ASSUME NEW r \in Request,
             \/ LoginRefused(r) \/ LoginAudit(r) \/ LoginReplace(r)
             \/ LoginAuthorize(r)
             \/ Validate(r) \/ ReadCsrf(r) \/ Act(r) \/ Dropped(r)
      PROVE  IdsDrawn'
  <2>1. req[r].pc # "idle" => req[r] # Idle
    BY DEF Idle
  <2> QED
    BY <1>1, <1>2, <1>5, <2>1
    DEF LoginRefused, LoginAudit, LoginReplace, LoginAuthorize, Validate,
        ReadCsrf, Act, Dropped, Goto, Finish
<1>6. ASSUME NEW r \in Request, LoginCreate(r)
      PROVE  IdsDrawn'
  <2>1. PICK s \in Sid :
          /\ store' = [store EXCEPT ![s] =
           [st |-> "open", since |-> now, expires |-> now + Timeout,
            timed |-> req[r].timed]]
          /\ req' = [req EXCEPT ![r] = [kind |-> "cookie", pc |-> "answer",
                                        browser |-> req[r].browser,
                                        sid |-> s]]
    BY <1>6 DEF LoginCreate
  <2>2. store'[s].st = "open"
    BY <2>1, <1>a DEF TypeOK
  <2> QED
    BY <1>6, <2>1, <2>2, <1>a, <1>b DEF LoginCreate, IdsDrawn, StoreKept, TypeOK
<1>7. ASSUME NEW r \in Request, Answer(r)
      PROVE  IdsDrawn'
  <2>1. req[r] # Idle /\ req[r].browser \in Browser
    BY <1>7, <1>a, RequestShape DEF Answer, Idle, Answered
  <2> QED
    BY <1>7, <2>1, <1>a, <1>b
    DEF Answer, Finish, IdsDrawn, StoreKept, TypeOK
<1>8. CASE Restart
  BY <1>8, <1>a, <1>b DEF Restart, IdsDrawn, StoreKept
<1>9. CASE Tick \/ UNCHANGED vars
  BY <1>1, <1>9 DEF Tick, vars
<1> QED
  BY <1>4, <1>5, <1>6, <1>7, <1>8, <1>9 DEF Next

\* The store keeps telling what was done.
LEMMA StoreTellsStep ==
  ASSUME AccessInv, [Next]_vars, TypeOK'
  PROVE  StoreTells'
<1> USE ConstantsAssumption
<1>a. TypeOK /\ IdsDrawn /\ StoreTells
  BY DEF AccessInv
<1>b. StoreKept
  BY <1>a, StoreStep
<1>1. ASSUME NEW x, store' = Removed(x), now' = now,
             \/ over' = over \cup ({x} \cap Sid)
             \/ over' = over /\ (x \in Sid => store[x].expires <= now),
             x \in Sid => store[x].st # "fresh"
      PROVE  StoreTells'
  <2> SUFFICES ASSUME NEW s \in Sid
               PROVE  /\ s \in over' => store'[s].st = "gone"
                      /\ store'[s].st = "gone" => Over(s)'
                      /\ store'[s].st # "fresh" =>
                           store'[s].expires = store'[s].since + Timeout
    BY DEF StoreTells
  <2>1. store[s].st \in {"fresh", "open", "gone"}
    BY <1>a DEF TypeOK, Entry
  <2>2. s \in over' => s \in over \/ s = x
    BY <1>1
  <2>3. s \in over' => store'[s].st = "gone"
    BY <1>1, <2>1, <2>2, <1>a, RemovedKeeps DEF StoreTells
  <2>4. ASSUME store'[s].st = "gone"
        PROVE  Over(s)'
    <3>1. CASE store[s].st = "gone"
      BY <3>1, <1>a, <1>b, OverStays DEF StoreTells
    <3>2. CASE store[s].st # "gone"
      <4>1. s = x /\ store[s].st = "open"
        BY <2>4, <3>2, <1>1, <1>a, RemovedKeeps
      <4>2. CASE over' = over \cup ({x} \cap Sid)
        BY <4>1, <4>2 DEF Over
      <4>3. CASE store[x].expires <= now
        BY <1>1, <4>1, <4>3, <1>a, RemovedKeeps DEF Over, StoreTells
      <4> QED
        BY <1>1, <4>1, <4>2, <4>3
    <3> QED
      BY <3>1, <3>2
  <2>5. store'[s].st # "fresh" =>
          store'[s].expires = store'[s].since + Timeout
    BY <1>1, <1>a, <2>1, RemovedKeeps DEF StoreTells
  <2> QED
    BY <2>3, <2>4, <2>5
<1>2. ASSUME UNCHANGED <<store, over>>
      PROVE  StoreTells'
  BY <1>2, <1>a, <1>b DEF StoreTells, StoreKept, Over, TypeOK, Entry
<1>3. ASSUME NEW r \in Request, NEW b \in Browser,
             \/ LoginAccepted(r, b) \/ Logout(r, b)
             \/ Call(r, b) \/ Page(r, b) \/ SubmitForm(r, b)
      PROVE  StoreTells'
  <2>1. CASE Logout(r, b)
    BY <1>1, <2>1, <1>a DEF Logout, IdsDrawn
  <2> QED
    BY <1>2, <1>3, <2>1 DEF LoginAccepted, Call, Page, SubmitForm, Guard
<1>4. ASSUME NEW r \in Request,
             \/ LoginRefused(r) \/ LoginAudit(r) \/ LoginReplace(r)
             \/ LoginAuthorize(r) \/ Answer(r)
             \/ Validate(r) \/ ReadCsrf(r) \/ Act(r) \/ Dropped(r)
      PROVE  StoreTells'
  <2>1. CASE LoginReplace(r)
    <3>1. req[r] # Idle
      BY <2>1 DEF LoginReplace, Idle
    <3> QED
      BY <1>1, <2>1, <3>1, <1>a DEF LoginReplace, IdsDrawn
  <2>2. CASE Validate(r)
    <3>1. req[r] # Idle /\ req[r].sid \in Sid
      BY <2>2, <1>a, RequestShape DEF Validate, Idle, Guarded
    <3>2. CASE Valid(req[r].sid)
      BY <1>2, <2>2, <3>2 DEF Validate
    <3>3. CASE ~Present(req[r].sid)
      <4>1. store' = store
        BY <2>2, <3>3 DEF Validate, Valid, Removed
      <4> QED
        BY <1>2, <2>2, <4>1 DEF Validate
    <3>4. CASE Present(req[r].sid) /\ ~Valid(req[r].sid)
      <4>1. store[req[r].sid].expires <= now
        BY <3>1, <3>4, <1>a DEF Valid, TypeOK, Entry
      <4> QED
        BY <1>1, <2>2, <3>1, <3>4, <4>1, <1>a DEF Validate, IdsDrawn
    <3> QED
      BY <3>2, <3>3, <3>4
  <2> QED
    BY <1>2, <1>4, <2>1, <2>2
    DEF LoginRefused, LoginAudit, LoginAuthorize, Answer, ReadCsrf, Act, Dropped
<1>5. ASSUME NEW r \in Request, LoginCreate(r)
      PROVE  StoreTells'
  BY <1>5, <1>a DEF LoginCreate, StoreTells, Over, TypeOK, Entry
<1>6. CASE Restart
  BY <1>6, <1>a DEF Restart, StoreTells, Over, TypeOK, Present, Entry
<1>7. CASE Tick \/ UNCHANGED vars
  BY <1>2, <1>7 DEF Tick, vars
<1> QED
  BY <1>3, <1>4, <1>5, <1>6, <1>7 DEF Next

\* A request that is late stays outside, and is told so by the store.
LEMMA LateStep ==
  ASSUME AccessInv, [Next]_vars, TypeOK'
  PROVE  LateStopped'
<1>a. TypeOK /\ IdsDrawn /\ StoreTells /\ LateStopped
  BY DEF AccessInv
<1>b. StoreKept
  BY <1>a, StoreStep
\* A request of which only the locals `pc` and `csrf` change.
<1>1. ASSUME NEW r \in Request,
             req[r].pc \in {"session", "csrf", "token", "act"},
             req'[r].late = req[r].late, req'[r].sid = req[r].sid
      PROVE  req'[r].late => Over(req[r].sid)'
  <2>1. /\ req[r].late => Over(req[r].sid)
        /\ req[r].sid \in Sid
        /\ req[r] # Idle
    BY <1>1, <1>a, RequestShape DEF LateStopped, Guarded, Idle
  <2>2. store[req[r].sid].st # "fresh"
    BY <2>1, <1>a DEF IdsDrawn
  <2> QED
    BY <1>1, <2>1, <2>2, <1>a, <1>b, OverStays
<1>2. ASSUME NEW r \in Request, req'[r] = req[r],
             req'[r].pc \in {"session", "csrf", "token", "act"}
      PROVE  /\ req'[r].late => Over(req[r].sid)'
             /\ req'[r].pc # "session" => ~req'[r].late
  BY <1>1, <1>2, <1>a DEF LateStopped
<1>3. ASSUME NEW r \in Request,
             \A q \in Request \ {r} : req'[q] = req[q],
             req'[r].pc \notin {"session", "csrf", "token", "act"}
      PROVE  LateStopped'
  BY <1>2, <1>3 DEF LateStopped
<1>4. ASSUME UNCHANGED req
      PROVE  LateStopped'
  BY <1>2, <1>4 DEF LateStopped
<1>5. ASSUME NEW r \in Request, NEW b \in Browser, NEW k \in Kind,
             NEW t \in Csrf, Guard(r, b, k, t)
      PROVE  LateStopped'
  <2>1. /\ req'[r].pc = "session"
        /\ req'[r].late = Over(jar[b])
        /\ req'[r].sid = jar[b]
        /\ \A q \in Request \ {r} : req'[q] = req[q]
    BY <1>5, <1>a DEF Guard, TypeOK
  <2>2. jar[b] \in Sid
    BY <1>5, <1>a DEF Guard, TypeOK, Cookie
  <2>3. Over(jar[b])' <=> Over(jar[b])
    BY <1>5 DEF Guard, Over
  <2>4. jar' = jar
    BY <1>5 DEF Guard
  <2>5. req'[r].late => Over(req[r].sid)'
    BY <2>1, <2>3, <2>4 DEF Over
  <2> QED
    BY <1>2, <2>1, <2>5 DEF LateStopped
<1>6. ASSUME NEW r \in Request, NEW b \in Browser,
             \/ LoginAccepted(r, b) \/ Logout(r, b)
             \/ Call(r, b) \/ Page(r, b) \/ SubmitForm(r, b)
      PROVE  LateStopped'
  <2>1. CASE LoginAccepted(r, b) \/ Logout(r, b)
    BY <1>3, <2>1, <1>a DEF LoginAccepted, Entered, Logout, TypeOK
  <2>2. CASE Call(r, b) \/ Page(r, b)
    BY <1>5, <2>2 DEF Call, Page, Kind, Csrf
  <2>3. CASE SubmitForm(r, b)
    BY <1>5, <2>3, <1>a DEF SubmitForm, Kind, TypeOK
  <2> QED
    BY <1>6, <2>1, <2>2, <2>3
<1>7. ASSUME NEW r \in Request,
             \/ LoginAudit(r) \/ LoginReplace(r) \/ LoginAuthorize(r)
             \/ LoginCreate(r)
      PROVE  LateStopped'
  BY <1>3, <1>7, <1>a, RequestShape
  DEF LoginAudit, LoginReplace, LoginAuthorize, LoginCreate, Goto, TypeOK,
      Entering
<1>8. ASSUME NEW r \in Request, Finish(r)
      PROVE  LateStopped'
  BY <1>3, <1>8, <1>a DEF Finish, Idle, TypeOK
<1>9. ASSUME NEW r \in Request, Validate(r), Valid(req[r].sid)
      PROVE  LateStopped'
  <2>1. req[r] \in Guarded
    BY <1>9, <1>a, RequestShape DEF Validate
  <2>2. ~Over(req[r].sid)
    BY <1>9, <1>a, ValidNotOver
  <2>3. ~req[r].late
    BY <1>9, <2>1, <2>2, <1>a DEF LateStopped, Validate
  <2>4. /\ req'[r].late = req[r].late
        /\ \A q \in Request \ {r} : req'[q] = req[q]
    BY <1>9, <2>1, <1>a DEF Validate, Goto, TypeOK, Guarded
  <2> QED
    BY <1>2, <2>3, <2>4 DEF LateStopped
<1>10. ASSUME NEW r \in Request, ReadCsrf(r)
       PROVE  LateStopped'
  <2>1. req[r] \in Guarded /\ ~req[r].late
    BY <1>10, <1>a, RequestShape DEF ReadCsrf, LateStopped
  <2>2. CASE Finish(r)
    BY <1>8, <2>2
  <2>3. CASE ~Finish(r)
    <3>1. /\ req'[r].late = req[r].late
          /\ \A q \in Request \ {r} : req'[q] = req[q]
      BY <1>10, <2>1, <2>3, <1>a DEF ReadCsrf, TypeOK, Guarded
    <3> QED
      BY <1>2, <2>1, <3>1 DEF LateStopped
  <2> QED
    BY <2>2, <2>3
<1>11. ASSUME NEW r \in Request,
              \/ LoginRefused(r) \/ Answer(r) \/ Validate(r) \/ ReadCsrf(r)
              \/ Act(r) \/ Dropped(r)
       PROVE  LateStopped'
  BY <1>4, <1>8, <1>9, <1>10, <1>11
  DEF LoginRefused, Answer, Validate, Act, Dropped
<1>12. CASE Restart
  BY <1>12 DEF Restart, LateStopped, Idle
<1>13. CASE Tick \/ UNCHANGED vars
  BY <1>4, <1>13 DEF Tick, vars
<1> QED
  BY <1>6, <1>7, <1>11, <1>12, <1>13 DEF Next

\* What a form was let through with stays its session's, or its session over.
LEMMA FormStep ==
  ASSUME AccessInv, [Next]_vars, TypeOK'
  PROVE  FormOfOwnSession'
<1>a. TypeOK /\ IdsDrawn /\ StoreTells /\ FormOfOwnSession
  BY DEF AccessInv
<1>b. StoreKept
  BY <1>a, StoreStep
<1> DEFINE Good(r) == req[r].pc = "act" /\ req[r].kind = "form" =>
                        \/ req[r].sent = req[r].sid
                        \/ req[r].sent = NoToken /\ Over(req[r].sid)
<1>1. ASSUME NEW r \in Request, req'[r] = req[r]
      PROVE  Good(r)'
  <2> SUFFICES ASSUME req[r].pc = "act", req[r].kind = "form",
                      req[r].sent = NoToken, Over(req[r].sid)
               PROVE  Over(req[r].sid)'
    BY <1>1, <1>a DEF FormOfOwnSession
  <2>1. req[r].sid \in Sid /\ req[r] # Idle
    BY <1>a, RequestShape DEF Guarded, Idle
  <2> QED
    BY <1>1, <2>1, <1>a, <1>b, OverStays DEF IdsDrawn
<1>2. ASSUME NEW r \in Request,
             \A q \in Request \ {r} : req'[q] = req[q],
             req'[r].pc # "act" \/ req'[r].kind # "form"
      PROVE  FormOfOwnSession'
  BY <1>1, <1>2 DEF FormOfOwnSession
<1>3. ASSUME UNCHANGED req
      PROVE  FormOfOwnSession'
  BY <1>1, <1>3 DEF FormOfOwnSession
<1>4. ASSUME NEW r \in Request, NEW b \in Browser,
             \/ LoginAccepted(r, b) \/ Logout(r, b)
             \/ Call(r, b) \/ Page(r, b) \/ SubmitForm(r, b)
      PROVE  FormOfOwnSession'
  BY <1>2, <1>4, <1>a
  DEF LoginAccepted, Entered, Logout, Call, Page, SubmitForm, Guard, TypeOK
<1>5. ASSUME NEW r \in Request,
             \/ LoginAudit(r) \/ LoginReplace(r) \/ LoginAuthorize(r)
             \/ LoginCreate(r)
      PROVE  FormOfOwnSession'
  BY <1>2, <1>5, <1>a, RequestShape
  DEF LoginAudit, LoginReplace, LoginAuthorize, LoginCreate, Goto, TypeOK,
      Entering
<1>6. ASSUME NEW r \in Request, Finish(r)
      PROVE  FormOfOwnSession'
  BY <1>2, <1>6, <1>a DEF Finish, Idle, TypeOK
<1>7. ASSUME NEW r \in Request, Validate(r), ~Finish(r)
      PROVE  FormOfOwnSession'
  <2>1. req[r] \in Guarded
    BY <1>7, <1>a, RequestShape DEF Validate
  <2> QED
    BY <1>2, <1>7, <2>1, <1>a DEF Validate, Goto, TypeOK, Guarded
<1>8. ASSUME NEW r \in Request, ReadCsrf(r), ~Finish(r)
      PROVE  FormOfOwnSession'
  <2>1. req[r] \in Guarded
    BY <1>8, <1>a, RequestShape DEF ReadCsrf
  <2>2. /\ \A q \in Request \ {r} : req'[q] = req[q]
        /\ req'[r].kind = req[r].kind
        /\ req'[r].sent = req[r].sent
        /\ req'[r].sid = req[r].sid
    BY <1>8, <2>1, <1>a DEF ReadCsrf, TypeOK, Guarded
  <2>3. CASE req[r].kind # "form"
    BY <1>2, <2>2, <2>3
  <2>4. CASE req[r].kind = "form"
    <3>1. req[r].sent = CsrfOf(req[r].sid)
      BY <1>8, <2>4 DEF ReadCsrf
    <3>2. CASE Present(req[r].sid)
      BY <1>1, <2>2, <3>1, <3>2 DEF CsrfOf, FormOfOwnSession
    <3>3. CASE ~Present(req[r].sid)
      <4>1. req[r].sid \in Sid /\ req[r] # Idle
        BY <1>8, <2>1 DEF ReadCsrf, Idle, Guarded
      <4>2. store[req[r].sid].st = "gone"
        BY <3>3, <4>1, <1>a DEF Present, IdsDrawn, TypeOK, Entry
      <4>3. Over(req[r].sid)'
        BY <1>8, <2>2, <4>1, <4>2, <1>a DEF StoreTells, ReadCsrf, Over
      <4> QED
        BY <1>1, <2>2, <3>1, <3>3, <4>3 DEF CsrfOf, FormOfOwnSession
    <3> QED
      BY <3>2, <3>3
  <2> QED
    BY <2>3, <2>4
<1>9. ASSUME NEW r \in Request,
             \/ LoginRefused(r) \/ Answer(r) \/ Validate(r) \/ ReadCsrf(r)
             \/ Act(r) \/ Dropped(r)
      PROVE  FormOfOwnSession'
  BY <1>3, <1>6, <1>7, <1>8, <1>9
  DEF LoginRefused, Answer, Act, Dropped
<1>10. CASE Restart
  BY <1>10 DEF Restart, FormOfOwnSession, Idle
<1>11. CASE Tick \/ UNCHANGED vars
  BY <1>3, <1>11 DEF Tick, vars
<1> QED
  BY <1>4, <1>5, <1>9, <1>10, <1>11 DEF Next

\* Nothing is drawn, held or sent in the beginning.
LEMMA AccessInit ==
  ASSUME Init
  PROVE  AccessInv
<1>1. TypeOK
  BY DEF Init, TypeOK, Entry, Cookie, Idle
<1>2. \A r \in Request : req[r] = Idle /\ req[r].pc = "idle"
  BY DEF Init, Idle
<1>3. \A b \in Browser : jar[b] \notin Sid
  BY ConstantsAssumption DEF Init
<1>4. \A s \in Sid : store[s].st = "fresh" /\ s \notin over
  BY DEF Init
<1> QED
  BY <1>1, <1>2, <1>3, <1>4
  DEF AccessInv, IdsDrawn, StoreTells, LateStopped, FormOfOwnSession

(* The inductive invariant of the guards.                                  *)
THEOREM AccessInvariant == Spec => []AccessInv
<1>1. Init => AccessInv
  BY AccessInit
<1>2. AccessInv /\ [Next]_vars => AccessInv'
  <2> SUFFICES ASSUME AccessInv, [Next]_vars PROVE AccessInv'
    OBVIOUS
  <2>1. TypeOK'
    BY TypeStep DEF AccessInv
  <2> QED
    BY <2>1, IdsStep, StoreTellsStep, LateStep, FormStep DEF AccessInv
<1> QED
  BY <1>1, <1>2, PTL DEF Spec

(* A request sent when its session was over never reaches its handler.     *)
THEOREM OverIsRefused == Spec => []RefusedOnceOver
<1>1. AccessInv => RefusedOnceOver
  BY DEF AccessInv, LateStopped, RefusedOnceOver
<1> QED
  BY <1>1, AccessInvariant, PTL

(* A form is accepted only with the token of the session it is sent under, *)
(* or with the empty one, when that session is over.                       *)
THEOREM FormsBelongToSessions == Spec => []FormOfOwnSession
<1>1. AccessInv => FormOfOwnSession
  BY DEF AccessInv
<1> QED
  BY <1>1, AccessInvariant, PTL

-----------------------------------------------------------------------------
(***************************************************************************)
(* Every session is on record.                                             *)
(***************************************************************************)

\* The ids that were drawn, and the logins that are on record without one.
Drawn == {s \in Sid : store[s].st # "fresh"}
Due == {r \in Request : req[r].pc \in {"replace", "authorize", "create"}}

(* LoginOnRecord is not inductive: a login on record that has no session   *)
(* yet is still to draw one.  Neither Sid nor Request need be finite.      *)
RecordInv ==
  /\ TypeOK
  /\ IsFiniteSet(Drawn) /\ IsFiniteSet(Due)
  /\ Cardinality(Drawn) + Cardinality(Due) <= audit["login"] + lost

\* Most steps draw no id and put no login on record.
LEMMA NoneDrawn ==
  ASSUME RecordInv, TypeOK', Drawn' \subseteq Drawn, Due' \subseteq Due,
         audit'["login"] = audit["login"], lost' = lost
  PROVE  RecordInv'
<1>1. /\ IsFiniteSet(Drawn) /\ IsFiniteSet(Due)
      /\ Cardinality(Drawn) + Cardinality(Due) <= audit["login"] + lost
  BY DEF RecordInv
<1>2. /\ IsFiniteSet(Drawn') /\ Cardinality(Drawn') <= Cardinality(Drawn)
      /\ IsFiniteSet(Due') /\ Cardinality(Due') <= Cardinality(Due)
  BY <1>1, FS_Subset
<1>3. /\ Cardinality(Drawn) \in Nat /\ Cardinality(Due) \in Nat
      /\ Cardinality(Drawn') \in Nat /\ Cardinality(Due') \in Nat
  BY <1>1, <1>2, FS_CardinalityType
<1>4. audit["login"] \in Nat /\ lost \in Nat
  BY DEF RecordInv, TypeOK
<1>5. Cardinality(Drawn') + Cardinality(Due') <= audit'["login"] + lost'
  BY <1>1, <1>2, <1>3, <1>4
<1> QED
  BY <1>2, <1>5 DEF RecordInv

\* A step of one request that leaves the ids drawn alone.
LEMMA DueAlone ==
  ASSUME TypeOK, NEW r \in Request,
         \A q \in Request \ {r} : req'[q] = req[q],
         req[r].pc \in {"replace", "authorize", "create"}
           \/ req'[r].pc \notin {"replace", "authorize", "create"}
  PROVE  Due' \subseteq Due
BY DEF Due

\* Removing an entry draws none.
LEMMA RemovedDraws ==
  ASSUME TypeOK, NEW x, store' = Removed(x)
  PROVE  Drawn' = Drawn
BY RemovedKeeps DEF Drawn

\* The record and the ids stay in step.
LEMMA RecordStep == RecordInv /\ [Next]_vars => RecordInv'
<1> SUFFICES ASSUME RecordInv, [Next]_vars PROVE RecordInv'
  OBVIOUS
<1>a. TypeOK /\ TypeOK'
  BY TypeStep DEF RecordInv
<1>b. /\ IsFiniteSet(Drawn) /\ IsFiniteSet(Due)
      /\ Cardinality(Drawn) \in Nat /\ Cardinality(Due) \in Nat
      /\ Cardinality(Drawn) + Cardinality(Due) <= audit["login"] + lost
      /\ audit["login"] \in Nat /\ lost \in Nat
  BY FS_CardinalityType DEF RecordInv, TypeOK
<1>1. ASSUME NEW r \in Request, NEW b \in Browser,
             \/ LoginAccepted(r, b) \/ Logout(r, b)
             \/ Call(r, b) \/ Page(r, b) \/ SubmitForm(r, b)
      PROVE  RecordInv'
  <2>1. Drawn' = Drawn
    BY <1>1, <1>a, RemovedDraws
    DEF LoginAccepted, Entered, Logout, Call, Page, SubmitForm, Guard, Drawn
  <2>2. /\ \A q \in Request \ {r} : req'[q] = req[q]
        /\ req'[r].pc \in {"audit", "answer", "session"}
        /\ audit' = audit /\ lost' = lost
    BY <1>1, <1>a
    DEF LoginAccepted, Entered, Logout, Call, Page, SubmitForm, Guard, TypeOK
  <2> QED
    BY <1>a, <2>1, <2>2, DueAlone, NoneDrawn
<1>2. CASE \E r \in Request : LoginRefused(r)
  BY <1>2, <1>a, NoneDrawn DEF LoginRefused, Record, Drawn, Due, TypeOK
<1>3. ASSUME NEW r \in Request, LoginAudit(r)
      PROVE  RecordInv'
  <2>1. /\ Drawn' = Drawn
        /\ Due' = Due \cup {r} /\ r \notin Due
    BY <1>3, <1>a, RequestShape
    DEF LoginAudit, Goto, Drawn, Due, TypeOK, Entering
  <2>3. audit'["login"] + lost' = audit["login"] + lost + 1
    BY <1>3, <1>a, <1>b DEF LoginAudit, Record, TypeOK
  <2>2. IsFiniteSet(Due') /\ Cardinality(Due') = Cardinality(Due) + 1
    BY <1>b, <2>1, FS_AddElement
  <2> QED
    BY <1>a, <1>b, <2>1, <2>2, <2>3 DEF RecordInv
<1>4. ASSUME NEW r \in Request, LoginReplace(r) \/ LoginAuthorize(r)
      PROVE  RecordInv'
  <2>1. Drawn' = Drawn
    BY <1>4, <1>a, RemovedDraws DEF LoginReplace, LoginAuthorize, Drawn
  <2>2. /\ \A q \in Request \ {r} : req'[q] = req[q]
        /\ req[r].pc \in {"replace", "authorize", "create"}
        /\ audit' = audit /\ lost' = lost
    BY <1>4, <1>a DEF LoginReplace, LoginAuthorize, Goto, TypeOK
  <2> QED
    BY <1>a, <2>1, <2>2, DueAlone, NoneDrawn
<1>5. ASSUME NEW r \in Request, LoginCreate(r)
      PROVE  RecordInv'
  <2>1. PICK s \in Sid :
          /\ store[s].st = "fresh"
          /\ store' = [store EXCEPT ![s] =
           [st |-> "open", since |-> now, expires |-> now + Timeout,
            timed |-> req[r].timed]]
          /\ req' = [req EXCEPT ![r] = [kind |-> "cookie", pc |-> "answer",
                                        browser |-> req[r].browser,
                                        sid |-> s]]
    BY <1>5 DEF LoginCreate
  <2>2. Drawn' = Drawn \cup {s} /\ s \notin Drawn
    BY <2>1, <1>a DEF Drawn, TypeOK
  <2>3. Due' = Due \ {r} /\ r \in Due
    BY <1>5, <2>1, <1>a DEF LoginCreate, Due, TypeOK
  <2>4. IsFiniteSet(Drawn') /\ Cardinality(Drawn') = Cardinality(Drawn) + 1
    BY <1>b, <2>2, FS_AddElement
  <2>5. IsFiniteSet(Due') /\ Cardinality(Due') = Cardinality(Due) - 1
    BY <1>b, <2>3, FS_RemoveElement
  <2>6. audit' = audit /\ lost' = lost
    BY <1>5 DEF LoginCreate
  <2> QED
    BY <1>a, <1>b, <2>4, <2>5, <2>6 DEF RecordInv
<1>6. ASSUME NEW r \in Request,
             \/ Answer(r) \/ Validate(r) \/ ReadCsrf(r) \/ Act(r)
             \/ Dropped(r)
      PROVE  RecordInv'
  <2>1. Drawn' = Drawn
    BY <1>6, <1>a, RemovedDraws
    DEF Answer, Validate, ReadCsrf, Act, Dropped, Drawn
  <2>2. CASE Finish(r)
    <3>1. /\ \A q \in Request \ {r} : req'[q] = req[q]
          /\ req'[r].pc = "idle"
      BY <2>2, <1>a DEF Finish, Idle, TypeOK
    <3>2. audit' = audit /\ lost' = lost
      BY <1>6 DEF Answer, Validate, ReadCsrf, Act, Dropped
    <3> QED
      BY <1>a, <2>1, <3>1, <3>2, DueAlone, NoneDrawn
  <2>3. CASE ~Finish(r)
    <3>1. req[r] \in Guarded
      BY <1>6, <2>3, <1>a, RequestShape
      DEF Answer, Validate, ReadCsrf, Act, Dropped
    <3>2. /\ \A q \in Request \ {r} : req'[q] = req[q]
          /\ req'[r].pc \in {"act", "csrf", "token"}
      BY <1>6, <2>3, <3>1, <1>a
      DEF Answer, Validate, ReadCsrf, Act, Dropped, Goto, TypeOK, Guarded
    <3>3. audit' = audit /\ lost' = lost
      BY <1>6 DEF Answer, Validate, ReadCsrf, Act, Dropped
    <3> QED
      BY <1>a, <2>1, <3>2, <3>3, DueAlone, NoneDrawn
  <2> QED
    BY <2>2, <2>3
<1>7. CASE Restart
  <2>1. Drawn' = Drawn
    BY <1>7, <1>a DEF Restart, Drawn, Present, TypeOK, Entry
  <2>2. Due' = {}
    BY <1>7 DEF Restart, Due, Idle
  <2> QED
    BY <1>7, <1>a, <2>1, <2>2, NoneDrawn DEF Restart
<1>8. CASE Tick \/ UNCHANGED vars
  BY <1>8, <1>a, NoneDrawn DEF Tick, vars, Drawn, Due
<1> QED
  BY <1>1, <1>2, <1>3, <1>4, <1>5, <1>6, <1>7, <1>8 DEF Next

(* There are never more sessions than logins in the audit log and logins   *)
(* whose row the database refused, however logins, dropped requests and    *)
(* restarts are interleaved.                                               *)
THEOREM SessionsAreOnRecord == Spec => []LoginOnRecord
<1>1. Init => RecordInv
  <2> SUFFICES ASSUME Init PROVE RecordInv
    OBVIOUS
  <2>1. TypeOK
    BY ConstantsAssumption DEF Init, TypeOK, Entry, Cookie, Idle
  <2>2. Drawn = {} /\ Due = {} /\ audit["login"] = 0 /\ lost = 0
    BY DEF Init, Drawn, Due, Idle
  <2> QED
    BY <2>1, <2>2, FS_EmptySet DEF RecordInv
<1>2. RecordInv => LoginOnRecord
  <2> SUFFICES ASSUME RecordInv PROVE LoginOnRecord
    OBVIOUS
  <2>1. Cardinality(Drawn) \in Nat /\ Cardinality(Due) \in Nat
    BY FS_CardinalityType DEF RecordInv
  <2>2. Cardinality(Drawn) <= audit["login"] + lost
    BY <2>1 DEF RecordInv, TypeOK
  <2> QED
    BY <2>2 DEF LoginOnRecord, Drawn
<1> QED
  BY <1>1, <1>2, RecordStep, PTL DEF Spec

-----------------------------------------------------------------------------
(***************************************************************************)
(* A manager who is logged in is on the network.                           *)
(***************************************************************************)

(* ManagerOnline is not inductive: when the login's command has set the    *)
(* device's timeout, the device has its time when the session is about to  *)
(* be opened, and while the answer with the cookie is under way; and no    *)
(* device has more than a new login would give it.                         *)
OnlineInv ==
  /\ AccessInv
  /\ \A b \in Browser : device[b] <= now + AccessTimeout
  /\ \A r \in Request : req[r].pc = "create" /\ req[r].timed =>
       device[req[r].browser] >= now + AccessTimeout
  /\ \A r \in Request :
       req[r].pc = "answer" /\ Valid(req[r].sid) /\ store[req[r].sid].timed =>
         device[req[r].browser] >= store[req[r].sid].expires
  /\ \A b \in Browser : Valid(jar[b]) /\ store[jar[b]].timed =>
       device[b] >= store[jar[b]].expires

\* No step makes a session valid that was drawn before.
LEMMA ValidKept ==
  ASSUME TypeOK, TypeOK', StoreKept, NEW s \in Sid, store[s].st # "fresh",
         store'[s].st = "open" /\ now' < store'[s].expires
  PROVE  /\ Valid(s) /\ store'[s].expires = store[s].expires
         /\ store'[s].timed = store[s].timed
BY DEF StoreKept, Valid, Present, TypeOK, Entry

\* The time a device has, against what its cookies and requests call for.
LEMMA OnlineStep ==
  ASSUME OnlineInv, [Next]_vars, Timeout <= AccessTimeout
  PROVE  OnlineInv'
<1> USE ConstantsAssumption
<1>a. TypeOK /\ TypeOK' /\ IdsDrawn /\ StoreTells /\ AccessInv /\ AccessInv'
  BY TypeStep, IdsStep, StoreTellsStep, LateStep, FormStep
  DEF OnlineInv, AccessInv
<1>b. StoreKept
  BY <1>a, StoreStep
\* The steps that neither grant time nor set a cookie.
<1>1. ASSUME now' = now, device' = device, jar' = jar,
             \A r \in Request :
               /\ req'[r].pc = "create" => req'[r] = req[r]
               /\ req'[r].pc = "answer" =>
                    req'[r] = req[r] \/ req'[r].sid = NoCookie
      PROVE  OnlineInv'
  <2>1. ASSUME NEW r \in Request, req'[r].pc = "create", req'[r].timed
        PROVE  device'[req'[r].browser] >= now' + AccessTimeout
    BY <1>1, <2>1 DEF OnlineInv
  <2>2. ASSUME NEW r \in Request, req'[r].pc = "answer", Valid(req[r].sid)',
               store'[req'[r].sid].timed
        PROVE  device'[req'[r].browser] >= store'[req'[r].sid].expires
    <3>1. req'[r].sid \in Sid
      BY <2>2 DEF Valid, Present
    <3>2. req'[r] = req[r] /\ req[r] # Idle
      BY <1>1, <2>2, <3>1 DEF Idle
    <3>3. store[req[r].sid].st # "fresh"
      BY <3>1, <3>2, <1>a DEF IdsDrawn
    <3>4. /\ Valid(req[r].sid) /\ store[req[r].sid].timed
          /\ store'[req[r].sid].expires = store[req[r].sid].expires
      BY <2>2, <3>1, <3>2, <3>3, <1>a, <1>b, ValidKept DEF Valid, Present
    <3> QED
      BY <1>1, <2>2, <3>2, <3>4 DEF OnlineInv
  <2>3. ASSUME NEW b \in Browser, Valid(jar[b])', store'[jar'[b]].timed
        PROVE  device'[b] >= store'[jar'[b]].expires
    <3>1. jar[b] \in Sid /\ store[jar[b]].st # "fresh"
      BY <1>1, <2>3, <1>a DEF Valid, Present, IdsDrawn
    <3>2. /\ Valid(jar[b]) /\ store[jar[b]].timed
          /\ store'[jar[b]].expires = store[jar[b]].expires
      BY <1>1, <2>3, <3>1, <1>a, <1>b, ValidKept DEF Valid, Present
    <3> QED
      BY <1>1, <3>2 DEF OnlineInv
  <2>4. \A b \in Browser : device'[b] <= now' + AccessTimeout
    BY <1>1 DEF OnlineInv
  <2> QED
    BY <2>1, <2>2, <2>3, <2>4, <1>a DEF OnlineInv
<1>2. ASSUME NEW r \in Request, NEW b \in Browser,
             \/ LoginAccepted(r, b) \/ Logout(r, b)
             \/ Call(r, b) \/ Page(r, b) \/ SubmitForm(r, b)
      PROVE  OnlineInv'
  BY <1>1, <1>2, <1>a
  DEF LoginAccepted, Entered, Logout, Call, Page, SubmitForm, Guard, TypeOK
<1>3. ASSUME NEW r \in Request,
             \/ LoginRefused(r) \/ LoginAudit(r) \/ LoginReplace(r)
             \/ Validate(r) \/ ReadCsrf(r) \/ Act(r) \/ Dropped(r)
      PROVE  OnlineInv'
  <2>1. CASE Finish(r)
    <3>1. \A q \in Request : q # r => req'[q] = req[q]
      BY <2>1, <1>a DEF Finish, TypeOK
    <3>2. req'[r].pc = "idle"
      BY <2>1, <1>a DEF Finish, Idle, TypeOK
    <3> QED
      BY <1>1, <1>3, <3>1, <3>2
      DEF LoginRefused, LoginAudit, LoginReplace, Validate, ReadCsrf, Act,
          Dropped
  <2>2. CASE LoginRefused(r)
    BY <1>1, <2>2 DEF LoginRefused
  <2>3. CASE LoginAudit(r) \/ LoginReplace(r)
    <3>1. req[r] \in Entering
      BY <2>3, <1>a, RequestShape DEF LoginAudit, LoginReplace
    <3> QED
      BY <1>1, <2>3, <3>1, <1>a
      DEF LoginAudit, LoginReplace, Goto, TypeOK, Entering
  <2>4. CASE (Validate(r) \/ ReadCsrf(r)) /\ ~Finish(r)
    <3>1. req[r] \in Guarded
      BY <2>4, <1>a, RequestShape DEF Validate, ReadCsrf
    <3> QED
      BY <1>1, <2>4, <3>1, <1>a
      DEF Validate, ReadCsrf, Goto, TypeOK, Guarded
  <2> QED
    BY <1>3, <2>1, <2>2, <2>3, <2>4 DEF Act, Dropped
<1>4. ASSUME NEW r \in Request, LoginAuthorize(r)
      PROVE  OnlineInv'
  <2>1. req[r] \in Entering /\ req[r].browser \in Browser
    BY <1>4, <1>a, RequestShape DEF LoginAuthorize, Entering
  <2>2. PICK done \in BOOLEAN :
          /\ device' = IF done
               THEN [device EXCEPT ![req[r].browser] = now + AccessTimeout]
               ELSE device
          /\ req' = [req EXCEPT ![r].pc = "create", ![r].timed = done]
    BY <1>4 DEF LoginAuthorize
  <2>2a. /\ UNCHANGED <<now, store, jar, over>>
         /\ \A q \in Request \ {r} : req'[q] = req[q]
         /\ req'[r].pc = "create" /\ req'[r].timed = done
         /\ req'[r].browser = req[r].browser
    BY <1>4, <2>1, <2>2, <1>a DEF LoginAuthorize, TypeOK, Entering
  <2>3. /\ \A b \in Browser : device'[b] <= now + AccessTimeout
        /\ \A b \in Browser : device'[b] >= device[b]
        /\ done => device'[req[r].browser] = now + AccessTimeout
        /\ \A b \in Browser : device[b] \in Nat /\ device'[b] \in Nat
    BY <2>1, <2>2, <1>a DEF OnlineInv, TypeOK
  <2>4. \A s : Valid(s)' <=> Valid(s)
    BY <2>2a DEF Valid, Present
  <2>5. ASSUME NEW q \in Request, req'[q].pc = "create", req'[q].timed
        PROVE  device'[req'[q].browser] >= now' + AccessTimeout
    <3>1. CASE q = r
      BY <2>2a, <2>3, <2>5, <3>1, <1>a DEF TypeOK
    <3>2. CASE q # r
      <4>1. req'[q] = req[q] /\ req[q].browser \in Browser
        BY <2>2a, <2>5, <3>2, <1>a, RequestShape DEF Entering
      <4>2. device[req[q].browser] >= now + AccessTimeout
        BY <4>1, <2>5 DEF OnlineInv
      <4> QED
        BY <2>2a, <2>3, <4>1, <4>2, <1>a DEF TypeOK
    <3> QED
      BY <3>1, <3>2
  <2>6. ASSUME NEW q \in Request, req'[q].pc = "answer", Valid(req[q].sid)',
               store'[req'[q].sid].timed
        PROVE  device'[req'[q].browser] >= store'[req'[q].sid].expires
    <3>1. req'[q] = req[q] /\ req[q].browser \in Browser
      BY <2>2a, <2>6, <1>a, RequestShape DEF Answered
    <3>2. /\ req[q].sid \in Sid /\ Valid(req[q].sid)
          /\ store[req[q].sid].timed
      BY <2>2a, <2>6, <3>1 DEF Valid, Present
    <3>3. device[req[q].browser] >= store[req[q].sid].expires
      BY <2>6, <3>1, <3>2 DEF OnlineInv
    <3>4. store[req[q].sid].expires \in Nat
      BY <3>2, <1>a DEF TypeOK, Entry
    <3> QED
      BY <2>2a, <2>3, <3>1, <3>3, <3>4
  <2>7. ASSUME NEW b \in Browser, Valid(jar[b])', store'[jar'[b]].timed
        PROVE  device'[b] >= store'[jar'[b]].expires
    <3>1. jar[b] \in Sid /\ Valid(jar[b]) /\ store[jar[b]].timed
      BY <2>2a, <2>7 DEF Valid, Present
    <3>2. device[b] >= store[jar[b]].expires /\ store[jar[b]].expires \in Nat
      BY <3>1, <1>a DEF OnlineInv, TypeOK, Entry
    <3> QED
      BY <2>2a, <2>3, <3>2
  <2> QED
    BY <2>2a, <2>3, <2>5, <2>6, <2>7, <1>a DEF OnlineInv
<1>5. ASSUME NEW r \in Request, LoginCreate(r)
      PROVE  OnlineInv'
  <2>1. req[r] \in Entering /\ req[r].browser \in Browser
    BY <1>5, <1>a, RequestShape DEF LoginCreate, Entering
  <2>2. PICK s \in Sid :
          /\ store[s].st = "fresh"
          /\ store' = [store EXCEPT ![s] =
           [st |-> "open", since |-> now, expires |-> now + Timeout,
            timed |-> req[r].timed]]
          /\ req' = [req EXCEPT ![r] = [kind |-> "cookie", pc |-> "answer",
                                        browser |-> req[r].browser,
                                        sid |-> s]]
    BY <1>5 DEF LoginCreate
  <2>3. UNCHANGED <<now, jar, device>>
    BY <1>5 DEF LoginCreate
  <2>4. ASSUME NEW q \in Request
        PROVE  /\ q # r => req'[q] = req[q]
               /\ q = r => /\ req'[q].pc = "answer" /\ req'[q].sid = s
                           /\ req'[q].browser = req[r].browser
    BY <2>2, <1>a DEF TypeOK
  <2>5. ASSUME NEW q \in Request, req'[q].pc = "create", req'[q].timed
        PROVE  device'[req'[q].browser] >= now' + AccessTimeout
    BY <2>3, <2>4, <2>5 DEF OnlineInv
  <2>6. ASSUME NEW q \in Request, req'[q].pc = "answer", Valid(req[q].sid)',
               store'[req'[q].sid].timed
        PROVE  device'[req'[q].browser] >= store'[req'[q].sid].expires
    <3>1. CASE q = r
      <4>1. store'[s].expires = now + Timeout /\ store'[s].timed = req[r].timed
        BY <2>2, <1>a DEF TypeOK
      <4>2. device[req[r].browser] >= now + AccessTimeout
        BY <1>5, <2>4, <2>6, <3>1, <4>1 DEF LoginCreate, OnlineInv
      <4> QED
        BY <2>1, <2>3, <2>4, <3>1, <4>1, <4>2, <1>a DEF TypeOK
    <3>2. CASE q # r
      <4>1. req'[q] = req[q] /\ req[q] # Idle
        BY <2>4, <2>6, <3>2 DEF Idle
      <4>2. req[q].sid \in Sid /\ store[req[q].sid].st # "fresh"
        BY <2>6, <4>1, <1>a DEF Valid, Present, IdsDrawn
      <4>3. /\ Valid(req[q].sid) /\ store[req[q].sid].timed
            /\ store'[req[q].sid].expires = store[req[q].sid].expires
        BY <2>6, <4>1, <4>2, <1>a, <1>b, ValidKept DEF Valid, Present
      <4> QED
        BY <2>3, <2>6, <4>1, <4>3 DEF OnlineInv
    <3> QED
      BY <3>1, <3>2
  <2>7. ASSUME NEW b \in Browser, Valid(jar[b])', store'[jar'[b]].timed
        PROVE  device'[b] >= store'[jar'[b]].expires
    <3>1. jar[b] \in Sid /\ store[jar[b]].st # "fresh"
      BY <2>3, <2>7, <1>a DEF Valid, Present, IdsDrawn
    <3>2. /\ Valid(jar[b]) /\ store[jar[b]].timed
          /\ store'[jar[b]].expires = store[jar[b]].expires
      BY <2>3, <2>7, <3>1, <1>a, <1>b, ValidKept DEF Valid, Present
    <3> QED
      BY <2>3, <3>2 DEF OnlineInv
  <2>8. \A b \in Browser : device'[b] <= now' + AccessTimeout
    BY <2>3 DEF OnlineInv
  <2> QED
    BY <2>5, <2>6, <2>7, <2>8, <1>a DEF OnlineInv
<1>6. ASSUME NEW r \in Request, Answer(r)
      PROVE  OnlineInv'
  <2>1. req[r] \in Answered /\ req[r].browser \in Browser
    BY <1>6, <1>a, RequestShape DEF Answer, Answered
  <2>2. UNCHANGED <<now, store, device>>
    BY <1>6 DEF Answer
  <2>3. ASSUME NEW q \in Request
        PROVE  (q # r => req'[q] = req[q]) /\ (q = r => req'[q].pc = "idle")
    BY <1>6, <1>a DEF Answer, Finish, Idle, TypeOK
  <2>4. ASSUME NEW q \in Request, req'[q].pc = "create", req'[q].timed
        PROVE  device'[req'[q].browser] >= now' + AccessTimeout
    BY <2>2, <2>3, <2>4 DEF OnlineInv
  <2>5. ASSUME NEW q \in Request, req'[q].pc = "answer", Valid(req[q].sid)',
               store'[req'[q].sid].timed
        PROVE  device'[req'[q].browser] >= store'[req'[q].sid].expires
    BY <2>2, <2>3, <2>5 DEF OnlineInv, Valid, Present
  <2>6. ASSUME NEW b \in Browser, Valid(jar[b])', store'[jar'[b]].timed
        PROVE  device'[b] >= store'[jar'[b]].expires
    <3>1. CASE b = req[r].browser
      <4>1. jar'[b] = req[r].sid
        BY <1>6, <2>1, <3>1, <1>a DEF Answer, TypeOK
      <4>2. Valid(req[r].sid) /\ store[req[r].sid].timed
        BY <2>2, <2>6, <4>1 DEF Valid, Present
      <4> QED
        BY <1>6, <2>2, <3>1, <4>1, <4>2 DEF Answer, OnlineInv
    <3>2. CASE b # req[r].browser
      <4>1. jar'[b] = jar[b]
        BY <1>6, <3>2, <1>a DEF Answer, TypeOK
      <4>2. Valid(jar[b]) /\ store[jar[b]].timed
        BY <2>2, <2>6, <4>1 DEF Valid, Present
      <4> QED
        BY <2>2, <4>1, <4>2 DEF OnlineInv
    <3> QED
      BY <3>1, <3>2
  <2>7. \A b \in Browser : device'[b] <= now' + AccessTimeout
    BY <2>2 DEF OnlineInv
  <2> QED
    BY <2>4, <2>5, <2>6, <2>7, <1>a DEF OnlineInv
<1>7. CASE Restart
  <2>1. \A r \in Request : req'[r].pc = "idle"
    BY <1>7 DEF Restart, Idle
  <2> QED
    BY <1>1, <1>7, <2>1 DEF Restart
<1>8. CASE Tick
  <2>1. /\ now' = now + 1
        /\ UNCHANGED <<store, jar, req>>
        /\ \A r \in Request : req[r].pc # "create"
        /\ device' = [b \in Browser |->
                        IF device[b] <= now + 1 THEN 0 ELSE device[b]]
    BY <1>8 DEF Tick
  <2>2. \A b \in Browser : device'[b] <= now' + AccessTimeout
    BY <2>1, <1>a DEF OnlineInv, TypeOK
  <2>3. ASSUME NEW b \in Browser, NEW s, Valid(s)',
               Valid(s) => device[b] >= store[s].expires
        PROVE  device'[b] >= store'[s].expires
    <3>1. s \in Sid /\ store[s].st = "open" /\ now + 1 < store[s].expires
      BY <2>1, <2>3 DEF Valid, Present
    <3>2. now \in Nat /\ store[s].expires \in Nat /\ device[b] \in Nat
      BY <3>1, <1>a DEF TypeOK, Entry
    <3>3. device[b] >= store[s].expires
      BY <2>3, <3>1, <3>2 DEF Valid, Present
    <3> QED
      BY <2>1, <3>1, <3>2, <3>3
  <2>4. ASSUME NEW q \in Request, req'[q].pc = "answer", Valid(req[q].sid)',
               store'[req'[q].sid].timed
        PROVE  device'[req'[q].browser] >= store'[req'[q].sid].expires
    <3>1. req'[q] = req[q] /\ req[q].browser \in Browser
      BY <2>1, <2>4, <1>a, RequestShape DEF Answered
    <3>2. Valid(req[q].sid) => device[req[q].browser]
                                 >= store[req[q].sid].expires
      BY <2>1, <2>4 DEF OnlineInv
    <3> QED
      BY <2>1, <2>3, <2>4, <3>1, <3>2 DEF Valid, Present
  <2>5. ASSUME NEW b \in Browser, Valid(jar[b])', store'[jar'[b]].timed
        PROVE  device'[b] >= store'[jar'[b]].expires
    <3>1. Valid(jar[b]) => device[b] >= store[jar[b]].expires
      BY <2>1, <2>5 DEF OnlineInv
    <3> QED
      BY <2>1, <2>3, <2>5, <3>1 DEF Valid, Present
  <2> QED
    BY <2>1, <2>2, <2>4, <2>5, <1>a DEF OnlineInv
<1>9. CASE UNCHANGED vars
  BY <1>1, <1>9 DEF vars
<1> QED
  BY <1>2, <1>3, <1>4, <1>5, <1>6, <1>7, <1>8, <1>9 DEF Next

(* Whoever holds the cookie of a live session, and logged in when the      *)
(* firewall did what it was asked, is on the network until the session     *)
(* ends, whatever fails for other logins, if a session does not outlast the*)
(* time of a device.                                                       *)
THEOREM ManagersAreOnline == Spec => []ManagerOnline
<1>1. CASE Timeout <= AccessTimeout
  <2>1. Init => OnlineInv
    <3> SUFFICES ASSUME Init PROVE OnlineInv
      OBVIOUS
    <3>1. AccessInv
      BY AccessInit
    <3>2. \A r \in Request : req[r].pc = "idle"
      BY DEF Init, Idle
    <3>3. \A b \in Browser : ~Valid(jar[b]) /\ device[b] = 0
      BY ConstantsAssumption DEF Init, Valid, Present
    <3>4. now = 0
      BY DEF Init
    <3> QED
      BY <3>1, <3>2, <3>3, <3>4, ConstantsAssumption DEF OnlineInv
  <2>2. OnlineInv /\ [Next]_vars => OnlineInv'
    BY <1>1, OnlineStep
  <2>3. OnlineInv => ManagerOnline
    BY DEF OnlineInv, ManagerOnline
  <2> QED
    BY <2>1, <2>2, <2>3, PTL DEF Spec
<1>2. CASE ~(Timeout <= AccessTimeout)
  <2>1. ManagerOnline
    BY <1>2 DEF ManagerOnline
  <2> QED
    BY <2>1, PTL
<1> QED
  BY <1>1, <1>2
=============================================================================
