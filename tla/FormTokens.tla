----------------------------- MODULE FormTokens -----------------------------
(***************************************************************************)
(* PortalCsrfStore and the two forms it guards: the portal's (GET /portal, *)
(* POST /portal/auth, keyed by MAC) and the admin's login (keyed by IP).   *)
(* The store's operations hold its lock; between them, and before the page *)
(* is sent (the template reads the settings from the database), every      *)
(* other request runs.                                                     *)
(***************************************************************************)
EXTENDS Integers

CONSTANTS
  Key,        \* clients, by MAC or by IP
  Request,    \* handlers that may run at one time
  Ttl,        \* CSRF_TOKEN_TTL_SECS
  MaxTime,    \* bound of the clock
  MaxTokens   \* bound of the tokens generated

ASSUME TtlAssumption ==
  Ttl \in Nat \ {0} /\ MaxTime \in Nat /\ MaxTokens \in Nat

VARIABLES
  now,       \* the monotonic clock, in seconds
  store,     \* the token kept for each client
  req,       \* the handlers' program counters and locals
  issued,    \* how many tokens were generated; they are random and distinct
  accepted,  \* history: the tokens that were accepted
  pages      \* history: the forms a client was sent since its last POST

vars == <<now, store, req, issued, accepted, pages>>

Tokens == 0 .. issued - 1
None == [token |-> -1]
Entry == [token: Nat, at: Nat]
Foreign == -2   \* a token that no store ever held

\* `alone` is history: no other request of the client has run beside this one.
Idle == [pc |-> "idle"]
Handler == [pc: {"get", "generate"}, key: Key, alone: BOOLEAN]
Sending == [pc: {"send"}, key: Key, alone: BOOLEAN, token: Nat, at: Nat]
Page == [token: Nat, at: Nat, alone: BOOLEAN]

(* Every variable has its type.                                            *)
TypeOK ==
  /\ now \in Nat
  /\ store \in [Key -> Entry \cup {None}]
  /\ \A k \in Key : store[k] # None => store[k].at <= now
  /\ req \in [Request -> {Idle} \cup Handler \cup Sending]
  /\ issued \in Nat
  /\ accepted \subseteq Tokens
  /\ pages \in [Key -> SUBSET Page]

Init ==
  /\ now = 0
  /\ store = [k \in Key |-> None]
  /\ req = [r \in Request |-> Idle]
  /\ issued = 0
  /\ accepted = {}
  /\ pages = [k \in Key |-> {}]

-----------------------------------------------------------------------------
Age(entry) == now - entry.at

Quiet(k) == \A r \in Request : req[r] # Idle => req[r].key # k

\* A request of client k arrives, and those in flight are not alone any more.
Beside(k) ==
  [q \in Request |-> IF req[q] # Idle /\ req[q].key = k
                       THEN [req[q] EXCEPT !.alone = FALSE]
                       ELSE req[q]]

Begin(r, k, first) ==
  req' = [Beside(k) EXCEPT ![r] = [pc |-> first, key |-> k, alone |-> Quiet(k)]]

Send(r, entry) ==
  req' = [req EXCEPT ![r] = [pc |-> "send", key |-> @.key, alone |-> @.alone,
                             token |-> entry.token, at |-> entry.at]]

\* GET /portal or GET /admin/login.
Get(r, k) ==
  /\ req[r] = Idle
  /\ Begin(r, k, "get")
  /\ UNCHANGED <<now, store, issued, accepted, pages>>

\* Mutant: every GET generates a token.
GetHitRegenerates(r) ==
  /\ req[r].pc = "get"
  /\ store[req[r].key] # None
  /\ Age(store[req[r].key]) < Ttl
  /\ req' = [req EXCEPT ![r].pc = "generate"]
  /\ UNCHANGED <<now, store, issued, accepted, pages>>

\* get_or_generate, under the read lock: the token is there and not expired.
GetHit(r) ==
  /\ req[r].pc = "get"
  /\ store[req[r].key] # None
  /\ Age(store[req[r].key]) < Ttl
  /\ Send(r, store[req[r].key])
  /\ UNCHANGED <<now, store, issued, accepted, pages>>

GetMiss(r) ==
  /\ req[r].pc = "get"
  /\ store[req[r].key] # None => Age(store[req[r].key]) >= Ttl
  /\ req' = [req EXCEPT ![r].pc = "generate"]
  /\ UNCHANGED <<now, store, issued, accepted, pages>>

\* generate, under the write lock: drop what is expired, insert a new token.
GenerateAt(r, time) ==
  /\ req[r].pc = "generate"
  /\ issued < MaxTokens
  /\ LET entry == [token |-> issued, at |-> time]
     IN /\ store' = [k \in Key |->
              IF k = req[r].key THEN entry
              ELSE IF store[k] # None /\ Age(store[k]) >= Ttl THEN None
              ELSE store[k]]
        /\ Send(r, entry)
  /\ issued' = issued + 1
  /\ UNCHANGED <<now, accepted, pages>>

\* Mutant: the entry is stored with the time it expires at.
GenerateWithExpiry(r) == GenerateAt(r, now + Ttl)

Generate(r) == GenerateAt(r, now)

\* The page is rendered and reaches the client.
Deliver(r) ==
  /\ req[r].pc = "send"
  /\ pages' = [pages EXCEPT ![req[r].key] = @ \cup
       {[token |-> req[r].token, at |-> req[r].at, alone |-> req[r].alone]}]
  /\ req' = [req EXCEPT ![r] = Idle]
  /\ UNCHANGED <<now, store, issued, accepted>>

\* validate's answer: the client's own token, not older than the TTL.
Valid(k, t) ==
  /\ store[k] # None
  /\ store[k].token = t
  /\ Age(store[k]) <= Ttl

\* Mutant: the entry stays in the store.
RemoveForgotten(k) == store' = store

\* validate removes the client's entry, whatever it answers.
Remove(k) == store' = [store EXCEPT ![k] = None]

\* POST with a wrong token: the answer is a page with a new one.
PostRejected(r, k, t) ==
  /\ req[r] = Idle
  /\ ~Valid(k, t)
  /\ Remove(k)
  /\ Begin(r, k, "generate")
  /\ pages' = [pages EXCEPT ![k] = {}]
  /\ UNCHANGED <<now, issued, accepted>>

\* POST with the right token: the handler goes on, and answers a new form
\* (wrong code or password, an error) or a redirect or 429, without one.
PostAccepted(r, k, t) ==
  /\ req[r] = Idle
  /\ Valid(k, t)
  /\ Remove(k)
  /\ accepted' = accepted \cup {t}
  /\ Begin(r, k, "generate") \/ req' = Beside(k)
  /\ pages' = [pages EXCEPT ![k] = {}]
  /\ UNCHANGED <<now, issued>>

\* The client hangs up, and the handler is dropped before its next step.
Abort(r) ==
  /\ req[r] # Idle
  /\ req' = [req EXCEPT ![r] = Idle]
  /\ UNCHANGED <<now, store, issued, accepted, pages>>

Tick ==
  /\ now < MaxTime
  /\ now' = now + 1
  /\ UNCHANGED <<store, req, issued, accepted, pages>>

Handle(r) ==
  \/ \E k \in Key : \/ Get(r, k)
                    \/ \E t \in Tokens \cup {Foreign} :
                         PostRejected(r, k, t) \/ PostAccepted(r, k, t)
  \/ GetHit(r) \/ GetMiss(r) \/ Generate(r) \/ Deliver(r) \/ Abort(r)

Next == (\E r \in Request : Handle(r)) \/ Tick

Spec == Init /\ [][Next]_vars
-----------------------------------------------------------------------------
(* A form token is accepted once, however often the form is submitted and  *)
(* by how many requests at a time.                                         *)
AcceptedOnce ==
  [][\A r \in Request, k \in Key, t \in Tokens :
       PostAccepted(r, k, t) => t \notin accepted]_vars

(* A form stays usable when the page is loaded again, by any number of GETs*)
(* at a time: until the client's next POST or the end of the token's time, *)
(* the store holds the token of every page that no other request of the    *)
(* client overlapped with.                                                 *)
ReloadKeepsForm ==
  \A k \in Key : \A p \in pages[k] :
    p.alone /\ Age(p) < Ttl => store[k] = [token |-> p.token, at |-> p.at]
=============================================================================
