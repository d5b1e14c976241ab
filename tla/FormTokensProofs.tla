-------------------------- MODULE FormTokensProofs --------------------------
(***************************************************************************)
(* Proofs about the CSRF stores, for any clients, handlers and bounds.     *)
(***************************************************************************)
EXTENDS FormTokens, TLAPS

(* What a step needs to know of the tokens: those accepted are in no store, *)
(* and no two clients are kept the same one.                               *)
TokensInv ==
  /\ \A k \in Key : store[k] # None => store[k].token \in Tokens \ accepted
  /\ \A j, k \in Key :
       store[j] # None /\ store[k] # None /\ store[j].token = store[k].token
         => j = k

(* What a handler of client k knows of k's entry. One that runs alone has   *)
(* nobody of its client beside it, and holds the entry of the store until  *)
(* it expires; one that is about to generate replaces no form that is good.*)
AloneInv ==
  \A q, r \in Request :
    /\ req[q] # Idle /\ req[r] # Idle
    /\ req[q].alone /\ req[q].key = req[r].key
    => q = r

SendInv ==
  \A r \in Request :
    req[r].pc = "send" /\ req[r].alone /\ Age(req[r]) < Ttl
      => store[req[r].key] = [token |-> req[r].token, at |-> req[r].at]

GenerateInv ==
  \A r \in Request : req[r].pc = "generate" =>
    \A p \in pages[req[r].key] : p.alone => Age(p) >= Ttl

FormInv == TypeOK /\ AloneInv /\ SendInv /\ GenerateInv /\ ReloadKeepsForm

-----------------------------------------------------------------------------
(* Each kind of request has its own program counters.                      *)
LEMMA ReqShape ==
  ASSUME TypeOK, NEW r \in Request
  PROVE  /\ req[r] = Idle <=> req[r].pc = "idle"
         /\ req[r] # Idle => req[r].key \in Key /\ req[r].alone \in BOOLEAN
         /\ req[r].pc \in {"get", "generate"} <=> req[r] \in Handler
         /\ req[r].pc = "send" <=> req[r] \in Sending
         /\ req[r] \in {Idle} \cup Handler \cup Sending
  BY DEF TypeOK, Idle, Handler, Sending

\* A kept entry is a token and the time it was made at.
LEMMA StoreShape ==
  ASSUME TypeOK, NEW k \in Key, store[k] # None
  PROVE  store[k] \in Entry /\ store[k].token \in Nat /\ store[k].at \in Nat
  BY DEF TypeOK, Entry

(* Requests that come beside others change in nothing but `alone`.         *)
LEMMA BesideShape ==
  ASSUME TypeOK, NEW k \in Key, NEW q \in Request
  PROVE  /\ Beside(k)[q] \in {Idle} \cup Handler \cup Sending
         /\ Beside(k)[q].pc = req[q].pc
         /\ Beside(k)[q] = Idle <=> req[q] = Idle
         /\ req[q] # Idle =>
              /\ Beside(k)[q].key = req[q].key
              /\ Beside(k)[q].alone => req[q].alone /\ req[q].key # k
         /\ req[q].pc = "send" => /\ Beside(k)[q].token = req[q].token
                                  /\ Beside(k)[q].at = req[q].at
  <1>1. CASE req[q] # Idle /\ req[q].key = k
    <2>1. Beside(k)[q] = [req[q] EXCEPT !.alone = FALSE]
      BY <1>1 DEF Beside
    <2>2. CASE req[q] \in Handler
      BY <2>1, <2>2, <1>1 DEF Handler, Idle
    <2>3. CASE req[q] \in Sending
      BY <2>1, <2>3, <1>1 DEF Sending, Idle
    <2> QED BY <2>2, <2>3, <1>1, ReqShape
  <1>2. CASE ~(req[q] # Idle /\ req[q].key = k)
    BY <1>2, ReqShape DEF Beside
  <1> QED BY <1>1, <1>2

(* What a step of each kind does to the handlers.                          *)
LEMMA BeginShape ==
  ASSUME TypeOK, NEW r \in Request, NEW k \in Key,
         NEW first \in {"get", "generate"}, Begin(r, k, first)
  PROVE  /\ req' \in [Request -> {Idle} \cup Handler \cup Sending]
         /\ req'[r] = [pc |-> first, key |-> k, alone |-> Quiet(k)]
         /\ \A q \in Request \ {r} : req'[q] = Beside(k)[q]
  <1> DEFINE new == [pc |-> first, key |-> k, alone |-> Quiet(k)]
  <1>1. Quiet(k) \in BOOLEAN
    BY DEF Quiet
  <1>2. new \in Handler
    BY <1>1 DEF Handler
  <1>3. Beside(k) \in [Request -> {Idle} \cup Handler \cup Sending]
    <2>1. \A q \in Request : Beside(k)[q] \in {Idle} \cup Handler \cup Sending
      BY BesideShape
    <2> QED BY <2>1 DEF Beside
  <1>4. req' = [Beside(k) EXCEPT ![r] = new]
    BY DEF Begin
  <1> HIDE DEF new
  <1>5. /\ req' \in [Request -> {Idle} \cup Handler \cup Sending]
        /\ req'[r] = new
        /\ \A q \in Request \ {r} : req'[q] = Beside(k)[q]
    BY <1>2, <1>3, <1>4
  <1> QED BY <1>5 DEF new

\* A handler that sends differs from before in its entry.
LEMMA SendShape ==
  ASSUME TypeOK, NEW r \in Request, req[r] \in Handler,
         NEW entry \in Entry, Send(r, entry)
  PROVE  /\ req' \in [Request -> {Idle} \cup Handler \cup Sending]
         /\ req'[r] = [pc |-> "send", key |-> req[r].key, alone |-> req[r].alone,
                       token |-> entry.token, at |-> entry.at]
         /\ \A q \in Request \ {r} : req'[q] = req[q]
  <1> DEFINE new == [pc |-> "send", key |-> req[r].key, alone |-> req[r].alone,
                     token |-> entry.token, at |-> entry.at]
  <1>1. new \in Sending
    BY DEF Sending, Handler, Entry
  <1>2. req' = [req EXCEPT ![r] = new]
    BY DEF Send
  <1> HIDE DEF new
  <1>3. /\ req' \in [Request -> {Idle} \cup Handler \cup Sending]
        /\ req'[r] = new
        /\ \A q \in Request \ {r} : req'[q] = req[q]
    BY <1>1, <1>2 DEF TypeOK
  <1> QED BY <1>3 DEF new

\* A handler that goes on to generate keeps its client.
LEMMA MissShape ==
  ASSUME TypeOK, NEW r \in Request, req[r] \in Handler,
         req' = [req EXCEPT ![r].pc = "generate"]
  PROVE  /\ req' \in [Request -> {Idle} \cup Handler \cup Sending]
         /\ req'[r] = [pc |-> "generate", key |-> req[r].key,
                       alone |-> req[r].alone]
         /\ \A q \in Request \ {r} : req'[q] = req[q]
  <1> DEFINE new == [pc |-> "generate", key |-> req[r].key, alone |-> req[r].alone]
  <1>1. new \in Handler
    BY DEF Handler
  <1>2. [req[r] EXCEPT !.pc = "generate"] = new
    BY DEF Handler
  <1>3. req' = [req EXCEPT ![r] = new]
    BY <1>2
  <1> HIDE DEF new
  <1>4. /\ req' \in [Request -> {Idle} \cup Handler \cup Sending]
        /\ req'[r] = new
        /\ \A q \in Request \ {r} : req'[q] = req[q]
    BY <1>1, <1>3 DEF TypeOK
  <1> QED BY <1>4 DEF new

(* The clock, and every step, keeps the types.                             *)
LEMMA TypeStep ==
  ASSUME TypeOK, [Next]_vars
  PROVE  TypeOK'
  <1> USE TtlAssumption
  <1>1. ASSUME NEW r \in Request, NEW k \in Key, Get(r, k) PROVE TypeOK'
    BY <1>1, BeginShape DEF Get, TypeOK, Tokens
  <1>2. ASSUME NEW k \in Key, Remove(k), UNCHANGED now
        PROVE  /\ store' \in [Key -> Entry \cup {None}]
               /\ \A j \in Key : store'[j] # None => store'[j].at <= now'
    BY <1>2 DEF Remove, TypeOK
  <1>3. ASSUME NEW r \in Request, NEW k \in Key, NEW t, PostRejected(r, k, t)
        PROVE  TypeOK'
    BY <1>2, <1>3, BeginShape DEF PostRejected, TypeOK, Tokens
  <1>4. ASSUME NEW r \in Request, NEW k \in Key, NEW t \in Tokens \cup {Foreign},
               PostAccepted(r, k, t)
        PROVE  TypeOK'
    <2>1. req' \in [Request -> {Idle} \cup Handler \cup Sending]
      <3>1. CASE req' = Beside(k)
        BY <3>1, BesideShape DEF Beside
      <3>2. CASE Begin(r, k, "generate")
        BY <3>2, BeginShape
      <3> QED BY <1>4, <3>1, <3>2 DEF PostAccepted
    <2>2. t \in Tokens
      <3>1. store[k] # None /\ store[k].token = t
        BY <1>4 DEF PostAccepted, Valid
      <3>2. t \in Nat
        BY <3>1, StoreShape
      <3> QED BY <3>2 DEF Foreign
    <2> QED BY <1>2, <1>4, <2>1, <2>2 DEF PostAccepted, TypeOK, Tokens
  <1>5. ASSUME NEW r \in Request, GetHit(r) PROVE TypeOK'
    <2>1. req[r] \in Handler
      BY <1>5, ReqShape DEF GetHit
    <2>2. store[req[r].key] \in Entry
      BY <1>5, <2>1, StoreShape DEF GetHit, Handler
    <2>3. req' \in [Request -> {Idle} \cup Handler \cup Sending]
      BY <1>5, <2>1, <2>2, SendShape DEF GetHit
    <2> QED BY <1>5, <2>3 DEF GetHit, TypeOK, Tokens
  <1>6. ASSUME NEW r \in Request, GetMiss(r) PROVE TypeOK'
    <2>1. req[r] \in Handler
      BY <1>6, ReqShape DEF GetMiss
    <2> QED BY <1>6, <2>1, MissShape DEF GetMiss, TypeOK, Tokens
  <1>7. ASSUME NEW r \in Request, Generate(r) PROVE TypeOK'
    <2> DEFINE entry == [token |-> issued, at |-> now]
    <2>1. entry \in Entry /\ entry.at = now
      BY DEF TypeOK, Entry
    <2>2. req[r] \in Handler
      BY <1>7, ReqShape DEF Generate, GenerateAt
    <2>3. req' \in [Request -> {Idle} \cup Handler \cup Sending]
      BY <1>7, <2>1, <2>2, SendShape DEF Generate, GenerateAt
    <2>4. store' = [k \in Key |->
                     IF k = req[r].key THEN entry
                     ELSE IF store[k] # None /\ Age(store[k]) >= Ttl THEN None
                     ELSE store[k]]
      BY <1>7 DEF Generate, GenerateAt
    <2> HIDE DEF entry
    <2>5. /\ store' \in [Key -> Entry \cup {None}]
          /\ \A j \in Key : store'[j] # None => store'[j].at <= now
      BY <2>1, <2>4 DEF TypeOK
    <2>6. issued' = issued + 1 /\ UNCHANGED <<now, accepted, pages>>
      BY <1>7 DEF Generate, GenerateAt
    <2> QED BY <2>3, <2>5, <2>6 DEF TypeOK, Tokens
  <1>8. ASSUME NEW r \in Request, Deliver(r) PROVE TypeOK'
    <2>1. req[r] \in Sending
      BY <1>8, ReqShape DEF Deliver
    <2>2. [token |-> req[r].token, at |-> req[r].at, alone |-> req[r].alone]
            \in Page
      BY <2>1 DEF Sending, Page
    <2>3. pages' \in [Key -> SUBSET Page]
      BY <1>8, <2>2 DEF Deliver, TypeOK
    <2>4. req' \in [Request -> {Idle} \cup Handler \cup Sending]
      BY <1>8 DEF Deliver, TypeOK
    <2> QED BY <1>8, <2>3, <2>4 DEF Deliver, TypeOK, Tokens
  <1>9. ASSUME NEW r \in Request, Abort(r) PROVE TypeOK'
    BY <1>9 DEF Abort, TypeOK, Tokens
  <1>10. CASE Tick
    BY <1>10, StoreShape DEF Tick, TypeOK, Tokens
  <1>11. CASE UNCHANGED vars
    BY <1>11 DEF vars, TypeOK, Tokens
  <1> QED BY <1>1, <1>3, <1>4, <1>5, <1>6, <1>7, <1>8, <1>9, <1>10, <1>11
          DEF Next, Handle

\* The empty stores and handlers have their types.
LEMMA TypeInit == Init => TypeOK
  BY TtlAssumption DEF Init, TypeOK, Tokens

(* Every variable of the CSRF stores has its type.                         *)
THEOREM FormsTypeCorrect == Spec => []TypeOK
  BY TypeInit, TypeStep, PTL DEF Spec

-----------------------------------------------------------------------------
(* validate removes an entry, generate adds a token nobody has: what holds *)
(* of the stored tokens goes on to hold.                                   *)
LEMMA TokensStep ==
  ASSUME TypeOK, TokensInv, [Next]_vars
  PROVE  TokensInv'
  <1>1. ASSUME NEW k \in Key, NEW t \in Tokens \cup {Foreign}, Remove(k),
               issued' = issued,
               \/ accepted' = accepted
               \/ Valid(k, t) /\ accepted' = accepted \cup {t}
        PROVE  TokensInv'
    <2>1. store'[k] = None /\ \A j \in Key \ {k} : store'[j] = store[j]
      BY <1>1 DEF Remove, TypeOK
    <2>2. \A j \in Key : store'[j] # None => store'[j].token \notin accepted'
      BY <1>1, <2>1 DEF TokensInv, Valid
    <2> QED BY <1>1, <2>1, <2>2 DEF TokensInv, Tokens
  <1>2. ASSUME NEW r \in Request, Generate(r) PROVE TokensInv'
    <2> DEFINE k == req[r].key
               entry == [token |-> issued, at |-> now]
    <2>1. k \in Key
      BY <1>2, ReqShape DEF Generate, GenerateAt, Idle
    <2>2. /\ store'[k] = entry
          /\ \A j \in Key \ {k} : store'[j] = None \/ store'[j] = store[j]
          /\ issued' = issued + 1
          /\ accepted' = accepted
      BY <1>2, <2>1 DEF Generate, GenerateAt
    <2>3. issued \in Nat /\ issued \notin Tokens /\ issued \notin accepted
      BY DEF TypeOK, Tokens
    <2>4. Tokens \subseteq Tokens' /\ issued \in Tokens'
      BY <2>2, <2>3 DEF Tokens
    <2>5. \A j \in Key \ {k} : store'[j] # None =>
            /\ store'[j] = store[j]
            /\ store'[j].token \in Tokens \ accepted
      BY <2>2 DEF TokensInv
    <2>6. entry.token = issued
      OBVIOUS
    <2> HIDE DEF k, entry
    <2>7. \A j \in Key : store'[j] # None => store'[j].token \in Tokens' \ accepted'
      BY <2>2, <2>3, <2>4, <2>5, <2>6
    <2>8. \A i, j \in Key :
            store'[i] # None /\ store'[j] # None /\ store'[i].token = store'[j].token
              => i = j
      BY <2>2, <2>3, <2>5, <2>6 DEF TokensInv
    <2> QED BY <2>7, <2>8 DEF TokensInv
  <1>3. CASE UNCHANGED <<store, issued, accepted>>
    BY <1>3 DEF TokensInv, Tokens
  <1>4. ASSUME NEW r \in Request, NEW k \in Key, NEW t \in Tokens \cup {Foreign},
               PostRejected(r, k, t) \/ PostAccepted(r, k, t)
        PROVE  TokensInv'
    BY <1>1, <1>4 DEF PostRejected, PostAccepted
  <1>5. ASSUME NEW r \in Request,
               \/ \E k \in Key : Get(r, k)
               \/ GetHit(r) \/ GetMiss(r) \/ Deliver(r) \/ Abort(r)
        PROVE  TokensInv'
    BY <1>3, <1>5 DEF Get, GetHit, GetMiss, Deliver, Abort
  <1>6. CASE Tick \/ UNCHANGED vars
    BY <1>3, <1>6 DEF Tick, vars
  <1> QED BY <1>2, <1>4, <1>5, <1>6 DEF Next, Handle

(* However often a form is submitted, and whoever runs beside it, its token *)
(* is accepted once.                                                       *)
THEOREM TokenAcceptedOnce == Spec => AcceptedOnce
  <1>1. Init => TokensInv
    BY DEF Init, TokensInv
  <1>2. ASSUME TokensInv, NEW r \in Request, NEW k \in Key, NEW t \in Tokens,
               PostAccepted(r, k, t)
        PROVE  t \notin accepted
    BY <1>2 DEF PostAccepted, Valid, TokensInv
  <1>3. TypeOK /\ TokensInv /\ [Next]_vars
          => TokensInv'
             /\ [\A r \in Request, k \in Key, t \in Tokens :
                   PostAccepted(r, k, t) => t \notin accepted]_vars
    BY <1>2, TokensStep
  <1> QED BY <1>1, <1>3, FormsTypeCorrect, PTL DEF Spec, AcceptedOnce

-----------------------------------------------------------------------------
(* A form that is alone is good as long as its entry is; this is what one   *)
(* request may do to another client's entries, or to its own.              *)
LEMMA FormStep ==
  ASSUME FormInv, [Next]_vars
  PROVE  FormInv'
  <1> USE DEF FormInv
  <1>0. TypeOK'
    BY TypeStep
  <1>a. /\ \A r \in Request :
              req[r].pc \in {"get", "generate", "send"} => req[r] # Idle
        /\ \A r \in Request : req[r] # Idle => req[r].key \in Key
        /\ \A r \in Request : req[r].pc = "send" => req[r] \in Sending
    BY ReqShape DEF Idle
  <1>b. now \in Nat /\ Ttl \in Nat /\ \A k \in Key : \A p \in pages[k] : p \in Page
    BY TtlAssumption DEF TypeOK
  \* Begin: the newcomer is alone only if nobody of its client is there.
  <1>1. ASSUME NEW r \in Request, NEW k \in Key, req[r] = Idle,
               NEW first \in {"get", "generate"}, Begin(r, k, first)
        PROVE  AloneInv'
    <2>1. /\ req'[r] = [pc |-> first, key |-> k, alone |-> Quiet(k)]
          /\ \A q \in Request \ {r} : req'[q] = Beside(k)[q]
      BY <1>1, BeginShape
    <2>2. ASSUME NEW q \in Request \ {r}, req'[q] # Idle
          PROVE  /\ req[q] # Idle /\ req'[q].key = req[q].key
                 /\ req'[q].alone => req[q].alone /\ req[q].key # k
      BY <2>1, <2>2, BesideShape
    <2>3. ASSUME NEW q \in Request \ {r}, req'[q] # Idle, req'[q].key = k
          PROVE  ~req'[q].alone /\ ~req'[r].alone
      BY <2>1, <2>2, <2>3 DEF Quiet
    <2>4. req'[r].key = k
      BY <2>1
    <2>5. ASSUME NEW p \in Request, NEW q \in Request,
                 req'[p] # Idle, req'[q] # Idle, req'[p].alone,
                 req'[p].key = req'[q].key
          PROVE  p = q
      BY <2>5, <2>2, <2>3, <2>4 DEF AloneInv
    <2> QED BY <2>5 DEF AloneInv
  \* The other requests of a client that sends one are not alone any more.
  <1>2. ASSUME NEW k \in Key, NEW r \in Request, req[r] = Idle,
               \A q \in Request \ {r} : req'[q] = Beside(k)[q],
               req'[r] = Idle \/ req'[r].pc = "get" \/ req'[r].pc = "generate",
               \A j \in Key \ {k} : store'[j] = store[j],
               now' = now
        PROVE  SendInv'
    <2>1. ASSUME NEW q \in Request, req'[q].pc = "send", req'[q].alone,
                 Age(req'[q]) < Ttl
          PROVE  store'[req'[q].key] = [token |-> req'[q].token, at |-> req'[q].at]
      <3>1. q # r
        BY <1>2, <2>1 DEF Idle
      <3>2. /\ req[q].pc = "send" /\ req[q] # Idle
            /\ req'[q].key = req[q].key
            /\ req[q].alone /\ req[q].key # k
            /\ req'[q].token = req[q].token /\ req'[q].at = req[q].at
        BY <1>2, <2>1, <3>1, <1>a, BesideShape
      <3>3. req[q].key \in Key \ {k} /\ Age(req[q]) < Ttl
        BY <1>a, <2>1, <3>2 DEF Age
      <3> QED BY <1>2, <3>2, <3>3 DEF SendInv
    <2> QED BY <1>2, <2>1 DEF SendInv, Age
  \* A new request changes no page.
  <1>3. ASSUME NEW r \in Request, NEW k \in Key, Get(r, k) PROVE FormInv'
    <2>1. /\ req[r] = Idle
          /\ Begin(r, k, "get")
          /\ UNCHANGED <<now, store, issued, accepted, pages>>
      BY <1>3 DEF Get
    <2>2. /\ req'[r] = [pc |-> "get", key |-> k, alone |-> Quiet(k)]
          /\ \A q \in Request \ {r} : req'[q] = Beside(k)[q]
      BY <2>1, BeginShape
    <2>3. AloneInv'
      BY <1>1, <2>1
    <2>4. SendInv'
      BY <1>2, <2>1, <2>2
    <2>5. GenerateInv'
      BY <1>a, <2>1, <2>2, BesideShape DEF GenerateInv, Age
    <2>6. ReloadKeepsForm'
      BY <2>1 DEF ReloadKeepsForm, Age
    <2> QED BY <1>0, <2>3, <2>4, <2>5, <2>6
  \* A POST takes back the client's pages with its entry.
  <1>4. ASSUME NEW r \in Request, NEW k \in Key, req[r] = Idle, Remove(k),
               Begin(r, k, "generate") \/ req' = Beside(k),
               pages' = [pages EXCEPT ![k] = {}], now' = now
        PROVE  FormInv'
    <2>1. /\ store'[k] = None /\ \A j \in Key \ {k} : store'[j] = store[j]
          /\ pages'[k] = {} /\ \A j \in Key \ {k} : pages'[j] = pages[j]
      BY <1>4 DEF Remove, TypeOK
    <2>2. /\ \A q \in Request \ {r} : req'[q] = Beside(k)[q]
          /\ \/ req'[r] = [pc |-> "generate", key |-> k, alone |-> Quiet(k)]
             \/ req'[r] = Idle
      <3>1. CASE Begin(r, k, "generate")
        BY <1>4, <3>1, BeginShape
      <3>2. CASE req' = Beside(k)
        BY <1>4, <3>2, BesideShape
      <3> QED BY <1>4, <3>1, <3>2
    <2>3. AloneInv'
      <3>1. CASE Begin(r, k, "generate")
        BY <1>1, <1>4, <3>1
      <3>2. CASE req' = Beside(k)
        <4>1. \A q \in Request : req'[q] # Idle =>
                 /\ req[q] # Idle /\ req'[q].key = req[q].key
                 /\ req'[q].alone => req[q].alone
          BY <3>2, BesideShape
        <4> QED BY <4>1 DEF AloneInv
      <3> QED BY <1>4, <3>1, <3>2
    <2>4. SendInv'
      BY <1>2, <1>4, <2>1, <2>2
    <2>5. GenerateInv'
      <3>1. ASSUME NEW q \in Request, req'[q].pc = "generate",
                   NEW p \in pages'[req'[q].key], p.alone
            PROVE  Age(p) >= Ttl
        <4>1. q # r
          BY <2>1, <2>2, <3>1 DEF Idle
        <4>2. req[q].pc = "generate" /\ req'[q].key = req[q].key
          BY <1>a, <2>2, <3>1, <4>1, BesideShape
        <4>3. req[q].key \in Key \ {k}
          BY <1>a, <2>1, <3>1, <4>2
        <4> QED BY <2>1, <3>1, <4>2, <4>3 DEF GenerateInv
      <3> QED BY <1>4, <3>1 DEF GenerateInv, Age
    <2>6. ReloadKeepsForm'
      BY <1>4, <2>1 DEF ReloadKeepsForm, Age
    <2> QED BY <1>0, <2>3, <2>4, <2>5, <2>6
  \* A handler that finds an entry takes it, and one that does not finds no
  \* good form of its client either.
  <1>5. ASSUME NEW r \in Request, GetHit(r) PROVE FormInv'
    <2>1. req[r] \in Handler /\ req[r].key \in Key /\ req[r] # Idle
      BY <1>5, <1>a, ReqShape DEF GetHit
    <2>2. store[req[r].key] \in Entry
      BY <1>5, <2>1, StoreShape DEF GetHit
    <2>3. UNCHANGED <<now, store, issued, accepted, pages>>
      BY <1>5 DEF GetHit
    <2>4. /\ req'[r] = [pc |-> "send", key |-> req[r].key, alone |-> req[r].alone,
                        token |-> store[req[r].key].token,
                        at |-> store[req[r].key].at]
          /\ \A q \in Request \ {r} : req'[q] = req[q]
      BY <1>5, <2>1, <2>2, SendShape DEF GetHit
    <2>5. AloneInv'
      BY <2>1, <2>4 DEF AloneInv
    <2>6. SendInv'
      BY <2>2, <2>3, <2>4 DEF SendInv, Entry, Age
    <2>7. GenerateInv'
      BY <2>3, <2>4 DEF GenerateInv, Age
    <2>8. ReloadKeepsForm'
      BY <2>3 DEF ReloadKeepsForm, Age
    <2> QED BY <1>0, <2>5, <2>6, <2>7, <2>8
  <1>6. ASSUME NEW r \in Request, GetMiss(r) PROVE FormInv'
    <2>1. req[r] \in Handler /\ req[r].key \in Key /\ req[r] # Idle
      BY <1>6, <1>a, ReqShape DEF GetMiss
    <2>2. UNCHANGED <<now, store, issued, accepted, pages>>
      BY <1>6 DEF GetMiss
    <2>3. /\ req'[r] = [pc |-> "generate", key |-> req[r].key,
                        alone |-> req[r].alone]
          /\ \A q \in Request \ {r} : req'[q] = req[q]
      BY <1>6, <2>1, MissShape DEF GetMiss
    <2>4. AloneInv'
      BY <2>1, <2>3 DEF AloneInv
    <2>5. SendInv'
      BY <2>2, <2>3 DEF SendInv, Age
    <2>6. ASSUME NEW p \in pages[req[r].key], p.alone PROVE Age(p) >= Ttl
      <3>1. SUFFICES ASSUME ~(Age(p) >= Ttl) PROVE FALSE
        OBVIOUS
      <3>2. p.token \in Nat /\ p.at \in Nat
        BY <1>b, <2>1, <2>6 DEF Page
      <3>3. store[req[r].key] = [token |-> p.token, at |-> p.at]
        BY <1>b, <2>1, <2>6, <3>1, <3>2 DEF ReloadKeepsForm, Age
      <3>4. store[req[r].key] # None /\ Age(store[req[r].key]) = Age(p)
        BY <3>2, <3>3 DEF None, Age
      <3> QED BY <1>6, <3>1, <3>4 DEF GetMiss
    <2>7. GenerateInv'
      BY <2>2, <2>3, <2>6 DEF GenerateInv, Age
    <2>8. ReloadKeepsForm'
      BY <2>2 DEF ReloadKeepsForm, Age
    <2> QED BY <1>0, <2>4, <2>5, <2>7, <2>8
  \* generate replaces no good form of its client, and drops no other
  \* client's entry before its time.
  <1>7. ASSUME NEW r \in Request, Generate(r) PROVE FormInv'
    <2> DEFINE k == req[r].key
               entry == [token |-> issued, at |-> now]
    <2>1. req[r] \in Handler /\ k \in Key /\ req[r] # Idle
      BY <1>7, <1>a, ReqShape DEF Generate, GenerateAt
    <2>2. UNCHANGED <<now, accepted, pages>>
      BY <1>7 DEF Generate, GenerateAt
    <2>3. entry \in Entry
      BY DEF Entry, TypeOK
    <2>4. /\ req'[r] = [pc |-> "send", key |-> k, alone |-> req[r].alone,
                        token |-> entry.token, at |-> entry.at]
          /\ \A q \in Request \ {r} : req'[q] = req[q]
      BY <1>7, <2>1, <2>3, SendShape DEF Generate, GenerateAt
    <2>5. /\ store'[k] = entry
          /\ \A j \in Key \ {k} :
               \/ store'[j] = store[j]
               \/ store[j] # None /\ Age(store[j]) >= Ttl
      BY <1>7, <2>1 DEF Generate, GenerateAt
    <2>6. ASSUME NEW j \in Key \ {k}, NEW p, p.token \in Nat, p.at \in Nat,
                 Age(p) < Ttl, store[j] = [token |-> p.token, at |-> p.at]
          PROVE  store'[j] = [token |-> p.token, at |-> p.at]
      BY <1>b, <2>5, <2>6 DEF Age
    <2> HIDE DEF entry
    <2>7. AloneInv'
      BY <2>1, <2>4 DEF AloneInv
    <2>8. SendInv'
      <3>1. ASSUME NEW q \in Request, req'[q].pc = "send", req'[q].alone,
                   Age(req'[q]) < Ttl
            PROVE  store'[req'[q].key] = [token |-> req'[q].token, at |-> req'[q].at]
        <4>1. CASE q = r
          <5>1. entry = [token |-> entry.token, at |-> entry.at]
            BY <2>3 DEF Entry
          <5> QED BY <4>1, <5>1, <2>4, <2>5
        <4>2. CASE q # r
          <5>1. /\ req'[q] = req[q] /\ req[q] # Idle /\ req[q].key \in Key
                /\ req[q].token \in Nat /\ req[q].at \in Nat
            BY <1>a, <2>4, <3>1, <4>2 DEF Sending
          <5>2. req[q].key # k
            BY <2>1, <3>1, <4>2, <5>1 DEF AloneInv
          <5>3. store[req[q].key] = [token |-> req[q].token, at |-> req[q].at]
            BY <3>1, <5>1 DEF SendInv
          <5> QED BY <2>6, <3>1, <5>1, <5>2, <5>3
        <4> QED BY <4>1, <4>2
      <3> QED BY <2>2, <3>1 DEF SendInv, Age
    <2>9. GenerateInv'
      BY <2>2, <2>4 DEF GenerateInv, Age
    <2>10. ReloadKeepsForm'
      <3>1. ASSUME NEW j \in Key, NEW p \in pages[j], p.alone, Age(p) < Ttl
            PROVE  store'[j] = [token |-> p.token, at |-> p.at]
        <4>1. p.token \in Nat /\ p.at \in Nat
          BY <1>b, <3>1 DEF Page
        <4>2. j # k
          BY <1>7, <1>b, <3>1, <4>1 DEF GenerateInv, Generate, GenerateAt, Age
        <4>3. store[j] = [token |-> p.token, at |-> p.at]
          BY <3>1 DEF ReloadKeepsForm
        <4> QED BY <2>6, <3>1, <4>1, <4>2, <4>3
      <3> QED BY <2>2, <3>1 DEF ReloadKeepsForm, Age
    <2> QED BY <1>0, <2>7, <2>8, <2>9, <2>10
  \* A page that is alone shows the entry its handler held.
  <1>8. ASSUME NEW r \in Request, Deliver(r) PROVE FormInv'
    <2> DEFINE k == req[r].key
               page == [token |-> req[r].token, at |-> req[r].at,
                        alone |-> req[r].alone]
    <2>1. req[r].pc = "send" /\ k \in Key /\ req[r] # Idle
      BY <1>8, <1>a DEF Deliver
    <2>2. /\ UNCHANGED <<now, store, issued, accepted>>
          /\ req'[r] = Idle /\ \A q \in Request \ {r} : req'[q] = req[q]
      BY <1>8 DEF Deliver, TypeOK
    <2>3. /\ pages'[k] = pages[k] \cup {page}
          /\ \A j \in Key \ {k} : pages'[j] = pages[j]
      BY <1>8, <2>1 DEF Deliver, TypeOK
    <2>4. AloneInv'
      BY <2>2 DEF AloneInv
    <2>5. SendInv'
      BY <2>2 DEF SendInv, Age, Idle
    <2>6. GenerateInv'
      <3>1. ASSUME NEW q \in Request, req'[q].pc = "generate",
                   NEW p \in pages'[req'[q].key], p.alone
            PROVE  Age(p) >= Ttl
        <4>1. q # r /\ req'[q] = req[q] /\ req[q] # Idle /\ req[q].key \in Key
          BY <1>a, <2>2, <3>1 DEF Idle
        <4>2. p \in pages[req[q].key]
          <5>1. CASE req[q].key # k
            BY <2>3, <3>1, <4>1, <5>1
          <5>2. CASE req[q].key = k /\ p = page
            BY <2>1, <3>1, <4>1, <5>2 DEF AloneInv
          <5>3. CASE req[q].key = k /\ p # page
            BY <2>3, <3>1, <4>1, <5>3
          <5> QED BY <5>1, <5>2, <5>3
        <4> QED BY <3>1, <4>1, <4>2 DEF GenerateInv
      <3> QED BY <2>2, <3>1 DEF GenerateInv, Age
    <2>7. ReloadKeepsForm'
      <3>1. ASSUME NEW j \in Key, NEW p \in pages'[j], p.alone, Age(p) < Ttl
            PROVE  store[j] = [token |-> p.token, at |-> p.at]
        <4>1. CASE p \in pages[j]
          BY <3>1, <4>1 DEF ReloadKeepsForm
        <4>2. CASE j = k /\ p = page
          BY <2>1, <3>1, <4>2 DEF SendInv, Age
        <4> QED BY <2>3, <3>1, <4>1, <4>2
      <3> QED BY <2>2, <3>1 DEF ReloadKeepsForm, Age
    <2> QED BY <1>0, <2>4, <2>5, <2>6, <2>7
  <1>9. ASSUME NEW r \in Request, Abort(r) PROVE FormInv'
    <2>1. /\ UNCHANGED <<now, store, issued, accepted, pages>>
          /\ req'[r] = Idle /\ \A q \in Request \ {r} : req'[q] = req[q]
      BY <1>9 DEF Abort, TypeOK
    <2>2. AloneInv' /\ SendInv' /\ GenerateInv' /\ ReloadKeepsForm'
      BY <2>1 DEF AloneInv, SendInv, GenerateInv, ReloadKeepsForm, Age, Idle
    <2> QED BY <1>0, <2>2
  \* What is good after a tick was good before it.
  <1>10. CASE Tick
    <2>1. now' = now + 1 /\ UNCHANGED <<store, req, issued, accepted, pages>>
      BY <1>10 DEF Tick
    <2>2. AloneInv'
      BY <2>1 DEF AloneInv
    <2>3. SendInv'
      BY <1>a, <1>b, <2>1 DEF SendInv, Age, Sending
    <2>4. GenerateInv'
      BY <1>a, <1>b, <2>1 DEF GenerateInv, Age, Page
    <2>5. ReloadKeepsForm'
      BY <1>b, <2>1 DEF ReloadKeepsForm, Age, Page
    <2> QED BY <1>0, <2>2, <2>3, <2>4, <2>5
  <1>11. CASE UNCHANGED vars
    BY <1>0, <1>11 DEF vars, AloneInv, SendInv, GenerateInv, ReloadKeepsForm, Age
  <1>12. ASSUME NEW r \in Request, NEW k \in Key, NEW t \in Tokens \cup {Foreign},
                PostRejected(r, k, t) \/ PostAccepted(r, k, t)
         PROVE  FormInv'
    BY <1>4, <1>12 DEF PostRejected, PostAccepted
  <1> QED BY <1>3, <1>5, <1>6, <1>7, <1>8, <1>9, <1>10, <1>11, <1>12
          DEF Next, Handle

(* Loading the page again, from any number of requests, keeps the form that *)
(* was sent alone usable until the client's next POST or its time is over. *)
THEOREM FormSurvivesReload == Spec => []ReloadKeepsForm
  <1>1. Init => FormInv
    BY TypeInit DEF Init, FormInv, AloneInv, SendInv, GenerateInv, ReloadKeepsForm,
                    Idle
  <1>2. FormInv /\ [Next]_vars => FormInv'
    BY FormStep
  <1>3. FormInv => ReloadKeepsForm
    BY DEF FormInv
  <1> QED BY <1>1, <1>2, <1>3, PTL DEF Spec
=============================================================================
