------------------------- MODULE RateLimiterProofs -------------------------
(***************************************************************************)
(* Proofs about RateLimiter: for any number of addresses and calls, any    *)
(* limits the configuration accepts, and calls that stall for any time.    *)
(***************************************************************************)
EXTENDS RateLimiter, FiniteSetTheorems, TLAPS

\* A call that is not idle has its locals.
LEMMA CallShape ==
  ASSUME TypeOK, NEW c \in Call
  PROVE  /\ call[c] # Idle => call[c] \in InCall
         /\ call[c].pc \in {"check", "prune", "record"} => call[c] # Idle
BY DEF TypeOK, Idle

-----------------------------------------------------------------------------
(***************************************************************************)
(* Type correctness.                                                       *)
(***************************************************************************)

\* What an address keeps is among what it had.
LEMMA KeptIsOld ==
  ASSUME NEW ip, NEW clock
  PROVE  Kept(ip, clock) \subseteq attempts[ip]
BY DEF Kept, Recent

\* What the caller's address has after this attempt is typed.
LEMMA WithThisType ==
  ASSUME TypeOK, NEW c \in Call, call[c].pc = "record"
  PROVE  /\ call[c] \in InCall
         /\ ThisAttempt(c) \in Attempt
         /\ WithThis(c) \subseteq Attempt
<1>1. call[c] \in InCall
  BY CallShape
<1>2. ThisAttempt(c) \in Attempt
  BY <1>1 DEF TypeOK, ThisAttempt, Attempt, InCall
<1>3. attempts[call[c].ip] \subseteq Attempt
  BY <1>1 DEF TypeOK, InCall
<1> QED
  BY <1>1, <1>2, <1>3 DEF WithThis, Recent

\* The common part of the three outcomes keeps the types.
LEMMA RecordType ==
  ASSUME TypeOK, NEW c \in Call, call[c].pc = "record",
         NEW mine \in SUBSET Attempt, Record(c, call[c].ip, mine)
  PROVE  /\ attempts' \in [Ip -> SUBSET Attempt]
         /\ known' \subseteq Ip
         /\ call' \in [Call -> {Idle} \cup InCall]
         /\ records' \in Nat
         /\ now' \in Nat
<1>1. call[c].ip \in Ip
  BY CallShape DEF InCall
<1>2. ASSUME NEW ip \in Ip
      PROVE  attempts'[ip] \subseteq Attempt
  BY <1>2, KeptIsOld DEF Record, TypeOK
<1>3. attempts' \in [Ip -> SUBSET Attempt]
  BY <1>2 DEF Record
<1>4. known' \subseteq Ip
  BY <1>1 DEF Record, Swept, TypeOK
<1> QED
  BY <1>3, <1>4 DEF Record, TypeOK

\* Every step of the limiter keeps the types.
LEMMA TypeStep == TypeOK /\ [Next]_vars => TypeOK'
<1> SUFFICES ASSUME TypeOK, [Next]_vars
             PROVE  TypeOK'
  OBVIOUS
<1>1. ASSUME NEW c \in Call, NEW ip \in Ip, Start(c, ip)
      PROVE  TypeOK'
  BY <1>1 DEF TypeOK, Start, InCall
<1>2. ASSUME NEW c \in Call, CheckBan(c)
      PROVE  TypeOK'
  <2>1. [call[c] EXCEPT !.pc = "prune"] \in InCall
    BY <1>2, CallShape DEF CheckBan, InCall
  <2> QED
    BY <1>2, <2>1 DEF TypeOK, CheckBan
<1>3. ASSUME NEW c \in Call, PruneBans(c)
      PROVE  TypeOK'
  <2>1. [call[c] EXCEPT !.pc = "record"] \in InCall
    BY <1>3, CallShape DEF PruneBans, InCall
  <2> QED
    BY <1>3, <2>1 DEF TypeOK, PruneBans
<1>4. ASSUME NEW c \in Call, RecordBan(c)
      PROVE  TypeOK'
  <2>1. call[c].clock + BanDuration \in Nat
    BY <1>4, WithThisType, LimitsAssumption DEF RecordBan, InCall
  <2>2. bans' \in [Ip -> Nat]
    BY <1>4, <2>1 DEF RecordBan, TypeOK
  <2>3. passed' = passed /\ strays' = strays
    BY <1>4 DEF RecordBan
  <2>4. /\ call[c].pc = "record" /\ Record(c, call[c].ip, {})
        /\ {} \in SUBSET Attempt
    BY <1>4 DEF RecordBan
  <2>5. /\ attempts' \in [Ip -> SUBSET Attempt] /\ known' \subseteq Ip
        /\ call' \in [Call -> {Idle} \cup InCall]
        /\ records' \in Nat /\ now' \in Nat
    BY <2>4, RecordType
  <2> QED
    BY <2>2, <2>3, <2>5 DEF TypeOK
<1>5. ASSUME NEW c \in Call, RecordThrottled(c)
      PROVE  TypeOK'
  <2>1. bans' = bans /\ passed' = passed /\ strays' = strays
    BY <1>5 DEF RecordThrottled
  <2> QED
    BY <1>5, <2>1, WithThisType, RecordType DEF RecordThrottled, TypeOK
<1>6. ASSUME NEW c \in Call, RecordAllowed(c)
      PROVE  TypeOK'
  <2>1. /\ passed' \in [Ip -> SUBSET Attempt]
        /\ strays' \in [Ip -> SUBSET Attempt]
    BY <1>6, WithThisType DEF RecordAllowed, Remember, TypeOK
  <2>2. bans' \in [Ip -> Nat]
    BY <1>6 DEF RecordAllowed, TypeOK
  <2> QED
    BY <1>6, <2>1, <2>2, WithThisType, RecordType DEF RecordAllowed, TypeOK
<1>7. CASE Tick
  BY <1>7 DEF TypeOK, Tick
<1>8. CASE UNCHANGED vars
  BY <1>8 DEF TypeOK, vars
<1> QED
  BY <1>1, <1>2, <1>3, <1>4, <1>5, <1>6, <1>7, <1>8 DEF Next, CheckAndRecord

(* Type correctness.                                                       *)
THEOREM LimiterTypeCorrect == Spec => []TypeOK
<1>1. Init => TypeOK
  BY DEF Init, TypeOK
<1> QED
  BY <1>1, TypeStep, PTL DEF Spec

-----------------------------------------------------------------------------
(***************************************************************************)
(* A ban is served.                                                        *)
(***************************************************************************)

\* A call in flight has an old clock, but not older than it may stall; the
\* ban it met is still there, or was replaced by one that ends at most Stall
\* earlier, or is about over.
BanInv ==
  /\ \A ip \in Ip : bans[ip] <= now + BanDuration
  /\ \A c \in Call : call[c] # Idle =>
       /\ call[c].clock <= now
       /\ now <= call[c].clock + Stall
       /\ call[c].ban <= call[c].clock + BanDuration
       /\ call[c].pc = "check" =>
            \/ call[c].ban <= bans[call[c].ip] + Stall
            \/ call[c].ban <= now + Stall
       /\ call[c].pc \in {"prune", "record"} => call[c].ban <= now + Stall

\* A call that ends takes no other call along.
LEMMA RecordFrame ==
  ASSUME TypeOK, NEW c \in Call, NEW ip, NEW mine, Record(c, ip, mine)
  PROVE  /\ now' = now
         /\ call'[c] = Idle
         /\ \A d \in Call : d # c => call'[d] = call[d]
BY DEF Record, TypeOK

\* Every step keeps what calls know of the ban they began under.
LEMMA BanStep == TypeOK /\ BanInv /\ [Next]_vars => BanInv'
<1> SUFFICES ASSUME TypeOK, BanInv, [Next]_vars
             PROVE  BanInv'
  OBVIOUS
<1> USE LimitsAssumption
<1>t. /\ now \in Nat
      /\ \A ip \in Ip : bans[ip] \in Nat
      /\ \A c \in Call : call[c] # Idle =>
           /\ call[c].pc \in {"check", "prune", "record"}
           /\ call[c].ip \in Ip /\ call[c].clock \in Nat /\ call[c].ban \in Nat
  BY CallShape DEF TypeOK, InCall
<1>1. ASSUME NEW c \in Call, NEW ip \in Ip, Start(c, ip)
      PROVE  BanInv'
  <2>1. call'[c] = [pc |-> "check", ip |-> ip, clock |-> now, ban |-> bans[ip]]
    BY <1>1 DEF Start, TypeOK
  <2>2. \A d \in Call : d # c => call'[d] = call[d]
    BY <1>1 DEF Start, TypeOK
  <2>3. now' = now /\ bans' = bans
    BY <1>1 DEF Start
  <2> QED
    BY <1>t, <2>1, <2>2, <2>3 DEF BanInv
<1>2. ASSUME NEW c \in Call, CheckBan(c)
      PROVE  BanInv'
  <2>1. \A d \in Call : d # c => call'[d] = call[d]
    BY <1>2 DEF CheckBan, TypeOK
  <2>2. now' = now /\ bans' = bans
    BY <1>2 DEF CheckBan
  <2>3. CASE Banned(c)
    <3>1. call'[c] = Idle
      BY <1>2, <2>3 DEF CheckBan, TypeOK
    <3> QED
      BY <1>t, <2>1, <2>2, <3>1 DEF BanInv
  <2>4. CASE ~Banned(c)
    <3>1. call'[c] = [call[c] EXCEPT !.pc = "prune"]
      BY <1>2, <2>4 DEF CheckBan, TypeOK
    <3>2. call[c] # Idle /\ call[c].pc = "check"
      BY <1>2, CallShape DEF CheckBan
    <3>3. call[c] \in InCall
      BY <3>2, CallShape
    <3>4. bans[call[c].ip] <= call[c].clock
      BY <1>t, <2>4, <3>2 DEF Banned
    <3>5. call[c].ban <= now + Stall
      BY <1>t, <3>2, <3>4 DEF BanInv
    <3>6. /\ call'[c].pc = "prune" /\ call'[c].clock = call[c].clock
          /\ call'[c].ban = call[c].ban
      BY <3>1, <3>3 DEF InCall
    <3> QED
      BY <1>t, <2>1, <2>2, <3>2, <3>5, <3>6 DEF BanInv
  <2> QED
    BY <2>3, <2>4
<1>3. ASSUME NEW c \in Call, PruneBans(c)
      PROVE  BanInv'
  <2>1. \A d \in Call : d # c => call'[d] = call[d]
    BY <1>3 DEF PruneBans, TypeOK
  <2>2. now' = now
    BY <1>3 DEF PruneBans
  <2>3. call[c] # Idle /\ call[c].pc = "prune" /\ call[c] \in InCall
    BY <1>3, CallShape DEF PruneBans
  <2>4. /\ call'[c].pc = "record" /\ call'[c].clock = call[c].clock
        /\ call'[c].ban = call[c].ban
    BY <1>3, <2>3 DEF PruneBans, TypeOK, InCall
  <2>5. \A ip \in Ip : \/ bans'[ip] = bans[ip]
                       \/ bans'[ip] = 0 /\ bans[ip] <= now
    BY <1>3, <1>t, <2>3 DEF PruneBans, BanInv
  <2> QED
    BY <1>t, <2>1, <2>2, <2>3, <2>4, <2>5 DEF BanInv
<1>4. ASSUME NEW c \in Call, RecordBan(c)
      PROVE  BanInv'
  <2>1. call[c] # Idle
    BY <1>4, CallShape DEF RecordBan
  <2>2. /\ now' = now /\ call'[c] = Idle
        /\ \A d \in Call : d # c => call'[d] = call[d]
    BY <1>4, RecordFrame DEF RecordBan
  <2>3. \A ip \in Ip : \/ bans'[ip] = bans[ip]
                       \/ bans'[ip] = call[c].clock + BanDuration
    BY <1>4 DEF RecordBan, TypeOK
  <2>4. \A ip \in Ip : bans'[ip] <= now + BanDuration
    BY <1>t, <2>1, <2>3 DEF BanInv
  <2>5. ASSUME NEW d \in Call, d # c, call[d] # Idle, call[d].pc = "check"
        PROVE  \/ call[d].ban <= bans'[call[d].ip] + Stall
               \/ call[d].ban <= now + Stall
    BY <1>t, <2>1, <2>3, <2>5 DEF BanInv
  <2> QED
    BY <1>t, <2>2, <2>4, <2>5 DEF BanInv
<1>5. ASSUME NEW c \in Call, RecordThrottled(c) \/ RecordAllowed(c)
      PROVE  BanInv'
  <2>1. /\ now' = now /\ bans' = bans /\ call'[c] = Idle
        /\ \A d \in Call : d # c => call'[d] = call[d]
    BY <1>5, RecordFrame DEF RecordThrottled, RecordAllowed
  <2> QED
    BY <2>1 DEF BanInv
<1>6. CASE Tick
  <2>1. /\ now' = now + 1 /\ bans' = bans /\ call' = call
        /\ \A c \in Call : call[c] # Idle => now + 1 <= call[c].clock + Stall
    BY <1>6 DEF Tick
  <2> QED
    BY <1>t, <2>1 DEF BanInv
<1>7. CASE UNCHANGED vars
  BY <1>7 DEF vars, BanInv
<1> QED
  BY <1>1, <1>2, <1>3, <1>4, <1>5, <1>6, <1>7 DEF Next, CheckAndRecord

(* A ban is served, by every call that starts under it, whatever the calls  *)
(* in flight with older clocks do to the map of bans; for any Stall.        *)
THEOREM BanIsServed == Spec => []BanServed
<1>1. Init => BanInv
  BY LimitsAssumption DEF Init, BanInv
<1>2. TypeOK /\ BanInv => BanServed
  BY CallShape DEF BanInv, BanServed
<1> QED
  BY <1>1, <1>2, BanStep, LimiterTypeCorrect, PTL DEF Spec

-----------------------------------------------------------------------------
(***************************************************************************)
(* The attempts that an address keeps, and the window's allowance.         *)
(***************************************************************************)

\* Finitely many attempts stay finitely many with this one.
LEMMA FiniteWithThis ==
  ASSUME NEW c \in Call, IsFiniteSet(attempts[call[c].ip])
  PROVE  IsFiniteSet(WithThis(c))
<1>1. Recent(attempts[call[c].ip], call[c].clock) \subseteq attempts[call[c].ip]
  BY DEF Recent
<1>2. IsFiniteSet(Recent(attempts[call[c].ip], call[c].clock))
  BY <1>1, FS_Subset
<1> QED
  BY <1>2, FS_AddElement DEF WithThis

KeptFinite == \A ip \in Ip : IsFiniteSet(attempts[ip])

\* Only the three outcomes write the attempts.
LEMMA AttemptsWrites ==
  ASSUME [Next]_vars
  PROVE  \/ attempts' = attempts
         \/ \E c \in Call : RecordBan(c) \/ RecordThrottled(c) \/ RecordAllowed(c)
BY DEF Next, CheckAndRecord, Start, CheckBan, PruneBans, Tick, vars

\* What the outcomes leave to an address is a part of what it had, or the
\* caller's recent attempts when they are too few for a ban.
LEMMA AttemptsAfter ==
  ASSUME TypeOK, NEW c \in Call,
         RecordBan(c) \/ RecordThrottled(c) \/ RecordAllowed(c),
         NEW ip \in Ip
  PROVE  \/ attempts'[ip] \subseteq attempts[ip]
         \/ /\ ip = call[c].ip
            /\ attempts'[ip] = WithThis(c)
            /\ Cardinality(WithThis(c)) < BanAfter
<1>1. CASE RecordBan(c)
  BY <1>1, KeptIsOld DEF RecordBan, Record
<1>2. CASE RecordThrottled(c) \/ RecordAllowed(c)
  BY <1>2, KeptIsOld DEF RecordThrottled, RecordAllowed, Record
<1> QED
  BY <1>1, <1>2

\* Every step keeps an address's attempts few.
LEMMA KeptFiniteStep == TypeOK /\ KeptFinite /\ [Next]_vars => KeptFinite'
<1> SUFFICES ASSUME TypeOK, KeptFinite, [Next]_vars, NEW ip \in Ip
             PROVE  IsFiniteSet(attempts'[ip])
  BY DEF KeptFinite
<1>1. CASE attempts' = attempts
  BY <1>1 DEF KeptFinite
<1>2. ASSUME NEW c \in Call,
             RecordBan(c) \/ RecordThrottled(c) \/ RecordAllowed(c)
      PROVE  IsFiniteSet(attempts'[ip])
  <2>1. CASE attempts'[ip] \subseteq attempts[ip]
    BY <2>1, FS_Subset DEF KeptFinite
  <2>2. CASE ip = call[c].ip /\ attempts'[ip] = WithThis(c)
    BY <2>2, FiniteWithThis DEF KeptFinite
  <2> QED
    BY <1>2, <2>1, <2>2, AttemptsAfter
<1> QED
  BY <1>1, <1>2, AttemptsWrites

(* An address never keeps as many attempts as the ban's threshold, for any  *)
(* number of calls in flight and any way they overlap.                     *)
THEOREM MemoryPerAddressIsBounded == Spec => []AttemptsBounded
<1>1. Init => KeptFinite /\ AttemptsBounded
  BY FS_EmptySet, LimitsAssumption DEF Init, KeptFinite, AttemptsBounded
<1>2. TypeOK /\ KeptFinite /\ AttemptsBounded /\ [Next]_vars => AttemptsBounded'
  <2> SUFFICES ASSUME TypeOK, KeptFinite, AttemptsBounded, [Next]_vars,
                      NEW ip \in Ip
               PROVE  Cardinality(attempts'[ip]) < BanAfter
    BY DEF AttemptsBounded
  <2>1. CASE attempts' = attempts
    BY <2>1 DEF AttemptsBounded
  <2>2. ASSUME NEW c \in Call,
               RecordBan(c) \/ RecordThrottled(c) \/ RecordAllowed(c)
        PROVE  Cardinality(attempts'[ip]) < BanAfter
    <3>1. CASE attempts'[ip] \subseteq attempts[ip]
      <4>1. /\ Cardinality(attempts'[ip]) <= Cardinality(attempts[ip])
            /\ IsFiniteSet(attempts'[ip]) /\ IsFiniteSet(attempts[ip])
        BY <3>1, FS_Subset DEF KeptFinite
      <4>2. /\ Cardinality(attempts'[ip]) \in Nat
            /\ Cardinality(attempts[ip]) \in Nat
        BY <4>1, FS_CardinalityType
      <4> QED
        BY <4>1, <4>2, LimitsAssumption DEF AttemptsBounded
    <3>2. CASE /\ attempts'[ip] = WithThis(c)
               /\ Cardinality(WithThis(c)) < BanAfter
      BY <3>2
    <3> QED
      BY <2>2, <3>1, <3>2, AttemptsAfter
  <2> QED
    BY <2>1, <2>2, AttemptsWrites
<1> QED
  BY <1>1, <1>2, KeptFiniteStep, LimiterTypeCorrect, PTL DEF Spec

\* A window and a ban are longer than what is assured, by a stall and by two.
LEMMA AssuredLength ==
  /\ Assured \in Int
  /\ Assured + Stall <= Window
  /\ Assured + Stall <= BanDuration - Stall
BY LimitsAssumption DEF Assured

\* An attempt that was allowed is still kept, or is older than matters even to a
\* call with an old clock, or its address is banned until it will be.
Covered ==
  \A ip \in Ip : \A p \in passed[ip] :
    /\ p.at <= now
    /\ \/ p \in attempts[ip]
       \/ p.at + Assured + Stall <= now
       \/ p.at + Assured + Stall <= bans[ip]

\* A call's clock is at most a stall old.
LEMMA ClockIsClose ==
  ASSUME TypeOK, BanInv, NEW c \in Call, call[c].pc \in {"prune", "record"}
  PROVE  /\ call[c] \in InCall /\ call[c].ip \in Ip
         /\ call[c].clock \in Nat /\ now \in Nat
         /\ call[c].clock <= now /\ now <= call[c].clock + Stall
<1>1. call[c] # Idle /\ call[c] \in InCall
  BY CallShape
<1>2. call[c].clock \in Nat /\ call[c].ip \in Ip /\ now \in Nat
  BY <1>1 DEF InCall, TypeOK
<1>3. call[c].clock <= now /\ now <= call[c].clock + Stall
  BY <1>1 DEF BanInv
<1> QED
  BY <1>1, <1>2, <1>3

\* An outcome keeps every recent attempt of every address that it does not ban.
LEMMA RecentAreKept ==
  ASSUME TypeOK, BanInv, NEW c \in Call, call[c].pc = "record",
         NEW ip \in Ip, NEW p \in attempts[ip], p.at + Assured + Stall > now
  PROVE  /\ p \in Recent(attempts[ip], call[c].clock)
         /\ p \in Kept(ip, call[c].clock)
         /\ ip = call[c].ip => p \in WithThis(c)
<1>1. /\ call[c].clock \in Nat /\ now \in Nat /\ p.at \in Nat
      /\ call[c].clock <= now
  BY ClockIsClose DEF TypeOK, Attempt
<1>2. call[c].clock - p.at < Window
  BY <1>1, AssuredLength, LimitsAssumption
<1>3. p \in Recent(attempts[ip], call[c].clock)
  BY <1>2 DEF Recent
<1> QED
  BY <1>3 DEF Kept, WithThis

\* Every step keeps allowed attempts counted, left behind, or banned.
LEMMA CoveredStep == TypeOK /\ BanInv /\ Covered /\ [Next]_vars => Covered'
<1> SUFFICES ASSUME TypeOK, BanInv, Covered, [Next]_vars
             PROVE  Covered'
  OBVIOUS
<1> USE LimitsAssumption, AssuredLength
<1>t. /\ now \in Nat
      /\ \A ip \in Ip : bans[ip] \in Nat /\ \A p \in passed[ip] : p.at \in Nat
  BY DEF TypeOK, Attempt
<1>1. ASSUME NEW c \in Call, NEW ip \in Ip, Start(c, ip)
      PROVE  Covered'
  BY <1>1 DEF Start, Covered
<1>2. ASSUME NEW c \in Call, CheckBan(c)
      PROVE  Covered'
  BY <1>2 DEF CheckBan, Covered
<1>3. ASSUME NEW c \in Call, PruneBans(c)
      PROVE  Covered'
  <2>1. call[c].clock \in Nat /\ call[c].clock <= now
    BY <1>3, ClockIsClose DEF PruneBans
  <2>2. \A ip \in Ip : bans'[ip] = bans[ip] \/ bans[ip] <= now
    BY <1>3, <1>t, <2>1 DEF PruneBans
  <2>3. now' = now /\ attempts' = attempts /\ passed' = passed
    BY <1>3 DEF PruneBans
  <2> QED
    BY <1>t, <2>2, <2>3 DEF Covered
<1>4. ASSUME NEW c \in Call, RecordBan(c)
      PROVE  Covered'
  <2>1. /\ call[c].ip \in Ip
        /\ call[c].clock \in Nat /\ now <= call[c].clock + Stall
    BY <1>4, ClockIsClose DEF RecordBan
  <2>2. now' = now /\ passed' = passed
    BY <1>4 DEF RecordBan, Record
  <2>3. \A ip \in Ip : ip # call[c].ip =>
          bans'[ip] = bans[ip] /\ attempts'[ip] = Kept(ip, call[c].clock)
    BY <1>4 DEF RecordBan, Record, TypeOK
  <2>4. bans'[call[c].ip] = call[c].clock + BanDuration
    BY <1>4, <2>1 DEF RecordBan, TypeOK
  <2>5. now + Assured + Stall <= bans'[call[c].ip]
    BY <1>t, <2>1, <2>4
  <2>6. ASSUME NEW ip \in Ip, NEW p \in passed[ip]
        PROVE  \/ p \in attempts'[ip]
               \/ p.at + Assured + Stall <= now
               \/ p.at + Assured + Stall <= bans'[ip]
    <3>1. CASE ip = call[c].ip
      <4>1. p.at <= now /\ p.at \in Nat
        BY <1>t DEF Covered
      <4>2. bans'[ip] \in Int
        BY <2>1, <2>4, <3>1
      <4> QED
        BY <1>t, <2>5, <3>1, <4>1, <4>2
    <3>2. CASE ip # call[c].ip
      BY <1>4, <1>t, <2>3, <3>2, RecentAreKept DEF Covered, RecordBan
    <3> QED
      BY <3>1, <3>2
  <2> QED
    BY <2>2, <2>6 DEF Covered
<1>5. ASSUME NEW c \in Call, RecordThrottled(c) \/ RecordAllowed(c)
      PROVE  Covered'
  <2>1. /\ call[c].pc = "record" /\ call[c].ip \in Ip
        /\ call[c].clock \in Nat /\ call[c].clock <= now
    BY <1>5, ClockIsClose DEF RecordThrottled, RecordAllowed
  <2>2. now' = now /\ bans' = bans
    BY <1>5 DEF RecordThrottled, RecordAllowed, Record
  <2>3. \A ip \in Ip :
          attempts'[ip] = IF ip = call[c].ip THEN WithThis(c)
                          ELSE Kept(ip, call[c].clock)
    BY <1>5 DEF RecordThrottled, RecordAllowed, Record
  <2>4. ASSUME NEW ip \in Ip, NEW p \in passed[ip]
        PROVE  \/ p \in attempts'[ip]
               \/ p.at + Assured + Stall <= now
               \/ p.at + Assured + Stall <= bans[ip]
    BY <1>t, <2>1, <2>3, RecentAreKept DEF Covered
  <2>5. \A ip \in Ip : \A p \in passed'[ip] :
          p \in passed[ip] \/ (p = ThisAttempt(c) /\ ip = call[c].ip)
    BY <1>5 DEF RecordThrottled, RecordAllowed, Remember, TypeOK
  <2>6. /\ ThisAttempt(c).at = call[c].clock
        /\ ThisAttempt(c) \in WithThis(c)
    BY <2>1 DEF ThisAttempt, WithThis
  <2> QED
    BY <1>t, <2>1, <2>2, <2>3, <2>4, <2>5, <2>6 DEF Covered
<1>6. CASE Tick
  BY <1>6, <1>t DEF Tick, Covered
<1>7. CASE UNCHANGED vars
  BY <1>7 DEF vars, Covered
<1> QED
  BY <1>1, <1>2, <1>3, <1>4, <1>5, <1>6, <1>7 DEF Next, CheckAndRecord

\* When an attempt is let through while its address is not banned, the others of
\* a stretch that it falls into are all among those the limiter counts.
LEMMA StretchIsCounted ==
  ASSUME TypeOK, BanInv, Covered, KeptFinite,
         NEW c \in Call, RecordAllowed(c), bans[call[c].ip] <= now,
         NEW end \in Nat, call[c].clock <= end
  PROVE  Cardinality({q \in passed'[call[c].ip] :
                        end - Assured < q.at /\ q.at <= end}) <= MaxAttempts
<1> DEFINE ip0 == call[c].ip
           stretch == {q \in passed'[ip0] : end - Assured < q.at /\ q.at <= end}
<1> USE LimitsAssumption, AssuredLength
<1>1. /\ call[c].pc = "record" /\ ip0 \in Ip
      /\ call[c].clock \in Nat /\ now \in Nat
      /\ now <= call[c].clock + Stall
  BY ClockIsClose DEF RecordAllowed
<1>2. passed'[ip0] = passed[ip0] \cup {ThisAttempt(c)}
  BY <1>1 DEF RecordAllowed, Remember, TypeOK
<1>3. ASSUME NEW q \in stretch
      PROVE  q \in WithThis(c)
  <2>1. CASE q = ThisAttempt(c)
    BY <2>1 DEF WithThis
  <2>2. CASE q \in passed[ip0]
    <3>1. q.at \in Nat /\ bans[ip0] \in Nat
      BY <1>1, <2>2 DEF TypeOK, Attempt
    <3>2. q.at + Assured + Stall > now
      BY <1>1, <3>1
    <3>3. q \in attempts[ip0]
      BY <1>1, <2>2, <3>1, <3>2 DEF Covered
    <3> QED
      BY <1>1, <3>2, <3>3, RecentAreKept
  <2> QED
    BY <1>2, <2>1, <2>2
<1>4. IsFiniteSet(WithThis(c))
  BY <1>1, FiniteWithThis DEF KeptFinite
<1>5. Cardinality(stretch) <= Cardinality(WithThis(c)) /\ IsFiniteSet(stretch)
  BY <1>3, <1>4, FS_Subset
<1>6. Cardinality(stretch) \in Nat /\ Cardinality(WithThis(c)) \in Nat
  BY <1>4, <1>5, FS_CardinalityType
<1>7. Cardinality(WithThis(c)) <= MaxAttempts
  BY DEF RecordAllowed
<1> QED
  BY <1>5, <1>6, <1>7

\* An attempt later than a stretch's end adds nothing to it.
LEMMA NoneInStretch ==
  ASSUME NEW end \in Nat, NEW x, ~(x.at <= end), NEW Q
  PROVE  {q \in Q \cup {x} : end - Assured < q.at /\ q.at <= end}
           = {q \in Q : end - Assured < q.at /\ q.at <= end}
<1>1. ASSUME NEW q, q = x, q.at <= end
      PROVE  FALSE
  BY <1>1
<1> QED
  BY <1>1

\* Only RecordAllowed adds to what was let through.
LEMMA PassedWrites ==
  ASSUME [Next]_vars
  PROVE  \/ passed' = passed
         \/ \E c \in Call : RecordAllowed(c) /\ bans[call[c].ip] <= now
BY DEF Next, CheckAndRecord, Start, CheckBan, PruneBans, RecordBan,
       RecordThrottled, RecordAllowed, Remember, Tick, vars

\* Every step keeps the allowance of each stretch.
LEMMA WindowStep ==
  /\ TypeOK /\ BanInv /\ Covered /\ KeptFinite /\ AllowedPerWindow
  /\ [Next]_vars
  => AllowedPerWindow'
<1> SUFFICES ASSUME TypeOK, BanInv, Covered, KeptFinite, AllowedPerWindow,
                    [Next]_vars
             PROVE  AllowedPerWindow'
  OBVIOUS
<1>1. CASE passed' = passed
  BY <1>1 DEF AllowedPerWindow
<1>2. ASSUME NEW c \in Call, RecordAllowed(c), bans[call[c].ip] <= now
      PROVE  AllowedPerWindow'
  <2> DEFINE ip0 == call[c].ip
  <2>1. /\ call[c].pc = "record" /\ ip0 \in Ip
        /\ ThisAttempt(c).at = call[c].clock /\ call[c].clock \in Nat
    BY <1>2, ClockIsClose DEF RecordAllowed, ThisAttempt
  <2>2. \A ip \in Ip : passed'[ip] = IF ip = ip0
                          THEN passed[ip] \cup {ThisAttempt(c)} ELSE passed[ip]
    BY <1>2, <2>1 DEF RecordAllowed, Remember, TypeOK
  <2>3. ASSUME NEW ip \in Ip, NEW p \in passed'[ip]
        PROVE  Cardinality({q \in passed'[ip] :
                  p.at - Assured < q.at /\ q.at <= p.at}) <= MaxAttempts
    <3>1. CASE ip # ip0
      BY <2>2, <3>1 DEF AllowedPerWindow
    <3>2. p.at \in Nat
      <4>1. p \in passed[ip] => p.at \in Nat
        BY DEF TypeOK, Attempt
      <4> QED
        BY <2>1, <2>2, <4>1
    <3>3. CASE ip = ip0 /\ call[c].clock <= p.at
      BY <1>2, <3>2, <3>3, StretchIsCounted
    <3>4. CASE ip = ip0 /\ ~(call[c].clock <= p.at)
      <4>1. p # ThisAttempt(c)
        BY <2>1, <3>4
      <4>2. p \in passed[ip]
        BY <2>2, <3>4, <4>1
      <4>3. ~(ThisAttempt(c).at <= p.at)
        BY <2>1, <3>4
      <4>4. {q \in passed'[ip] : p.at - Assured < q.at /\ q.at <= p.at}
              = {q \in passed[ip] : p.at - Assured < q.at /\ q.at <= p.at}
        BY <2>2, <3>2, <3>4, <4>3, NoneInStretch
      <4> QED
        BY <4>2, <4>4 DEF AllowedPerWindow
    <3> QED
      BY <3>1, <3>3, <3>4
  <2> QED
    BY <2>3 DEF AllowedPerWindow
<1> QED
  BY <1>1, <1>2, PassedWrites

(* No stretch of the assured length lets more attempts of an address through*)
(* than allowed, for any limits, however old the clocks of the calls in    *)
(* flight are, and however many of them run in parallel, but for those that*)
(* slip past a ban being set.                                              *)
THEOREM WindowIsRespected == Spec => []AllowedPerWindow
<1>1. Init => BanInv /\ Covered /\ KeptFinite /\ AllowedPerWindow
  BY FS_EmptySet, LimitsAssumption
  DEF Init, BanInv, Covered, KeptFinite, AllowedPerWindow
<1> QED
  BY <1>1, BanStep, CoveredStep, KeptFiniteStep, WindowStep, LimiterTypeCorrect,
     PTL DEF Spec
=============================================================================
