---------------------------- MODULE RateLimiter ----------------------------
(***************************************************************************)
(* RateLimiter::check_and_record, which guards POST /portal/auth and the   *)
(* admin login: a window of attempts per address, and a ban.  The handlers *)
(* run in parallel; a call reads the clock once and then takes the two     *)
(* locks in turn, so that every other call may act in between, with an     *)
(* older or a newer clock.                                                 *)
(***************************************************************************)
EXTENDS Integers, FiniteSets

CONSTANTS
  Ip,           \* client addresses
  Call,         \* calls that may be in flight at one time
  MaxAttempts,  \* rate_limit.max_auth_attempts
  BanAfter,     \* rate_limit.ban_after_attempts
  Window,       \* rate_limit.auth_window_seconds
  BanDuration,  \* rate_limit.ban_duration_seconds
  SweepEvery,   \* 256 in the code
  Stall,        \* a call takes at most this many seconds
  MaxTime,      \* bound of the clock
  MaxRecords    \* bound of the attempts recorded

\* What AppConfig::validate demands.
ASSUME LimitsAssumption ==
  /\ MaxAttempts \in Nat \ {0}
  /\ BanAfter \in Nat /\ BanAfter >= MaxAttempts
  /\ Window \in Nat \ {0}
  /\ BanDuration \in Nat \ {0}
  /\ SweepEvery \in Nat \ {0}
  /\ Stall \in Nat
  /\ MaxTime \in Nat
  /\ MaxRecords \in Nat

VARIABLES
  now,       \* the monotonic clock, in seconds
  attempts,  \* the attempts kept for an address
  known,     \* the addresses that have an entry in the map of attempts
  bans,      \* when an address' ban ends, 0 without one
  call,      \* the calls' program counters and locals
  records,   \* how many attempts were recorded, to tell attempts apart
  passed,    \* history: the attempts that were allowed, for an address
  strays     \* history: those that were allowed while it was banned

vars == <<now, attempts, known, bans, call, records, passed, strays>>

\* `n` numbers the attempts in the order in which they were recorded.
Attempt == [n: Nat, at: Nat]

\* `clock` is the local `now`; `ban` is history, the ban in force at the start.
Idle == [pc |-> "idle"]
InCall == [pc: {"check", "prune", "record"}, ip: Ip, clock: Nat, ban: Nat]

(* Every variable has its type.                                            *)
TypeOK ==
  /\ now \in Nat
  /\ attempts \in [Ip -> SUBSET Attempt]
  /\ known \subseteq Ip
  /\ bans \in [Ip -> Nat]
  /\ call \in [Call -> {Idle} \cup InCall]
  /\ records \in Nat
  /\ passed \in [Ip -> SUBSET Attempt]
  /\ strays \in [Ip -> SUBSET Attempt]

Init ==
  /\ now = 0
  /\ attempts = [ip \in Ip |-> {}]
  /\ known = {}
  /\ bans = [ip \in Ip |-> 0]
  /\ call = [c \in Call |-> Idle]
  /\ records = 0
  /\ passed = [ip \in Ip |-> {}]
  /\ strays = [ip \in Ip |-> {}]

-----------------------------------------------------------------------------
Start(c, ip) ==
  /\ call[c] = Idle
  /\ records + Cardinality({d \in Call : call[d] # Idle}) < MaxRecords
  /\ call' = [call EXCEPT ![c] =
       [pc |-> "check", ip |-> ip, clock |-> now, ban |-> bans[ip]]]
  /\ UNCHANGED <<now, attempts, known, bans, records, passed, strays>>

Banned(c) == call[c].clock < bans[call[c].ip]

\* 1. Under the read lock of the bans: answer Banned, or go on.
CheckBan(c) ==
  /\ call[c].pc = "check"
  /\ call' = [call EXCEPT ![c] =
       IF Banned(c) THEN Idle ELSE [@ EXCEPT !.pc = "prune"]]
  /\ UNCHANGED <<now, attempts, known, bans, records, passed, strays>>

\* Mutant: retain with the test the wrong way round.
PruneBansReversed(c) ==
  /\ call[c].pc = "prune"
  /\ bans' = [ip \in Ip |-> IF call[c].clock < bans[ip] THEN 0 ELSE bans[ip]]
  /\ call' = [call EXCEPT ![c].pc = "record"]
  /\ UNCHANGED <<now, attempts, known, records, passed, strays>>

\* 2. Under the write lock of the bans: drop every address' expired ban.
PruneBans(c) ==
  /\ call[c].pc = "prune"
  /\ bans' = [ip \in Ip |-> IF call[c].clock < bans[ip] THEN bans[ip] ELSE 0]
  /\ call' = [call EXCEPT ![c].pc = "record"]
  /\ UNCHANGED <<now, attempts, known, records, passed, strays>>

\* The attempts still in the window; duration_since never goes below zero.
Recent(kept, clock) == {a \in kept : clock - a.at < Window}

\* The sweep that removes the addresses with no recent attempt.
SweepDue == known # {} /\ Cardinality(known) % SweepEvery = 0
Swept(clock) ==
  IF SweepDue THEN {ip \in known : Recent(attempts[ip], clock) # {}} ELSE known

\* An address without an entry has no attempts.
Kept(ip, clock) ==
  IF SweepDue THEN Recent(attempts[ip], clock) ELSE attempts[ip]

ThisAttempt(c) == [n |-> records, at |-> call[c].clock]

\* The caller's attempts once this one is recorded.
WithThis(c) ==
  Recent(attempts[call[c].ip], call[c].clock)
    \cup {ThisAttempt(c)}

Record(c, ip, mine) ==
  /\ known' = Swept(call[c].clock) \cup {ip}
  /\ attempts' = [i \in Ip |->
       IF i = ip THEN mine ELSE Kept(i, call[c].clock)]
  /\ records' = records + 1
  /\ call' = [call EXCEPT ![c] = Idle]
  /\ UNCHANGED now

\* Mutant: the ban leaves the attempts in place.
RecordBanKeepsAttempts(c) ==
  /\ call[c].pc = "record"
  /\ Cardinality(WithThis(c)) >= BanAfter
  /\ Record(c, call[c].ip, WithThis(c))
  /\ bans' = [bans EXCEPT ![call[c].ip] = call[c].clock + BanDuration]
  /\ UNCHANGED <<passed, strays>>

\* Mutant: the ban lies in the past.
RecordBanBackwards(c) ==
  /\ call[c].pc = "record"
  /\ Cardinality(WithThis(c)) >= BanAfter
  /\ Record(c, call[c].ip, {})
  /\ bans' = [bans EXCEPT ![call[c].ip] = call[c].clock - BanDuration]
  /\ UNCHANGED <<passed, strays>>

\* 3. and 4. under the write lock of the attempts, the ban's lock inside it:
\* the attempt reaches the ban threshold.
RecordBan(c) ==
  /\ call[c].pc = "record"
  /\ Cardinality(WithThis(c)) >= BanAfter
  /\ Record(c, call[c].ip, {})
  /\ bans' = [bans EXCEPT ![call[c].ip] = call[c].clock + BanDuration]
  /\ UNCHANGED <<passed, strays>>

\* 5. The attempt is beyond the window's allowance.
RecordThrottled(c) ==
  /\ call[c].pc = "record"
  /\ Cardinality(WithThis(c)) < BanAfter
  /\ Cardinality(WithThis(c)) > MaxAttempts
  /\ Record(c, call[c].ip, WithThis(c))
  /\ UNCHANGED <<bans, passed, strays>>

\* History: an attempt is let through.
Remember(c) ==
  IF bans[call[c].ip] <= now
    THEN /\ passed' = [passed EXCEPT ![call[c].ip] = @ \cup {ThisAttempt(c)}]
         /\ UNCHANGED strays
    ELSE /\ strays' = [strays EXCEPT ![call[c].ip] = @ \cup {ThisAttempt(c)}]
         /\ UNCHANGED passed

\* Mutant: one attempt too many.
RecordAllowedOneMore(c) ==
  /\ call[c].pc = "record"
  /\ Cardinality(WithThis(c)) < BanAfter
  /\ Cardinality(WithThis(c)) <= MaxAttempts + 1
  /\ Record(c, call[c].ip, WithThis(c))
  /\ Remember(c)
  /\ UNCHANGED bans

RecordAllowed(c) ==
  /\ call[c].pc = "record"
  /\ Cardinality(WithThis(c)) < BanAfter
  /\ Cardinality(WithThis(c)) <= MaxAttempts
  /\ Record(c, call[c].ip, WithThis(c))
  /\ Remember(c)
  /\ UNCHANGED bans

\* A second passes, unless a call would take longer than it may.
Tick ==
  /\ now < MaxTime
  /\ \A c \in Call : call[c] # Idle => now + 1 <= call[c].clock + Stall
  /\ now' = now + 1
  /\ UNCHANGED <<attempts, known, bans, call, records, passed, strays>>

CheckAndRecord(c) ==
  \/ \E ip \in Ip : Start(c, ip)
  \/ CheckBan(c) \/ PruneBans(c)
  \/ RecordBan(c) \/ RecordThrottled(c) \/ RecordAllowed(c)

Next == (\E c \in Call : CheckAndRecord(c)) \/ Tick

Spec == Init /\ [][Next]_vars
-----------------------------------------------------------------------------
\* The stretch of time over which the allowance is assured: a call with an old
\* clock forgets an attempt up to a stall late, and sets a ban that ends up to a
\* stall early, after which attempts up to a stall old are let through.
Assured ==
  IF Window - Stall <= BanDuration - 2 * Stall
    THEN Window - Stall ELSE BanDuration - 2 * Stall

(* Of the attempts that are let through while their address is not banned,  *)
(* no more than max_auth_attempts fall into any stretch of the assured     *)
(* length, whatever bans, sweeps and parallel calls with older clocks come *)
(* between.  With calls that do not stall and bans at least as long as the *)
(* window (validate demands neither), that is every whole window; with     *)
(* shorter bans a ban forgives what it cleared, and less is assured.       *)
AllowedPerWindow ==
  \A ip \in Ip : \A p \in passed[ip] :
    Cardinality({q \in passed[ip] : p.at - Assured < q.at /\ q.at <= p.at})
      <= MaxAttempts

(* A ban is served: an attempt that starts while its address is banned does *)
(* not get past the check before that ban is over, although other calls    *)
(* prune bans and set shorter ones with older clocks, but for the time that*)
(* a call may stall.                                                       *)
BanServed ==
  \A c \in Call :
    call[c].pc \in {"prune", "record"} => call[c].ban <= now + Stall

(* No address keeps as many attempts as lead to a ban: the memory that one  *)
(* client can take is bounded, however many calls it has in flight.        *)
AttemptsBounded ==
  \A ip \in Ip : Cardinality(attempts[ip]) < BanAfter
=============================================================================
