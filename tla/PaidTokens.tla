----------------------------- MODULE PaidTokens -----------------------------
(***************************************************************************)
(* What the cafe sells: a token buys one period, which starts when the     *)
(* token is redeemed and never gets longer; one device at a time may use   *)
(* it; and nobody is on the network beyond the period of a token.  There   *)
(* are no rows, no statements and no handlers here: SessionsRefinement     *)
(* says how Sessions implements this.                                      *)
(***************************************************************************)
EXTENDS Naturals

CONSTANTS Client, Token, Duration
CONSTANT Nobody    \* not a client

VARIABLES
  now,
  deadline,   \* the end of a token's period, 0 before it is redeemed
  holder,     \* the device that uses the token's period
  access      \* until when a client is let through, or 0

paidVars == <<now, deadline, holder, access>>

PaidInit ==
  /\ now = 0
  /\ deadline = [t \in Token |-> 0]
  /\ holder = [t \in Token |-> Nobody]
  /\ access = [c \in Client |-> 0]

\* The kernel may keep what the client had.
Grant(c, until) ==
  \/ access' = [access EXCEPT ![c] = until]
  \/ access[c] # 0 /\ access' = access

\* A token is redeemed once, and its period starts.
Redeem(t, c) ==
  /\ deadline[t] = 0
  /\ deadline' = [deadline EXCEPT ![t] = now + Duration]
  /\ holder' = [holder EXCEPT ![t] = c]
  /\ Grant(c, now + Duration)
  /\ now' = now

\* Another device takes over what is left, when the first is off the network.
Migrate(t, c) ==
  /\ now < deadline[t]
  /\ holder[t] # Nobody
  /\ access[holder[t]] = 0
  /\ holder' = [holder EXCEPT ![t] = c]
  /\ Grant(c, deadline[t])
  /\ UNCHANGED <<now, deadline>>

\* A period is given up: it is over, the manager ends it, or its device
\* takes another token.  Nobody takes it up again.
Release(t) ==
  /\ holder' = [holder EXCEPT ![t] = Nobody]
  /\ UNCHANGED <<now, deadline, access>>

Cut(c) ==
  /\ access' = [access EXCEPT ![c] = 0]
  /\ UNCHANGED <<now, deadline, holder>>

Elapse ==
  /\ now' = now + 1
  /\ access' = [c \in Client |-> IF access[c] <= now' THEN 0 ELSE access[c]]
  /\ UNCHANGED <<deadline, holder>>

PaidNext ==
  \/ \E t \in Token, c \in Client : Redeem(t, c) \/ Migrate(t, c)
  \/ \E t \in Token : Release(t)
  \/ \E c \in Client : Cut(c)
  \/ Elapse

PaidSpec == PaidInit /\ [][PaidNext]_paidVars
=============================================================================
