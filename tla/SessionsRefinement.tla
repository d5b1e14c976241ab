------------------------- MODULE SessionsRefinement -------------------------
(***************************************************************************)
(* Sessions implements PaidTokens as long as portal requests do not        *)
(* overlap, run to their end and take less than a second: the period       *)
(* starts when the kernel lets the client in, which is before any row says *)
(* so, and changes hands when the kernel lets the next device in.          *)
(***************************************************************************)
EXTENDS Sessions

RowsOf(t) == {s \in Session : Inserted(s) /\ session[s].token = t}

\* The requests that have begun to give out t, and those that migrate it.
Redeeming(t) == {r \in Request : /\ req[r].pc = "create_insert"
                                 /\ req[r].token = t}
Moving(t) ==
  {r \in Request : /\ req[r].pc \in {"migrate_close", "migrate_authorize",
                                     "migrate_deauthorize", "migrate_insert"}
                   /\ req[r].token = t}

DeadlineOf(t) ==
  IF RowsOf(t) # {} THEN session[CHOOSE s \in RowsOf(t) : TRUE].expires
  ELSE IF Redeeming(t) # {} THEN req[CHOOSE r \in Redeeming(t) : TRUE].expires
  ELSE 0

Outside == << >>

\* In the middle of a migration the row may be closed, by the migration or
\* by somebody else: the period is the old device's until the new one is in.
HolderOf(t) ==
  IF Redeeming(t) # {} THEN req[CHOOSE r \in Redeeming(t) : TRUE].client
  ELSE IF Moving(t) # {}
    THEN LET m == req[CHOOSE r \in Moving(t) : TRUE]
         IN IF m.pc = "migrate_insert" THEN m.client ELSE session[m.old].client
  ELSE LET live == RowsOf(t) \cap ActiveSessions
       IN IF live = {} THEN Outside
          ELSE session[CHOOSE s \in live : TRUE].client

Paid == INSTANCE PaidTokens WITH
  Nobody <- Outside,
  deadline <- [t \in Token |-> DeadlineOf(t)],
  holder <- [t \in Token |-> HolderOf(t)],
  access <- fw

(* Every behaviour of the handlers, the manager and the ticker is one the  *)
(* abstract specification allows: redeeming and migrating, an await at a   *)
(* time, sells one period to one device at a time.                         *)
ImplementsPaidTokens == Paid!PaidSpec
=============================================================================
