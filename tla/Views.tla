------------------------------- MODULE Views -------------------------------
(***************************************************************************)
(* What a customer is told about a session: the portal's status and        *)
(* success pages, the JSON status, the RFC 8908 API and the countdown that *)
(* runs in the browser.  The server's answers are reads of the tables that *)
(* Sessions writes and never look at the kernel's set; the countdown runs  *)
(* on its own between two answers.  This module says when they tell the    *)
(* truth.                                                                  *)
(***************************************************************************)
EXTENDS Sessions

CONSTANTS
  SyncEvery,     \* countdown.js: seconds between two syncs
  FetchSeconds,  \* how late a sync's answer may arrive
  FetchFails,    \* whether a sync's fetch may fail
  MaxPages       \* bound of the countdowns open at one time

ASSUME ViewsAssumption ==
  /\ SyncEvery \in Nat \ {0}
  /\ FetchSeconds \in 0..SyncEvery
  /\ FetchFails \in BOOLEAN
  /\ MaxPages \in Nat

VARIABLE page    \* the countdown open in a client's browser

viewVars == <<vars, page>>

Closed == [open |-> FALSE]
NoFetch == [sent |-> FALSE]
Answer == [sent: {TRUE}, connected: BOOLEAN, remaining: Nat, at: Nat]

\* `wait` is what the sync's interval timer has left, `fetch` the answer on
\* its way; `due` is the deadline the answer that was used last implied, a
\* history variable.
Countdown == [open: {TRUE}, left: Nat, wait: 0..SyncEvery,
              fetch: {NoFetch} \cup Answer, due: Nat]

(* The countdown never shows a negative time; Sessions has a type          *)
(* invariant of its own.                                                   *)
PageTypeOK == page \in [Client -> {Closed} \cup Countdown]

-----------------------------------------------------------------------------
(***************************************************************************)
(* The server's side.  Everything finds the session by the MAC alone.      *)
(***************************************************************************)

\* SESSION_LIVE: active and not over, whether or not the ticker has seen it.
LiveSessions == {s \in ActiveSessions : session[s].expires > now}

\* SESSION_BY_MAC: its ORDER BY picks the newest of several live rows;
\* OneActivePerMac says there is one.
SessionsByMac(m) == {s \in LiveSessions : MacOf(session[s].client) = m}

\* GET /portal/status.json
StatusJson(c) ==
  LET found == SessionsByMac(MacOf(c))
      left == IF found = {} THEN 0
              ELSE Remaining(CHOOSE s \in found : TRUE)
  IN [connected |-> found # {} /\ left > 0, remaining |-> left]

\* GET /portal/success shows the countdown or redirects to /portal,
\* GET /portal/status shows the countdown or the way to /portal.
ShowsCountdown(c) == StatusJson(c).remaining > 0

\* GET /api/captive: a client the ARP table does not know is captive.
Captive(c, inArpTable) == ~inArpTable \/ ~ShowsCountdown(c)

-----------------------------------------------------------------------------
(***************************************************************************)
(* The browser's side: render() once a second, sync() every SyncEvery      *)
(* seconds.                                                                *)
(***************************************************************************)

ViewInit == Init /\ page = [c \in Client |-> Closed]

\* The page is loaded and renders at once.  Countdowns know nothing of each
\* other, so that few of them (the bound) stand for many.
OpenPage(c) ==
  /\ mode = "up" /\ ShowsCountdown(c) /\ ~page[c].open
  /\ Cardinality({d \in Client : page[d].open}) < MaxPages
  /\ page' = [page EXCEPT ![c] =
       [open |-> TRUE, left |-> StatusJson(c).remaining - 1,
        wait |-> SyncEvery, fetch |-> NoFetch,
        due |-> now + StatusJson(c).remaining]]
  /\ UNCHANGED vars

ClosePage(c) ==
  /\ page[c].open
  /\ page' = [page EXCEPT ![c] = Closed]
  /\ UNCHANGED vars

\* sync(): the request reaches the server, or nobody is there to answer.  The
\* answer before has arrived.
SyncSend(c) ==
  /\ page[c].open /\ page[c].wait = 0 /\ ~page[c].fetch.sent
  /\ \/ /\ mode = "up"
        /\ page' = [page EXCEPT ![c].wait = SyncEvery, ![c].fetch =
             [sent |-> TRUE, connected |-> StatusJson(c).connected,
              remaining |-> StatusJson(c).remaining, at |-> now]]
     \/ /\ FetchFails \/ mode # "up"
        /\ page' = [page EXCEPT ![c].wait = SyncEvery]
  /\ UNCHANGED vars

\* The answer arrives: a client that is not connected is sent to the expired
\* page.
SyncArrives(c) ==
  /\ page[c].open /\ page[c].fetch.sent
  /\ LET answer == page[c].fetch
     IN page' = [page EXCEPT ![c] =
          IF answer.connected
            THEN [@ EXCEPT !.left = answer.remaining, !.fetch = NoFetch,
                           !.due = answer.at + answer.remaining]
            ELSE Closed]
  /\ UNCHANGED vars

\* A fetch that fails is ignored: the countdown goes on.
SyncFails(c) ==
  /\ FetchFails
  /\ page[c].open /\ page[c].fetch.sent
  /\ page' = [page EXCEPT ![c].fetch = NoFetch]
  /\ UNCHANGED vars

\* Mutant: the page at zero waits for the server to say so.
RenderStays(c) ==
  IF ~page[c].open THEN Closed
  ELSE [page[c] EXCEPT !.wait = @ - 1,
                       !.left = IF @ > 0 THEN @ - 1 ELSE 0]

\* Mutant: only the server's word ends the countdown, which goes on below 0.
RenderUnchecked(c) ==
  IF ~page[c].open THEN Closed
  ELSE [page[c] EXCEPT !.wait = @ - 1, !.left = @ - 1]

\* render(), a second later: at zero the browser leaves for the expired page.
Render(c) ==
  IF ~page[c].open \/ page[c].left = 0 THEN Closed
  ELSE [page[c] EXCEPT !.left = @ - 1, !.wait = @ - 1]

\* A second passes for the daemon, the kernel and the browsers alike; a sync
\* that is due has been sent, and an answer has arrived by FetchSeconds.
ViewTick ==
  /\ Tick
  /\ \A c \in Client : page[c].open =>
       /\ page[c].wait > 0
       /\ page[c].fetch.sent => now < page[c].fetch.at + FetchSeconds
  /\ page' = [c \in Client |-> Render(c)]

ViewNext ==
  \/ /\ (\E r \in Request : PortalAuth(r)) \/ AdminStep \/ JobStep \/ Crash
     /\ UNCHANGED page
  \/ ViewTick
  \/ \E c \in Client : \/ OpenPage(c) \/ ClosePage(c)
                       \/ SyncSend(c) \/ SyncArrives(c) \/ SyncFails(c)

ViewSpec == ViewInit /\ [][ViewNext]_viewVars

-----------------------------------------------------------------------------
Quiet == mode = "up" /\ Busy = {} /\ admin = Idle /\ job = Idle

(* The portal and the RFC 8908 API tell a client the truth: while nothing  *)
(* is in flight, they report a session exactly if the kernel lets the      *)
(* device through, also when the ticker has not expired the row yet, after *)
(* a migration and after a reboot.                                         *)
ToldTheTruth ==
  Quiet => \A c \in Client :
    ~Captive(c, TRUE) <=> \E i \in Ip : fw[<<MacOf(c), i>>] # 0

(* An open countdown ends with the time the server last told it of, however*)
(* many syncs fail or come late: late by no more than that answer was.     *)
CountdownEnds ==
  \A c \in Client : page[c].open => now <= page[c].due + FetchSeconds
=============================================================================
