----------------------------- MODULE ViewsProofs -----------------------------
(***************************************************************************)
(* What Views promises to customers: the countdown never runs below zero   *)
(* and ends with what the server last said, and the portal says who is on  *)
(* the network.  For any number of clients, tokens, sessions and pages,    *)
(* and any durations.                                                      *)
(***************************************************************************)
EXTENDS Views, SessionsProofs

\* The pages only read what Sessions writes.
LEMMA ViewSteps == ViewNext => Next \/ UNCHANGED vars
BY DEF ViewNext, ViewTick, OpenPage, ClosePage, SyncSend, SyncArrives,
       SyncFails, Next

\* So everything that is proved of Sessions holds under them.
LEMMA ViewsAreSessions == ViewSpec => Spec
<1>1. ViewInit => Init
  BY DEF ViewInit
<1>2. [ViewNext]_viewVars => [Next]_vars
  BY ViewSteps DEF viewVars
<1> QED
  BY <1>1, <1>2, PTL DEF ViewSpec, Spec

\* The steps that write a page, and time.
LEMMA PageSteps ==
  ASSUME [ViewNext]_viewVars
  PROVE  \/ page' = page /\ now' = now
         \/ ViewTick
         \/ /\ now' = now
            /\ \E c \in Client : \/ OpenPage(c) \/ ClosePage(c)
                                 \/ SyncSend(c) \/ SyncArrives(c)
                                 \/ SyncFails(c)
BY DEF ViewNext, viewVars, OpenPage, ClosePage, SyncSend, SyncArrives,
      SyncFails, PortalAuth, ValidateUnused, ValidateActive, CreateAuthorize,
      CreateInsert, CreateRedeem, MigrateFind, MigrateFindsNothing,
      MigrateDeauthorize, MigrateClose, MigrateAuthorize, MigrateInsert,
      InsertRefused, RequestFails, AdminStep, RevokeToken, DisconnectRead,
      DisconnectDeauthorize, DisconnectMark, JobStep, TickerStart, BootStart,
      TickerSkip, TickerDeauthorize, BootRestore, BootExpire, ExpireSession,
      ExpireToken, JobStepFails, LoopEnd, PurgeFails, PurgeSessions,
      PurgeTokens, Crash, vars

\* What the server says of a client.
LEMMA AnswerType ==
  ASSUME TypeOK, NEW c \in Client
  PROVE  /\ StatusJson(c).connected \in BOOLEAN
         /\ StatusJson(c).remaining \in Nat
         /\ StatusJson(c).remaining > 0 <=> SessionsByMac(MacOf(c)) # {}
<1> DEFINE found == SessionsByMac(MacOf(c))
           s == CHOOSE x \in found : TRUE
<1>1. /\ StatusJson(c).connected =
           (found # {} /\ (IF found = {} THEN 0 ELSE Remaining(s)) > 0)
      /\ StatusJson(c).remaining = IF found = {} THEN 0 ELSE Remaining(s)
  BY DEF StatusJson
<1>2. CASE found = {}
  BY <1>1, <1>2
<1>3. CASE found # {}
  <2>1. s \in Session /\ Inserted(s) /\ session[s].expires > now
    BY <1>3 DEF SessionsByMac, LiveSessions, ActiveSessions, Inserted
  <2>2. session[s].expires \in Nat /\ now \in Nat
    BY <2>1, RowShape DEF SessionRow, TypeOK
  <2>3. Remaining(s) \in Nat /\ Remaining(s) > 0
    BY <2>1, <2>2 DEF Remaining
  <2> QED
    BY <1>1, <1>3, <2>3
<1> QED
  BY <1>2, <1>3

-----------------------------------------------------------------------------
(***************************************************************************)
(* The countdown.                                                          *)
(***************************************************************************)

\* A page that is open and one that is closed.
LEMMA PageShape ==
  ASSUME PageTypeOK, NEW c \in Client
  PROVE  /\ ~page[c].open => page[c] = Closed
         /\ page[c].open => page[c] \in Countdown
         /\ page[c].open /\ page[c].fetch.sent => page[c].fetch \in Answer
<1>1. page[c] = Closed \/ page[c] \in Countdown
  BY DEF PageTypeOK
<1>2. CASE page[c] = Closed
  BY <1>2 DEF Closed
<1>3. CASE page[c] \in Countdown
  <2>1. page[c].open /\ page[c].fetch \in {NoFetch} \cup Answer
    BY <1>3 DEF Countdown
  <2>2. page[c].fetch.sent => page[c].fetch \in Answer
    BY <2>1 DEF NoFetch
  <2> QED
    BY <1>3, <2>1, <2>2
<1> QED
  BY <1>1, <1>2, <1>3

\* A page of a client is replaced.
LEMMA PageWritten ==
  ASSUME PageTypeOK, NEW c \in Client, NEW p \in {Closed} \cup Countdown,
         page' = [page EXCEPT ![c] = p]
  PROVE  PageTypeOK'
BY DEF PageTypeOK

\* What the pages' own steps write is a page.
LEMMA PageTypeStep ==
  ASSUME TypeOK, PageTypeOK, [ViewNext]_viewVars
  PROVE  PageTypeOK'
<1>a. /\ SyncEvery \in Nat \ {0} /\ now \in Nat
      /\ \A n \in Nat, k \in Nat : n + k \in Nat
  BY ViewsAssumption DEF TypeOK
<1>1. CASE page' = page
  BY <1>1 DEF PageTypeOK
<1>2. ASSUME NEW c \in Client, OpenPage(c)
      PROVE  PageTypeOK'
  <2>1. /\ StatusJson(c).remaining \in Nat
        /\ StatusJson(c).remaining > 0
    BY <1>2, AnswerType DEF OpenPage, ShowsCountdown
  <2>2. /\ StatusJson(c).remaining - 1 \in Nat
        /\ now + StatusJson(c).remaining \in Nat
        /\ SyncEvery \in 0..SyncEvery
    BY <2>1, <1>a
  <2>3. [open |-> TRUE, left |-> StatusJson(c).remaining - 1,
         wait |-> SyncEvery, fetch |-> NoFetch,
         due |-> now + StatusJson(c).remaining] \in Countdown
    BY <2>2 DEF Countdown
  <2> QED
    BY <1>2, <2>3, PageWritten DEF OpenPage
<1>3. ASSUME NEW c \in Client, ClosePage(c)
      PROVE  PageTypeOK'
  BY <1>3, PageWritten DEF ClosePage
<1>4. ASSUME NEW c \in Client, SyncSend(c)
      PROVE  PageTypeOK'
  <2>1. page[c] \in Countdown
    BY <1>4, PageShape DEF SyncSend
  <2>2. PICK a \in Answer :
          \/ page' = [page EXCEPT ![c].wait = SyncEvery, ![c].fetch = a]
          \/ page' = [page EXCEPT ![c].wait = SyncEvery]
    <3>1. [sent |-> TRUE, connected |-> StatusJson(c).connected,
           remaining |-> StatusJson(c).remaining, at |-> now] \in Answer
      BY <1>a, AnswerType DEF Answer
    <3> QED
      BY <1>4, <3>1 DEF SyncSend
  <2>3. /\ [page[c] EXCEPT !.wait = SyncEvery] \in Countdown
        /\ [page[c] EXCEPT !.wait = SyncEvery, !.fetch = a] \in Countdown
    <3>1. SyncEvery \in 0..SyncEvery
      BY <1>a
    <3>2. a \in {NoFetch} \cup Answer
      BY <2>2
    <3> QED
      BY <2>1, <3>1, <3>2 DEF Countdown
  <2>4. \/ page' = [page EXCEPT ![c] =
                      [page[c] EXCEPT !.wait = SyncEvery, !.fetch = a]]
        \/ page' = [page EXCEPT ![c] = [page[c] EXCEPT !.wait = SyncEvery]]
    BY <2>1, <2>2 DEF PageTypeOK
  <2> QED
    BY <2>3, <2>4, PageWritten
<1>5. ASSUME NEW c \in Client, SyncArrives(c)
      PROVE  PageTypeOK'
  <2>1. page[c] \in Countdown /\ page[c].fetch \in Answer
    BY <1>5, PageShape DEF SyncArrives
  <2>2. /\ page[c].fetch.remaining \in Nat
        /\ page[c].fetch.at + page[c].fetch.remaining \in Nat
    BY <2>1, <1>a DEF Answer
  <2>3. \/ page' = [page EXCEPT ![c] =
                [@ EXCEPT !.left = page[c].fetch.remaining,
                          !.fetch = NoFetch,
                          !.due = page[c].fetch.at + page[c].fetch.remaining]]
        \/ page' = [page EXCEPT ![c] = Closed]
    BY <1>5 DEF SyncArrives
  <2>4. [page[c] EXCEPT !.left = page[c].fetch.remaining, !.fetch = NoFetch,
                        !.due = page[c].fetch.at + page[c].fetch.remaining]
          \in Countdown
    BY <2>1, <2>2 DEF Countdown
  <2> QED
    BY <2>3, <2>4, PageWritten
<1>6. ASSUME NEW c \in Client, SyncFails(c)
      PROVE  PageTypeOK'
  <2>1. page[c] \in Countdown
    BY <1>6, PageShape DEF SyncFails
  <2> QED
    BY <1>6, <2>1 DEF SyncFails, PageTypeOK, Countdown
<1>7. CASE ViewTick
  <2>1. ASSUME NEW c \in Client
        PROVE  Render(c) \in {Closed} \cup Countdown
    <3>1. CASE page[c].open /\ page[c].left # 0
      <4>1. page[c] \in Countdown /\ page[c].wait > 0
        BY <1>7, <3>1, PageShape DEF ViewTick
      <4>2. page[c].left - 1 \in Nat /\ page[c].wait - 1 \in 0..SyncEvery
        <5>1. page[c].left \in Nat /\ page[c].wait \in 0..SyncEvery
          BY <4>1 DEF Countdown
        <5> QED
          BY <1>a, <3>1, <4>1, <5>1
      <4>3. Render(c) = [page[c] EXCEPT !.left = @ - 1, !.wait = @ - 1]
        BY <3>1 DEF Render
      <4> QED
        BY <4>1, <4>2, <4>3 DEF Countdown
    <3>2. CASE ~(page[c].open /\ page[c].left # 0)
      BY <3>2 DEF Render
    <3> QED
      BY <3>1, <3>2
  <2> QED
    BY <1>7, <2>1 DEF ViewTick, PageTypeOK
<1> QED
  BY <1>1, <1>2, <1>3, <1>4, <1>5, <1>6, <1>7, PageSteps

(* The countdown never shows a negative time, and no page is open but with *)
(* a time to show, whatever answers come, come late or fail to come.       *)
THEOREM PagesAreTyped == ViewSpec => []PageTypeOK
<1>1. ViewInit => PageTypeOK
  BY DEF ViewInit, PageTypeOK
<1>2. TypeOK /\ PageTypeOK /\ [ViewNext]_viewVars => PageTypeOK'
  BY PageTypeStep
<1> QED
  BY <1>1, <1>2, ViewsAreSessions, TypeCorrect, PTL DEF ViewSpec

(* What the page shows is not more than what the server said last, late by *)
(* the time the answer took; an answer on its way is not older.            *)
CountdownInv ==
  \A c \in Client : page[c].open =>
    /\ now + page[c].left <= page[c].due + FetchSeconds
    /\ page[c].fetch.sent => now <= page[c].fetch.at + FetchSeconds

\* Every page and every second keep to it.
LEMMA CountdownStep ==
  ASSUME TypeOK, PageTypeOK, PageTypeOK', CountdownInv, [ViewNext]_viewVars
  PROVE  CountdownInv'
<1>a. /\ SyncEvery \in Nat \ {0} /\ now \in Nat /\ FetchSeconds \in Nat
  BY ViewsAssumption DEF TypeOK
<1>b. ASSUME NEW c \in Client, page[c].open
      PROVE  /\ page[c] \in Countdown
             /\ page[c].left \in Nat /\ page[c].due \in Nat
             /\ page[c].fetch.sent =>
                  /\ page[c].fetch.at \in Nat
                  /\ page[c].fetch.remaining \in Nat
             /\ now + page[c].left <= page[c].due + FetchSeconds
             /\ page[c].fetch.sent => now <= page[c].fetch.at + FetchSeconds
  <2>1. /\ page[c] \in Countdown
        /\ page[c].fetch.sent => page[c].fetch \in Answer
    BY <1>b, PageShape
  <2> QED
    BY <1>b, <2>1 DEF Countdown, Answer, CountdownInv
\* It is enough to look at the page that is written.
<1>c. ASSUME NEW c \in Client, NEW p, page' = [page EXCEPT ![c] = p],
             now' = now,
             p.open => /\ now + p.left <= p.due + FetchSeconds
                       /\ p.fetch.sent => now <= p.fetch.at + FetchSeconds
      PROVE  CountdownInv'
  BY <1>c DEF CountdownInv, PageTypeOK
<1>1. CASE page' = page /\ now' = now
  BY <1>1 DEF CountdownInv
<1>2. ASSUME NEW c \in Client, OpenPage(c), now' = now
      PROVE  CountdownInv'
  <2> DEFINE rem == StatusJson(c).remaining
             p == [open |-> TRUE, left |-> rem - 1, wait |-> SyncEvery,
                   fetch |-> NoFetch, due |-> now + rem]
  <2>1. page' = [page EXCEPT ![c] = p]
    BY <1>2 DEF OpenPage
  <2>2. rem \in Nat
    BY AnswerType
  <2>3. p.left = rem - 1 /\ p.due = now + rem /\ ~p.fetch.sent
    BY DEF NoFetch
  <2> HIDE DEF rem, p
  <2>4. now + p.left <= p.due + FetchSeconds
    BY <1>a, <2>2, <2>3
  <2> QED
    BY <1>2, <1>c, <2>1, <2>3, <2>4
<1>3. ASSUME NEW c \in Client, ClosePage(c), now' = now
      PROVE  CountdownInv'
  BY <1>3, <1>c DEF ClosePage, Closed
<1>4. ASSUME NEW c \in Client, SyncSend(c), now' = now
      PROVE  CountdownInv'
  <2>1. page[c].open /\ page[c] \in Countdown
    BY <1>4, <1>b DEF SyncSend
  <2>2. /\ \A d \in Client \ {c} : page'[d] = page[d]
        /\ page'[c].left = page[c].left /\ page'[c].due = page[c].due
        /\ \/ page'[c].fetch.at = now
           \/ page'[c].fetch = page[c].fetch
    BY <1>4, <2>1 DEF SyncSend, PageTypeOK, Countdown
  <2>3. now + page[c].left <= page[c].due + FetchSeconds
    BY <1>b, <2>1
  <2>4. page'[c].fetch.sent => now <= page'[c].fetch.at + FetchSeconds
    BY <1>a, <1>b, <2>1, <2>2
  <2> QED
    BY <1>4, <2>2, <2>3, <2>4 DEF CountdownInv
<1>5. ASSUME NEW c \in Client, SyncArrives(c), now' = now
      PROVE  CountdownInv'
  <2>1. /\ page[c].open /\ page[c] \in Countdown /\ page[c].fetch.sent
        /\ page[c].fetch.at \in Nat /\ page[c].fetch.remaining \in Nat
        /\ now <= page[c].fetch.at + FetchSeconds
    BY <1>5, <1>b DEF SyncArrives
  <2>2. \/ page' = [page EXCEPT ![c] = Closed]
        \/ page' = [page EXCEPT ![c] =
                [@ EXCEPT !.left = page[c].fetch.remaining,
                          !.fetch = NoFetch,
                          !.due = page[c].fetch.at + page[c].fetch.remaining]]
    BY <1>5 DEF SyncArrives
  <2>3. CASE page' = [page EXCEPT ![c] = Closed]
    BY <1>5, <1>c, <2>3 DEF Closed
  <2>4. CASE page' # [page EXCEPT ![c] = Closed]
    <3>1. /\ \A d \in Client \ {c} : page'[d] = page[d]
          /\ page'[c].left = page[c].fetch.remaining
          /\ page'[c].due = page[c].fetch.at + page[c].fetch.remaining
          /\ page'[c].fetch = NoFetch /\ ~page'[c].fetch.sent
      <4> DEFINE p == [page[c] EXCEPT
                         !.left = page[c].fetch.remaining, !.fetch = NoFetch,
                         !.due = page[c].fetch.at + page[c].fetch.remaining]
      <4>1. page' = [page EXCEPT ![c] = p]
        BY <2>2, <2>4
      <4>2. /\ p.left = page[c].fetch.remaining
            /\ p.due = page[c].fetch.at + page[c].fetch.remaining
            /\ p.fetch = NoFetch
        BY <2>1 DEF Countdown
      <4> HIDE DEF p
      <4>3. page'[c] = p /\ \A d \in Client \ {c} : page'[d] = page[d]
        BY <4>1 DEF PageTypeOK
      <4> QED
        BY <4>2, <4>3 DEF NoFetch
    <3>2. now + page'[c].left <= page'[c].due + FetchSeconds
      BY <1>a, <2>1, <3>1
    <3> QED
      BY <1>5, <3>1, <3>2 DEF CountdownInv
  <2> QED
    BY <2>3, <2>4
<1>6. ASSUME NEW c \in Client, SyncFails(c), now' = now
      PROVE  CountdownInv'
  <2>1. page[c].open /\ page[c] \in Countdown
    BY <1>6, <1>b DEF SyncFails
  <2>2. /\ \A d \in Client \ {c} : page'[d] = page[d]
        /\ page'[c].left = page[c].left /\ page'[c].due = page[c].due
        /\ ~page'[c].fetch.sent
    BY <1>6, <2>1 DEF SyncFails, PageTypeOK, Countdown, NoFetch
  <2> QED
    BY <1>6, <1>b, <2>1, <2>2 DEF CountdownInv
<1>7. CASE ViewTick
  <2>1. now' = now + 1
    BY <1>7 DEF ViewTick, Tick
  <2>2. ASSUME NEW c \in Client, page'[c].open
        PROVE  /\ now' + page'[c].left <= page'[c].due + FetchSeconds
               /\ page'[c].fetch.sent =>
                    now' <= page'[c].fetch.at + FetchSeconds
    <3>1. page'[c] = Render(c)
      BY <1>7 DEF ViewTick
    <3>2. page[c].open /\ page[c].left # 0
      BY <2>2, <3>1 DEF Render, Closed
    <3>3. page[c] \in Countdown
      BY <3>2, <1>b
    <3>4. /\ page'[c].left = page[c].left - 1 /\ page'[c].due = page[c].due
          /\ page'[c].fetch = page[c].fetch
      BY <3>1, <3>2, <3>3 DEF Render, Countdown
    <3>5. page[c].fetch.sent => now < page[c].fetch.at + FetchSeconds
      BY <1>7, <3>2 DEF ViewTick
    <3> QED
      BY <1>a, <1>b, <2>1, <3>2, <3>4, <3>5
  <2> QED
    BY <2>2 DEF CountdownInv
<1> QED
  BY <1>1, <1>2, <1>3, <1>4, <1>5, <1>6, <1>7, PageSteps

(* An open countdown ends with the time the server last told it of, late   *)
(* by no more than that answer was, however many syncs fail, whenever the  *)
(* daemon stops, and whatever the portal, the manager and the ticker do.   *)
THEOREM CountdownsEnd == ViewSpec => []CountdownEnds
<1>1. ViewInit => CountdownInv
  BY DEF ViewInit, CountdownInv, Closed
<1>2. TypeOK /\ PageTypeOK /\ PageTypeOK' /\ CountdownInv
        /\ [ViewNext]_viewVars => CountdownInv'
  BY CountdownStep
<1>3. TypeOK /\ PageTypeOK /\ CountdownInv => CountdownEnds
  <2> SUFFICES ASSUME TypeOK, PageTypeOK, CountdownInv,
                      NEW c \in Client, page[c].open
               PROVE  now <= page[c].due + FetchSeconds
    BY DEF CountdownEnds
  <2>1. page[c].left \in Nat /\ page[c].due \in Nat
    BY PageShape DEF Countdown
  <2> QED
    BY <2>1, ViewsAssumption DEF CountdownInv, TypeOK
<1> QED
  BY <1>1, <1>2, <1>3, PagesAreTyped, ViewsAreSessions, TypeCorrect, PTL
  DEF ViewSpec
-----------------------------------------------------------------------------
(***************************************************************************)
(* The portal tells the truth.                                             *)
(***************************************************************************)

(* Both ways, so both sets of hypotheses: a running session is online as   *)
(* in RunningSessionsAreOnline, and the restore begins with an empty set   *)
(* as in RebootRestoresTheSet.  Besides, nobody is in the set without a    *)
(* row: requests take less than a second, nft deletes what it is told to,  *)
(* no token is revoked under the request that sells it, and a device keeps *)
(* its address.  Each of these is needed.                                  *)
Truthful ==
  /\ Attended /\ Reboots
  /\ ~SlowHandlers
  /\ "delete" \notin Faults
  /\ "revoke" \notin AdminActs
  /\ \A c, d \in Client : MacOf(c) = MacOf(d) => c = d

(* What a request will insert is what it has let its client in for, to the *)
(* second; the device it moves the session from is off the network.        *)
Punctual(r) ==
  /\ req[r].pc \in {"create_authorize", "create_insert"} =>
       /\ token[req[r].token].status = "unused"
       /\ req[r].expires = now + Duration
  /\ req[r].pc = "create_insert" => fw[req[r].client] = req[r].expires
  /\ req[r].pc \in MovingPc =>
       session[req[r].old].expires = now + req[r].remaining
  /\ req[r].pc = "migrate_close" => fw[session[req[r].old].client] = 0
  /\ req[r].pc = "migrate_insert" =>
       fw[req[r].client] = session[req[r].old].expires

(* The kernel drops an element when it times out.                          *)
NotTimedOut == \A c \in Client : fw[c] # 0 => fw[c] > now

(* Whoever is in the set is there for a row that is active, or about to be *)
(* inserted.                                                               *)
InsertPc == {"create_insert", "migrate_insert"}
OnRecord ==
  mode = "up" => \A c \in Client : fw[c] # 0 =>
    \/ \E s \in ActiveSessions : /\ session[s].client = c
                                 /\ fw[c] <= session[s].expires
    \/ \E r \in Request : req[r].pc \in InsertPc /\ req[r].client = c

TruthInv == (\A r \in Request : Punctual(r)) /\ NotTimedOut /\ OnRecord

\* nft lets nobody in for no time.
LEMMA AddedForLonger ==
  ASSUME TypeOK, NEW c \in Client, NEW secs \in Nat \ {0}, AddElement(c, secs)
  PROVE  \A d \in Client : \/ fw'[d] = fw[d]
                           \/ fw'[d] > now
<1>1. fw' = fw \/ fw' = [fw EXCEPT ![c] = now + secs]
  BY DEF AddElement
<1>2. now + secs > now
  BY DEF TypeOK
<1> QED
  BY <1>1, <1>2 DEF TypeOK

\* What a step does to the set.
LEMMA SetSteps ==
  ASSUME IInv, [Next]_vars
  PROVE  \/ Tick
         \/ /\ now' = now
            /\ \A c \in Client : \/ fw'[c] = fw[c] \/ fw'[c] = 0
                                 \/ fw'[c] > now
<1>a. TypeOK /\ FetchedRowsExist /\ Duration \in Nat \ {0} /\ Grace \in Nat
  BY ConstantsAssumption DEF IInv
<1>1. CASE now' = now /\ fw' = fw
  BY <1>1
<1>2. ASSUME NEW c, DeleteElement(c)
      PROVE  \A d \in Client : fw'[d] = fw[d] \/ fw'[d] = 0
  BY <1>2, <1>a DEF DeleteElement, TypeOK
<1>3. ASSUME NEW r \in Request, PortalAuth(r)
      PROVE  /\ now' = now
             /\ \A c \in Client : \/ fw'[c] = fw[c] \/ fw'[c] = 0
                                  \/ fw'[c] > now
  <2>1. CASE CreateAuthorize(r)
    <3>1. req[r].client \in Client
      BY <2>1, <1>a, RequestShape DEF CreateAuthorize, Creating
    <3> QED
      BY <2>1, <3>1, <1>a, AddedForLonger DEF CreateAuthorize
  <2>2. CASE MigrateAuthorize(r)
    <3>1. req[r].client \in Client /\ req[r].remaining \in Nat \ {0}
      BY <2>2, <1>a, RequestShape DEF MigrateAuthorize, Migrating
    <3> QED
      BY <2>2, <3>1, <1>a, AddedForLonger DEF MigrateAuthorize
  <2>3. CASE MigrateDeauthorize(r)
    BY <2>3, <1>2 DEF MigrateDeauthorize
  <2> QED
    BY <1>1, <1>3, <2>1, <2>2, <2>3
    DEF PortalAuth, ValidateUnused, ValidateActive, CreateInsert,
        CreateRedeem, MigrateFind, MigrateFindsNothing, MigrateClose,
        MigrateInsert, InsertRefused, RequestFails
<1>4. ASSUME NEW s \in Session, BootRestore(s)
      PROVE  /\ now' = now
             /\ \A c \in Client : fw'[c] = fw[c] \/ fw'[c] > now
  <2>1. /\ job.pc = "loop" /\ s \in job.rows /\ Remaining(s) > Grace
        /\ AddElement(session[s].client, Remaining(s)) /\ now' = now
    BY <1>4 DEF BootRestore
  <2>2. session[s] \in SessionRow
    BY <2>1, <1>a, RowShape DEF FetchedRowsExist
  <2>3. session[s].client \in Client /\ session[s].expires \in Nat
    BY <2>2 DEF SessionRow
  <2>4. Remaining(s) \in Nat \ {0}
    BY <2>1, <2>3, <1>a DEF Remaining, TypeOK
  <2> QED
    BY <2>1, <2>3, <2>4, <1>a, AddedForLonger
<1>5. CASE JobStep
  <2>1. CASE \E s \in Session : TickerDeauthorize(s)
    BY <2>1, <1>2 DEF TickerDeauthorize
  <2> QED
    BY <1>1, <1>4, <1>5, <2>1
    DEF JobStep, TickerStart, BootStart, TickerSkip, BootExpire,
        ExpireSession, ExpireToken, JobStepFails, LoopEnd, PurgeFails,
        PurgeSessions, PurgeTokens
<1>6. CASE AdminStep
  <2>1. CASE DisconnectDeauthorize
    BY <2>1, <1>2 DEF DisconnectDeauthorize
  <2> QED
    BY <1>1, <1>6, <2>1
    DEF AdminStep, RevokeToken, DisconnectRead, DisconnectMark
<1>7. CASE Crash
  BY <1>7 DEF Crash
<1> QED
  BY <1>1, <1>3, <1>5, <1>6, <1>7 DEF Next, vars

\* So nothing that has timed out stays in it.
LEMMA NotTimedOutStep ==
  ASSUME IInv, IInv', NotTimedOut, [Next]_vars
  PROVE  NotTimedOut'
<1>1. \A c \in Client : fw[c] \in Nat /\ fw'[c] \in Nat /\ now \in Nat
  BY DEF IInv, TypeOK
<1>2. CASE Tick
  <2>1. /\ now' = now + 1
        /\ \A c \in Client : fw'[c] = IF fw[c] <= now + 1 THEN 0 ELSE fw[c]
    BY <1>2 DEF Tick
  <2> QED
    BY <1>1, <2>1 DEF NotTimedOut
<1>3. CASE ~Tick
  BY <1>3, SetSteps DEF NotTimedOut
<1> QED
  BY <1>2, <1>3
\* A request stays punctual while others take steps.
LEMMA PunctualServing ==
  ASSUME Truthful, IInv, OnlineInv, TruthInv, [Next]_vars,
         mode = "up", mode' = "up", \A r \in Request : ~PortalAuth(r),
         NEW r \in Request
  PROVE  Punctual(r)'
<1>a. TypeOK /\ FetchedRowsExist /\ Attended /\ Punctual(r)
  BY DEF IInv, Truthful, TruthInv
<1>b. req' = req /\ ((now' = now /\ fw' = fw) \/ Tick)
  BY <1>a, ServingSteps
<1>1. CASE Tick
  <2>1. req'[r].pc = "idle"
    BY <1>1, <1>b DEF Tick, Truthful, Busy, Idle
  <2> QED
    BY <2>1 DEF Punctual, MovingPc
<1>2. CASE ~Tick
  <2>1. now' = now /\ fw' = fw
    BY <1>2, <1>b
  <2>2. ASSUME req[r].pc \in {"create_authorize", "create_insert"}
        PROVE  token'[req[r].token].status = "unused"
    <3>1. req[r].token \in Token /\ token[req[r].token].status = "unused"
      BY <2>2, <1>a, RequestShape DEF Creating, Punctual
    <3>2. ~ExpireToken /\ \A t \in Token : ~RevokeToken(t)
      BY DEF ExpireToken, OnlineInv, NobodyTakenOff, RevokeToken, Truthful
    <3>3. CASE PurgeTokens
      BY <3>1, <3>3 DEF PurgeTokens
    <3>4. CASE ~PurgeTokens
      <4>1. token' = token
        BY <1>2, <3>2, <3>4
        DEF Next, AdminStep, DisconnectRead, DisconnectDeauthorize,
            DisconnectMark, JobStep, TickerStart, BootStart, TickerSkip,
            TickerDeauthorize, BootRestore, BootExpire, ExpireSession,
            JobStepFails, LoopEnd, PurgeFails, PurgeSessions, Crash, vars
      <4> QED
        BY <3>1, <4>1
    <3> QED
      BY <3>3, <3>4
  <2>3. ASSUME req[r].pc \in MovingPc
        PROVE  /\ session'[req[r].old].expires = session[req[r].old].expires
               /\ session'[req[r].old].client = session[req[r].old].client
    <3>1. req[r].old \in Session /\ Inserted(req[r].old)
      BY <2>3, <1>a, RequestShape DEF Migrating, FetchedRowsExist, MovingPc
    <3> QED
      BY <3>1, <1>a, RowsAreKept DEF SameRow
  <2> QED
    BY <1>a, <1>b, <2>1, <2>2, <2>3 DEF Punctual, MovingPc
<1> QED
  BY <1>1, <1>2

\* And when it goes on.
LEMMA PunctualRequest ==
  ASSUME Truthful, IInv, TypeOK', TruthInv, [Next]_vars,
         NEW r \in Request, PortalAuth(r)
  PROVE  Punctual(r)'
<1>a. /\ TypeOK /\ FetchedRowsExist /\ Attended /\ Punctual(r)
      /\ Duration \in Nat /\ now \in Nat
  BY ConstantsAssumption DEF IInv, Truthful, TruthInv, TypeOK
<1>1. ASSUME NEW t \in Token, NEW c \in Client,
             ValidateUnused(r, t, c) \/ ValidateActive(r, t, c)
      PROVE  Punctual(r)'
  BY <1>1, <1>a
  DEF ValidateUnused, ValidateActive, TypeOK, Punctual, MovingPc
<1>2. CASE CreateAuthorize(r)
  <2>1. /\ req[r].pc = "create_authorize" /\ req[r].client \in Client
        /\ req'[r].pc = "create_insert" /\ req'[r].client = req[r].client
        /\ req'[r].expires = req[r].expires /\ req'[r].token = req[r].token
        /\ now' = now /\ token' = token
    BY <1>2, <1>a, RequestShape, GotoKeeps DEF CreateAuthorize, Creating
  <2>2. fw'[req[r].client] = now + Duration
    BY <1>2, <1>a, <2>1, AddRestarts DEF CreateAuthorize
  <2> QED
    BY <2>1, <2>2, <1>a DEF Punctual, MovingPc
<1>3. CASE CreateInsert(r)
  <2>1. req'[r].pc = "create_redeem"
    BY <1>3, <1>a, RequestShape, GotoKeeps DEF CreateInsert
  <2> QED
    BY <2>1 DEF Punctual, MovingPc
<1>4. CASE \/ CreateRedeem(r) \/ MigrateFindsNothing(r) \/ MigrateInsert(r)
           \/ InsertRefused(r) \/ RequestFails(r)
  <2>1. req'[r].pc = "idle"
    BY <1>4, <1>a, FinishIdles
    DEF CreateRedeem, MigrateFindsNothing, MigrateInsert, InsertRefused,
        RequestFails
  <2> QED
    BY <2>1 DEF Punctual, MovingPc
<1>5. CASE MigrateFind(r)
  <2>1. PICK o \in ActiveSessions :
          IF Remaining(o) > 0
            THEN req' = [req EXCEPT ![r] =
                   [pc |-> "migrate_deauthorize", token |-> req[r].token,
                    client |-> req[r].client, old |-> o,
                    remaining |-> Remaining(o)]]
            ELSE Finish(r)
    BY <1>5 DEF MigrateFind
  <2>2. CASE Remaining(o) > 0
    <3>1. /\ req'[r].pc = "migrate_deauthorize" /\ req'[r].old = o
          /\ req'[r].remaining = Remaining(o)
      BY <2>1, <2>2, <1>a DEF TypeOK
    <3>2. session' = session /\ now' = now
      BY <1>5 DEF MigrateFind
    <3>3. session[o].expires \in Nat
      BY <1>a, RowShape DEF ActiveSessions, Inserted, SessionRow
    <3>4. session[o].expires = now + Remaining(o)
      BY <2>2, <3>3, <1>a DEF Remaining
    <3> QED
      BY <3>1, <3>2, <3>4 DEF Punctual, MovingPc
  <2>3. CASE ~(Remaining(o) > 0)
    <3>1. req'[r].pc = "idle"
      BY <2>1, <2>3, <1>a, FinishIdles
    <3> QED
      BY <3>1 DEF Punctual, MovingPc
  <2> QED
    BY <2>2, <2>3
<1>6. ASSUME MigrateDeauthorize(r) \/ MigrateClose(r) \/ MigrateAuthorize(r)
      PROVE  /\ req[r].pc \in MovingPc /\ req'[r].pc \in MovingPc
             /\ req'[r].client = req[r].client /\ req'[r].old = req[r].old
             /\ req'[r].remaining = req[r].remaining /\ now' = now
             /\ req[r].old \in Session /\ req[r].client \in Client
             /\ req[r].remaining \in Nat
             /\ session[req[r].old].client \in Client
             /\ session'[req[r].old].client = session[req[r].old].client
             /\ session'[req[r].old].expires = now + req[r].remaining
             /\ session[req[r].old].expires = now + req[r].remaining
  <2>1. /\ req[r] \in Migrating /\ req[r].pc \in MovingPc
        /\ req'[r].pc \in MovingPc /\ now' = now
        /\ req'[r].client = req[r].client /\ req'[r].old = req[r].old
        /\ req'[r].remaining = req[r].remaining
    BY <1>6, <1>a, RequestShape, GotoKeeps
    DEF MigrateDeauthorize, MigrateClose, MigrateAuthorize, MovingPc
  <2>2. req[r].old \in Session /\ Inserted(req[r].old)
    BY <2>1, <1>a DEF Migrating, FetchedRowsExist, MovingPc
  <2>3. /\ session[req[r].old].client \in Client
        /\ session'[req[r].old].client = session[req[r].old].client
        /\ session'[req[r].old].expires = session[req[r].old].expires
    BY <2>2, <1>a, RowsAreKept, RowShape DEF SameRow, SessionRow
  <2>4. session[req[r].old].expires = now + req[r].remaining
    BY <2>1, <1>a DEF Punctual
  <2> QED
    BY <2>1, <2>2, <2>3, <2>4 DEF Migrating
<1>7. CASE MigrateDeauthorize(r)
  <2>1. fw'[session[req[r].old].client] = 0 /\ req'[r].pc = "migrate_close"
    BY <1>6, <1>7, <1>a, RequestShape, GotoKeeps
    DEF MigrateDeauthorize, DeleteElement, Truthful, TypeOK
  <2> QED
    BY <1>6, <1>7, <2>1 DEF Punctual, MovingPc
<1>8. CASE MigrateClose(r)
  <2>1. req'[r].pc = "migrate_authorize"
    BY <1>8, <1>a, RequestShape, GotoKeeps DEF MigrateClose
  <2> QED
    BY <1>6, <1>8, <2>1 DEF Punctual, MovingPc
<1>9. CASE MigrateAuthorize(r)
  <2>1. /\ req'[r].pc = "migrate_insert"
        /\ fw'[req[r].client] = now + req[r].remaining
    BY <1>6, <1>9, <1>a, RequestShape, GotoKeeps, AddRestarts
    DEF MigrateAuthorize
  <2> QED
    BY <1>6, <1>9, <2>1 DEF Punctual, MovingPc
<1> QED
  BY <1>1, <1>2, <1>3, <1>4, <1>5, <1>7, <1>8, <1>9 DEF PortalAuth

\* Nobody is in the set without a record, after a step of a handler.
LEMMA OnRecordRequest ==
  ASSUME Truthful, IInv, TypeOK', OnlineInv, TruthInv, [Next]_vars,
         NEW r \in Request, PortalAuth(r), NEW c \in Client, fw'[c] # 0
  PROVE  \/ \E s \in Session : /\ session'[s].status = "active"
                               /\ session'[s].client = c
                               /\ fw'[c] <= session'[s].expires
         \/ req'[r].pc \in InsertPc /\ req'[r].client = c
<1>a. /\ TypeOK /\ FetchedRowsExist /\ DownIdle /\ Attended
      /\ LetIn(r) /\ Punctual(r) /\ OnRecord
      /\ \A q \in Request : q = r
  BY DEF IInv, OnlineInv, Truthful, TruthInv, Attended
<1>b. mode = "up"
  BY <1>a, NoHandlerStep
\* A row that is still active goes on backing an element.
<1>c. ASSUME fw'[c] = fw[c], req[r].pc \in InsertPc => req[r].client # c,
             \A s \in Session :
               session[s].status = "active" /\ session[s].client = c =>
                 session'[s].status = "active"
      PROVE  \E s \in Session : /\ session'[s].status = "active"
                                /\ session'[s].client = c
                                /\ fw'[c] <= session'[s].expires
  <2>1. PICK s \in Session : /\ session[s].status = "active"
                             /\ session[s].client = c
                             /\ fw[c] <= session[s].expires
    BY <1>a, <1>b, <1>c DEF OnRecord, ActiveSessions
  <2>2. /\ session'[s].client = session[s].client
        /\ session'[s].expires = session[s].expires
    BY <2>1, RowsAreKept DEF SameRow, Inserted
  <2> QED
    BY <1>c, <2>1, <2>2
<1>1. CASE \/ \E t \in Token, d \in Client :
                ValidateUnused(r, t, d) \/ ValidateActive(r, t, d)
           \/ CreateRedeem(r) \/ MigrateFind(r) \/ MigrateFindsNothing(r)
  <2>1. /\ session' = session /\ fw' = fw
        /\ req[r].pc \notin InsertPc
    BY <1>1
    DEF ValidateUnused, ValidateActive, Starts, CreateRedeem, MigrateFind,
        MigrateFindsNothing, Idle, InsertPc
  <2> QED
    BY <2>1, <1>c
<1>2. CASE CreateAuthorize(r) \/ MigrateAuthorize(r)
  <2>1. /\ session' = session /\ req[r].pc \notin InsertPc
        /\ req'[r].pc \in InsertPc /\ req'[r].client = req[r].client
        /\ req[r].client \in Client
        /\ \E secs \in Nat : AddElement(req[r].client, secs)
    BY <1>2, <1>a, RequestShape, GotoKeeps, ConstantsAssumption
    DEF CreateAuthorize, MigrateAuthorize, Creating, Migrating, InsertPc
  <2>2. c # req[r].client => fw'[c] = fw[c]
    BY <2>1, <1>a, AddRestarts
  <2> QED
    BY <2>1, <2>2, <1>c
<1>3. CASE CreateInsert(r) \/ MigrateInsert(r)
  <2>1. PICK new \in Session :
          Adding(new, req[r].token, req[r].client,
                 IF req[r].pc = "create_insert" THEN req[r].expires
                 ELSE session[req[r].old].expires)
    BY <1>3, RequestAdds
  <2>2. /\ fw' = fw /\ req[r].pc \in InsertPc /\ req[r].client \in Client
    BY <1>3, <1>a, RequestShape
    DEF CreateInsert, MigrateInsert, InsertPc, Creating, Migrating
  <2>3. CASE req[r].client = c
    <3>1. /\ session'[new].status = "active" /\ session'[new].client = c
          /\ session'[new].expires =
               IF req[r].pc = "create_insert" THEN req[r].expires
               ELSE session[req[r].old].expires
      BY <2>1, <2>3 DEF Adding
    <3>2. session'[new].expires = fw[c]
      BY <2>2, <2>3, <3>1, <1>a DEF Punctual, InsertPc
    <3>3. fw[c] \in Nat
      BY <1>a DEF TypeOK
    <3> QED
      BY <2>2, <3>1, <3>2, <3>3
  <2>4. CASE req[r].client # c
    <3>1. MacOf(c) # MacOf(req[r].client)
      BY <2>2, <2>4 DEF Truthful
    <3>2. \A s \in Session :
            session[s].status = "active" /\ session[s].client = c =>
              session'[s].status = "active"
      BY <2>1, <3>1 DEF Adding, Inserted
    <3> QED
      BY <2>2, <2>4, <3>2, <1>c
  <2> QED
    BY <2>3, <2>4
<1>4. CASE MigrateDeauthorize(r)
  <2>1. /\ session' = session /\ req[r].pc \notin InsertPc
        /\ fw' = [fw EXCEPT ![session[req[r].old].client] = 0]
    BY <1>4 DEF MigrateDeauthorize, DeleteElement, Truthful, InsertPc
  <2>2. fw'[c] = fw[c]
    BY <2>1, <1>a DEF TypeOK
  <2> QED
    BY <2>1, <2>2, <1>c
<1>5. CASE MigrateClose(r)
  <2>1. /\ fw' = fw /\ req[r].pc = "migrate_close" /\ req[r].old \in Session
        /\ SetSession(req[r].old, "disconnected")
    BY <1>5, <1>a, RequestShape DEF MigrateClose, Migrating
  <2>2. session[req[r].old].client # c
    BY <2>1, <1>a DEF Punctual
  <2>3. \A s \in Session : s # req[r].old => session'[s] = session[s]
    BY <2>1, <1>a, SetSessionCloses
  <2> QED
    BY <2>1, <2>2, <2>3, <1>c DEF InsertPc
<1>6. ~InsertRefused(r) /\ ~RequestFails(r)
  BY <1>a
  DEF InsertRefused, RequestFails, Attended, Punctual, LetIn, MovingPc
<1> QED
  BY <1>1, <1>2, <1>3, <1>4, <1>5, <1>6 DEF PortalAuth
\* Nor after a step of anybody else, or of the restore.
LEMMA OnRecordServing ==
  ASSUME Truthful, IInv, OnlineInv, RestoreInv, TruthInv, [Next]_vars,
         mode' = "up", \A r \in Request : ~PortalAuth(r)
  PROVE  OnRecord'
<1>a. /\ TypeOK /\ DownIdle /\ Attended /\ OnRecord /\ "job" \notin Faults
  BY DEF IInv, OnlineInv, Truthful, TruthInv, Attended
<1>1. CASE mode = "up"
  <2>1. /\ req' = req /\ (fw' = fw \/ Tick)
        /\ \A s \in Session :
             \/ session'[s] = session[s]
             \/ session[s].status # "active" /\ session'[s].status # "active"
    BY <1>1, <1>a, ServingSteps
  <2>2. \A c \in Client : fw'[c] # 0 => fw'[c] = fw[c]
    BY <2>1 DEF Tick
  <2> QED
    BY <1>1, <1>a, <2>1, <2>2 DEF OnRecord, ActiveSessions
<1>2. CASE mode # "up"
  <2>1. PurgeTokens
    BY <1>2, <1>a, ModeSteps DEF Crash, BootStart, PurgeFails
  <2>2. mode = "booting"
    BY <1>2, <1>a, <2>1
    DEF IInv, TypeOK, OnlineInv, NobodyTakenOff, PurgeTokens, Idle
  <2>3. /\ session' = session /\ fw' = fw
        /\ \A c \in Client : fw[c] # 0 =>
             \E s \in ActiveSessions : /\ session[s].client = c
                                       /\ fw[c] = session[s].expires
    BY <2>1, <2>2 DEF PurgeTokens, RestoreInv, GrantedToRunning
  <2>4. \A c \in Client : fw[c] <= fw[c]
    BY <1>a DEF TypeOK
  <2> QED
    BY <2>3, <2>4 DEF OnRecord, ActiveSessions
<1> QED
  BY <1>1, <1>2

\* So the truth stays the truth.
LEMMA TruthStep ==
  ASSUME Truthful, IInv, IInv', DownIdle', OnlineInv, RestoreInv, TruthInv,
         [Next]_vars
  PROVE  TruthInv'
<1>a. TypeOK /\ TypeOK' /\ DownIdle /\ \A r, q \in Request : r = q
  BY DEF IInv, OnlineInv, Truthful, Attended
<1>1. NotTimedOut'
  BY NotTimedOutStep DEF TruthInv
<1>2. CASE \E r \in Request : PortalAuth(r)
  <2>1. PICK r \in Request : PortalAuth(r)
    BY <1>2
  <2>2. \A q \in Request : Punctual(q)'
    BY <1>a, <2>1, PunctualRequest
  <2>3. OnRecord'
    BY <1>a, <2>1, OnRecordRequest DEF OnRecord, ActiveSessions
  <2> QED
    BY <1>1, <2>2, <2>3 DEF TruthInv
<1>3. CASE \A r \in Request : ~PortalAuth(r)
  <2>1. CASE mode' # "up"
    <3>1. \A r \in Request : req'[r].pc = "idle"
      BY <2>1 DEF DownIdle, Idle
    <3> QED
      BY <1>1, <2>1, <3>1 DEF TruthInv, Punctual, MovingPc, OnRecord
  <2>2. CASE mode' = "up" /\ mode = "up"
    <3>1. \A r \in Request : Punctual(r)'
      BY <1>3, <2>2, PunctualServing
    <3> QED
      BY <1>1, <1>3, <2>2, <3>1, OnRecordServing DEF TruthInv
  <2>3. CASE mode' = "up" /\ mode # "up"
    <3>1. PurgeTokens \/ PurgeFails
      BY <2>3, ModeSteps DEF Crash, BootStart
    <3>2. \A r \in Request : req'[r].pc = "idle"
      BY <2>3, <3>1, <1>a DEF DownIdle, PurgeTokens, PurgeFails, Idle
    <3> QED
      BY <1>1, <1>3, <2>3, <3>2, OnRecordServing
      DEF TruthInv, Punctual, MovingPc
  <2> QED
    BY <2>1, <2>2, <2>3
<1> QED
  BY <1>2, <1>3

\* A client that is told of a session is in the set, and the other way round.
LEMMA TruthIsTold ==
  ASSUME IInv, TruthInv, LiveSessionOnline
  PROVE  ToldTheTruth
<1> SUFFICES ASSUME Quiet, NEW c \in Client
    PROVE  ~Captive(c, TRUE) <=> \E i \in Ip : fw[<<MacOf(c), i>>] # 0
  BY DEF ToldTheTruth
<1>a. /\ TypeOK /\ NotTimedOut /\ OnRecord
      /\ mode = "up" /\ Busy = {} /\ admin = Idle /\ job.pc = "idle"
  BY DEF IInv, TruthInv, Quiet, Idle
<1>1. ~Captive(c, TRUE) <=> SessionsByMac(MacOf(c)) # {}
  BY <1>a, AnswerType DEF Captive, ShowsCountdown
<1>2. ASSUME NEW s \in SessionsByMac(MacOf(c))
      PROVE  \E i \in Ip : fw[<<MacOf(c), i>>] # 0
  <2>1. s \in ActiveSessions /\ s \in Session /\ session[s].expires > now
        /\ MacOf(session[s].client) = MacOf(c)
    BY <1>2 DEF SessionsByMac, LiveSessions, ActiveSessions
  <2>2. session[s].client \in Client /\ session[s].expires \in Nat
        /\ now \in Nat
    BY <2>1, <1>a, RowShape DEF ActiveSessions, Inserted, SessionRow, TypeOK
  <2>3. fw[session[s].client] >= session[s].expires
    BY <2>1, <1>a DEF LiveSessionOnline
  <2>4. fw[session[s].client] # 0
    BY <2>1, <2>2, <2>3, <1>a DEF TypeOK
  <2>5. PICK i \in Ip : session[s].client = <<MacOf(c), i>>
    BY <2>1, <2>2 DEF Client, MacOf
  <2> QED
    BY <2>4, <2>5
<1>3. ASSUME NEW i \in Ip, fw[<<MacOf(c), i>>] # 0
      PROVE  SessionsByMac(MacOf(c)) # {}
  <2> DEFINE d == <<MacOf(c), i>>
  <2>1. d \in Client /\ MacOf(d) = MacOf(c)
    BY DEF Client, MacOf
  <2>2. \A r \in Request : req[r].pc \notin InsertPc
    BY <1>a DEF Busy, Idle, InsertPc
  <2>3. PICK s \in ActiveSessions :
          session[s].client = d /\ fw[d] <= session[s].expires
    BY <1>3, <1>a, <2>1, <2>2 DEF OnRecord
  <2>4. fw[d] > now
    BY <1>3, <1>a, <2>1 DEF NotTimedOut
  <2>5. session[s].expires \in Nat /\ now \in Nat /\ fw[d] \in Nat
    BY <2>1, <1>a, RowShape DEF ActiveSessions, Inserted, SessionRow, TypeOK
  <2>6. session[s].expires > now
    BY <2>3, <2>4, <2>5
  <2>7. s \in SessionsByMac(MacOf(c))
    BY <2>1, <2>3, <2>6 DEF SessionsByMac, LiveSessions
  <2> QED
    BY <2>7
<1> QED
  BY <1>1, <1>2, <1>3

(* While nothing is in flight, the portal and the RFC 8908 API report a    *)
(* session exactly if the kernel lets the device through: before the       *)
(* ticker has seen that a row is over, after migrations and a second token *)
(* on the same device, and after a reboot that cut any handler short.      *)
THEOREM CustomersAreToldTheTruth ==
  ASSUME Truthful
  PROVE  ViewSpec => []ToldTheTruth
<1>a. Attended /\ Reboots
  BY DEF Truthful
<1>1. Init => TruthInv
  <2> SUFFICES ASSUME Init PROVE TruthInv
    OBVIOUS
  <2>1. \A r \in Request : req[r].pc = "idle"
    BY DEF Init, Idle
  <2> QED
    BY <2>1
    DEF Init, TruthInv, Punctual, MovingPc, NotTimedOut, OnRecord
<1>2. IInv /\ IInv' /\ OnlineInv /\ OnlineInv' /\ RestoreInv /\ TruthInv
        /\ [Next]_vars => TruthInv'
  BY TruthStep DEF OnlineInv
<1>3. Spec => [](IInv /\ OnlineInv /\ RestoreInv)
  BY <1>a, InductiveInvariant, OnlineInductive, RestoreInductive, PTL
<1>4. Spec => []TruthInv
  BY <1>1, <1>2, <1>3, PTL DEF Spec
<1>5. Spec => []LiveSessionOnline
  BY <1>a, RunningSessionsAreOnline
<1> QED
  BY <1>3, <1>4, <1>5, TruthIsTold, ViewsAreSessions, PTL
=============================================================================
