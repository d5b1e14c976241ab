----------------------------- MODULE Catalogue -----------------------------
(***************************************************************************)
(* What the manager does with tokens: batches that are inserted one by     *)
(* one, the token lists with their filters and pages, and the figures of   *)
(* the dashboard.  What customers, the ticker and the purge do to a        *)
(* token's row is here one step each; Sessions has it in detail.           *)
(*                                                                         *)
(* Time is in days, the resolution of the figures.                         *)
(***************************************************************************)
EXTENDS Integers, Sequences, SequencesExt, FiniteSets

CONSTANTS
  Code,        \* what the random generator may come up with
  Handler,     \* admin requests that may run at one time
  PerPage,     \* TOKENS_PER_PAGE
  MaxBatch,    \* tokens per form: the code's bound is 100
  Week,        \* days in the weekly chart: 7 in the code
  Retention,   \* session.retention_days
  Tie,         \* what SQLite may order the rows of one second by
  MaxDay,      \* bound of the clock
  MaxSecond    \* bound of the creation times

ASSUME CatalogueAssumption ==
  /\ Code # {}
  /\ PerPage \in Nat \ {0}
  /\ MaxBatch \in Nat \ {0}
  /\ Week \in Nat \ {0}
  /\ Retention \in Nat \ {0}    \* Config::validate
  /\ Tie # {} /\ Tie \subseteq Nat
  /\ MaxDay \in Nat \ {0} /\ MaxSecond \in Nat

VARIABLES
  today,
  tokens,   \* the rows of table token, in the order they were inserted
  coming,   \* codes of portal requests that will redeem them
  handler,  \* the admin requests' program counters and locals
  walk,     \* a manager who looks at one page of all tokens after another
  handed,   \* history: in how many answers a code was handed out
  sold      \* history: tokens redeemed on each day

vars == <<today, tokens, coming, handler, walk, handed, sold>>
tokenVars == <<tokens, coming, walk, handed, sold>>

Status == {"unused", "active", "expired", "revoked"}
Row == [code: Code, status: Status, created: 0..MaxSecond, tie: Tie,
        redeemed: Nat, expires: Nat]

Idle == [pc |-> "idle"]
Generating == [pc: {"insert"}, codes: SeqOf(Code, MaxBatch), next: 1..MaxBatch]

Resting == [pc |-> "rest"]
Walking == [pc: {"count", "list"}, page: Nat \ {0}, total: Nat,
            sought: Code,
            cut: BOOLEAN]  \* history: the sought row was deleted, or one
                           \* that was listed before it

(* Every variable has its type; in particular a batch that goes on has a   *)
(* code left to insert.                                                    *)
TypeOK ==
  /\ today \in 1..MaxDay
  /\ tokens \in Seq(Row)
  /\ coming \subseteq Code
  /\ handler \in [Handler -> {Idle} \cup Generating]
  /\ \A h \in Handler : handler[h].pc = "insert" =>
       handler[h].next <= Len(handler[h].codes)
  /\ walk \in {Resting} \cup Walking
  /\ handed \in [Code -> Nat]
  /\ sold \in [1..MaxDay -> Nat]

Init ==
  /\ today = 1
  /\ tokens = << >>
  /\ coming = {}
  /\ handler = [h \in Handler |-> Idle]
  /\ walk = Resting
  /\ handed = [c \in Code |-> 0]
  /\ sold = [d \in 1..MaxDay |-> 0]

-----------------------------------------------------------------------------
(***************************************************************************)
(* Batches.                                                                *)
(***************************************************************************)

Codes == {tokens[i].code : i \in DOMAIN tokens}

\* The form passes its checks (an active plan, 1 to MaxBatch tokens), and all
\* codes are drawn at once; nothing makes them differ from each other or from
\* the table's.
GenerateStart(h) ==
  /\ handler[h] = Idle
  /\ \E codes \in SeqOf(Code, MaxBatch) \ {<< >>} :
       handler' = [handler EXCEPT ![h] =
         [pc |-> "insert", codes |-> codes, next |-> 1]]
  /\ UNCHANGED today /\ UNCHANGED tokenVars

\* A row's creation time has seconds: the second of the last one, or a later.
LastSecond == IF tokens = << >> THEN 0 ELSE tokens[Len(tokens)].created

NextCode(h) == handler[h].codes[handler[h].next]

\* Mutant: off by one.
IsLastTooLate(h) == handler[h].next > Len(handler[h].codes)

IsLast(h) == handler[h].next = Len(handler[h].codes)

\* The next code's turn; after the last one the handler answers the codes.
Advance(h) ==
  IF IsLast(h)
    THEN /\ handler' = [handler EXCEPT ![h] = Idle]
         /\ handed' = [c \in Code |->
              handed[c] + Cardinality({i \in DOMAIN handler[h].codes :
                                         handler[h].codes[i] = c})]
    ELSE /\ handler' = [handler EXCEPT ![h].next = @ + 1]
         /\ handed' = handed

\* INSERT INTO token.  The row's place among those of its second is whatever
\* SQLite's scan makes it.
GenerateInsert(h) ==
  /\ handler[h].pc = "insert"
  /\ NextCode(h) \notin Codes
  /\ \E second \in {LastSecond, LastSecond + 1} \cap 0..MaxSecond, t \in Tie :
       tokens' = Append(tokens,
         [code |-> NextCode(h), status |-> "unused", created |-> second,
          tie |-> t, redeemed |-> 0, expires |-> 0])
  /\ Advance(h)
  /\ UNCHANGED <<today, coming, walk, sold>>

\* Mutant: a code that is taken is skipped and answered all the same.
GenerateFailsSilently(h) ==
  /\ handler[h].pc = "insert"
  /\ NextCode(h) \in Codes
  /\ Advance(h)
  /\ UNCHANGED <<today, tokens, coming, walk, sold>>

\* The code is taken (UNIQUE), or the database fails: the answer is an error
\* and the rows inserted so far stay.
GenerateFails(h) ==
  /\ handler[h].pc = "insert"
  /\ handler' = [handler EXCEPT ![h] = Idle]
  /\ UNCHANGED today /\ UNCHANGED tokenVars

-----------------------------------------------------------------------------
(***************************************************************************)
(* What becomes of a token.                                                *)
(***************************************************************************)

SetRow(i, row) == tokens' = [tokens EXCEPT ![i] = row]

\* The portal reads the token as unused and will redeem it some awaits later.
Validate(i) ==
  /\ tokens[i].status = "unused"
  /\ coming' = coming \cup {tokens[i].code}
  /\ UNCHANGED <<today, tokens, handler, walk, handed, sold>>

\* redeem_token, whatever the status is by then.  A plan lasts a day at most:
\* the token expires on the same day or on the next.
Redeem(i) ==
  /\ tokens[i].code \in coming
  /\ coming' = coming \ {tokens[i].code}
  /\ \E end \in {today, today + 1} :
       SetRow(i, [tokens[i] EXCEPT !.status = "active", !.redeemed = today,
                                   !.expires = end])
  /\ sold' = [sold EXCEPT ![today] = @ + 1]
  /\ UNCHANGED <<today, handler, walk, handed>>

Over(row) == row.expires <= today

\* The ticker.
ExpireToken(i) ==
  /\ tokens[i].status = "active" /\ Over(tokens[i])
  /\ SetRow(i, [tokens[i] EXCEPT !.status = "expired"])
  /\ UNCHANGED <<today, coming, handler, walk, handed, sold>>

\* UPDATE token SET status = 'revoked' WHERE id = ? AND status = 'unused'
RevokeToken(i) ==
  /\ tokens[i].status = "unused"
  /\ SetRow(i, [tokens[i] EXCEPT !.status = "revoked"])
  /\ UNCHANGED <<today, coming, handler, walk, handed, sold>>

\* Mutant: the purge forgets that sessions have a retention.
PurgeableAtOnce(row, days) == row.status \in {"expired", "revoked"}

\* A token goes when its last session has, which started with the redemption
\* or, after a migration, later.
Purgeable(row, days) ==
  \/ row.status = "revoked"         \* and has never had a session
  \/ row.status = "expired" /\ row.redeemed + days <= today

\* The codes of the batches that are being inserted.
Unanswered == UNION {Range(handler[h].codes) :
                       h \in {g \in Handler : handler[g].pc = "insert"}}

\* ORDER BY created_at DESC says nothing of rows of one second, as those of a
\* batch are: they come in the order of SQLite's scan, the same for each page.
Before(i, j) ==
  \/ tokens[i].created > tokens[j].created
  \/ /\ tokens[i].created = tokens[j].created
     /\ \/ tokens[i].tie < tokens[j].tie
        \/ tokens[i].tie = tokens[j].tie /\ i < j

\* Deleting these moves the token that is looked for to the front, or away.
Cuts(gone) ==
  /\ walk # Resting
  /\ \E i, j \in DOMAIN tokens : /\ tokens[i].code = walk.sought
                                /\ tokens[j].code \in gone
                                /\ (i = j \/ Before(j, i))

\* DELETE FROM token: the rows that stay keep their order.
Delete(gone) ==
  LET kept == {i \in DOMAIN tokens : tokens[i].code \notin gone}
      n == Cardinality(kept)
  IN \E place \in Bijection(1..n, kept) :
       /\ \A j, k \in 1..n : j < k => place[j] < place[k]
       /\ tokens' = [k \in 1..n |-> tokens[place[k]]]

\* A code that is gone may be drawn again.  No token is revoked and purged
\* while its own batch is still being inserted, which takes milliseconds.
\* What was redeemed exactly Retention days ago goes when the hour has come.
PurgeTokens ==
  LET due(days) == {row.code : row \in {r \in Range(tokens) :
                                          Purgeable(r, days)}}
  IN \E gone \in SUBSET due(Retention) :
     /\ due(Retention + 1) \subseteq gone
     /\ gone # {} /\ gone \cap Unanswered = {}
     /\ Delete(gone)
     /\ coming' = coming \ gone        \* the foreign key refuses a session
     /\ handed' = [c \in Code |-> IF c \in gone THEN 0 ELSE handed[c]]
     /\ walk' = IF Cuts(gone) THEN [walk EXCEPT !.cut = TRUE] ELSE walk
     /\ UNCHANGED <<today, handler, sold>>

Midnight ==
  /\ today < MaxDay
  /\ today' = today + 1
  /\ UNCHANGED handler /\ UNCHANGED tokenVars

-----------------------------------------------------------------------------
(***************************************************************************)
(* Lists.                                                                  *)
(***************************************************************************)

\* Mutant: an expired row is what the ticker has marked.
MatchesRaw(row, f) ==
  CASE f = "all" -> TRUE
    [] f = "current" -> \/ row.status = "unused"
                        \/ row.status = "active" /\ ~Over(row)
    [] f = "active" -> row.status = "active" /\ ~Over(row)
    [] OTHER -> row.status = f

\* The WHERE clauses, which the COUNT queries repeat.
Matches(row, f) ==
  CASE f = "all" -> TRUE
    [] f = "current" -> \/ row.status = "unused"
                        \/ row.status = "active" /\ ~Over(row)
    [] f = "active" -> row.status = "active" /\ ~Over(row)
    [] f = "expired" -> \/ row.status = "expired"
                        \/ row.status = "active" /\ Over(row)
    [] OTHER -> row.status = f

\* The status column of the SELECT, which the page shows as a badge.
Badge(row, f) ==
  CASE f = "all" -> IF row.status = "active" /\ Over(row) THEN "expired"
                    ELSE row.status
    [] f = "expired" -> "expired"
    [] OTHER -> row.status

Count(f) == Cardinality({i \in DOMAIN tokens : Matches(tokens[i], f)})

Rank(f, i) == Cardinality({j \in DOMAIN tokens : /\ Matches(tokens[j], f)
                                                 /\ Before(j, i)})

\* Mutant: pages count from 0.
PageFromZero(f, p) ==
  {i \in DOMAIN tokens : /\ Matches(tokens[i], f)
                         /\ Rank(f, i) >= p * PerPage
                         /\ Rank(f, i) < (p + 1) * PerPage}

\* LIMIT per_page OFFSET (page - 1) * per_page
Page(f, p) ==
  {i \in DOMAIN tokens : /\ Matches(tokens[i], f)
                         /\ Rank(f, i) >= (p - 1) * PerPage
                         /\ Rank(f, i) < p * PerPage}

TotalPages(total) == (total + PerPage - 1) \div PerPage
HasNext(p, total) == p < TotalPages(total)

\* parse_token_query: a page below 1 is 1, an unknown filter is "current".
\* One of the tokens is looked for: it stands for each of them.
WalkStart ==
  /\ walk = Resting
  /\ \E c \in Codes :
       walk' = [pc |-> "count", page |-> 1, total |-> 0, sought |-> c,
                cut |-> FALSE]
  /\ UNCHANGED <<today, tokens, coming, handler, handed, sold>>

\* list_tokens_paged: the count and the page are two statements.
WalkCount ==
  /\ walk.pc = "count"
  /\ walk' = [walk EXCEPT !.pc = "list", !.total = Count("all")]
  /\ UNCHANGED <<today, tokens, coming, handler, handed, sold>>

Found == \E i \in Page("all", walk.page) : tokens[i].code = walk.sought

\* The manager reads the page and turns it, if the token is not on it and it
\* is not the last one.
WalkList ==
  /\ walk.pc = "list"
  /\ walk' = IF Found \/ ~HasNext(walk.page, walk.total)
       THEN Resting
       ELSE [walk EXCEPT !.pc = "count", !.page = @ + 1, !.total = 0]
  /\ UNCHANGED <<today, tokens, coming, handler, handed, sold>>

-----------------------------------------------------------------------------
(***************************************************************************)
(* Figures.                                                                *)
(***************************************************************************)

Counts(row) == row.status \in {"active", "expired"}

\* get_daily_stats: redeemed_at >= date('now')
SoldToday == Cardinality({i \in DOMAIN tokens : /\ Counts(tokens[i])
                                                /\ tokens[i].redeemed >= today})

\* get_weekly_stats: date(redeemed_at) = the chart's day
SoldOn(day) == Cardinality({i \in DOMAIN tokens : /\ Counts(tokens[i])
                                                  /\ tokens[i].redeemed = day})

Chart == {d \in 1..today : d > today - Week}

-----------------------------------------------------------------------------
AdminStep ==
  \/ \E h \in Handler :
       GenerateStart(h) \/ GenerateInsert(h) \/ GenerateFails(h)
  \/ WalkStart \/ WalkCount \/ WalkList

TokenStep ==
  \/ \E i \in DOMAIN tokens :
       Validate(i) \/ Redeem(i) \/ ExpireToken(i) \/ RevokeToken(i)
  \/ PurgeTokens

Next == AdminStep \/ TokenStep \/ Midnight

Spec == Init /\ [][Next]_vars

-----------------------------------------------------------------------------
(* A code is handed out to one manager, once, and the token is there to be *)
(* sold: although batches overlap, draw the same codes and fail half-way,  *)
(* no answer lists a code that another batch, or the same one, has.        *)
HandedOutOnce ==
  \A c \in Code : handed[c] <= 1 /\ (handed[c] = 1 => c \in Codes)

(* The filters divide the tokens: each token is on the list of exactly one *)
(* status, with that status as its badge there and on the list of all, and *)
(* the current ones are the unused and the active; the ticker's delay does *)
(* not show.                                                               *)
FiltersPartition ==
  \A i \in DOMAIN tokens :
    LET row == tokens[i]
        badge == Badge(row, "all")
    IN /\ \A f \in Status : Matches(row, f) <=> f = badge
       /\ Badge(row, badge) = badge
       /\ Matches(row, "current") <=> badge \in {"unused", "active"}

(* A manager who turns page after page passes no token that was there at  *)
(* the start, whatever is inserted meanwhile, between the two statements   *)
(* of a page too, and in whatever order SQLite lists the rows of a second. *)
(* Only two things keep one from being seen: the purge of a row listed     *)
(* before it, or rows that come between the statements of the last page    *)
(* and push it behind that page, where the count knew of none.             *)
WalkMissesNothing ==
  [][walk.pc = "list" /\ walk' = Resting /\ ~walk.cut =>
       \A i \in DOMAIN tokens : tokens[i].code = walk.sought =>
         \/ i \in Page("all", walk.page)
         \/ /\ Rank("all", i) >= walk.page * PerPage
            /\ Count("all") > walk.total]_vars

(* The week's chart forgets no sale as long as sessions are kept for a     *)
(* week: each of its days counts the tokens redeemed on it, whatever has   *)
(* become of them, and its last bar is the dashboard's figure.             *)
ChartKeepsSales ==
  /\ \A d \in Chart : SoldOn(d) = sold[d]
  /\ SoldToday = sold[today]
=============================================================================
