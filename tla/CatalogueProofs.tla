--------------------------- MODULE CatalogueProofs ---------------------------
(***************************************************************************)
(* What Catalogue promises to the staff, for any number of codes, forms    *)
(* and rows, any page and batch size and any retention.                    *)
(***************************************************************************)
EXTENDS Catalogue, FiniteSetTheorems, SequenceTheorems, TLAPS

-----------------------------------------------------------------------------
(***************************************************************************)
(* The rows.                                                               *)
(***************************************************************************)

\* The rows of a table.
LEMMA RowsShape ==
  ASSUME tokens \in Seq(Row)
  PROVE  /\ Len(tokens) \in Nat
         /\ DOMAIN tokens = 1..Len(tokens)
         /\ \A i \in DOMAIN tokens : tokens[i] \in Row
         /\ IsFiniteSet(DOMAIN tokens)
<1>1. /\ Len(tokens) \in Nat
      /\ DOMAIN tokens = 1..Len(tokens)
      /\ \A i \in DOMAIN tokens : tokens[i] \in Row
  BY LenProperties, ElementOfSeq
<1> QED
  BY <1>1, FS_Interval

\* A row is replaced.
LEMMA RowReplaced ==
  ASSUME tokens \in Seq(Row), NEW i \in DOMAIN tokens, NEW row \in Row,
         SetRow(i, row)
  PROVE  /\ tokens' \in Seq(Row)
         /\ DOMAIN tokens' = DOMAIN tokens
         /\ tokens'[i] = row
         /\ \A j \in DOMAIN tokens : j # i => tokens'[j] = tokens[j]
<1>1. DOMAIN tokens = 1..Len(tokens)
  BY RowsShape
<1> QED
  BY <1>1, ExceptSeq DEF SetRow

\* The place that each of the n rows of the new table had in the old one.
Moved(gone, n, place) ==
  /\ DOMAIN tokens' = 1..n
  /\ place \in [1..n -> DOMAIN tokens]
  /\ \A j, k \in 1..n : place[j] = place[k] => j = k
  /\ \A k \in 1..n : tokens[place[k]].code \notin gone
  /\ \A i \in DOMAIN tokens :
       tokens[i].code \notin gone => \E k \in 1..n : place[k] = i
  /\ \A k \in 1..n : tokens'[k] = tokens[place[k]]
  /\ \A j, k \in 1..n : j < k => place[j] < place[k]

\* DELETE takes the rows it is told to, and keeps all others.
LEMMA RowsDeleted ==
  ASSUME tokens \in Seq(Row), NEW gone, Delete(gone)
  PROVE  /\ tokens' \in Seq(Row)
         /\ \E n \in Nat : \E place : Moved(gone, n, place)
<1> DEFINE kept == {i \in DOMAIN tokens : tokens[i].code \notin gone}
           n == Cardinality(kept)
<1>1. IsFiniteSet(kept) /\ n \in Nat
  <2>1. kept \in SUBSET (DOMAIN tokens)
    OBVIOUS
  <2> QED
    BY <2>1, RowsShape, FS_Subset, FS_CardinalityType
<1>2. PICK place \in Bijection(1..n, kept) :
        /\ tokens' = [k \in 1..n |-> tokens[place[k]]]
        /\ \A j, k \in 1..n : j < k => place[j] < place[k]
  BY DEF Delete
<1>3. /\ place \in [1..n -> kept]
      /\ \A j, k \in 1..n : place[j] = place[k] => j = k
      /\ \A i \in kept : \E k \in 1..n : place[k] = i
  BY <1>2 DEF Bijection, Injection, Surjection, IsInjective
<1>4. \A k \in 1..n : tokens[place[k]] \in Row
  BY <1>3, RowsShape
<1>5. tokens' \in Seq(Row) /\ DOMAIN tokens' = 1..n
  <2>1. tokens' \in [1..n -> Row]
    BY <1>2, <1>4
  <2> HIDE DEF n
  <2> QED
    BY <1>1, <2>1, SeqDef
<1>6. place \in [1..n -> DOMAIN tokens]
  BY <1>3
<1>7. /\ \A k \in 1..n : tokens[place[k]].code \notin gone
      /\ \A i \in DOMAIN tokens : tokens[i].code \notin gone
           => \E k \in 1..n : place[k] = i
      /\ \A k \in 1..n : tokens'[k] = tokens[place[k]]
      /\ \A j, k \in 1..n : j < k => place[j] < place[k]
  BY <1>2, <1>3
<1> HIDE DEF n
<1>8. Moved(gone, n, place)
  BY <1>3, <1>5, <1>6, <1>7 DEF Moved
<1> QED
  BY <1>1, <1>5, <1>8

\* A form that is being worked on.
LEMMA FormShape ==
  ASSUME TypeOK, NEW h \in Handler, handler[h].pc = "insert"
  PROVE  /\ handler[h] \in Generating
         /\ handler[h].next \in 1..Len(handler[h].codes)
         /\ Len(handler[h].codes) \in 1..MaxBatch
         /\ DOMAIN handler[h].codes = 1..Len(handler[h].codes)
         /\ \A k \in 1..Len(handler[h].codes) : handler[h].codes[k] \in Code
<1>1. handler[h] \in Generating
  BY DEF TypeOK, Idle
<1>2. PICK m \in 0..MaxBatch : handler[h].codes \in [1..m -> Code]
  BY <1>1 DEF Generating, SeqOf
<1>3. m \in Nat
  BY <1>2, CatalogueAssumption
<1>4. /\ handler[h].codes \in Seq(Code) /\ Len(handler[h].codes) = m
      /\ DOMAIN handler[h].codes = 1..m
  BY <1>2, <1>3, SeqDef, LenProperties
<1>5. handler[h].next \in 1..MaxBatch
  BY <1>1 DEF Generating
<1>6. handler[h].next <= Len(handler[h].codes)
  BY DEF TypeOK
<1>7. handler[h].next \in 1..m /\ m \in 1..MaxBatch
  <2> DEFINE n == handler[h].next
  <2>1. n \in 1..MaxBatch /\ n <= m
    BY <1>4, <1>5, <1>6
  <2> HIDE DEF n
  <2>2. n \in 1..m /\ m \in 1..MaxBatch
    BY <2>1, <1>2, CatalogueAssumption
  <2> QED
    BY <2>2 DEF n
<1>8. \A k \in 1..m : handler[h].codes[k] \in Code
  BY <1>2
<1> QED
  BY <1>1, <1>4, <1>7, <1>8

\* The rows of a batch, and their count in the answer.
LEMMA FormCounts ==
  ASSUME TypeOK, NEW h \in Handler, handler[h].pc = "insert", NEW c
  PROVE  LET places == {i \in DOMAIN handler[h].codes :
                          handler[h].codes[i] = c}
         IN IsFiniteSet(places) /\ Cardinality(places) \in Nat
<1> DEFINE places == {i \in DOMAIN handler[h].codes : handler[h].codes[i] = c}
<1>1. DOMAIN handler[h].codes = 1..Len(handler[h].codes)
      /\ Len(handler[h].codes) \in Int
  BY FormShape, CatalogueAssumption
<1>2. IsFiniteSet(1..Len(handler[h].codes))
  <2>1. 1 \in Int
    OBVIOUS
  <2> QED
    BY <1>1, <2>1, FS_Interval
<1>3. places \in SUBSET (1..Len(handler[h].codes))
  BY <1>1
<1>4. IsFiniteSet(places)
  BY <1>2, <1>3, FS_Subset
<1> QED
  BY <1>4, FS_CardinalityType

-----------------------------------------------------------------------------
(***************************************************************************)
(* Types.                                                                  *)
(***************************************************************************)

\* The next code's turn, or the answer.
LEMMA AdvanceType ==
  ASSUME TypeOK, NEW h \in Handler, handler[h].pc = "insert", Advance(h)
  PROVE  /\ handler' \in [Handler -> {Idle} \cup Generating]
         /\ \A g \in Handler : handler'[g].pc = "insert" =>
              handler'[g].next <= Len(handler'[g].codes)
         /\ handed' \in [Code -> Nat]
<1>a. /\ handler \in [Handler -> {Idle} \cup Generating]
      /\ handed \in [Code -> Nat]
      /\ \A g \in Handler : handler[g].pc = "insert" =>
           handler[g].next <= Len(handler[g].codes)
  BY DEF TypeOK
<1>1. CASE IsLast(h)
  <2>1. /\ handler' = [handler EXCEPT ![h] = Idle]
        /\ handed' = [c \in Code |->
             handed[c] + Cardinality({i \in DOMAIN handler[h].codes :
                                        handler[h].codes[i] = c})]
    BY <1>1 DEF Advance
  <2>2. handed' \in [Code -> Nat]
    <3>1. \A c \in Code :
            Cardinality({i \in DOMAIN handler[h].codes :
                           handler[h].codes[i] = c}) \in Nat
      BY FormCounts
    <3>2. \A c \in Code : handed[c] \in Nat
      BY <1>a
    <3> QED
      BY <2>1, <3>1, <3>2
  <2> QED
    BY <2>1, <2>2, <1>a DEF Idle
<1>2. CASE ~IsLast(h)
  <2>1. /\ handler' = [handler EXCEPT ![h].next = @ + 1] /\ handed' = handed
    BY <1>2 DEF Advance
  <2>2. /\ handler[h] \in Generating
        /\ handler[h].next \in 1..Len(handler[h].codes)
        /\ Len(handler[h].codes) \in 1..MaxBatch
    BY FormShape
  <2>3. handler[h].next # Len(handler[h].codes)
    BY <1>2 DEF IsLast
  <2>4. /\ handler[h].next + 1 \in 1..MaxBatch
        /\ handler[h].next + 1 <= Len(handler[h].codes)
    BY <2>2, <2>3, CatalogueAssumption
  <2>5. PICK g \in Generating :
          /\ g = [handler[h] EXCEPT !.next = handler[h].next + 1]
          /\ g.next = handler[h].next + 1 /\ g.codes = handler[h].codes
    <3>1. [handler[h] EXCEPT !.next = handler[h].next + 1] \in Generating
      BY <2>2, <2>4 DEF Generating
    <3>2. /\ [handler[h] EXCEPT !.next = handler[h].next + 1].next
               = handler[h].next + 1
          /\ [handler[h] EXCEPT !.next = handler[h].next + 1].codes
               = handler[h].codes
      BY <2>2 DEF Generating
    <3> QED
      BY <3>1, <3>2
  <2>6. handler' = [handler EXCEPT ![h] = g]
    BY <2>1, <2>2, <2>5, <1>a
  <2> QED
    BY <2>1, <2>4, <2>5, <2>6, <1>a
<1> QED
  BY <1>1, <1>2

\* What the forms do.
LEMMA FormTypeStep ==
  ASSUME TypeOK, NEW h \in Handler,
         GenerateStart(h) \/ GenerateInsert(h) \/ GenerateFails(h)
  PROVE  TypeOK'
<1>1. CASE GenerateStart(h)
  <2>1. PICK codes \in SeqOf(Code, MaxBatch) \ {<< >>} :
          handler' = [handler EXCEPT ![h] =
            [pc |-> "insert", codes |-> codes, next |-> 1]]
    BY <1>1 DEF GenerateStart
  <2>2. 1 <= Len(codes)
    <3>1. PICK m \in 0..MaxBatch : codes \in [1..m -> Code]
      BY <2>1 DEF SeqOf
    <3>2. m \in Nat
      BY <3>1, CatalogueAssumption
    <3>3. codes \in Seq(Code) /\ codes # << >>
      BY <2>1, <3>1, <3>2, SeqDef
    <3> QED
      BY <3>3, EmptySeq
  <2>3. 1 \in 1..MaxBatch
    BY CatalogueAssumption
  <2>4. [pc |-> "insert", codes |-> codes, next |-> 1] \in Generating
    BY <2>1, <2>3 DEF Generating
  <2>5. /\ handler' \in [Handler -> {Idle} \cup Generating]
        /\ \A g \in Handler : handler'[g].pc = "insert" =>
             handler'[g].next <= Len(handler'[g].codes)
    BY <2>1, <2>2, <2>4 DEF TypeOK
  <2> QED
    BY <1>1, <2>5 DEF GenerateStart, TypeOK, tokenVars
<1>2. CASE GenerateInsert(h)
  <2>1. PICK second \in 0..MaxSecond, t \in Tie :
          tokens' = Append(tokens,
            [code |-> NextCode(h), status |-> "unused", created |-> second,
             tie |-> t, redeemed |-> 0, expires |-> 0])
    BY <1>2 DEF GenerateInsert
  <2>2. /\ handler[h].pc = "insert" /\ Advance(h)
        /\ walk' = walk /\ today' = today /\ coming' = coming
        /\ sold' = sold
    BY <1>2 DEF GenerateInsert
  <2>3. NextCode(h) \in Code
    BY <2>2, FormShape DEF NextCode
  <2>4. [code |-> NextCode(h), status |-> "unused", created |-> second,
         tie |-> t, redeemed |-> 0, expires |-> 0] \in Row
    BY <2>1, <2>3 DEF Row, Status
  <2>5. tokens' \in Seq(Row)
    BY <2>1, <2>4, AppendProperties DEF TypeOK
  <2> QED
    BY <2>2, <2>5, AdvanceType DEF TypeOK
<1>3. CASE GenerateFails(h)
  BY <1>3 DEF GenerateFails, TypeOK, tokenVars, Idle
<1> QED
  BY <1>1, <1>2, <1>3

\* The counts of rows, whatever the rows are chosen by.
LEMMA RowCounts ==
  ASSUME tokens \in Seq(Row), NEW I, I \subseteq DOMAIN tokens
  PROVE  IsFiniteSet(I) /\ Cardinality(I) \in Nat
<1>1. IsFiniteSet(I)
  BY RowsShape, FS_Subset
<1> QED
  BY <1>1, FS_CardinalityType

\* What becomes of one token.
LEMMA TokenTypeStep ==
  ASSUME TypeOK, NEW i \in DOMAIN tokens,
         Validate(i) \/ Redeem(i) \/ ExpireToken(i) \/ RevokeToken(i)
  PROVE  TypeOK'
<1>1. tokens \in Seq(Row) /\ tokens[i] \in Row /\ today \in Nat
  BY RowsShape, CatalogueAssumption DEF TypeOK
<1>2. CASE Validate(i)
  <2>1. coming' \subseteq Code
    BY <1>1, <1>2 DEF Validate, TypeOK, Row
  <2> QED
    BY <1>2, <2>1 DEF Validate, TypeOK
<1>3. CASE Redeem(i)
  <2>1. PICK end \in {today, today + 1} :
          SetRow(i, [tokens[i] EXCEPT !.status = "active", !.redeemed = today,
                                      !.expires = end])
    BY <1>3 DEF Redeem
  <2>2. end \in Nat
    BY <2>1, <1>1
  <2>3. [tokens[i] EXCEPT !.status = "active", !.redeemed = today,
                          !.expires = end] \in Row
    BY <1>1, <2>2 DEF Row, Status
  <2>4. tokens' \in Seq(Row)
    BY <1>1, <2>1, <2>3, RowReplaced
  <2>5. sold' \in [1..MaxDay -> Nat]
    <3>1. sold' = [sold EXCEPT ![today] = sold[today] + 1]
      BY <1>3 DEF Redeem
    <3>2. sold[today] + 1 \in Nat
      BY DEF TypeOK
    <3> QED
      BY <3>1, <3>2 DEF TypeOK
  <2> QED
    BY <1>3, <2>4, <2>5 DEF Redeem, TypeOK
<1>4. CASE ExpireToken(i)
  <2>1. [tokens[i] EXCEPT !.status = "expired"] \in Row
    BY <1>1 DEF Row, Status
  <2>2. tokens' \in Seq(Row)
    BY <1>1, <1>4, <2>1, RowReplaced DEF ExpireToken
  <2> QED
    BY <1>4, <2>2 DEF ExpireToken, TypeOK
<1>5. CASE RevokeToken(i)
  <2>1. [tokens[i] EXCEPT !.status = "revoked"] \in Row
    BY <1>1 DEF Row, Status
  <2>2. tokens' \in Seq(Row)
    BY <1>1, <1>5, <2>1, RowReplaced DEF RevokeToken
  <2> QED
    BY <1>5, <2>2 DEF RevokeToken, TypeOK
<1> QED
  BY <1>2, <1>3, <1>4, <1>5

\* What a purge deletes and leaves.
LEMMA PurgeShape ==
  ASSUME PurgeTokens
  PROVE  \E gone :
           /\ \A c \in gone : \E r \in Range(tokens) :
                r.code = c /\ Purgeable(r, Retention)
           /\ gone \cap Unanswered = {}
           /\ Delete(gone)
           /\ coming' = coming \ gone
           /\ handed' = [c \in Code |-> IF c \in gone THEN 0 ELSE handed[c]]
           /\ walk' = IF Cuts(gone) THEN [walk EXCEPT !.cut = TRUE] ELSE walk
           /\ UNCHANGED <<today, handler, sold>>
<1>1. PICK gone \in SUBSET {row.code : row \in {r \in Range(tokens) :
                                                  Purgeable(r, Retention)}} :
        /\ gone \cap Unanswered = {}
        /\ Delete(gone)
        /\ coming' = coming \ gone
        /\ handed' = [c \in Code |-> IF c \in gone THEN 0 ELSE handed[c]]
        /\ walk' = IF Cuts(gone) THEN [walk EXCEPT !.cut = TRUE] ELSE walk
        /\ UNCHANGED <<today, handler, sold>>
  BY DEF PurgeTokens
<1>2. \A c \in gone : \E r \in Range(tokens) :
        r.code = c /\ Purgeable(r, Retention)
  BY <1>1
<1> QED
  BY <1>1, <1>2

\* The purge, the clock and the walking manager.
LEMMA OtherTypeStep ==
  ASSUME TypeOK,
         PurgeTokens \/ Midnight \/ WalkStart \/ WalkCount \/ WalkList
  PROVE  TypeOK'
<1>1. CASE PurgeTokens
  <2>1. PICK gone :
          /\ Delete(gone)
          /\ coming' = coming \ gone
          /\ handed' = [c \in Code |-> IF c \in gone THEN 0 ELSE handed[c]]
          /\ walk' = IF Cuts(gone) THEN [walk EXCEPT !.cut = TRUE] ELSE walk
          /\ UNCHANGED <<today, handler, sold>>
    BY <1>1, PurgeShape
  <2>2. tokens' \in Seq(Row)
    BY <2>1, RowsDeleted DEF TypeOK
  <2>3. handed' \in [Code -> Nat]
    BY <2>1 DEF TypeOK
  <2>4. walk' \in {Resting} \cup Walking
    <3>1. CASE Cuts(gone)
      <4>1. walk \in Walking /\ walk' = [walk EXCEPT !.cut = TRUE]
        BY <2>1, <3>1 DEF Cuts, TypeOK
      <4> QED
        BY <4>1 DEF Walking
    <3>2. CASE ~Cuts(gone)
      BY <2>1, <3>2 DEF TypeOK
    <3> QED
      BY <3>1, <3>2
  <2> QED
    BY <2>1, <2>2, <2>3, <2>4 DEF TypeOK
<1>2. CASE Midnight
  <2>1. today' \in 1..MaxDay
    BY <1>2, CatalogueAssumption DEF Midnight, TypeOK
  <2> QED
    BY <1>2, <2>1 DEF Midnight, TypeOK, tokenVars
<1>3. CASE WalkStart
  <2>1. PICK c \in Codes :
          walk' = [pc |-> "count", page |-> 1, total |-> 0, sought |-> c,
                   cut |-> FALSE]
    BY <1>3 DEF WalkStart
  <2>2. c \in Code
    BY <2>1, RowsShape DEF TypeOK, Codes, Row
  <2>3. walk' \in Walking
    BY <2>1, <2>2 DEF Walking
  <2> QED
    BY <1>3, <2>3 DEF WalkStart, TypeOK
<1>4. CASE WalkCount
  <2>1. Count("all") \in Nat
    BY RowCounts DEF Count, TypeOK
  <2>2. walk \in Walking
    BY <1>4 DEF WalkCount, TypeOK, Resting
  <2>3. walk' \in Walking
    BY <1>4, <2>1, <2>2 DEF WalkCount, Walking
  <2> QED
    BY <1>4, <2>3 DEF WalkCount, TypeOK
<1>5. CASE WalkList
  <2>1. walk \in Walking
    BY <1>5 DEF WalkList, TypeOK, Resting
  <2>2. walk.page + 1 \in Nat \ {0}
    BY <2>1 DEF Walking
  <2>3. [walk EXCEPT !.pc = "count", !.page = walk.page + 1, !.total = 0]
          \in Walking
    BY <2>1, <2>2 DEF Walking
  <2> QED
    BY <1>5, <2>3 DEF WalkList, TypeOK
<1> QED
  BY <1>1, <1>2, <1>3, <1>4, <1>5

\* Every step keeps the types.
LEMMA TypeStep ==
  TypeOK /\ [Next]_vars => TypeOK'
<1> SUFFICES ASSUME TypeOK, [Next]_vars
             PROVE  TypeOK'
  OBVIOUS
<1>1. CASE Next
  BY <1>1, FormTypeStep, TokenTypeStep, OtherTypeStep
     DEF Next, AdminStep, TokenStep
<1>2. CASE UNCHANGED vars
  BY <1>2 DEF vars, TypeOK
<1> QED
  BY <1>1, <1>2

\* The first state has the types.
LEMMA TypeInit ==
  Init => TypeOK
<1> SUFFICES ASSUME Init
             PROVE  TypeOK
  OBVIOUS
<1>1. tokens \in Seq(Row)
  BY EmptySeq DEF Init
<1>2. today \in 1..MaxDay
  BY CatalogueAssumption DEF Init
<1> QED
  BY <1>1, <1>2 DEF Init, TypeOK, Idle

(* All variables keep their types; a form that is being worked on has a    *)
(* code left to insert (api_tokens_generate's loop).                       *)
THEOREM TablesAreTyped ==
  Spec => []TypeOK
BY TypeInit, TypeStep, PTL DEF Spec

(* Each token is on the list of exactly one status, and the badges say     *)
(* which, although the ticker may be late (list_tokens and its SELECTs).   *)
THEOREM FiltersDivideTheTokens ==
  Spec => []FiltersPartition
<1>1. TypeOK => FiltersPartition
  <2> SUFFICES ASSUME TypeOK, NEW i \in DOMAIN tokens
               PROVE
                 LET badge == Badge(tokens[i], "all")
                 IN /\ \A f \in Status : Matches(tokens[i], f) <=> f = badge
                    /\ Badge(tokens[i], badge) = badge
                    /\ Matches(tokens[i], "current")
                         <=> badge \in {"unused", "active"}
    BY DEF FiltersPartition
  <2>1. tokens[i].status \in Status
    BY RowsShape DEF TypeOK, Row
  <2> QED
    BY <2>1 DEF Status, Matches, Badge
<1> QED
  BY <1>1, TablesAreTyped, PTL

-----------------------------------------------------------------------------
(***************************************************************************)
(* Batches.                                                                *)
(***************************************************************************)

\* UNIQUE(code).
UniqueCodes ==
  \A i, j \in DOMAIN tokens : tokens[i].code = tokens[j].code => i = j

Working(h) == handler[h].pc = "insert"

\* The codes of a form that are in the table by now.
Done(h) == 1..(handler[h].next - 1)

\* What a form has inserted stays in the table until its answer, differs from
\* what the same form and all others have inserted, and is in no answer yet.
Batches ==
  \A h \in Handler : Working(h) =>
    /\ \A k \in Done(h) : /\ handler[h].codes[k] \in Codes
                          /\ handed[handler[h].codes[k]] = 0
    /\ \A j, k \in Done(h) :
         handler[h].codes[j] = handler[h].codes[k] => j = k
    /\ \A g \in Handler : Working(g) /\ g # h =>
         \A j \in Done(h), k \in Done(g) :
           handler[h].codes[j] # handler[g].codes[k]

BatchInv == TypeOK /\ UniqueCodes /\ Batches /\ HandedOutOnce

\* Every row has its place in the table that is left by a purge.
LEMMA CodesDeleted ==
  ASSUME tokens \in Seq(Row), NEW gone, Delete(gone)
  PROVE  /\ Codes' = Codes \ gone
         /\ UniqueCodes => UniqueCodes'
<1>p. PICK n \in Nat : \E place : Moved(gone, n, place)
  BY RowsDeleted
<1>1. PICK place : Moved(gone, n, place)
  BY <1>p
<1>2. /\ DOMAIN tokens' = 1..n
      /\ place \in [1..n -> DOMAIN tokens]
      /\ \A j, k \in 1..n : place[j] = place[k] => j = k
      /\ \A k \in 1..n : tokens[place[k]].code \notin gone
      /\ \A i \in DOMAIN tokens :
           tokens[i].code \notin gone => \E k \in 1..n : place[k] = i
      /\ \A k \in 1..n : tokens'[k] = tokens[place[k]]
  BY <1>1 DEF Moved
<1>3. Codes' \subseteq Codes \ gone
  <2> SUFFICES ASSUME NEW k \in 1..n
               PROVE  tokens'[k].code \in Codes \ gone
    BY <1>2 DEF Codes
  <2>1. /\ place[k] \in DOMAIN tokens
        /\ tokens[place[k]].code \notin gone
        /\ tokens'[k] = tokens[place[k]]
    BY <1>2
  <2> QED
    BY <2>1 DEF Codes
<1>4. Codes \ gone \subseteq Codes'
  <2> SUFFICES ASSUME NEW i \in DOMAIN tokens, tokens[i].code \notin gone
               PROVE  tokens[i].code \in Codes'
    BY DEF Codes
  <2>1. PICK k \in 1..n : place[k] = i
    BY <1>2
  <2>2. tokens'[k] = tokens[i]
    BY <1>2, <2>1
  <2> QED
    BY <1>2, <2>2 DEF Codes
<1>5. ASSUME UniqueCodes
      PROVE  UniqueCodes'
  <2> SUFFICES ASSUME NEW j \in 1..n, NEW k \in 1..n,
                      tokens'[j].code = tokens'[k].code
               PROVE  j = k
    BY <1>2 DEF UniqueCodes
  <2>1. tokens[place[j]].code = tokens[place[k]].code
    BY <1>2
  <2>2. place[j] \in DOMAIN tokens /\ place[k] \in DOMAIN tokens
    BY <1>2
  <2>3. place[j] = place[k]
    BY <1>5, <2>1, <2>2 DEF UniqueCodes
  <2> QED
    BY <2>3, <1>2
<1> QED
  BY <1>3, <1>4, <1>5

\* INSERT adds one row behind the others.
LEMMA CodeInserted ==
  ASSUME TypeOK, NEW h \in Handler, GenerateInsert(h)
  PROVE  \E n \in Nat :
           /\ n \notin DOMAIN tokens
           /\ DOMAIN tokens' = DOMAIN tokens \cup {n}
           /\ \A i \in DOMAIN tokens : tokens'[i] = tokens[i]
           /\ tokens'[n].code = NextCode(h)
           /\ tokens'[n].status = "unused"
           /\ NextCode(h) \in Code \ Codes
           /\ Codes' = Codes \cup {NextCode(h)}
<1>1. PICK second \in 0..MaxSecond, t \in Tie :
        tokens' = Append(tokens,
          [code |-> NextCode(h), status |-> "unused", created |-> second,
           tie |-> t, redeemed |-> 0, expires |-> 0])
  BY DEF GenerateInsert
<1>2. NextCode(h) \in Code \ Codes
  BY FormShape DEF NextCode, GenerateInsert
<1> DEFINE row == [code |-> NextCode(h), status |-> "unused",
                   created |-> second, tie |-> t, redeemed |-> 0,
                   expires |-> 0]
           n == Len(tokens) + 1
<1>3. /\ row \in Row
      /\ row.code = NextCode(h) /\ row.status = "unused"
  BY <1>1, <1>2 DEF Row, Status
<1>4. tokens' = Append(tokens, row)
  BY <1>1
<1> HIDE DEF row
<1>5. /\ tokens \in Seq(Row) /\ Len(tokens) \in Nat
      /\ DOMAIN tokens = 1..Len(tokens)
  BY RowsShape DEF TypeOK
<1>6. /\ DOMAIN tokens' = 1..n
      /\ \A i \in DOMAIN tokens : tokens'[i] = tokens[i]
      /\ tokens'[n] = row
  BY <1>3, <1>4, <1>5, AppendProperties
<1>7. n \in Nat /\ n \notin DOMAIN tokens /\ 1..n = DOMAIN tokens \cup {n}
  BY <1>5
<1>8. DOMAIN tokens' = DOMAIN tokens \cup {n}
  BY <1>6, <1>7
<1> HIDE DEF n
<1>9. Codes' = Codes \cup {NextCode(h)}
  BY <1>3, <1>6, <1>8 DEF Codes
<1> QED
  BY <1>2, <1>3, <1>6, <1>7, <1>8, <1>9

\* What becomes of a token leaves its code and its place in the lists.
LEMMA RowUpdated ==
  ASSUME TypeOK, NEW i \in DOMAIN tokens,
         Redeem(i) \/ ExpireToken(i) \/ RevokeToken(i)
  PROVE  /\ DOMAIN tokens' = DOMAIN tokens
         /\ \A j \in DOMAIN tokens : /\ tokens'[j].code = tokens[j].code
                                     /\ tokens'[j].created = tokens[j].created
                                     /\ tokens'[j].tie = tokens[j].tie
                                     /\ j # i => tokens'[j] = tokens[j]
         /\ Codes' = Codes
         /\ UniqueCodes => UniqueCodes'
<1>1. tokens \in Seq(Row) /\ tokens[i] \in Row /\ today \in Nat
  BY RowsShape, CatalogueAssumption DEF TypeOK
<1>2. PICK row \in Row : /\ SetRow(i, row)
                         /\ row.code = tokens[i].code
                         /\ row.created = tokens[i].created
                         /\ row.tie = tokens[i].tie
  <2>1. CASE Redeem(i)
    <3>1. PICK end \in {today, today + 1} :
            SetRow(i, [tokens[i] EXCEPT !.status = "active",
                                        !.redeemed = today, !.expires = end])
      BY <2>1 DEF Redeem
    <3>2. end \in Nat
      BY <3>1, <1>1
    <3> DEFINE row == [tokens[i] EXCEPT !.status = "active",
                                        !.redeemed = today, !.expires = end]
    <3>3. row \in Row
      BY <1>1, <3>2 DEF Row, Status
    <3>4. /\ row.code = tokens[i].code /\ row.created = tokens[i].created
          /\ row.tie = tokens[i].tie
      BY <1>1 DEF Row
    <3> QED
      BY <3>1, <3>3, <3>4
  <2>2. CASE ExpireToken(i)
    <3> DEFINE row == [tokens[i] EXCEPT !.status = "expired"]
    <3>1. row \in Row
      BY <1>1 DEF Row, Status
    <3>2. /\ row.code = tokens[i].code /\ row.created = tokens[i].created
          /\ row.tie = tokens[i].tie
      BY <1>1 DEF Row
    <3>3. SetRow(i, row)
      BY <2>2 DEF ExpireToken
    <3> QED
      BY <3>1, <3>2, <3>3
  <2>3. CASE RevokeToken(i)
    <3> DEFINE row == [tokens[i] EXCEPT !.status = "revoked"]
    <3>1. row \in Row
      BY <1>1 DEF Row, Status
    <3>2. /\ row.code = tokens[i].code /\ row.created = tokens[i].created
          /\ row.tie = tokens[i].tie
      BY <1>1 DEF Row
    <3>3. SetRow(i, row)
      BY <2>3 DEF RevokeToken
    <3> QED
      BY <3>1, <3>2, <3>3
  <2> QED
    BY <2>1, <2>2, <2>3
<1>3. /\ DOMAIN tokens' = DOMAIN tokens /\ tokens'[i] = row
      /\ \A j \in DOMAIN tokens : j # i => tokens'[j] = tokens[j]
  BY <1>1, <1>2, RowReplaced
<1>4. \A j \in DOMAIN tokens : /\ tokens'[j].code = tokens[j].code
                               /\ tokens'[j].created = tokens[j].created
                               /\ tokens'[j].tie = tokens[j].tie
  BY <1>2, <1>3
<1>5. Codes' = Codes
  BY <1>3, <1>4 DEF Codes
<1>6. UniqueCodes => UniqueCodes'
  BY <1>3, <1>4 DEF UniqueCodes
<1> QED
  BY <1>3, <1>4, <1>5, <1>6

\* UNIQUE holds.
LEMMA UniqueStep ==
  ASSUME TypeOK, UniqueCodes, [Next]_vars
  PROVE  UniqueCodes'
<1>1. CASE \E h \in Handler : GenerateInsert(h)
  <2>1. PICK h \in Handler : GenerateInsert(h)
    BY <1>1
  <2>2. PICK n \in Nat :
          /\ DOMAIN tokens' = DOMAIN tokens \cup {n}
          /\ \A i \in DOMAIN tokens : tokens'[i] = tokens[i]
          /\ tokens'[n].code = NextCode(h)
          /\ NextCode(h) \notin Codes
    BY <2>1, CodeInserted
  <2> QED
    BY <2>2 DEF UniqueCodes, Codes
<1>2. CASE \E i \in DOMAIN tokens :
             Redeem(i) \/ ExpireToken(i) \/ RevokeToken(i)
  BY <1>2, RowUpdated
<1>3. CASE PurgeTokens
  BY <1>3, PurgeShape, CodesDeleted DEF TypeOK
<1>4. CASE tokens' = tokens
  BY <1>4 DEF UniqueCodes
<1>5. \/ \E h \in Handler : GenerateInsert(h)
      \/ \E i \in DOMAIN tokens :
           Redeem(i) \/ ExpireToken(i) \/ RevokeToken(i)
      \/ PurgeTokens \/ tokens' = tokens
  BY DEF Next, AdminStep, TokenStep, vars, tokenVars, GenerateStart,
         GenerateFails, WalkStart, WalkCount, WalkList, Validate,
         Midnight
<1> QED
  BY <1>1, <1>2, <1>3, <1>4, <1>5

\* The answer lists each code once, and no code that another answer has.
LEMMA AnswerOnce ==
  ASSUME BatchInv, NEW h \in Handler, GenerateInsert(h), IsLast(h)
  PROVE  \A d \in Code :
           IF \E k \in DOMAIN handler[h].codes : handler[h].codes[k] = d
             THEN handed[d] = 0 /\ handed'[d] = 1 /\ d \in Codes'
             ELSE handed'[d] = handed[d]
<1> DEFINE codes == handler[h].codes
           L == Len(handler[h].codes)
<1>a. TypeOK /\ Working(h)
  BY DEF BatchInv, GenerateInsert, Working
<1>b. /\ handler[h].next = L /\ L \in Nat \ {0} /\ DOMAIN codes = 1..L
      /\ codes[L] = NextCode(h)
  BY <1>a, FormShape, CatalogueAssumption
     DEF Working, IsLast, NextCode
<1>c. /\ NextCode(h) \in Code \ Codes
      /\ Codes' = Codes \cup {NextCode(h)}
  BY <1>a, CodeInserted
<1>1. \A k \in 1..L : k = L \/ k \in Done(h)
  BY <1>b DEF Done
<1>2. \A k \in Done(h) : codes[k] \in Codes /\ handed[codes[k]] = 0
  BY <1>a DEF BatchInv, Batches
<1>3. \A j, k \in 1..L : codes[j] = codes[k] => j = k
  <2>1. \A j, k \in Done(h) : codes[j] = codes[k] => j = k
    BY <1>a DEF BatchInv, Batches
  <2> QED
    BY <1>1, <1>2, <1>b, <1>c, <2>1
<1>4. \A d \in Code : handed[d] \in Nat
  BY <1>a DEF TypeOK
<1>5. handed[NextCode(h)] = 0
  BY <1>4, <1>c DEF BatchInv, HandedOutOnce
<1>6. \A k \in 1..L : handed[codes[k]] = 0 /\ codes[k] \in Codes'
  BY <1>1, <1>2, <1>5, <1>b, <1>c
<1> SUFFICES ASSUME NEW d \in Code
             PROVE  IF \E k \in 1..L : codes[k] = d
                      THEN handed[d] = 0 /\ handed'[d] = 1 /\ d \in Codes'
                      ELSE handed'[d] = handed[d]
  BY <1>b
<1> DEFINE places == {i \in DOMAIN codes : codes[i] = d}
<1>7. handed'[d] = handed[d] + Cardinality(places)
  BY DEF GenerateInsert, Advance
<1>8. CASE \E k \in 1..L : codes[k] = d
  <2>1. PICK k \in 1..L : codes[k] = d
    BY <1>8
  <2>2. places = {k}
    BY <1>3, <1>b, <2>1
  <2>3. Cardinality(places) = 1
    BY <2>2, FS_Singleton
  <2> QED
    BY <1>6, <1>7, <1>8, <2>1, <2>3
<1>9. CASE ~(\E k \in 1..L : codes[k] = d)
  <2>1. places = {}
    BY <1>9, <1>b
  <2>2. Cardinality(places) = 0
    BY <2>1, FS_EmptySet
  <2> QED
    BY <1>4, <1>7, <1>9, <2>2
<1> QED
  BY <1>8, <1>9

\* The codes that other forms have inserted are not those of this answer.
LEMMA OthersUnanswered ==
  ASSUME BatchInv, NEW h \in Handler, GenerateInsert(h),
         NEW g \in Handler \ {h}, Working(g), NEW k \in Done(g)
  PROVE  /\ handler[g].codes[k] \in Codes
         /\ handler[g].codes[k] # NextCode(h)
         /\ handed'[handler[g].codes[k]] = 0
<1>a. TypeOK /\ Working(h) /\ handler[h].pc = "insert"
  BY DEF BatchInv, GenerateInsert, Working
<1>b. /\ handler[h].next \in 1..Len(handler[h].codes)
      /\ DOMAIN handler[h].codes = 1..Len(handler[h].codes)
      /\ Len(handler[h].codes) \in Nat
  BY <1>a, FormShape, CatalogueAssumption
<1>c. NextCode(h) \in Code \ Codes
  BY <1>a, CodeInserted
<1>1. handler[g].codes[k] \in Codes /\ handed[handler[g].codes[k]] = 0
  BY <1>a DEF BatchInv, Batches
<1>2. Codes \subseteq Code
  BY <1>a, RowsShape DEF TypeOK, Codes, Row
<1>3. CASE IsLast(h)
  <2>1. \A j \in DOMAIN handler[h].codes :
          handler[h].codes[j] # handler[g].codes[k]
    <3> SUFFICES ASSUME NEW j \in DOMAIN handler[h].codes
                 PROVE  handler[h].codes[j] # handler[g].codes[k]
      OBVIOUS
    <3>1. CASE j \in Done(h)
      BY <1>a, <3>1 DEF BatchInv, Batches
    <3>2. CASE j = handler[h].next
      BY <1>c, <1>1, <3>2 DEF NextCode
    <3>3. j \in Done(h) \/ j = handler[h].next
      BY <1>b, <1>3 DEF Done, IsLast
    <3> QED
      BY <3>1, <3>2, <3>3
  <2>2. handed'[handler[g].codes[k]] = handed[handler[g].codes[k]]
    BY <1>1, <1>2, <1>3, <2>1, AnswerOnce
  <2> QED
    BY <1>c, <1>1, <2>2
<1>4. CASE ~IsLast(h)
  BY <1>c, <1>1, <1>4 DEF GenerateInsert, Advance
<1> QED
  BY <1>3, <1>4

\* A form goes on or is answered.
LEMMA InsertKeepsBatches ==
  ASSUME BatchInv, NEW h \in Handler, GenerateInsert(h)
  PROVE  Batches' /\ HandedOutOnce'
<1>a. TypeOK /\ Working(h) /\ handler[h].pc = "insert"
  BY DEF BatchInv, GenerateInsert, Working
<1>b. /\ NextCode(h) \in Code \ Codes
      /\ Codes' = Codes \cup {NextCode(h)}
  BY <1>a, CodeInserted
<1>c. handler \in [Handler -> {Idle} \cup Generating]
  BY <1>a DEF TypeOK
<1>d. /\ handler[h].next \in 1..Len(handler[h].codes)
      /\ DOMAIN handler[h].codes = 1..Len(handler[h].codes)
      /\ Len(handler[h].codes) \in Nat
      /\ handler[h] \in Generating
  BY <1>a, FormShape, CatalogueAssumption
<1>1. ASSUME NEW g \in Handler \ {h}
      PROVE  handler'[g] = handler[g]
  BY <1>c DEF GenerateInsert, Advance
<1>2. ASSUME NEW g \in Handler \ {h}, Working(g)
      PROVE  /\ \A k \in Done(g) : /\ handler[g].codes[k] \in Codes'
                                   /\ handed'[handler[g].codes[k]] = 0
             /\ \A j, k \in Done(g) :
                  handler[g].codes[j] = handler[g].codes[k] => j = k
             /\ \A f \in Handler \ {g, h} : Working(f) =>
                  \A j \in Done(g), k \in Done(f) :
                    handler[g].codes[j] # handler[f].codes[k]
  <2>1. \A k \in Done(g) : /\ handler[g].codes[k] \in Codes'
                           /\ handed'[handler[g].codes[k]] = 0
    BY <1>2, <1>b, OthersUnanswered
  <2> QED
    BY <1>2, <2>1 DEF BatchInv, Batches
<1>3. CASE IsLast(h)
  <2>1. handler'[h] = Idle
    BY <1>3, <1>c DEF GenerateInsert, Advance
  <2>2. Batches'
    BY <1>1, <1>2, <2>1 DEF Batches, Working, Done, Idle
  <2>3. HandedOutOnce'
    <3> SUFFICES ASSUME NEW d \in Code
                 PROVE  handed'[d] <= 1 /\ (handed'[d] = 1 => d \in Codes')
      BY DEF HandedOutOnce
    <3>1. handed[d] <= 1 /\ (handed[d] = 1 => d \in Codes)
      BY DEF BatchInv, HandedOutOnce
    <3>2. \/ handed'[d] = 1 /\ d \in Codes'
          \/ handed'[d] = handed[d]
      BY <1>3, AnswerOnce
    <3> QED
      BY <1>b, <3>1, <3>2
  <2> QED
    BY <2>2, <2>3
<1>4. CASE ~IsLast(h)
  <2>1. /\ handler' = [handler EXCEPT ![h].next = @ + 1]
        /\ handed' = handed
    BY <1>4 DEF GenerateInsert, Advance
  <2>2. handler'[h] = [handler[h] EXCEPT !.next = handler[h].next + 1]
    BY <2>1, <1>c
  <2>3. /\ handler'[h].pc = "insert"
        /\ handler'[h].codes = handler[h].codes
        /\ handler'[h].next = handler[h].next + 1
    BY <2>2, <1>d, <1>a DEF Generating
  <2>4. /\ Done(h)' = Done(h) \cup {handler[h].next}
        /\ handler[h].next \notin Done(h)
    BY <2>3, <1>d DEF Done
  <2>5. handler[h].codes[handler[h].next] = NextCode(h)
    BY DEF NextCode
  <2>6. /\ handed[NextCode(h)] = 0
        /\ \A k \in Done(h) : /\ handler[h].codes[k] \in Codes
                              /\ handed[handler[h].codes[k]] = 0
        /\ \A j, k \in Done(h) :
             handler[h].codes[j] = handler[h].codes[k] => j = k
    <3>1. handed[NextCode(h)] = 0
      BY <1>a, <1>b DEF BatchInv, HandedOutOnce, TypeOK
    <3> QED
      BY <3>1, <1>a DEF BatchInv, Batches
  <2>7. ASSUME NEW g \in Handler \ {h}, Working(g)
        PROVE  \A j \in Done(h)', k \in Done(g) :
                 handler[h].codes[j] # handler[g].codes[k]
    <3> SUFFICES ASSUME NEW j \in Done(h)', NEW k \in Done(g)
                 PROVE  handler[h].codes[j] # handler[g].codes[k]
      OBVIOUS
    <3>1. CASE j \in Done(h)
      BY <3>1, <2>7, <1>a DEF BatchInv, Batches
    <3>2. CASE j = handler[h].next
      BY <3>2, <2>5, <2>7, OthersUnanswered
    <3> QED
      BY <2>4, <3>1, <3>2
  <2>8. \A g \in Handler \ {h} : /\ Working(g)' <=> Working(g)
                                 /\ Done(g)' = Done(g)
    BY <1>1 DEF Working, Done
  <2>9. Batches'
    <3>1. ASSUME NEW g \in Handler, Working(g)'
          PROVE  /\ \A k \in Done(g)' :
                      /\ handler'[g].codes[k] \in Codes'
                      /\ handed'[handler'[g].codes[k]] = 0
                 /\ \A j, k \in Done(g)' :
                      handler'[g].codes[j] = handler'[g].codes[k] => j = k
      <4>1. CASE g = h
        BY <4>1, <1>b, <2>1, <2>3, <2>4, <2>5, <2>6
      <4>2. CASE g # h
        BY <3>1, <4>2, <1>1, <1>2, <2>8
      <4> QED
        BY <4>1, <4>2
    <3>2. ASSUME NEW g \in Handler, Working(g)', NEW f \in Handler,
                 Working(f)', f # g, NEW j \in Done(g)', NEW k \in Done(f)'
          PROVE  handler'[g].codes[j] # handler'[f].codes[k]
      <4>1. CASE g = h
        BY <3>2, <4>1, <1>1, <2>3, <2>7, <2>8
      <4>2. CASE f = h
        <5>1. handler[h].codes[k] # handler[g].codes[j]
          BY <3>2, <4>2, <2>7, <2>8
        <5> QED
          BY <3>2, <4>2, <5>1, <1>1, <2>3
      <4>3. CASE g # h /\ f # h
        BY <3>2, <4>3, <1>1, <1>2, <2>8
      <4> QED
        BY <4>1, <4>2, <4>3
    <3> QED
      BY <3>1, <3>2 DEF Batches
  <2>10. HandedOutOnce'
    BY <1>b, <2>1 DEF BatchInv, HandedOutOnce
  <2> QED
    BY <2>9, <2>10
<1> QED
  BY <1>3, <1>4

\* A purge spares the codes that are still to be answered.
LEMMA PurgeKeepsBatches ==
  ASSUME BatchInv, PurgeTokens
  PROVE  Batches' /\ HandedOutOnce'
<1>a. TypeOK
  BY DEF BatchInv
<1>1. PICK gone :
        /\ gone \cap Unanswered = {}
        /\ Delete(gone)
        /\ handed' = [c \in Code |-> IF c \in gone THEN 0 ELSE handed[c]]
        /\ handler' = handler
  BY PurgeShape
<1>2. Codes' = Codes \ gone
  BY <1>1, <1>a, CodesDeleted DEF TypeOK
<1>3. HandedOutOnce'
  BY <1>1, <1>2 DEF BatchInv, HandedOutOnce
<1>4. ASSUME NEW h \in Handler, Working(h), NEW k \in Done(h)
      PROVE  /\ handler[h].codes[k] \in Codes'
             /\ handed'[handler[h].codes[k]] = 0
  <2>1. /\ k \in DOMAIN handler[h].codes /\ handler[h].codes[k] \in Code
        /\ \A i \in DOMAIN handler[h].codes :
             handler[h].codes[i] \in Unanswered
    <3>1. /\ DOMAIN handler[h].codes = 1..Len(handler[h].codes)
          /\ handler[h].next \in 1..Len(handler[h].codes)
          /\ Len(handler[h].codes) \in Nat
          /\ \A i \in 1..Len(handler[h].codes) : handler[h].codes[i] \in Code
      BY <1>4, <1>a, FormShape, CatalogueAssumption DEF Working
    <3>2. k \in DOMAIN handler[h].codes
      BY <1>4, <3>1 DEF Done
    <3> QED
      BY <1>4, <3>1, <3>2 DEF Unanswered, Working, Range
  <2>2. handler[h].codes[k] \notin gone
    BY <1>1, <2>1
  <2>3. handler[h].codes[k] \in Codes /\ handed[handler[h].codes[k]] = 0
    BY <1>4 DEF BatchInv, Batches
  <2> QED
    BY <1>1, <1>2, <2>1, <2>2, <2>3
<1>5. Batches'
  BY <1>1, <1>4 DEF BatchInv, Batches, Working, Done
<1> QED
  BY <1>3, <1>5

\* Every step keeps the batches apart.
LEMMA BatchStep ==
  BatchInv /\ [Next]_vars => BatchInv'
<1> SUFFICES ASSUME BatchInv, [Next]_vars
             PROVE  Batches' /\ HandedOutOnce'
  BY TypeStep, UniqueStep DEF BatchInv
<1>1. CASE \E h \in Handler : GenerateInsert(h)
  BY <1>1, InsertKeepsBatches
<1>2. CASE PurgeTokens
  BY <1>2, PurgeKeepsBatches
<1>3. CASE \E h \in Handler : GenerateStart(h) \/ GenerateFails(h)
  <2>1. PICK h \in Handler : GenerateStart(h) \/ GenerateFails(h)
    BY <1>3
  <2>2. handler \in [Handler -> {Idle} \cup Generating]
    BY DEF BatchInv, TypeOK
  <2>3. tokens' = tokens /\ handed' = handed
    BY <2>1 DEF GenerateStart, GenerateFails, tokenVars
  <2>4. \A g \in Handler \ {h} : handler'[g] = handler[g]
    BY <2>1, <2>2 DEF GenerateStart, GenerateFails
  <2>5. Working(h)' => Done(h)' = {}
    BY <2>1, <2>2 DEF GenerateStart, GenerateFails, Working, Done, Idle
  <2>6. Codes' = Codes
    BY <2>3 DEF Codes
  <2>7. Batches'
    BY <2>3, <2>4, <2>5, <2>6 DEF BatchInv, Batches, Working, Done
  <2> QED
    BY <2>3, <2>6, <2>7 DEF BatchInv, HandedOutOnce
<1>4. CASE UNCHANGED <<handler, handed>> /\ Codes' = Codes
  BY <1>4 DEF BatchInv, Batches, HandedOutOnce, Working, Done
<1>5. ASSUME NEW i \in DOMAIN tokens,
             Redeem(i) \/ ExpireToken(i) \/ RevokeToken(i)
      PROVE  UNCHANGED <<handler, handed>> /\ Codes' = Codes
  <2>1. Codes' = Codes
    BY <1>5, RowUpdated DEF BatchInv
  <2> QED
    BY <1>5, <2>1 DEF Redeem, ExpireToken, RevokeToken
<1>6. CASE \/ \E i \in DOMAIN tokens : Validate(i)
           \/ WalkStart \/ WalkCount \/ WalkList \/ Midnight
           \/ UNCHANGED vars
  <2>1. UNCHANGED <<handler, handed, tokens>>
    BY <1>6 DEF Validate, WalkStart, WalkCount, WalkList, Midnight,
                vars, tokenVars
  <2>2. Codes' = Codes
    BY <2>1 DEF Codes
  <2> QED
    BY <1>4, <2>1, <2>2
<1> QED
  BY <1>1, <1>2, <1>3, <1>4, <1>5, <1>6 DEF Next, AdminStep, TokenStep

(* A code is handed out once, to one manager, and its token is there: the  *)
(* UNIQUE index decides between batches that draw the same code, and the   *)
(* one that loses is not answered (api_tokens_generate).                   *)
THEOREM CodesAreHandedOutOnce ==
  Spec => []HandedOutOnce
<1>1. Init => BatchInv
  <2> SUFFICES ASSUME Init
               PROVE  UniqueCodes /\ Batches /\ HandedOutOnce
    BY TypeInit DEF BatchInv
  <2>1. UniqueCodes
    BY DEF Init, UniqueCodes
  <2>2. Batches
    BY DEF Init, Batches, Working, Idle
  <2>3. HandedOutOnce
    BY DEF Init, HandedOutOnce
  <2> QED
    BY <2>1, <2>2, <2>3
<1>2. BatchInv => HandedOutOnce
  BY DEF BatchInv
<1> QED
  BY <1>1, <1>2, BatchStep, PTL DEF Spec
-----------------------------------------------------------------------------
(***************************************************************************)
(* The chart.                                                              *)
(***************************************************************************)

\* A token that is about to be redeemed has not been redeemed before.
ComingAreNew ==
  /\ coming \subseteq Codes
  /\ \A i \in DOMAIN tokens :
       tokens[i].code \in coming => ~Counts(tokens[i])

\* Sales are in the past.
SoldByNow ==
  /\ \A i \in DOMAIN tokens :
       Counts(tokens[i]) => tokens[i].redeemed <= today
  /\ \A d \in 1..MaxDay : d > today => sold[d] = 0

\* The week's days, and those to come, have their tokens.
SalesKept ==
  \A d \in 1..MaxDay : d > today - Week => SoldOn(d) = sold[d]

ChartInv == TypeOK /\ UniqueCodes /\ ComingAreNew /\ SoldByNow /\ SalesKept

\* The rows that a day of the chart counts.
SoldRows(d) == {i \in DOMAIN tokens : /\ Counts(tokens[i])
                                      /\ tokens[i].redeemed = d}

\* Rows that are counted for other days may go.
LEMMA SalesOutlivePurge ==
  ASSUME TypeOK, NEW gone, Delete(gone), NEW d,
         \A i \in SoldRows(d) : tokens[i].code \notin gone
  PROVE  SoldOn(d)' = SoldOn(d)
<1>p. PICK n \in Nat : \E place : Moved(gone, n, place)
  BY RowsDeleted DEF TypeOK
<1>1. PICK place : Moved(gone, n, place)
  BY <1>p
<1>2. /\ DOMAIN tokens' = 1..n
      /\ place \in [1..n -> DOMAIN tokens]
      /\ \A j, k \in 1..n : place[j] = place[k] => j = k
      /\ \A i \in DOMAIN tokens :
           tokens[i].code \notin gone => \E k \in 1..n : place[k] = i
      /\ \A k \in 1..n : tokens'[k] = tokens[place[k]]
  BY <1>1 DEF Moved
<1> DEFINE Now == {k \in 1..n : /\ Counts(tokens'[k])
                                /\ tokens'[k].redeemed = d}
           move == [k \in Now |-> place[k]]
<1>3. /\ SoldOn(d)' = Cardinality(Now)
      /\ SoldOn(d) = Cardinality(SoldRows(d))
  BY <1>2 DEF SoldOn, SoldRows, Counts
<1>4. move \in Bijection(Now, SoldRows(d))
  <2>1. move \in [Now -> SoldRows(d)]
    <3> SUFFICES ASSUME NEW k \in Now
                 PROVE  place[k] \in SoldRows(d)
      OBVIOUS
    <3> QED
      BY <1>2 DEF SoldRows
  <2>2. \A j, k \in Now : move[j] = move[k] => j = k
    BY <1>2
  <2>3. \A i \in SoldRows(d) : \E k \in Now : move[k] = i
    <3> SUFFICES ASSUME NEW i \in SoldRows(d)
                 PROVE  \E k \in Now : place[k] = i
      OBVIOUS
    <3>1. i \in DOMAIN tokens
      BY DEF SoldRows
    <3>2. PICK k \in 1..n : place[k] = i
      BY <1>2, <3>1
    <3>3. tokens'[k] = tokens[i]
      BY <1>2, <3>2
    <3> QED
      BY <3>2, <3>3 DEF SoldRows
  <2> HIDE DEF move, Now
  <2> QED
    BY <2>1, <2>2, <2>3 DEF Bijection, Injection, Surjection, IsInjective
<1>5. IsFiniteSet(Now)
  <2>1. Now \in SUBSET (1..n) /\ IsFiniteSet(1..n)
    BY FS_Interval
  <2> QED
    BY <2>1, FS_Subset
<1>6. ExistsBijection(Now, SoldRows(d))
  <2> HIDE DEF move, Now
  <2> QED
    BY <1>4 DEF ExistsBijection
<1>7. Cardinality(SoldRows(d)) = Cardinality(Now)
  <2> HIDE DEF Now
  <2> QED
    BY <1>5, <1>6, FS_Bijection
<1> QED
  BY <1>3, <1>7

\* A sale is one more on its day, and none on another.
LEMMA RedeemCounts ==
  ASSUME ChartInv, NEW i \in DOMAIN tokens, Redeem(i), NEW d \in 1..MaxDay
  PROVE  SoldOn(d)' = IF d = today THEN SoldOn(d) + 1 ELSE SoldOn(d)
<1>a. TypeOK
  BY DEF ChartInv
<1>1. ~Counts(tokens[i])
  BY DEF ChartInv, ComingAreNew, Redeem
<1>2. /\ DOMAIN tokens' = DOMAIN tokens
      /\ \A j \in DOMAIN tokens : j # i => tokens'[j] = tokens[j]
  BY <1>a, RowUpdated
<1>3. Counts(tokens'[i]) /\ tokens'[i].redeemed = today
  <2>1. /\ tokens \in Seq(Row) /\ tokens[i] \in Row
        /\ DOMAIN tokens = 1..Len(tokens)
    BY <1>a, RowsShape DEF TypeOK
  <2>2. PICK end \in {today, today + 1} :
          tokens' = [tokens EXCEPT ![i] =
            [tokens[i] EXCEPT !.status = "active", !.redeemed = today,
                              !.expires = end]]
    BY DEF Redeem, SetRow
  <2>3. tokens'[i] = [tokens[i] EXCEPT !.status = "active",
                                       !.redeemed = today, !.expires = end]
    BY <2>1, <2>2
  <2> QED
    BY <2>1, <2>3 DEF Row, Counts
<1> DEFINE Then == {j \in DOMAIN tokens' : /\ Counts(tokens'[j])
                                           /\ tokens'[j].redeemed = d}
<1>4. SoldOn(d)' = Cardinality(Then) /\ SoldOn(d) = Cardinality(SoldRows(d))
  BY DEF SoldOn, SoldRows, Counts
<1>5. CASE d = today
  <2>1. Then = SoldRows(d) \cup {i} /\ i \notin SoldRows(d)
    BY <1>1, <1>2, <1>3, <1>5 DEF SoldRows
  <2>2. IsFiniteSet(SoldRows(d))
    BY <1>a, RowCounts DEF SoldRows, TypeOK
  <2> QED
    BY <1>4, <1>5, <2>1, <2>2, FS_AddElement, ZenonT(40)
<1>6. CASE d # today
  <2>1. Then = SoldRows(d)
    BY <1>1, <1>2, <1>3, <1>6 DEF SoldRows
  <2> QED
    BY <1>4, <1>6, <2>1
<1> QED
  BY <1>5, <1>6

\* Steps that leave the sales of all days as they are.
LEMMA SalesUntouched ==
  ASSUME ChartInv, UNCHANGED <<today, sold>>,
         \A d \in 1..MaxDay : d > today - Week => SoldOn(d)' = SoldOn(d)
  PROVE  SalesKept'
BY DEF ChartInv, SalesKept

\* The rows that are counted are the same ones.
LEMMA SameRowsSold ==
  ASSUME UNCHANGED today, NEW d,
         {i \in DOMAIN tokens' : Counts(tokens'[i])}
           = {i \in DOMAIN tokens : Counts(tokens[i])},
         \A i \in DOMAIN tokens : Counts(tokens[i]) =>
           tokens'[i].redeemed = tokens[i].redeemed
  PROVE  SoldOn(d)' = SoldOn(d)
<1>1. {i \in DOMAIN tokens' : Counts(tokens'[i]) /\ tokens'[i].redeemed = d}
        = {i \in DOMAIN tokens : Counts(tokens[i]) /\ tokens[i].redeemed = d}
  OBVIOUS
<1> QED
  BY <1>1 DEF SoldOn, Counts

\* What a form does to the chart.
LEMMA InsertKeepsSales ==
  ASSUME ChartInv, NEW h \in Handler, GenerateInsert(h)
  PROVE  ComingAreNew' /\ SoldByNow' /\ SalesKept'
<1>a. TypeOK /\ UNCHANGED <<today, coming, sold>>
  BY DEF ChartInv, GenerateInsert
<1>1. PICK n \in Nat :
        /\ n \notin DOMAIN tokens
        /\ DOMAIN tokens' = DOMAIN tokens \cup {n}
        /\ \A i \in DOMAIN tokens : tokens'[i] = tokens[i]
        /\ tokens'[n].status = "unused"
        /\ Codes' = Codes \cup {NextCode(h)}
  BY <1>a, CodeInserted
<1>2. ~Counts(tokens'[n])
  BY <1>1 DEF Counts
<1>3. {i \in DOMAIN tokens' : Counts(tokens'[i])}
        = {i \in DOMAIN tokens : Counts(tokens[i])}
  BY <1>1, <1>2
<1>4. \A d \in 1..MaxDay : SoldOn(d)' = SoldOn(d)
  BY <1>a, <1>1, <1>3, SameRowsSold
<1>5. SalesKept'
  BY <1>a, <1>4, SalesUntouched
<1>6. ComingAreNew'
  BY <1>a, <1>1, <1>2 DEF ChartInv, ComingAreNew, Counts
<1>7. SoldByNow'
  BY <1>a, <1>1, <1>2 DEF ChartInv, SoldByNow, Counts
<1> QED
  BY <1>5, <1>6, <1>7

\* What becomes of one token, and the chart.
LEMMA TokenKeepsSales ==
  ASSUME ChartInv, NEW i \in DOMAIN tokens,
         Validate(i) \/ Redeem(i) \/ ExpireToken(i) \/ RevokeToken(i)
  PROVE  ComingAreNew' /\ SoldByNow' /\ SalesKept'
<1>a. /\ TypeOK /\ UniqueCodes /\ tokens \in Seq(Row) /\ tokens[i] \in Row
      /\ today \in 1..MaxDay /\ today \in Nat
      /\ DOMAIN tokens = 1..Len(tokens)
  BY RowsShape, CatalogueAssumption DEF ChartInv, TypeOK
<1>1. CASE Validate(i)
  <2>1. UNCHANGED <<today, tokens, sold>>
    BY <1>1 DEF Validate
  <2>2. Codes' = Codes
    BY <2>1 DEF Codes
  <2>3. ComingAreNew'
    BY <1>1, <1>a, <2>1, <2>2
       DEF Validate, ChartInv, ComingAreNew, Codes, Counts, UniqueCodes
  <2>4. SoldByNow'
    BY <2>1 DEF ChartInv, SoldByNow, Counts
  <2>5. \A d \in 1..MaxDay : SoldOn(d)' = SoldOn(d)
    BY <2>1 DEF SoldOn, Counts
  <2> QED
    BY <2>1, <2>3, <2>4, <2>5, SalesUntouched
<1>2. CASE Redeem(i)
  <2>1. /\ DOMAIN tokens' = DOMAIN tokens /\ Codes' = Codes
        /\ \A j \in DOMAIN tokens : /\ tokens'[j].code = tokens[j].code
                                    /\ j # i => tokens'[j] = tokens[j]
    BY <1>a, <1>2, RowUpdated
  <2>2. /\ coming' = coming \ {tokens[i].code} /\ today' = today
        /\ sold' = [sold EXCEPT ![today] = sold[today] + 1]
    BY <1>2 DEF Redeem
  <2>3. ComingAreNew'
    BY <1>a, <2>1, <2>2 DEF ChartInv, ComingAreNew, Counts, UniqueCodes
  <2>4. tokens'[i].redeemed = today
    <3>1. PICK end \in {today, today + 1} :
            tokens' = [tokens EXCEPT ![i] =
              [tokens[i] EXCEPT !.status = "active", !.redeemed = today,
                                !.expires = end]]
      BY <1>2 DEF Redeem, SetRow
    <3>2. tokens'[i] = [tokens[i] EXCEPT !.status = "active",
                                         !.redeemed = today, !.expires = end]
      BY <3>1, <1>a
    <3> QED
      BY <3>2, <1>a DEF Row
  <2>5. \A d \in 1..MaxDay :
          sold'[d] = IF d = today THEN sold[d] + 1 ELSE sold[d]
    BY <2>2, <1>a DEF TypeOK
  <2>6. SoldByNow'
    <3>1. \A j \in DOMAIN tokens' : Counts(tokens'[j]) =>
            tokens'[j].redeemed <= today'
      BY <1>a, <2>1, <2>2, <2>4 DEF ChartInv, SoldByNow, Counts
    <3>2. \A d \in 1..MaxDay : d > today' => sold'[d] = 0
      BY <1>a, <2>2, <2>5 DEF ChartInv, SoldByNow
    <3> QED
      BY <3>1, <3>2 DEF SoldByNow, Counts
  <2>7. SalesKept'
    <3>1. \A d \in 1..MaxDay :
            SoldOn(d)' = IF d = today THEN SoldOn(d) + 1 ELSE SoldOn(d)
      BY <1>2, RedeemCounts
    <3> QED
      BY <2>2, <2>5, <3>1 DEF ChartInv, SalesKept
  <2> QED
    BY <2>3, <2>6, <2>7
<1>3. CASE ExpireToken(i) \/ RevokeToken(i)
  <2>1. /\ DOMAIN tokens' = DOMAIN tokens /\ Codes' = Codes
        /\ \A j \in DOMAIN tokens : /\ tokens'[j].code = tokens[j].code
                                    /\ j # i => tokens'[j] = tokens[j]
    BY <1>a, <1>3, RowUpdated
  <2>2. UNCHANGED <<today, coming, sold>>
    BY <1>3 DEF ExpireToken, RevokeToken
  <2>3. /\ Counts(tokens'[i]) <=> Counts(tokens[i])
        /\ tokens'[i].redeemed = tokens[i].redeemed
    BY <1>3, <1>a DEF ExpireToken, RevokeToken, SetRow, Row, Counts
  <2>4. {j \in DOMAIN tokens' : Counts(tokens'[j])}
          = {j \in DOMAIN tokens : Counts(tokens[j])}
    BY <2>1, <2>3
  <2>5. \A j \in DOMAIN tokens : tokens'[j].redeemed = tokens[j].redeemed
    BY <2>1, <2>3
  <2>6. \A d \in 1..MaxDay : SoldOn(d)' = SoldOn(d)
    BY <2>2, <2>4, <2>5, SameRowsSold
  <2>7. SalesKept'
    BY <2>2, <2>6, SalesUntouched
  <2>8. ComingAreNew'
    BY <2>1, <2>2, <2>3 DEF ChartInv, ComingAreNew, Counts
  <2>9. SoldByNow'
    BY <2>1, <2>2, <2>3, <2>5 DEF ChartInv, SoldByNow, Counts
  <2> QED
    BY <2>7, <2>8, <2>9
<1> QED
  BY <1>1, <1>2, <1>3

\* A purge takes no row that the chart still counts.
LEMMA PurgeKeepsSales ==
  ASSUME ChartInv, Week <= Retention, PurgeTokens
  PROVE  ComingAreNew' /\ SoldByNow' /\ SalesKept'
<1>a. /\ TypeOK /\ UniqueCodes /\ tokens \in Seq(Row) /\ today \in Nat
      /\ DOMAIN tokens = 1..Len(tokens) /\ Len(tokens) \in Nat
      /\ \A i \in DOMAIN tokens : tokens[i] \in Row
  BY RowsShape, CatalogueAssumption DEF ChartInv, TypeOK
<1>1. PICK gone :
        /\ \A c \in gone : \E r \in Range(tokens) :
             r.code = c /\ Purgeable(r, Retention)
        /\ Delete(gone) /\ coming' = coming \ gone
        /\ UNCHANGED <<today, sold>>
  BY PurgeShape
<1>2. \A d \in 1..MaxDay : d > today - Week => SoldOn(d)' = SoldOn(d)
  <2> SUFFICES ASSUME NEW d \in 1..MaxDay, d > today - Week,
                      NEW i \in SoldRows(d), tokens[i].code \in gone
               PROVE  FALSE
    BY <1>1, <1>a, SalesOutlivePurge
  <2>1. PICK j \in DOMAIN tokens :
          tokens[j].code = tokens[i].code /\ Purgeable(tokens[j], Retention)
    BY <1>1 DEF Range
  <2>2. i \in DOMAIN tokens /\ Counts(tokens[i]) /\ tokens[i].redeemed = d
    BY DEF SoldRows
  <2>3. j = i
    BY <1>a, <2>1, <2>2 DEF UniqueCodes
  <2>4. tokens[i].redeemed + Retention <= today
    BY <2>1, <2>2, <2>3 DEF Purgeable, Counts
  <2> QED
    BY <1>a, <2>2, <2>4, CatalogueAssumption
<1>3. SalesKept'
  BY <1>1, <1>2, SalesUntouched
<1>p. PICK n \in Nat : \E place : Moved(gone, n, place)
  BY <1>1, <1>a, RowsDeleted
<1>4. PICK place : Moved(gone, n, place)
  BY <1>p
<1>5. /\ DOMAIN tokens' = 1..n
      /\ \A k \in 1..n : /\ place[k] \in DOMAIN tokens
                         /\ tokens'[k] = tokens[place[k]]
  BY <1>4 DEF Moved
<1>6. Codes' = Codes \ gone
  BY <1>1, <1>a, CodesDeleted
<1>7. ComingAreNew'
  BY <1>1, <1>5, <1>6 DEF ChartInv, ComingAreNew, Counts
<1>8. SoldByNow'
  BY <1>1, <1>5 DEF ChartInv, SoldByNow, Counts
<1> QED
  BY <1>3, <1>7, <1>8

\* Every step keeps the chart.
LEMMA ChartStep ==
  ASSUME Week <= Retention
  PROVE  ChartInv /\ [Next]_vars => ChartInv'
<1> SUFFICES ASSUME ChartInv, [Next]_vars
             PROVE  ComingAreNew' /\ SoldByNow' /\ SalesKept'
  BY TypeStep, UniqueStep DEF ChartInv
<1>1. CASE \E h \in Handler : GenerateInsert(h)
  BY <1>1, InsertKeepsSales
<1>2. CASE \E i \in DOMAIN tokens :
             Validate(i) \/ Redeem(i) \/ ExpireToken(i) \/ RevokeToken(i)
  BY <1>2, TokenKeepsSales
<1>3. CASE PurgeTokens
  BY <1>3, PurgeKeepsSales
<1>4. CASE Midnight
  <2>1. UNCHANGED <<tokens, coming, sold>> /\ today' = today + 1
    BY <1>4 DEF Midnight, tokenVars
  <2>2. today \in Nat /\ \A i \in DOMAIN tokens : tokens[i].redeemed \in Nat
    BY RowsShape, CatalogueAssumption DEF ChartInv, TypeOK, Row
  <2>3. Codes' = Codes /\ \A d \in 1..MaxDay : SoldOn(d)' = SoldOn(d)
    BY <2>1 DEF Codes, SoldOn, Counts
  <2>4. ComingAreNew'
    BY <2>1, <2>3 DEF ChartInv, ComingAreNew, Counts
  <2>5. SoldByNow'
    BY <2>1, <2>2 DEF ChartInv, SoldByNow, Counts
  <2>6. SalesKept'
    BY <2>1, <2>2, <2>3, CatalogueAssumption DEF ChartInv, SalesKept
  <2> QED
    BY <2>4, <2>5, <2>6
<1>5. CASE \/ \E h \in Handler : GenerateStart(h) \/ GenerateFails(h)
           \/ WalkStart \/ WalkCount \/ WalkList
           \/ UNCHANGED vars
  <2>1. UNCHANGED <<today, tokens, coming, sold>>
    BY <1>5 DEF GenerateStart, GenerateFails, WalkStart, WalkCount, WalkList,
                vars, tokenVars
  <2>2. Codes' = Codes /\ \A d \in 1..MaxDay : SoldOn(d)' = SoldOn(d)
    BY <2>1 DEF Codes, SoldOn, Counts
  <2>3. ComingAreNew' /\ SoldByNow'
    BY <2>1, <2>2 DEF ChartInv, ComingAreNew, SoldByNow, Counts
  <2> QED
    BY <2>1, <2>2, <2>3, SalesUntouched
<1> QED
  BY <1>1, <1>2, <1>3, <1>4, <1>5 DEF Next, AdminStep, TokenStep

(* As long as sessions are kept for a week (session.retention_days; the    *)
(* code checks only that it is positive), the chart's days and the         *)
(* dashboard's figure count every sale, although expired tokens are purged *)
(* and the ticker may be late (get_weekly_stats, get_daily_stats).         *)
THEOREM ChartForgetsNoSale ==
  ASSUME Week <= Retention
  PROVE  Spec => []ChartKeepsSales
<1>1. Init => ChartInv
  <2> SUFFICES ASSUME Init
               PROVE  ComingAreNew /\ SoldByNow /\ SalesKept /\ UniqueCodes
    BY TypeInit DEF ChartInv
  <2>1. DOMAIN tokens = {}
    BY DEF Init
  <2>2. \A d \in 1..MaxDay : SoldOn(d) = 0 /\ sold[d] = 0
    <3> SUFFICES ASSUME NEW d \in 1..MaxDay
                 PROVE  SoldOn(d) = 0
      BY DEF Init
    <3>1. SoldRows(d) = {}
      BY <2>1 DEF SoldRows
    <3> QED
      BY <3>1, FS_EmptySet DEF SoldOn, SoldRows
  <2> QED
    BY <2>1, <2>2
       DEF Init, ComingAreNew, SoldByNow, SalesKept, UniqueCodes
<1>2. ChartInv => ChartKeepsSales
  <2> SUFFICES ASSUME ChartInv
               PROVE  ChartKeepsSales
    OBVIOUS
  <2>1. /\ today \in 1..MaxDay /\ today \in Nat
        /\ \A i \in DOMAIN tokens : tokens[i].redeemed \in Nat
    BY RowsShape, CatalogueAssumption DEF ChartInv, TypeOK, Row
  <2>2. SoldToday = SoldOn(today)
    <3>1. {i \in DOMAIN tokens : Counts(tokens[i])
                                 /\ tokens[i].redeemed >= today}
            = {i \in DOMAIN tokens : Counts(tokens[i])
                                     /\ tokens[i].redeemed = today}
      BY <2>1 DEF ChartInv, SoldByNow
    <3> QED
      BY <3>1 DEF SoldToday, SoldOn
  <2>3. today > today - Week
    BY <2>1, CatalogueAssumption
  <2>4. \A d \in Chart : d \in 1..MaxDay /\ d > today - Week
    BY <2>1, CatalogueAssumption DEF Chart
  <2> QED
    BY <2>1, <2>2, <2>3, <2>4 DEF ChartInv, SalesKept, ChartKeepsSales
<1>3. ChartInv /\ [Next]_vars => ChartInv'
  BY ChartStep
<1> QED
  BY <1>1, <1>2, <1>3, PTL DEF Spec
-----------------------------------------------------------------------------
(***************************************************************************)
(* The walk.                                                               *)
(***************************************************************************)

\* Before a page is read, the token that is looked for is in the table, and
\* no page that was read before has it now.
OnTheWay ==
  walk # Resting /\ ~walk.cut =>
    /\ walk.sought \in Codes
    /\ \A i \in DOMAIN tokens : tokens[i].code = walk.sought =>
         Rank("all", i) >= (walk.page - 1) * PerPage

WalkInv == TypeOK /\ UniqueCodes /\ OnTheWay

\* Whether the walk has more pages.  The page's rows start at (p - 1) * per
\* page; a row that comes after page p's rows is on one of the next pages.
LEMMA MorePages ==
  ASSUME NEW p \in Nat, NEW total \in Nat, p * PerPage < total
  PROVE  HasNext(p, total)
<1> DEFINE q == TotalPages(total)
<1>a. PerPage \in Nat /\ PerPage > 0
  BY CatalogueAssumption
<1>1. q \in Int /\ total <= q * PerPage
  BY <1>a DEF TotalPages
<1>2. ASSUME p >= q
      PROVE  q * PerPage <= p * PerPage
  BY <1>2, <1>1, <1>a
<1> HIDE DEF q
<1>3. p < q
  <2>1. p * PerPage \in Int /\ q * PerPage \in Int
    BY <1>1, <1>a
  <2> QED
    BY <2>1, <1>1, <1>2
<1> QED
  BY <1>3 DEF q, HasNext

\* The rows that are listed before a row.
Earlier(i) == {j \in DOMAIN tokens : Before(j, i)}

\* All rows match the list of all.
LEMMA RankOfAll ==
  ASSUME tokens \in Seq(Row)
  PROVE  /\ \A i : Rank("all", i) = Cardinality(Earlier(i))
         /\ \A i : Rank("all", i) \in Nat /\ IsFiniteSet(Earlier(i))
         /\ \A i \in DOMAIN tokens : Rank("all", i) < Count("all")
         /\ Count("all") \in Nat
<1>1. \A i : Rank("all", i) = Cardinality(Earlier(i))
  BY DEF Rank, Earlier, Matches
<1>2. Count("all") = Cardinality(DOMAIN tokens) /\ Count("all") \in Nat
  <2>1. {i \in DOMAIN tokens : Matches(tokens[i], "all")} = DOMAIN tokens
    BY DEF Matches
  <2> QED
    BY <2>1, RowCounts DEF Count
<1>3. \A i : IsFiniteSet(Earlier(i)) /\ Cardinality(Earlier(i)) \in Nat
  <2> SUFFICES ASSUME NEW i
               PROVE  IsFiniteSet(Earlier(i)) /\ Cardinality(Earlier(i)) \in Nat
    OBVIOUS
  <2>1. Earlier(i) \in SUBSET (DOMAIN tokens)
    BY DEF Earlier
  <2> QED
    BY <2>1, RowCounts
<1>4. ASSUME NEW i \in DOMAIN tokens
      PROVE  Rank("all", i) < Count("all")
  <2>1. Earlier(i) \in SUBSET (DOMAIN tokens)
    BY DEF Earlier
  <2>2. i \notin Earlier(i)
    <3>1. tokens[i] \in Row /\ i \in Nat
      BY RowsShape
    <3>2. tokens[i].created \in 0..MaxSecond /\ tokens[i].tie \in Tie
      BY <3>1 DEF Row
    <3>3. (\A c \in 0..MaxSecond : c \in Int) /\ (\A t \in Tie : t \in Int)
      BY CatalogueAssumption
    <3>4. tokens[i].created \in Int /\ tokens[i].tie \in Int
      BY <3>2, <3>3, Zenon
    <3> QED
      BY <3>1, <3>4 DEF Earlier, Before
  <2>3. /\ Cardinality(Earlier(i)) <= Cardinality(DOMAIN tokens)
        /\ Cardinality(DOMAIN tokens) = Cardinality(Earlier(i))
             => DOMAIN tokens = Earlier(i)
    BY <2>1, RowsShape, FS_Subset
  <2>4. Cardinality(Earlier(i)) # Cardinality(DOMAIN tokens)
    BY <2>2, <2>3
  <2>5. Cardinality(Earlier(i)) \in Nat /\ Cardinality(DOMAIN tokens) \in Nat
    BY <1>2, <1>3
  <2> QED
    BY <1>1, <1>2, <2>3, <2>4, <2>5
<1> QED
  BY <1>1, <1>2, <1>3, <1>4

\* A row that keeps what was listed before it does not move to the front: f
\* tells where the rows before it are now.
LEMMA RankNeverFalls ==
  ASSUME tokens \in Seq(Row), tokens' \in Seq(Row),
         NEW i \in DOMAIN tokens, NEW k \in DOMAIN tokens',
         NEW f, f \in [Earlier(i) -> DOMAIN tokens'],
         \A j, m \in Earlier(i) : f[j] = f[m] => j = m,
         \A j \in Earlier(i) : Before(f[j], k)'
  PROVE  /\ Rank("all", k)' \in Nat
         /\ Rank("all", k)' >= Rank("all", i)
<1> DEFINE Later == {j \in DOMAIN tokens' : Before(j, k)'}
<1>1. Rank("all", k)' = Cardinality(Later)
  BY DEF Rank, Matches
<1>2. Rank("all", i) = Cardinality(Earlier(i))
  BY RankOfAll
<1>3. Later \in SUBSET (DOMAIN tokens')
  OBVIOUS
<1>4. IsFiniteSet(DOMAIN tokens')
  <2>1. Len(tokens') \in Nat /\ DOMAIN tokens' = 1..Len(tokens')
    BY LenProperties
  <2> QED
    BY <2>1, FS_Interval
<1>5. IsFiniteSet(Later)
  BY <1>3, <1>4, FS_Subset
<1>6. f \in Injection(Earlier(i), Later)
  <2>1. f \in [Earlier(i) -> Later]
    OBVIOUS
  <2> HIDE DEF Later
  <2> QED
    BY <2>1 DEF Injection, IsInjective
<1> HIDE DEF Later
<1>7. Cardinality(Earlier(i)) <= Cardinality(Later)
  BY <1>5, <1>6, FS_Injection
<1>8. Cardinality(Earlier(i)) \in Nat /\ Cardinality(Later) \in Nat
  BY <1>5, <1>2, RankOfAll, FS_CardinalityType
<1> QED
  BY <1>1, <1>2, <1>7, <1>8

\* INSERT moves the other rows back, if at all, and UPDATE leaves them.
LEMMA RanksKept ==
  ASSUME TypeOK, TypeOK', DOMAIN tokens \subseteq DOMAIN tokens',
         \A j \in DOMAIN tokens : /\ tokens'[j].created = tokens[j].created
                                  /\ tokens'[j].tie = tokens[j].tie,
         NEW i \in DOMAIN tokens
  PROVE  /\ Rank("all", i)' \in Nat
         /\ Rank("all", i)' >= Rank("all", i)
<1>1. PICK f : f = [j \in Earlier(i) |-> j]
  OBVIOUS
<1>2. \A j \in Earlier(i) : j \in DOMAIN tokens /\ Before(j, i)
  BY DEF Earlier
<1>3. f \in [Earlier(i) -> DOMAIN tokens']
  BY <1>1, <1>2
<1>4. \A j, m \in Earlier(i) : f[j] = f[m] => j = m
  BY <1>1
<1>5. \A j \in Earlier(i) : Before(f[j], i)'
  BY <1>1, <1>2 DEF Before
<1>6. /\ tokens \in Seq(Row) /\ tokens' \in Seq(Row)
      /\ i \in DOMAIN tokens'
  BY DEF TypeOK
<1> QED
  BY <1>3, <1>4, <1>5, <1>6, RankNeverFalls

\* DELETE leaves a row's rank if no row before it goes.
LEMMA RankAfterPurge ==
  ASSUME TypeOK, TypeOK', NEW gone, NEW n \in Nat, NEW place,
         Moved(gone, n, place),
         NEW k \in 1..n,
         \A j \in DOMAIN tokens :
           Before(j, place[k]) => tokens[j].code \notin gone
  PROVE  /\ Rank("all", k)' \in Nat
         /\ Rank("all", k)' >= Rank("all", place[k])
<1>a. /\ tokens \in Seq(Row) /\ tokens' \in Seq(Row)
      /\ DOMAIN tokens \subseteq Nat
  BY RowsShape DEF TypeOK
<1>b. /\ DOMAIN tokens' = 1..n
      /\ place \in [1..n -> DOMAIN tokens]
      /\ \A i \in DOMAIN tokens :
           tokens[i].code \notin gone => \E m \in 1..n : place[m] = i
      /\ \A j, m \in 1..n : j < m => place[j] < place[m]
      /\ \A m \in 1..n : tokens'[m] = tokens[place[m]]
  BY DEF Moved
<1>1. PICK i \in DOMAIN tokens : i = place[k]
  BY <1>b
<1>2. \A j \in Earlier(i) : /\ j \in DOMAIN tokens /\ Before(j, i)
                            /\ \E m \in 1..n : place[m] = j
  BY <1>1, <1>b DEF Earlier
<1>3. PICK f : f = [j \in Earlier(i) |-> CHOOSE m \in 1..n : place[m] = j]
  OBVIOUS
<1>4. \A j \in Earlier(i) : f[j] \in 1..n /\ place[f[j]] = j
  BY <1>2, <1>3
<1>5. f \in [Earlier(i) -> DOMAIN tokens']
  BY <1>3, <1>4, <1>b
<1>6. \A j, m \in Earlier(i) : f[j] = f[m] => j = m
  BY <1>4
<1>7. ASSUME NEW j \in Earlier(i)
      PROVE  Before(f[j], k)'
  <2>1. /\ f[j] \in 1..n /\ place[f[j]] = j
        /\ j \in DOMAIN tokens /\ Before(j, i)
    BY <1>2, <1>4
  <2>2. tokens'[f[j]] = tokens[j] /\ tokens'[k] = tokens[i]
    BY <1>1, <1>b, <2>1
  <2>3. j < i => f[j] < k
    <3>1. j \in Nat /\ i \in Nat /\ f[j] \in Nat /\ k \in Nat
      BY <1>a, <2>1
    <3>2. k < f[j] => i < j
      BY <1>1, <1>b, <2>1
    <3>3. k = f[j] => i = j
      BY <1>1, <2>1
    <3> QED
      BY <3>1, <3>2, <3>3
  <2> QED
    BY <2>1, <2>2, <2>3 DEF Before
<1>8. Rank("all", k)' \in Nat /\ Rank("all", k)' >= Rank("all", i)
  BY <1>a, <1>b, <1>5, <1>6, <1>7, RankNeverFalls
<1> QED
  BY <1>1, <1>8

\* The manager reads a page.  A row that is not on it, and on none before, is
\* behind it.
LEMMA BehindThePage ==
  ASSUME WalkInv, walk.pc = "list", ~walk.cut, NEW i \in DOMAIN tokens,
         tokens[i].code = walk.sought, i \notin Page("all", walk.page)
  PROVE  /\ Rank("all", i) >= walk.page * PerPage
         /\ ~HasNext(walk.page, walk.total) => Count("all") > walk.total
<1>1. walk # Resting /\ walk \in Walking /\ tokens \in Seq(Row)
  BY DEF WalkInv, TypeOK, Resting
<1>2. /\ walk.page \in Nat \ {0} /\ walk.total \in Nat /\ PerPage \in Nat
      /\ Rank("all", i) \in Nat /\ Count("all") \in Nat
      /\ Rank("all", i) < Count("all")
  BY <1>1, RankOfAll, CatalogueAssumption DEF Walking
<1>3. Rank("all", i) >= (walk.page - 1) * PerPage
  BY <1>1 DEF WalkInv, OnTheWay
<1>4. ~(Rank("all", i) < walk.page * PerPage)
  BY <1>3 DEF Page, Matches
<1>5. walk.page * PerPage \in Nat
  BY <1>2
<1>6. ~HasNext(walk.page, walk.total) => walk.total <= walk.page * PerPage
  BY <1>2, <1>5, MorePages
<1> QED
  BY <1>2, <1>4, <1>5, <1>6

\* The steps of the walk.
LEMMA WalkOnTheWay ==
  ASSUME WalkInv, WalkStart \/ WalkCount \/ WalkList
  PROVE  OnTheWay'
<1>a. TypeOK /\ tokens' = tokens /\ tokens \in Seq(Row)
  BY DEF WalkInv, TypeOK, WalkStart, WalkCount, WalkList
<1>b. Codes' = Codes /\ \A j : Rank("all", j)' = Rank("all", j)
  BY <1>a DEF Codes, Rank, Before, Matches
<1>1. CASE WalkStart
  <2>1. PICK c \in Codes :
          walk' = [pc |-> "count", page |-> 1, total |-> 0, sought |-> c,
                   cut |-> FALSE]
    BY <1>1 DEF WalkStart
  <2>2. (walk'.page - 1) * PerPage = 0
    BY <2>1, CatalogueAssumption
  <2>3. \A i : Rank("all", i) >= 0
    BY <1>a, RankOfAll
  <2> QED
    BY <1>a, <1>b, <2>1, <2>2, <2>3 DEF OnTheWay
<1>2. CASE WalkCount
  <2>1. walk \in Walking /\ walk # Resting
    BY <1>2, <1>a DEF WalkCount, TypeOK, Resting
  <2>2. /\ walk'.page = walk.page /\ walk'.sought = walk.sought
        /\ walk'.cut = walk.cut
    BY <1>2, <2>1 DEF WalkCount, Walking
  <2> QED
    BY <1>a, <1>b, <2>1, <2>2 DEF WalkInv, OnTheWay
<1>3. CASE WalkList
  <2>1. walk \in Walking /\ walk # Resting /\ walk.pc = "list"
    BY <1>3, <1>a DEF WalkList, TypeOK, Resting
  <2>2. CASE Found \/ ~HasNext(walk.page, walk.total)
    BY <1>3, <2>2 DEF WalkList, OnTheWay
  <2>3. CASE ~Found /\ HasNext(walk.page, walk.total)
    <3>1. /\ walk'.page = walk.page + 1 /\ walk'.sought = walk.sought
          /\ walk'.cut = walk.cut /\ walk.page \in Nat
      BY <1>3, <2>1, <2>3 DEF WalkList, Walking
    <3>2. walk'.page - 1 = walk.page
      BY <3>1
    <3>3. ASSUME ~walk.cut, NEW i \in DOMAIN tokens,
                 tokens[i].code = walk.sought
          PROVE  Rank("all", i) >= walk.page * PerPage
      BY <2>1, <2>3, <3>3, BehindThePage DEF Found
    <3>4. ~walk.cut => walk.sought \in Codes
      BY <2>1 DEF WalkInv, OnTheWay
    <3> QED
      BY <1>a, <1>b, <3>1, <3>2, <3>3, <3>4 DEF OnTheWay
  <2> QED
    BY <2>2, <2>3
<1> QED
  BY <1>1, <1>2, <1>3

\* A walk that is not cut knows what it has looked through.
LEMMA WalkBound ==
  ASSUME WalkInv, walk # Resting
  PROVE  (walk.page - 1) * PerPage \in Nat
<1>1. walk.page - 1 \in Nat /\ PerPage \in Nat
  BY CatalogueAssumption DEF WalkInv, TypeOK, Walking
<1> QED
  BY <1>1

\* A purge while a manager is on the way.
LEMMA PurgeOnTheWay ==
  ASSUME WalkInv, TypeOK', PurgeTokens
  PROVE  OnTheWay'
<1>a. TypeOK /\ tokens \in Seq(Row) /\ tokens' \in Seq(Row)
  BY DEF WalkInv, TypeOK
<1>1. PICK gone :
        /\ Delete(gone)
        /\ walk' = IF Cuts(gone) THEN [walk EXCEPT !.cut = TRUE] ELSE walk
  BY PurgeShape
<1>2. CASE Cuts(gone)
  <2>1. walk \in Walking
    BY <1>2, <1>a DEF Cuts, TypeOK
  <2>2. walk'.cut
    BY <1>1, <1>2, <2>1 DEF Walking
  <2> QED
    BY <2>2 DEF OnTheWay
<1>3. CASE ~Cuts(gone)
  <2> SUFFICES ASSUME walk # Resting, ~walk.cut
               PROVE  /\ walk.sought \in Codes'
                      /\ \A k \in DOMAIN tokens' :
                           tokens'[k].code = walk.sought =>
                             Rank("all", k)' >= (walk.page - 1) * PerPage
    BY <1>1, <1>3 DEF OnTheWay
  <2>1. PICK n \in Nat : \E place : Moved(gone, n, place)
    BY <1>1, <1>a, RowsDeleted
  <2>2. PICK place : Moved(gone, n, place)
    BY <2>1
  <2>3. /\ DOMAIN tokens' = 1..n
        /\ \A k \in 1..n : /\ place[k] \in DOMAIN tokens
                           /\ tokens'[k] = tokens[place[k]]
    BY <2>2 DEF Moved
  <2>4. \A i, j \in DOMAIN tokens :
          tokens[i].code = walk.sought /\ (i = j \/ Before(j, i))
            => tokens[j].code \notin gone
    BY <1>3 DEF Cuts
  <2>5. walk.sought \in Codes'
    <3>1. walk.sought \in Codes
      BY DEF WalkInv, OnTheWay
    <3>2. walk.sought \notin gone
      BY <2>4, <3>1 DEF Codes
    <3> QED
      BY <1>1, <1>a, <3>1, <3>2, CodesDeleted
  <2>6. ASSUME NEW k \in DOMAIN tokens', tokens'[k].code = walk.sought
        PROVE  Rank("all", k)' >= (walk.page - 1) * PerPage
    <3>1. place[k] \in DOMAIN tokens /\ tokens[place[k]].code = walk.sought
      BY <2>3, <2>6
    <3>2. \A j \in DOMAIN tokens :
            Before(j, place[k]) => tokens[j].code \notin gone
      BY <2>4, <3>1
    <3>3. /\ Rank("all", k)' \in Nat
          /\ Rank("all", k)' >= Rank("all", place[k])
      BY <1>a, <2>2, <2>3, <2>6, <3>2, RankAfterPurge
    <3>4. Rank("all", place[k]) >= (walk.page - 1) * PerPage
      BY <3>1 DEF WalkInv, OnTheWay
    <3>5. /\ Rank("all", place[k]) \in Nat
          /\ (walk.page - 1) * PerPage \in Nat
      BY <1>a, RankOfAll, WalkBound
    <3> QED
      BY <3>3, <3>4, <3>5
  <2> QED
    BY <2>5, <2>6
<1> QED
  BY <1>2, <1>3

\* What others do to the rows while a manager is on the way.
LEMMA RowsOnTheWay ==
  ASSUME WalkInv, TypeOK',
         \/ \E h \in Handler : GenerateInsert(h)
         \/ \E i \in DOMAIN tokens :
              Redeem(i) \/ ExpireToken(i) \/ RevokeToken(i)
  PROVE  OnTheWay'
<1>a. TypeOK /\ tokens \in Seq(Row)
  BY DEF WalkInv, TypeOK
<1>1. /\ walk' = walk /\ Codes \subseteq Codes'
      /\ DOMAIN tokens \subseteq DOMAIN tokens'
      /\ \A j \in DOMAIN tokens : /\ tokens'[j].created = tokens[j].created
                                  /\ tokens'[j].tie = tokens[j].tie
      /\ \A k \in DOMAIN tokens' :
           tokens'[k].code \in Codes => /\ k \in DOMAIN tokens
                                        /\ tokens[k].code = tokens'[k].code
  <2>1. CASE \E h \in Handler : GenerateInsert(h)
    <3>1. PICK h \in Handler : GenerateInsert(h)
      BY <2>1
    <3>2. PICK n \in Nat :
            /\ DOMAIN tokens' = DOMAIN tokens \cup {n}
            /\ \A i \in DOMAIN tokens : tokens'[i] = tokens[i]
            /\ tokens'[n].code = NextCode(h)
            /\ NextCode(h) \notin Codes
            /\ Codes' = Codes \cup {NextCode(h)}
      BY <1>a, <3>1, CodeInserted
    <3>3. walk' = walk
      BY <3>1 DEF GenerateInsert
    <3> QED
      BY <3>2, <3>3
  <2>2. CASE \E i \in DOMAIN tokens :
               Redeem(i) \/ ExpireToken(i) \/ RevokeToken(i)
    <3>1. PICK i \in DOMAIN tokens :
            Redeem(i) \/ ExpireToken(i) \/ RevokeToken(i)
      BY <2>2
    <3>2. /\ DOMAIN tokens' = DOMAIN tokens /\ Codes' = Codes
          /\ \A j \in DOMAIN tokens :
               /\ tokens'[j].code = tokens[j].code
               /\ tokens'[j].created = tokens[j].created
               /\ tokens'[j].tie = tokens[j].tie
      BY <1>a, <3>1, RowUpdated
    <3>3. walk' = walk
      BY <3>1 DEF Redeem, ExpireToken, RevokeToken
    <3> QED
      BY <3>2, <3>3
  <2> QED
    BY <2>1, <2>2
<1>2. ASSUME walk # Resting, ~walk.cut, NEW k \in DOMAIN tokens',
             tokens'[k].code = walk.sought
      PROVE  Rank("all", k)' >= (walk.page - 1) * PerPage
  <2>1. walk.sought \in Codes
    BY <1>2 DEF WalkInv, OnTheWay
  <2>2. k \in DOMAIN tokens /\ tokens[k].code = walk.sought
    BY <1>1, <1>2, <2>1
  <2>3. /\ Rank("all", k)' \in Nat
        /\ Rank("all", k)' >= Rank("all", k)
    BY <1>a, <1>1, <2>2, RanksKept
  <2>4. Rank("all", k) >= (walk.page - 1) * PerPage
    BY <1>2, <2>2 DEF WalkInv, OnTheWay
  <2>5. Rank("all", k) \in Nat /\ (walk.page - 1) * PerPage \in Nat
    BY <1>a, <1>2, RankOfAll, WalkBound
  <2> QED
    BY <2>3, <2>4, <2>5
<1> QED
  BY <1>1, <1>2 DEF WalkInv, OnTheWay

\* Every step keeps the walk on the way.
LEMMA WalkStep ==
  WalkInv /\ [Next]_vars => WalkInv'
<1> SUFFICES ASSUME WalkInv, [Next]_vars
             PROVE  OnTheWay'
  BY TypeStep, UniqueStep DEF WalkInv
<1>a. TypeOK'
  BY TypeStep DEF WalkInv
<1>1. CASE WalkStart \/ WalkCount \/ WalkList
  BY <1>1, WalkOnTheWay
<1>2. CASE PurgeTokens
  BY <1>2, <1>a, PurgeOnTheWay
<1>3. CASE \/ \E h \in Handler : GenerateInsert(h)
           \/ \E i \in DOMAIN tokens :
                Redeem(i) \/ ExpireToken(i) \/ RevokeToken(i)
  BY <1>3, <1>a, RowsOnTheWay
<1>4. CASE \/ \E h \in Handler : GenerateStart(h) \/ GenerateFails(h)
           \/ \E i \in DOMAIN tokens : Validate(i)
           \/ Midnight \/ UNCHANGED vars
  <2>1. UNCHANGED <<tokens, walk>>
    BY <1>4 DEF GenerateStart, GenerateFails, Validate, Midnight, vars,
                tokenVars
  <2>2. Codes' = Codes /\ \A j : Rank("all", j)' = Rank("all", j)
    BY <2>1 DEF Codes, Rank, Before, Matches
  <2> QED
    BY <2>1, <2>2 DEF WalkInv, OnTheWay
<1> QED
  BY <1>1, <1>2, <1>3, <1>4 DEF Next, AdminStep, TokenStep

\* The step that ends a walk.
LEMMA WalkEnds ==
  ASSUME WalkInv, [Next]_vars, walk.pc = "list", walk' = Resting, ~walk.cut,
         NEW i \in DOMAIN tokens, tokens[i].code = walk.sought,
         i \notin Page("all", walk.page)
  PROVE  Rank("all", i) >= walk.page * PerPage /\ Count("all") > walk.total
<1>1. walk # Resting /\ walk \in Walking
  BY DEF WalkInv, TypeOK, Resting
<1>2. ~(Found \/ ~HasNext(walk.page, walk.total)) => ~WalkList
  BY <1>1 DEF WalkList, Walking, Resting
<1>3. ASSUME PurgeTokens
      PROVE  FALSE
  <2>1. PICK gone : walk' = IF Cuts(gone) THEN [walk EXCEPT !.cut = TRUE]
                                          ELSE walk
    BY <1>3, PurgeShape
  <2>2. walk'.pc = "list"
    BY <1>1, <2>1 DEF Walking
  <2> QED
    BY <2>2 DEF Resting
<1>4. WalkList
  <2>1. walk'.pc # walk.pc
    BY DEF Resting
  <2>2. walk' # walk
    BY <2>1
  <2> QED
    BY <1>1, <1>3, <2>2 DEF Next, AdminStep, TokenStep, GenerateStart,
       GenerateInsert, GenerateFails, WalkStart, WalkCount, Validate, Redeem,
       ExpireToken, RevokeToken, Midnight, vars, tokenVars
<1>5. CASE ~HasNext(walk.page, walk.total)
  BY <1>5, BehindThePage
<1>6. CASE HasNext(walk.page, walk.total)
  <2>1. PICK j \in Page("all", walk.page) : tokens[j].code = walk.sought
    BY <1>2, <1>4, <1>6 DEF Found
  <2>2. j \in DOMAIN tokens
    BY <2>1 DEF Page
  <2>3. j = i
    BY <2>1, <2>2 DEF WalkInv, UniqueCodes
  <2> QED
    BY <2>1, <2>3
<1> QED
  BY <1>5, <1>6

(* A manager who walks through the pages sees every token that was there   *)
(* at the start, for any page size, any order of a second's rows and any   *)
(* batches, between the two statements of a page too: they push rows to    *)
(* later pages, never to earlier ones.  What is not seen was behind a row  *)
(* that the purge took, or is behind the last page because rows came       *)
(* between its statements (list_tokens_paged).                             *)
THEOREM WalksMissNothing ==
  Spec => WalkMissesNothing
<1>1. Init => WalkInv
  BY TypeInit DEF Init, WalkInv, UniqueCodes, OnTheWay
<1>2. WalkInv /\ [Next]_vars => WalkInv'
  BY WalkStep
<1>3. WalkInv /\ [Next]_vars =>
        [walk.pc = "list" /\ walk' = Resting /\ ~walk.cut =>
           \A i \in DOMAIN tokens : tokens[i].code = walk.sought =>
             \/ i \in Page("all", walk.page)
             \/ /\ Rank("all", i) >= walk.page * PerPage
                /\ Count("all") > walk.total]_vars
  BY WalkEnds
<1> QED
  BY <1>1, <1>2, <1>3, PTL DEF Spec, WalkMissesNothing
=============================================================================
