---------------------------- MODULE TickReplayProofs ----------------------------
(***************************************************************************)
(* Proofs about TickReplay.tla, for any tables, page size, windows and     *)
(* whatever the recorder adds while a pass runs: the rows of a pass are    *)
(* replayed in order and completely, and its trades explain its equity.    *)
(*                                                                         *)
(* The first rests on the cursors.  What was yielded is before all that is *)
(* at hand, and a generator that has run out of rows has its cursor at the *)
(* last row yielded, of either kind: the merge does not go on without it.  *)
(***************************************************************************)
EXTENDS TickReplay, SequenceTheorems, FiniteSetTheorems, TLAPS

-----------------------------------------------------------------------------
(* Constants, rows and their order                                         *)

LEMMA Numbers ==
  /\ MaxTs \in Nat /\ Train \in Nat /\ Test \in Nat /\ Fee \in Nat
  /\ PageSize \in Nat \ {0} /\ StepLen \in Nat \ {0} /\ Folds \in Nat \ {0}
  /\ RewardRisk \in Nat \ {0} /\ Equity0 \in Nat \ {0}
  /\ Prices \subseteq Nat /\ Levels \subseteq Nat
BY ReplayAssumption DEF ReplayAssumption

Row == [ts : Int, kind : Kinds, id : Int]
RowOf(k) == [ts : Int, kind : {k}, id : Int]

(* Rows are ordered by time, table and id.                                 *)
LEMMA BeforeIsTransitive ==
  ASSUME NEW a \in Row, NEW b \in Row, NEW c \in Row, Before(a, b), Before(b, c)
  PROVE  Before(a, c)
BY DEF Row, Kinds, Before

LEMMA BeforeIsStrict ==
  ASSUME NEW a \in Row, NEW b \in Row, Before(a, b)
  PROVE  ~Before(b, a) /\ a # b
BY DEF Row, Kinds, Before

LEMMA BeforeIsTotal ==
  ASSUME NEW a \in Row, NEW b \in Row, ~Before(a, b)
  PROVE  a = b \/ Before(b, a)
<1>1. CASE a.ts = b.ts /\ a.kind = b.kind /\ a.id = b.id
  BY <1>1 DEF Row
<1>2. CASE ~(a.ts = b.ts /\ a.kind = b.kind /\ a.id = b.id)
  BY <1>2 DEF Row, Kinds, Before
<1>. QED BY <1>1, <1>2

LEMMA NothingInNothing ==
  /\ <<>> \in Seq(Row) /\ Len(<<>>) = 0 /\ Range(<<>>) = {}
BY EmptySeq DEF Range

(* What a row adds to those that were yielded.                             *)
LEMMA RowAdded ==
  ASSUME NEW S, NEW q \in Seq(S), NEW r \in S
  PROVE  /\ Append(q, r) \in Seq(S) /\ Len(Append(q, r)) = Len(q) + 1
         /\ \A j \in 1..Len(q) : Append(q, r)[j] = q[j]
         /\ Append(q, r)[Len(q) + 1] = r
         /\ Range(Append(q, r)) = Range(q) \union {r}
<1>. DEFINE n == Len(q)
            a == Append(q, r)
<1>1. n \in Nat /\ DOMAIN q = 1..n BY LenProperties
<1>2. /\ a \in Seq(S) /\ Len(a) = n + 1 /\ a[n + 1] = r
      /\ \A j \in 1..n : a[j] = q[j]
  BY AppendProperties, LenProperties
<1>3. DOMAIN a = 1..n + 1 BY <1>2, LenProperties
<1>. HIDE DEF n, a
<1>4. Range(a) = Range(q) \union {r}
  <2>1. \A x \in Range(a) : x \in Range(q) \union {r}
    <3>1. SUFFICES ASSUME NEW j \in 1..n + 1 PROVE a[j] \in Range(q) \union {r}
      BY <1>3 DEF Range
    <3>2. j \in 1..n \/ j = n + 1 BY <1>1
    <3>. QED BY <1>1, <1>2, <3>2 DEF Range
  <2>2. \A x \in Range(q) : x \in Range(a)
    <3>1. SUFFICES ASSUME NEW j \in 1..n PROVE q[j] \in Range(a)
      BY <1>1 DEF Range
    <3>2. j \in 1..n + 1 BY <1>1
    <3>. QED BY <1>2, <1>3, <3>2 DEF Range
  <2>3. n + 1 \in 1..n + 1 BY <1>1
  <2>4. r \in Range(a) BY <1>2, <1>3, <2>3 DEF Range
  <2>. QED BY <2>1, <2>2, <2>4
<1>. QED BY <1>2, <1>4 DEF n, a

-----------------------------------------------------------------------------
(* The invariant of the generators and the merge                           *)

Pass == [keep : BOOLEAN, start : Int, end : Int]

RowAt(k, id) == [ts |-> db[k][id], kind |-> k, id |-> id]
Cursor(k) == [ts |-> stream[k].last.ts, kind |-> k, id |-> stream[k].last.id]
Yielded == Range(yielded.rows)

TablesInv ==
  /\ db \in [Kinds -> Seq(Int)]
  /\ passes \in Seq(Pass)
  /\ yielded \in [rows : Seq(Row), known : [Kinds -> Nat]]
  /\ \A k \in Kinds : yielded.known[k] <= Len(db[k])

GeneratorsInv ==
  stream \in [Kinds -> [last : [ts : Int, id : Int], page : SUBSET Row, ended : BOOLEAN]]

(* A page has rows of one kind, up to the cursor, and none that is not     *)
(* after all that was yielded.                                             *)
PageInv(k) ==
  /\ stream[k].page \subseteq RowOf(k)
  /\ \A y \in Yielded, r \in stream[k].page : Before(y, r)
  /\ stream[k].page # {} =>
       /\ Cursor(k) \in stream[k].page
       /\ \A r \in stream[k].page : r = Cursor(k) \/ Before(r, Cursor(k))

(* While a generator has no row at hand, the merge is where its cursor is. *)
GapInv(k) ==
  stream[k].page = {} /\ ~stream[k].ended => \A y \in Yielded : ~Before(Cursor(k), y)

(* A row of the window that was there from the start is replayed, at hand, *)
(* or still to be fetched.                                                 *)
CompleteInv(k) == \A id \in 1..yielded.known[k] :
  db[k][id] \in Head(passes).start..Head(passes).end =>
    \/ RowAt(k, id) \in Yielded \union stream[k].page
    \/ ~stream[k].ended /\ After(RowAt(k, id), stream[k].last)

OrderInv == \A j \in 1..Len(yielded.rows) - 1 : Before(yielded.rows[j], yielded.rows[j + 1])

MergeInv ==
  /\ TablesInv /\ GeneratorsInv /\ OrderInv
  /\ IF passes = <<>> THEN yielded.rows = <<>>
     ELSE \A k \in Kinds : PageInv(k) /\ GapInv(k) /\ CompleteInv(k)

MergeVars == <<db, passes, stream, yielded>>

LEMMA MergeUnmoved ==
  ASSUME MergeInv, UNCHANGED MergeVars
  PROVE  MergeInv'
BY DEF MergeInv, MergeVars, TablesInv, GeneratorsInv, OrderInv, PageInv, GapInv, CompleteInv,
       RowAt, Cursor, Yielded

(* A pass begins before its first row.                                     *)
LEMMA BeginsMerge ==
  ASSUME db' \in [Kinds -> Seq(Int)], passes' \in Seq(Pass),
         yielded' = [rows |-> <<>>, known |-> [k \in Kinds |-> Len(db'[k])]],
         GeneratorsInv,
         stream' = IF passes' = <<>> THEN stream
                   ELSE [k \in Kinds |-> Generator(Head(passes').start)]
  PROVE  MergeInv'
<1>1. \A k \in Kinds : Len(db'[k]) \in Nat BY LenProperties
<1>2. TablesInv' BY <1>1, NothingInNothing DEF TablesInv
<1>3. OrderInv'
  <2>1. Len(yielded'.rows) = 0 BY NothingInNothing
  <2>. QED BY <2>1 DEF OrderInv
<1>4. CASE passes' = <<>> BY <1>2, <1>3, <1>4 DEF MergeInv, GeneratorsInv
<1>5. CASE passes' # <<>>
  <2>. DEFINE start == Head(passes').start
              end == Head(passes').end
  <2>1. start \in Int /\ end \in Int
    <3>1. Head(passes') \in Pass BY <1>5, HeadTailProperties
    <3>. QED BY <3>1 DEF Pass
  <2>2. stream' = [k \in Kinds |-> Generator(start)] BY <1>5
  <2>3. Yielded' = {} BY NothingInNothing DEF Yielded
  <2>. HIDE DEF start, end
  <2>4. \A k \in Kinds : /\ stream'[k].last = [ts |-> start - 1, id |-> -1]
                         /\ stream'[k].page = {} /\ stream'[k].ended = FALSE
    BY <2>2 DEF Generator
  <2>5. GeneratorsInv'
    <3>1. Generator(start) \in [last : [ts : Int, id : Int], page : SUBSET Row, ended : BOOLEAN]
      BY <2>1 DEF Generator
    <3>. QED BY <2>2, <3>1 DEF GeneratorsInv
  <2>6. ASSUME NEW k \in Kinds PROVE (PageInv(k) /\ GapInv(k))'
    BY <2>3, <2>4 DEF PageInv, GapInv
  <2>7. ASSUME NEW k \in Kinds PROVE CompleteInv(k)'
    <3>1. SUFFICES ASSUME NEW id \in 1..yielded'.known[k], db'[k][id] \in start..end
                   PROVE  After(RowAt(k, id)', stream'[k].last)
      BY <2>4 DEF CompleteInv, start, end
    <3>2. db'[k][id] > start - 1 BY <2>1, <3>1
    <3>. QED BY <2>4, <3>2 DEF After, RowAt
  <2>. QED BY <1>2, <1>3, <1>5, <2>5, <2>6, <2>7 DEF MergeInv
<1>. QED BY <1>4, <1>5

-----------------------------------------------------------------------------
(* The windows                                                             *)

(* _generate_ts_windows and walk_forward_metrics ask for whole numbers.    *)
LEMMA WindowsArePasses ==
  ASSUME NEW from \in Int, NEW to \in Int
  PROVE  WalkForward(from, to) \in Seq(Pass) /\ BuilderFolds(from, to) \in Seq(Pass)
<1>. DEFINE n == IF to - from < Train + Test THEN 0
                 ELSE (to - from - Train - Test) \div StepLen + 1
            is(j) == from + ((j - 1) \div 2) * StepLen
            pass(j) == IF j % 2 = 1
                       THEN [keep |-> FALSE, start |-> is(j), end |-> is(j) + Train]
                       ELSE [keep |-> TRUE, start |-> is(j) + Train,
                             end |-> is(j) + Train + Test]
            len == (to - from) \div Folds
            fold(j) == [keep |-> FALSE, start |-> from + (j - 1) * len, end |-> from + j * len]
<1>1. n \in Nat
  <2>1. CASE to - from < Train + Test BY <2>1
  <2>2. CASE ~(to - from < Train + Test)
    <3>1. to - from - Train - Test \in Nat BY <2>2, Numbers
    <3>2. (to - from - Train - Test) \div StepLen \in Nat BY <3>1, Numbers
    <3>. QED BY <2>2, <3>2
  <2>. QED BY <2>1, <2>2
<1>2. ASSUME NEW j \in Nat \ {0} PROVE pass(j) \in Pass
  <2>1. (j - 1) \div 2 \in Int BY <1>2
  <2>2. ((j - 1) \div 2) * StepLen \in Int BY <2>1, Numbers
  <2>3. is(j) \in Int BY <2>2
  <2>4. is(j) + Train \in Int /\ is(j) + Train + Test \in Int BY <2>3, Numbers
  <2>. HIDE DEF is
  <2>. QED BY <2>3, <2>4 DEF Pass
<1>3. ASSUME NEW j \in Nat \ {0} PROVE fold(j) \in Pass
  <2>1. len \in Int BY Numbers
  <2>. HIDE DEF len
  <2>2. (j - 1) * len \in Int /\ j * len \in Int BY <1>3, <2>1
  <2>. QED BY <2>2 DEF Pass
<1>4. WalkForward(from, to) = IF n < 2 THEN <<>> ELSE [j \in 1..2 * n |-> pass(j)]
  BY DEF WalkForward
<1>5. BuilderFolds(from, to) = [j \in 1..Folds |-> fold(j)] BY DEF BuilderFolds
<1>. HIDE DEF n, pass, fold
<1>6. 2 * n \in Nat BY <1>1
<1>7. [j \in 1..2 * n |-> pass(j)] \in Seq(Pass)
  <2>1. [j \in 1..2 * n |-> pass(j)] \in [1..2 * n -> Pass] BY <1>2
  <2>. QED BY <1>6, <2>1, SeqDef
<1>8. [j \in 1..Folds |-> fold(j)] \in Seq(Pass)
  <2>1. [j \in 1..Folds |-> fold(j)] \in [1..Folds -> Pass] BY <1>3
  <2>. QED BY <2>1, Numbers, SeqDef
<1>9. <<>> \in Seq(Pass) BY EmptySeq
<1>. QED BY <1>4, <1>5, <1>7, <1>8, <1>9

LEMMA InitMerge ==
  ASSUME Init
  PROVE  MergeInv
<1>1. /\ db \in [Kinds -> Seq(Int)]
      /\ Range(db["depth"]) \subseteq Int
  <2>1. /\ db["depth"] \in [1..Rows["depth"] -> Times]
        /\ db["trade"] \in [1..Rows["trade"] -> Times]
        /\ db = [k \in Kinds |-> db[k]]
    BY DEF Init, Kinds
  <2>2. Times \subseteq Int BY Numbers DEF Times
  <2>3. Rows["depth"] \in Nat /\ Rows["trade"] \in Nat
    BY ReplayAssumption DEF ReplayAssumption
  <2>4. db["depth"] \in Seq(Int) /\ db["trade"] \in Seq(Int)
    BY <2>1, <2>2, <2>3, SeqDef
  <2>5. \A k \in Kinds : db[k] \in Seq(Int) BY <2>4 DEF Kinds
  <2>6. Range(db["depth"]) \subseteq Int BY <2>1, <2>2 DEF Range
  <2>. QED BY <2>1, <2>5, <2>6
<1>2. passes \in Seq(Pass)
  <2>1. CASE passes = BuilderFolds(0, MaxTs) BY <2>1, Numbers, WindowsArePasses
  <2>2. CASE \E first, last \in Range(db["depth"]) : passes = WalkForward(first, last)
    BY <1>1, <2>2, WindowsArePasses
  <2>. QED BY <2>1, <2>2 DEF Init
<1>3. /\ stream = [k \in Kinds |-> Generator(Head(passes).start)] /\ passes # <<>>
      /\ yielded = [rows |-> <<>>, known |-> [k \in Kinds |-> Len(db[k])]]
  BY DEF Init, Size
<1>. DEFINE start == Head(passes).start
            end == Head(passes).end
<1>4. start \in Int /\ end \in Int
  <2>1. Head(passes) \in Pass BY <1>2, <1>3, HeadTailProperties
  <2>. QED BY <2>1 DEF Pass
<1>5. TablesInv
  <2>1. \A k \in Kinds : Len(db[k]) \in Nat BY <1>1, LenProperties
  <2>. QED BY <1>1, <1>2, <1>3, <2>1, NothingInNothing DEF TablesInv
<1>6. OrderInv
  <2>1. Len(yielded.rows) = 0 BY <1>3, NothingInNothing
  <2>. QED BY <2>1 DEF OrderInv
<1>7. Yielded = {} BY <1>3, NothingInNothing DEF Yielded
<1>8. stream = [k \in Kinds |-> Generator(start)] BY <1>3
<1>. HIDE DEF start, end
<1>9. \A k \in Kinds : /\ stream[k].last = [ts |-> start - 1, id |-> -1]
                       /\ stream[k].page = {} /\ stream[k].ended = FALSE
  BY <1>8 DEF Generator
<1>10. GeneratorsInv
  <2>1. Generator(start) \in [last : [ts : Int, id : Int], page : SUBSET Row, ended : BOOLEAN]
    BY <1>4 DEF Generator
  <2>. QED BY <1>8, <2>1 DEF GeneratorsInv
<1>11. ASSUME NEW k \in Kinds PROVE PageInv(k) /\ GapInv(k)
  BY <1>7, <1>9 DEF PageInv, GapInv
<1>12. ASSUME NEW k \in Kinds PROVE CompleteInv(k)
  <2>1. SUFFICES ASSUME NEW id \in 1..yielded.known[k], db[k][id] \in start..end
                 PROVE  After(RowAt(k, id), stream[k].last)
    BY <1>9 DEF CompleteInv, start, end
  <2>2. db[k][id] > start - 1 BY <1>4, <2>1
  <2>. QED BY <1>9, <2>2 DEF After, RowAt
<1>. QED BY <1>3, <1>5, <1>6, <1>10, <1>11, <1>12 DEF MergeInv

-----------------------------------------------------------------------------
(* The steps of a pass                                                     *)

(* A row the recorder adds is new: those that were there keep their place. *)
LEMMA RecordMerge ==
  ASSUME MergeInv, NEW t \in Kinds, Record(t)
  PROVE  MergeInv'
<1>1. PICK ts \in Times : db' = [db EXCEPT ![t] = Append(db[t], ts)] BY DEF Record
<1>2. passes # <<>> /\ UNCHANGED <<passes, stream, yielded>> BY DEF Record
<1>3. ts \in Int BY Numbers DEF Times
<1>4. db \in [Kinds -> Seq(Int)] BY DEF MergeInv, TablesInv
<1>5. /\ Append(db[t], ts) \in Seq(Int) /\ Len(Append(db[t], ts)) = Len(db[t]) + 1
      /\ \A id \in 1..Len(db[t]) : Append(db[t], ts)[id] = db[t][id]
  BY <1>3, <1>4, RowAdded
<1>6. db' \in [Kinds -> Seq(Int)] BY <1>1, <1>4, <1>5
<1>7. ASSUME NEW k \in Kinds
      PROVE  /\ yielded.known[k] <= Len(db'[k])
             /\ \A id \in 1..yielded.known[k] : db'[k][id] = db[k][id]
  <2>. DEFINE n == Len(db[k])
  <2>1. n \in Nat /\ yielded.known[k] \in Nat /\ yielded.known[k] <= n
    BY <1>4, LenProperties DEF MergeInv, TablesInv
  <2>2. Len(db'[k]) = n \/ Len(db'[k]) = n + 1 BY <1>1, <1>4, <1>5
  <2>3. \A id \in 1..n : db'[k][id] = db[k][id] BY <1>1, <1>4, <1>5
  <2>. HIDE DEF n
  <2>4. \A id \in 1..yielded.known[k] : id \in 1..n BY <2>1
  <2>. QED BY <2>1, <2>2, <2>3, <2>4
<1>8. TablesInv' BY <1>2, <1>6, <1>7 DEF MergeInv, TablesInv
<1>9. GeneratorsInv' /\ OrderInv' BY <1>2 DEF MergeInv, GeneratorsInv, OrderInv
<1>10. ASSUME NEW k \in Kinds PROVE (PageInv(k) /\ GapInv(k))'
  BY <1>2 DEF MergeInv, PageInv, GapInv, Yielded, Cursor
<1>11. ASSUME NEW k \in Kinds PROVE CompleteInv(k)'
  <2>1. CompleteInv(k) BY <1>2 DEF MergeInv
  <2>2. Yielded' = Yielded BY <1>2 DEF Yielded
  <2>3. \A id \in 1..yielded.known[k] : RowAt(k, id)' = RowAt(k, id) BY <1>7 DEF RowAt
  <2>. QED BY <1>2, <1>7, <2>1, <2>2, <2>3 DEF CompleteInv
<1>. QED BY <1>2, <1>8, <1>9, <1>10, <1>11 DEF MergeInv

(* A page is the rows after the cursor, as far as it goes.                 *)
LEMMA FetchMerge ==
  ASSUME MergeInv, NEW k \in Kinds, Fetch(k)
  PROVE  MergeInv'
<1>. DEFINE g == stream[k]
            found == {r \in RowsOf(k) : After(r, g.last) /\ r.ts <= Head(passes).end}
<1>1. /\ passes # <<>> /\ g.page = {} /\ ~g.ended
      /\ UNCHANGED <<db, passes, yielded>>
  BY DEF Fetch
<1>2. PICK page \in FirstPage(found) :
        \/ page = {} /\ stream' = [stream EXCEPT ![k].ended = TRUE]
        \/ \E row \in page :
             /\ \A r \in page \ {row} : Before(r, row)
             /\ stream' = [stream EXCEPT ![k] =
                  [last |-> [ts |-> row.ts, id |-> row.id], page |-> page,
                   ended |-> Cardinality(page) < PageSize]]
  BY DEF Fetch
<1>3. /\ page \subseteq found
      /\ Cardinality(page) < PageSize => page = found
      /\ \A r \in page, s \in found \ page : Before(r, s)
  BY DEF FirstPage
<1>4. /\ TablesInv /\ GeneratorsInv /\ OrderInv
      /\ \A j \in Kinds : PageInv(j) /\ GapInv(j) /\ CompleteInv(j)
  BY <1>1 DEF MergeInv
<1>5. Yielded \subseteq Row BY <1>4, LenProperties DEF Yielded, TablesInv, Range
<1>6. found \subseteq RowOf(k)
  <2>1. \A id \in 1..Len(db[k]) : RowAt(k, id) \in RowOf(k)
    BY <1>4, LenProperties DEF TablesInv, RowAt, RowOf
  <2>. QED BY <2>1 DEF RowsOf, RowAt
<1>7. RowOf(k) \subseteq Row BY DEF RowOf, Row
<1>8. Cursor(k) \in RowOf(k) BY <1>4 DEF Cursor, GeneratorsInv, RowOf
<1>9. \A y \in Yielded, r \in found : Before(y, r)
  <2>1. SUFFICES ASSUME NEW y \in Yielded, NEW r \in found PROVE Before(y, r) OBVIOUS
  <2>2. Before(Cursor(k), r) BY <1>6 DEF After, Before, Cursor, RowOf
  <2>3. ~Before(Cursor(k), y) BY <1>1, <1>4 DEF GapInv
  <2>4. y = Cursor(k) \/ Before(y, Cursor(k)) BY <1>5, <1>7, <1>8, <2>3, BeforeIsTotal
  <2>. QED BY <1>5, <1>6, <1>7, <1>8, <2>2, <2>4, BeforeIsTransitive
<1>10. ASSUME NEW id \in 1..yielded.known[k],
              db[k][id] \in Head(passes).start..Head(passes).end
       PROVE  RowAt(k, id) \in Yielded \union found
  <2>1. CASE RowAt(k, id) \in Yielded BY <2>1
  <2>2. CASE RowAt(k, id) \notin Yielded
    <3>1. After(RowAt(k, id), g.last) BY <1>1, <1>4, <1>10, <2>2 DEF CompleteInv
    <3>2. id \in 1..Len(db[k]) BY <1>4, LenProperties DEF TablesInv
    <3>3. RowAt(k, id) \in RowsOf(k) BY <3>2 DEF RowsOf, RowAt
    <3>4. Head(passes).start \in Int /\ Head(passes).end \in Int
      <4>1. Head(passes) \in Pass BY <1>1, <1>4, HeadTailProperties DEF TablesInv
      <4>. QED BY <4>1 DEF Pass
    <3>5. RowAt(k, id).ts <= Head(passes).end BY <1>10, <3>4 DEF RowAt
    <3>. QED BY <3>1, <3>3, <3>5
  <2>. QED BY <2>1, <2>2
<1>11. TablesInv' /\ OrderInv' BY <1>1, <1>4 DEF TablesInv, OrderInv
<1>12. Yielded' = Yielded /\ \A id : RowAt(k, id)' = RowAt(k, id) BY <1>1 DEF Yielded, RowAt
<1>. HIDE DEF g, found
<1>13. ASSUME NEW j \in Kinds \ {k}, stream'[j] = stream[j]
       PROVE  (PageInv(j) /\ GapInv(j) /\ CompleteInv(j))'
  BY <1>1, <1>4, <1>12, <1>13 DEF PageInv, GapInv, CompleteInv, Cursor, RowAt
<1>14. CASE page = {} /\ stream' = [stream EXCEPT ![k].ended = TRUE]
  <2>1. found = {}
    <3>1. Cardinality({}) = 0 BY FS_EmptySet
    <3>. QED BY <1>3, <1>14, <3>1, Numbers
  <2>2. /\ stream'[k].page = {} /\ stream'[k].ended = TRUE /\ GeneratorsInv'
        /\ \A j \in Kinds \ {k} : stream'[j] = stream[j]
    BY <1>1, <1>4, <1>14 DEF GeneratorsInv, g
  <2>3. (PageInv(k) /\ GapInv(k))' BY <2>2 DEF PageInv, GapInv
  <2>4. CompleteInv(k)' BY <1>1, <1>10, <1>12, <2>1 DEF CompleteInv
  <2>5. \A j \in Kinds : (PageInv(j) /\ GapInv(j) /\ CompleteInv(j))'
    BY <1>13, <2>2, <2>3, <2>4
  <2>. QED BY <1>1, <1>11, <2>2, <2>5 DEF MergeInv
<1>15. ASSUME NEW row \in page,
              \A r \in page \ {row} : Before(r, row),
              stream' = [stream EXCEPT ![k] =
                [last |-> [ts |-> row.ts, id |-> row.id], page |-> page,
                 ended |-> Cardinality(page) < PageSize]]
       PROVE  MergeInv'
  <2>. DEFINE full == ~(Cardinality(page) < PageSize)
              last == [ts |-> row.ts, id |-> row.id]
  <2>1. row \in RowOf(k) /\ row \in Row BY <1>3, <1>6, <1>7
  <2>2. last \in [ts : Int, id : Int] BY <2>1 DEF Row
  <2>3. stream' = [stream EXCEPT ![k] = [last |-> last, page |-> page, ended |-> ~full]]
    BY <1>15
  <2>4. row = [ts |-> last.ts, kind |-> k, id |-> last.id] BY <2>1 DEF RowOf
  <2>5. full \in BOOLEAN /\ (~full => page = found) BY <1>3
  <2>. HIDE DEF full, last
  <2>6. /\ stream'[k].page = page /\ stream'[k].last = last /\ stream'[k].ended = ~full
        /\ \A j \in Kinds \ {k} : stream'[j] = stream[j]
    BY <1>4, <2>3 DEF GeneratorsInv
  <2>7. GeneratorsInv'
    <3>1. page \subseteq Row BY <1>3, <1>6, <1>7
    <3>2. [last |-> last, page |-> page, ended |-> ~full]
            \in [last : [ts : Int, id : Int], page : SUBSET Row, ended : BOOLEAN]
      BY <2>2, <2>5, <3>1
    <3>. QED BY <1>4, <2>3, <3>2 DEF GeneratorsInv
  <2>8. Cursor(k)' = row BY <2>4, <2>6 DEF Cursor
  <2>9. PageInv(k)' BY <1>3, <1>6, <1>9, <1>12, <1>15, <2>6, <2>8 DEF PageInv
  <2>10. GapInv(k)' BY <1>15, <2>6 DEF GapInv
  <2>11. CompleteInv(k)'
    <3>1. SUFFICES ASSUME NEW id \in 1..yielded.known[k],
                          db[k][id] \in Head(passes).start..Head(passes).end,
                          RowAt(k, id) \notin Yielded \union page
                   PROVE  full /\ After(RowAt(k, id), last)
      BY <1>1, <1>12, <2>5, <2>6 DEF CompleteInv
    <3>2. RowAt(k, id) \in found \ page BY <1>10, <3>1
    <3>3. full BY <2>5, <3>2
    <3>4. Before(row, RowAt(k, id)) BY <1>3, <3>2
    <3>5. RowAt(k, id) \in RowOf(k) BY <1>6, <3>2
    <3>6. After(RowAt(k, id), last) BY <2>1, <2>4, <3>4, <3>5 DEF Before, After, RowOf
    <3>. QED BY <3>3, <3>6
  <2>12. \A j \in Kinds : (PageInv(j) /\ GapInv(j) /\ CompleteInv(j))'
    BY <1>13, <2>6, <2>9, <2>10, <2>11
  <2>. QED BY <1>1, <1>11, <2>7, <2>12 DEF MergeInv
<1>. QED BY <1>2, <1>14, <1>15

(* heapq.merge: what is yielded is before all that is at hand.  When its   *)
(* page is empty, its cursor is at this row.                               *)
LEMMA YieldMerge ==
  ASSUME MergeInv, NEW k \in Kinds, NEW row, Yield(k, row), UNCHANGED <<db, passes>>
  PROVE  MergeInv'
<1>1. /\ passes # <<>> /\ row \in stream[k].page
      /\ \A j \in Kinds : stream[j].page # {} \/ stream[j].ended
      /\ \A j \in Kinds : \A r \in stream[j].page \ {row} : Before(row, r)
      /\ stream' = [stream EXCEPT ![k].page = stream[k].page \ {row}]
      /\ yielded' = [yielded EXCEPT !.rows = Append(yielded.rows, row)]
  BY DEF Yield, Ready
<1>2. /\ TablesInv /\ GeneratorsInv /\ OrderInv
      /\ \A j \in Kinds : PageInv(j) /\ GapInv(j) /\ CompleteInv(j)
  BY <1>1 DEF MergeInv
<1>3. row \in RowOf(k) /\ row \in Row /\ Yielded \subseteq Row
  <2>1. row \in RowOf(k) BY <1>1, <1>2 DEF PageInv
  <2>2. RowOf(k) \subseteq Row BY DEF RowOf, Row
  <2>3. Yielded \subseteq Row BY <1>2, LenProperties DEF Yielded, TablesInv, Range
  <2>. QED BY <2>1, <2>2, <2>3
<1>4. /\ stream'[k].page = stream[k].page \ {row}
      /\ stream'[k].last = stream[k].last /\ stream'[k].ended = stream[k].ended
      /\ \A j \in Kinds \ {k} : stream'[j] = stream[j]
      /\ GeneratorsInv'
  BY <1>1, <1>2 DEF GeneratorsInv
<1>5. \A j \in Kinds : Cursor(j)' = Cursor(j) BY <1>4 DEF Cursor
<1>6. yielded.rows \in Seq(Row) /\ yielded'.rows = Append(yielded.rows, row)
      /\ yielded'.known = yielded.known
  BY <1>1, <1>2 DEF TablesInv
<1>. DEFINE n == Len(yielded.rows)
<1>7. /\ yielded'.rows \in Seq(Row) /\ Len(yielded'.rows) = n + 1
      /\ \A j \in 1..n : yielded'.rows[j] = yielded.rows[j]
      /\ yielded'.rows[n + 1] = row
      /\ Yielded' = Yielded \union {row}
  BY <1>3, <1>6, RowAdded DEF Yielded
<1>8. n \in Nat /\ \A j \in 1..n : yielded.rows[j] \in Yielded
  BY <1>6, LenProperties DEF Yielded, Range
<1>. HIDE DEF n
<1>9. \A y \in Yielded : Before(y, row) BY <1>1, <1>2 DEF PageInv
<1>10. TablesInv' BY <1>1, <1>2, <1>6, <1>7 DEF TablesInv
<1>11. OrderInv'
  <2>1. Len(yielded'.rows) - 1 = n BY <1>7, <1>8
  <2>. SUFFICES ASSUME NEW j \in 1..n PROVE Before(yielded'.rows[j], yielded'.rows[j + 1])
    BY <2>1 DEF OrderInv
  <2>2. CASE j = n BY <1>7, <1>8, <1>9, <2>2
  <2>3. CASE j # n
    <3>1. j \in 1..n - 1 /\ j \in 1..n /\ j + 1 \in 1..n BY <1>8, <2>3
    <3>2. Before(yielded.rows[j], yielded.rows[j + 1]) BY <1>2, <3>1 DEF OrderInv, n
    <3>. QED BY <1>7, <3>1, <3>2
  <2>. QED BY <2>2, <2>3
<1>12. ~Before(row, row) BY <1>3, BeforeIsStrict
<1>13. ASSUME NEW j \in Kinds \ {k} PROVE row \notin stream[j].page
  <2>1. row.kind # j BY <1>3 DEF RowOf
  <2>. QED BY <1>2, <2>1 DEF PageInv, RowOf
<1>14. ASSUME NEW j \in Kinds PROVE PageInv(j)'
  <2>1. /\ stream'[j].page \subseteq stream[j].page \ {row}
        /\ j # k => stream'[j].page = stream[j].page
    BY <1>4, <1>13
  <2>2. stream'[j].page \subseteq RowOf(j) BY <1>2, <2>1 DEF PageInv
  <2>3. \A y \in Yielded', r \in stream'[j].page : Before(y, r)
    BY <1>1, <1>2, <1>7, <2>1 DEF PageInv
  <2>4. ASSUME stream'[j].page # {}
        PROVE  /\ Cursor(j) \in stream'[j].page
               /\ \A r \in stream'[j].page : r = Cursor(j) \/ Before(r, Cursor(j))
    <3>1. PICK r \in stream'[j].page : TRUE BY <2>4
    <3>2. /\ Cursor(j) \in stream[j].page
          /\ \A s \in stream[j].page : s = Cursor(j) \/ Before(s, Cursor(j))
      BY <1>2, <2>1, <3>1 DEF PageInv
    <3>3. Cursor(j) # row
      <4>1. CASE j = k
        <5>1. r # row /\ r \in stream[j].page /\ Before(row, r) BY <1>1, <2>1, <3>1
        <5>2. r \in Row BY <1>2, <5>1 DEF GeneratorsInv
        <5>3. ~Before(r, row) BY <1>3, <5>1, <5>2, BeforeIsStrict
        <5>. QED BY <3>2, <5>1, <5>3
      <4>2. CASE j # k BY <1>13, <3>2, <4>2
      <4>. QED BY <4>1, <4>2
    <3>4. Cursor(j) \in stream'[j].page BY <1>4, <2>1, <3>2, <3>3
    <3>. QED BY <2>1, <3>2, <3>4
  <2>. QED BY <1>5, <2>2, <2>3, <2>4 DEF PageInv
<1>15. ASSUME NEW j \in Kinds PROVE GapInv(j)'
  <2>1. SUFFICES ASSUME stream'[j].page = {}, ~stream'[j].ended, NEW y \in Yielded'
                 PROVE  ~Before(Cursor(j), y)
    BY <1>5 DEF GapInv
  <2>2. j = k BY <1>1, <1>4, <2>1
  <2>3. Cursor(k) = row BY <1>1, <1>2, <1>4, <2>1, <2>2 DEF PageInv
  <2>4. y = row \/ (y \in Row /\ Before(y, row)) BY <1>3, <1>7, <1>9
  <2>. QED BY <1>3, <1>12, <2>2, <2>3, <2>4, BeforeIsStrict
<1>16. ASSUME NEW j \in Kinds PROVE CompleteInv(j)'
  <2>1. \A id : RowAt(j, id)' = RowAt(j, id) BY DEF RowAt
  <2>2. Yielded \union stream[j].page \subseteq Yielded' \union stream'[j].page
    BY <1>4, <1>7
  <2>3. stream'[j].last = stream[j].last /\ stream'[j].ended = stream[j].ended BY <1>4
  <2>. QED BY <1>2, <1>6, <2>1, <2>2, <2>3 DEF CompleteInv
<1>. QED BY <1>1, <1>2, <1>4, <1>10, <1>11, <1>14, <1>15, <1>16 DEF MergeInv

(* The next pass begins anew.                                              *)
LEMMA EndPassMerge ==
  ASSUME MergeInv, EndPass
  PROVE  MergeInv'
<1>1. passes # <<>> /\ db' = db /\ passes' = Tail(passes) BY DEF EndPass, Exhausted, Ready, Begins
<1>2. /\ yielded' = [rows |-> <<>>, known |-> [k \in Kinds |-> Len(db[k])]]
      /\ stream' = IF passes' = <<>> THEN stream
                   ELSE [k \in Kinds |-> Generator(Head(passes').start)]
  BY <1>1 DEF EndPass, Begins, Size
<1>3. passes \in Seq(Pass) /\ db \in [Kinds -> Seq(Int)] /\ GeneratorsInv
  BY DEF MergeInv, TablesInv
<1>4. passes' \in Seq(Pass) BY <1>1, <1>3, HeadTailProperties
<1>. QED BY <1>1, <1>2, <1>3, <1>4, BeginsMerge

LEMMA MergeStep ==
  ASSUME MergeInv, [Next]_vars
  PROVE  MergeInv'
<1>1. ASSUME NEW k \in Kinds, Record(k) PROVE MergeInv' BY <1>1, RecordMerge
<1>2. ASSUME NEW k \in Kinds, Fetch(k) PROVE MergeInv' BY <1>2, FetchMerge
<1>3. CASE Depth
  <2>1. PICK row : Yield("depth", row) BY <1>3 DEF Depth
  <2>2. UNCHANGED <<db, passes>> BY <1>3 DEF Depth
  <2>. QED BY <2>1, <2>2, YieldMerge DEF Kinds
<1>4. CASE Trade
  <2>1. PICK row : Yield("trade", row) BY <1>4 DEF Trade
  <2>2. UNCHANGED <<db, passes>> BY <1>4 DEF Trade
  <2>. QED BY <2>1, <2>2, YieldMerge DEF Kinds
<1>5. CASE EndPass BY <1>5, EndPassMerge
<1>6. CASE UNCHANGED vars BY <1>6, MergeUnmoved DEF vars, MergeVars
<1>. QED BY <1>1, <1>2, <1>3, <1>4, <1>5, <1>6 DEF Next

THEOREM MergeHolds == Spec => []MergeInv
<1>1. Init => MergeInv BY InitMerge
<1>2. MergeInv /\ [Next]_vars => MergeInv' BY MergeStep
<1>. QED BY <1>1, <1>2, PTL DEF Spec

(* tick_replay.py:255-286: whatever page ends where, and whatever the      *)
(* recorder commits between two pages, a pass takes its rows in order,     *)
(* each once, and leaves out none that was there when it began.            *)
THEOREM ReplayIsComplete == Spec => []RowsReplayed
<1>1. MergeInv => RowsReplayed
  <2>. SUFFICES ASSUME MergeInv PROVE RowsReplayed OBVIOUS
  <2>1. \A j \in 1..Len(yielded.rows) - 1 : Before(yielded.rows[j], yielded.rows[j + 1])
    BY DEF MergeInv, OrderInv
  <2>2. ASSUME Exhausted, NEW k \in Kinds, NEW id \in 1..yielded.known[k],
               db[k][id] \in Head(passes).start..Head(passes).end
        PROVE  \E j \in 1..Len(yielded.rows) :
                 yielded.rows[j].kind = k /\ yielded.rows[j].id = id
    <3>1. passes # <<>> /\ stream[k].page = {} /\ stream[k].ended
      BY <2>2 DEF Exhausted, Ready
    <3>2. RowAt(k, id) \in Yielded BY <2>2, <3>1 DEF MergeInv, CompleteInv
    <3>3. PICK j \in DOMAIN yielded.rows : yielded.rows[j] = RowAt(k, id)
      BY <3>2 DEF Yielded, Range
    <3>4. j \in 1..Len(yielded.rows) BY <3>3, LenProperties DEF MergeInv, TablesInv
    <3>. QED BY <3>3, <3>4 DEF RowAt
  <2>. QED BY <2>1, <2>2 DEF RowsReplayed
<1>. QED BY <1>1, MergeHolds, PTL

-----------------------------------------------------------------------------
(* The account                                                             *)

Position == [side : {"LONG", "SHORT"}, entry : Int, sl : Int, at : Int, tp : Int]
Closing == [opened : Int, closed : Int, reason : {"SL", "TP", "EOD"}, pnl : Int]
Account == [position : Position \union {Flat}, equity : Int, trades : Seq(Closing),
            curve : Seq(Int)]

(* BooksBalance, of an account in the making.                              *)
Balanced(a) ==
  LET n == Len(a.trades) IN
  /\ a.curve[1] = Equity0 /\ a.curve[Len(a.curve)] = a.equity
  /\ \A j \in 1..n : a.curve[2 * j + 1] = a.curve[2 * j - 1] + a.trades[j].pnl
  /\ IF a.position = Flat
     THEN Len(a.curve) = 2 * n + 1
     ELSE Len(a.curve) = 2 * n + 2 /\ a.curve[2 * n + 2] = a.curve[2 * n + 1] - Fee
  /\ \A j \in 1..n - 1 : a.trades[j].closed <= a.trades[j + 1].opened
  /\ a.position # Flat /\ n > 0 => a.trades[n].closed <= a.position.at

(* What the account remembers of times is no later than now.               *)
UpTo(a, now) ==
  LET n == Len(a.trades) IN
  /\ a.position # Flat => a.position.at <= now
  /\ n > 0 => a.trades[n].closed <= now

AccountInv ==
  /\ account \in Account /\ Balanced(account)
  /\ passes = <<>> => yielded.rows = <<>>
  /\ IF yielded.rows = <<>> THEN account = NewAccount
     ELSE UpTo(account, yielded.rows[Len(yielded.rows)].ts)

LEMMA FlatIsNone == \A p \in Position : p # Flat
<1>. SUFFICES ASSUME NEW p \in Position PROVE p # Flat OBVIOUS
<1>1. p.side # "flat" BY DEF Position
<1>. QED BY <1>1 DEF Flat

LEMMA FreshAccount ==
  ASSUME NEW now \in Int
  PROVE  NewAccount \in Account /\ Balanced(NewAccount) /\ UpTo(NewAccount, now)
<1>1. <<>> \in Seq(Closing) /\ Len(<<>>) = 0 BY EmptySeq
<1>2. <<Equity0>> \in Seq(Int) /\ Len(<<Equity0>>) = 1 /\ <<Equity0>>[1] = Equity0 BY Numbers
<1>. QED BY <1>1, <1>2, Numbers DEF NewAccount, Account, Balanced, UpTo

LEMMA GrossIsInt ==
  ASSUME NEW p \in Position, NEW price \in Int
  PROVE  Gross(p, price) \in Int
BY DEF Gross, Sign, Position

(* _close_position: the trade's result is what the curve has gone by since *)
(* before its entry.                                                       *)
LEMMA ClosedBalances ==
  ASSUME NEW a \in Account, Balanced(a), a.position # Flat,
         NEW price \in Int, NEW now \in Int, UpTo(a, now), NEW reason \in {"SL", "TP", "EOD"}
  PROVE  LET c == Closed(a, price, now, reason) IN
         c \in Account /\ Balanced(c) /\ UpTo(c, now) /\ c.position = Flat
<1>. DEFINE pos == a.position
            gross == Gross(pos, price)
            equity == a.equity + gross - Fee
            pnl == gross - Fee - Fee
            trade == [opened |-> pos.at, closed |-> now, reason |-> reason, pnl |-> pnl]
            c == Closed(a, price, now, reason)
            n == Len(a.trades)
<1>1. pos \in Position BY DEF Account
<1>2. gross \in Int /\ a.equity \in Int /\ Fee \in Int BY <1>1, GrossIsInt, Numbers DEF Account
<1>3. equity \in Int /\ pnl \in Int /\ pos.at \in Int BY <1>1, <1>2 DEF Position
<1>4. c = [position |-> Flat, equity |-> equity, trades |-> Append(a.trades, trade),
           curve |-> Append(a.curve, equity)]
  BY DEF Closed, NetPnl
<1>5. a.equity = a.curve[2 * n + 2] /\ a.curve[2 * n + 2] = a.curve[2 * n + 1] - Fee
      /\ Len(a.curve) = 2 * n + 2
  BY DEF Balanced
<1>6. n \in Nat /\ a.curve \in Seq(Int) /\ a.trades \in Seq(Closing)
  BY LenProperties DEF Account
<1>7. a.curve[2 * n + 1] \in Int
  <2>1. 2 * n + 1 \in 1..Len(a.curve) BY <1>5, <1>6
  <2>. QED BY <1>6, <2>1, ElementOfSeq
<1>8. equity = a.curve[2 * n + 1] + pnl BY <1>2, <1>5, <1>7
<1>9. /\ \A j \in 1..n : a.curve[2 * j + 1] = a.curve[2 * j - 1] + a.trades[j].pnl
      /\ \A j \in 1..n - 1 : a.trades[j].closed <= a.trades[j + 1].opened
      /\ n > 0 => a.trades[n].closed <= pos.at
      /\ a.curve[1] = Equity0
  BY DEF Balanced
<1>. HIDE DEF gross, equity, pnl, n, c
<1>10. trade \in Closing BY <1>3 DEF Closing
<1>. HIDE DEF trade
<1>11. /\ c.trades \in Seq(Closing) /\ Len(c.trades) = n + 1 /\ c.trades[n + 1] = trade
       /\ \A j \in 1..n : c.trades[j] = a.trades[j]
  BY <1>4, <1>6, <1>10, RowAdded DEF n
<1>12. /\ c.curve \in Seq(Int) /\ Len(c.curve) = 2 * n + 3 /\ c.curve[2 * n + 3] = equity
       /\ \A j \in 1..2 * n + 2 : c.curve[j] = a.curve[j]
  <2>1. /\ c.curve \in Seq(Int) /\ Len(c.curve) = Len(a.curve) + 1
        /\ c.curve[Len(a.curve) + 1] = equity
        /\ \A j \in 1..Len(a.curve) : c.curve[j] = a.curve[j]
    BY <1>3, <1>4, <1>6, RowAdded
  <2>2. Len(a.curve) + 1 = 2 * n + 3 BY <1>5, <1>6
  <2>. QED BY <1>5, <2>1, <2>2
<1>13. c \in Account BY <1>3, <1>4, <1>11, <1>12 DEF Account
<1>14. \A j \in 1..n + 1 : c.curve[2 * j + 1] = c.curve[2 * j - 1] + c.trades[j].pnl
  <2>1. ASSUME NEW j \in 1..n
        PROVE  c.curve[2 * j + 1] = c.curve[2 * j - 1] + c.trades[j].pnl
    <3>1. 2 * j + 1 \in 1..2 * n + 2 /\ 2 * j - 1 \in 1..2 * n + 2 BY <1>6
    <3>. QED BY <1>9, <1>11, <1>12, <3>1
  <2>2. c.curve[2 * (n + 1) + 1] = c.curve[2 * (n + 1) - 1] + c.trades[n + 1].pnl
    <3>1. 2 * (n + 1) + 1 = 2 * n + 3 /\ 2 * (n + 1) - 1 = 2 * n + 1
          /\ 2 * n + 1 \in 1..2 * n + 2
      BY <1>6
    <3>2. c.trades[n + 1].pnl = pnl BY <1>11 DEF trade
    <3>. QED BY <1>8, <1>12, <3>1, <3>2
  <2>3. \A j \in 1..n + 1 : j \in 1..n \/ j = n + 1 BY <1>6
  <2>. QED BY <2>1, <2>2, <2>3
<1>15. \A j \in 1..n : c.trades[j].closed <= c.trades[j + 1].opened
  <2>1. SUFFICES ASSUME NEW j \in 1..n PROVE c.trades[j].closed <= c.trades[j + 1].opened
    OBVIOUS
  <2>2. CASE j = n
    <3>1. c.trades[n] = a.trades[n] /\ c.trades[n + 1].opened = pos.at
      BY <1>6, <1>11, <2>2 DEF trade
    <3>2. n > 0 BY <1>6, <2>2
    <3>. QED BY <1>9, <2>2, <3>1, <3>2
  <2>3. CASE j # n
    <3>1. j \in 1..n - 1 /\ j + 1 \in 1..n BY <1>6, <2>3
    <3>. QED BY <1>9, <1>11, <3>1
  <2>. QED BY <2>2, <2>3
<1>16. c.position = Flat /\ c.equity = equity BY <1>4
<1>17. Balanced(c)
  <2>. DEFINE l == Len(c.trades)
  <2>1. l = n + 1 BY <1>11
  <2>. HIDE DEF l
  <2>2. 1 \in 1..2 * n + 2 /\ l - 1 = n /\ 2 * l + 1 = 2 * n + 3 BY <1>6, <2>1
  <2>3. Len(c.trades) - 1 = n /\ 2 * Len(c.trades) + 1 = 2 * n + 3 BY <2>2 DEF l
  <2>4. c.curve[1] = Equity0 BY <1>9, <1>12, <2>2
  <2>5. c.curve[Len(c.curve)] = c.equity BY <1>12, <1>16
  <2>. QED BY <1>11, <1>12, <1>14, <1>15, <1>16, <2>3, <2>4, <2>5 DEF Balanced
<1>18. UpTo(c, now) BY <1>11, <1>16 DEF UpTo, trade
<1>. QED BY <1>13, <1>16, <1>17, <1>18 DEF c

(* _simulate_trade: the entry takes its cost, and comes after the last     *)
(* exit.                                                                   *)
LEMMA OpenedBalances ==
  ASSUME NEW a \in Account, Balanced(a), a.position = Flat,
         NEW side \in {"LONG", "SHORT"}, NEW price \in Int, NEW sl \in Int,
         NEW now \in Int, UpTo(a, now)
  PROVE  LET o == Opened(a, side, price, sl, now) IN
         o \in Account /\ Balanced(o) /\ UpTo(o, now)
<1>. DEFINE o == Opened(a, side, price, sl, now)
            risk == Sign(side) * (price - sl)
            tp == price + Sign(side) * RewardRisk * risk
            pos == [side |-> side, entry |-> price, sl |-> sl, at |-> now, tp |-> tp]
            equity == a.equity - Fee
            n == Len(a.trades)
<1>1. CASE o = a BY <1>1
<1>2. CASE o # a
  <2>1. o = [a EXCEPT !.position = pos, !.equity = equity, !.curve = Append(a.curve, equity)]
    BY <1>2 DEF Opened
  <2>2. tp \in Int
    <3>1. Sign(side) \in Int /\ price - sl \in Int BY DEF Sign
    <3>2. risk \in Int BY <3>1
    <3>3. RewardRisk \in Int BY Numbers
    <3>. HIDE DEF risk
    <3>4. Sign(side) * RewardRisk \in Int BY <3>1, <3>3
    <3>5. Sign(side) * RewardRisk * risk \in Int BY <3>2, <3>4
    <3>. QED BY <3>5
  <2>3. equity \in Int BY Numbers DEF Account
  <2>. HIDE DEF o, tp, equity
  <2>4. pos \in Position BY <2>2 DEF Position
  <2>. HIDE DEF pos
  <2>5. n \in Nat /\ a.curve \in Seq(Int) /\ a.trades \in Seq(Closing)
    BY LenProperties DEF Account
  <2>6. Len(a.curve) = 2 * n + 1 /\ a.curve[2 * n + 1] = a.equity /\ a.curve[1] = Equity0
    BY DEF Balanced
  <2>7. /\ Append(a.curve, equity) \in Seq(Int) /\ Len(Append(a.curve, equity)) = 2 * n + 2
        /\ Append(a.curve, equity)[2 * n + 2] = equity
        /\ \A j \in 1..2 * n + 1 : Append(a.curve, equity)[j] = a.curve[j]
    <3>1. /\ Append(a.curve, equity) \in Seq(Int)
          /\ Len(Append(a.curve, equity)) = Len(a.curve) + 1
          /\ Append(a.curve, equity)[Len(a.curve) + 1] = equity
          /\ \A j \in 1..Len(a.curve) : Append(a.curve, equity)[j] = a.curve[j]
      BY <2>3, <2>5, RowAdded
    <3>2. Len(a.curve) + 1 = 2 * n + 2 BY <2>5, <2>6
    <3>. QED BY <2>6, <3>1, <3>2
  <2>8. /\ o \in Account /\ o.position = pos /\ o.equity = equity
        /\ o.trades = a.trades /\ o.curve = Append(a.curve, equity)
    <3>. DEFINE curve == Append(a.curve, equity)
    <3>1. curve \in Seq(Int) BY <2>7
    <3>2. o = [a EXCEPT !.position = pos, !.equity = equity, !.curve = curve] BY <2>1
    <3>. HIDE DEF curve
    <3>3. /\ o \in Account /\ o.position = pos /\ o.equity = equity
          /\ o.trades = a.trades /\ o.curve = curve
      BY <2>3, <2>4, <3>1, <3>2 DEF Account
    <3>. QED BY <3>3 DEF curve
  <2>9. pos.at = now /\ pos # Flat BY <2>4, FlatIsNone DEF pos
  <2>10. UpTo(o, now) BY <2>8, <2>9 DEF UpTo
  <2>11. \A j \in 1..n : o.curve[2 * j + 1] = o.curve[2 * j - 1] + o.trades[j].pnl
    <3>1. SUFFICES ASSUME NEW j \in 1..n
                   PROVE  o.curve[2 * j + 1] = o.curve[2 * j - 1] + o.trades[j].pnl
      OBVIOUS
    <3>2. 2 * j + 1 \in 1..2 * n + 1 /\ 2 * j - 1 \in 1..2 * n + 1 BY <2>5
    <3>3. a.curve[2 * j + 1] = a.curve[2 * j - 1] + a.trades[j].pnl BY DEF Balanced
    <3>. QED BY <2>7, <2>8, <3>2, <3>3
  <2>12. o.curve[2 * n + 2] = o.curve[2 * n + 1] - Fee
    <3>1. 2 * n + 1 \in 1..2 * n + 1 BY <2>5
    <3>. QED BY <2>6, <2>7, <2>8, <3>1 DEF equity
  <2>13. Balanced(o)
    <3>1. 1 \in 1..2 * n + 1 BY <2>5
    <3>2. \A j \in 1..n - 1 : a.trades[j].closed <= a.trades[j + 1].opened BY DEF Balanced
    <3>3. n > 0 => a.trades[n].closed <= now BY DEF UpTo
    <3>. QED BY <2>6, <2>7, <2>8, <2>9, <2>11, <2>12, <3>1, <3>2, <3>3 DEF Balanced
  <2>. QED BY <2>8, <2>10, <2>13 DEF o
<1>. QED BY <1>1, <1>2

LEMMA ExitedBalances ==
  ASSUME NEW a \in Account, Balanced(a), NEW price \in Int, NEW now \in Int, UpTo(a, now)
  PROVE  LET e == Exited(a, price, now) IN
         e \in Account /\ Balanced(e) /\ UpTo(e, now)
<1>1. CASE a.position = Flat BY <1>1 DEF Exited
<1>2. CASE a.position # Flat
  <2>1. a.position \in Position BY <1>2 DEF Account
  <2>2. a.position.tp \in Int BY <2>1 DEF Position
  <2>3. \/ Exited(a, price, now) = a
        \/ Exited(a, price, now) = Closed(a, price, now, "SL")
        \/ Exited(a, price, now) = Closed(a, a.position.tp, now, "TP")
    BY DEF Exited
  <2>. QED BY <1>2, <2>2, <2>3, ClosedBalances
<1>. QED BY <1>1, <1>2

-----------------------------------------------------------------------------
(* The account over a pass                                                 *)

(* Rows come in order of their times.                                      *)
LEMMA NotYetOver ==
  ASSUME MergeInv, AccountInv, NEW k \in Kinds, NEW row, Yield(k, row)
  PROVE  /\ row.ts \in Int /\ UpTo(account, row.ts)
         /\ yielded'.rows # <<>> /\ yielded'.rows[Len(yielded'.rows)] = row
<1>. DEFINE n == Len(yielded.rows)
<1>1. passes # <<>> /\ row \in stream[k].page /\ yielded'.rows = Append(yielded.rows, row)
  BY DEF Yield, Ready, MergeInv, TablesInv
<1>2. TablesInv /\ PageInv(k) /\ row \in Row
  BY <1>1 DEF MergeInv, GeneratorsInv
<1>3. yielded'.rows # <<>> /\ yielded'.rows[Len(yielded'.rows)] = row
  <2>1. yielded.rows \in Seq(Row) BY <1>2 DEF TablesInv
  <2>2. /\ Append(yielded.rows, row) # <<>>
        /\ Len(Append(yielded.rows, row)) = n + 1
        /\ Append(yielded.rows, row)[n + 1] = row
    BY <1>2, <2>1, RowAdded, AppendProperties
  <2>. QED BY <1>1, <2>2
<1>4. row.ts \in Int BY <1>2 DEF Row
<1>5. CASE yielded.rows = <<>> BY <1>3, <1>4, <1>5, FreshAccount DEF AccountInv
<1>6. CASE yielded.rows # <<>>
  <2>1. n \in Nat \ {0} /\ yielded.rows \in Seq(Row)
    BY <1>2, <1>6, EmptySeq DEF TablesInv
  <2>2. n \in 1..n /\ DOMAIN yielded.rows = 1..n BY <2>1, LenProperties
  <2>3. yielded.rows[n] \in Yielded /\ yielded.rows[n] \in Row
    BY <2>1, <2>2, ElementOfSeq DEF Yielded, Range
  <2>4. Before(yielded.rows[n], row) BY <1>1, <1>2, <2>3 DEF PageInv
  <2>5. yielded.rows[n].ts <= row.ts /\ yielded.rows[n].ts \in Int
    BY <1>2, <2>3, <2>4 DEF Before, Row
  <2>6. UpTo(account, yielded.rows[n].ts) BY <1>6 DEF AccountInv
  <2>7. UpTo(account, row.ts)
    <3>1. account.position # Flat => account.position.at \in Int
      BY DEF AccountInv, Account, Position
    <3>2. Len(account.trades) > 0 => account.trades[Len(account.trades)].closed \in Int
      <4>. DEFINE m == Len(account.trades)
      <4>1. m \in Nat /\ account.trades \in Seq(Closing)
        BY LenProperties DEF AccountInv, Account
      <4>2. m > 0 => m \in 1..m BY <4>1
      <4>3. m > 0 => account.trades[m] \in Closing BY <4>1, <4>2, ElementOfSeq
      <4>. QED BY <4>3 DEF Closing
    <3>. QED BY <1>4, <2>5, <2>6, <3>1, <3>2 DEF UpTo
  <2>. QED BY <1>3, <1>4, <2>7
<1>. QED BY <1>3, <1>4, <1>5, <1>6

LEMMA DepthAccount ==
  ASSUME MergeInv, AccountInv, Depth
  PROVE  AccountInv'
<1>1. PICK row : Yield("depth", row) BY DEF Depth
<1>2. UNCHANGED <<passes, account>> /\ "depth" \in Kinds BY DEF Depth, Kinds
<1>3. /\ UpTo(account, row.ts)
      /\ yielded'.rows # <<>> /\ yielded'.rows[Len(yielded'.rows)] = row /\ passes # <<>>
  BY <1>1, <1>2, NotYetOver DEF Yield, Ready
<1>. QED BY <1>2, <1>3 DEF AccountInv

LEMMA TradeAccount ==
  ASSUME MergeInv, AccountInv, Trade
  PROVE  AccountInv'
<1>1. PICK row \in stream["trade"].page, price \in Prices :
        /\ Yield("trade", row)
        /\ \/ account' = Exited(account, price, row.ts)
           \/ /\ Exited(account, price, row.ts).position = Flat
              /\ \E p, q \in Levels :
                   account' = Opened(Exited(account, price, row.ts), Direction(p), price, q,
                                     row.ts)
  BY DEF Trade
<1>2. passes' = passes /\ "trade" \in Kinds BY DEF Trade, Kinds
<1>3. /\ UpTo(account, row.ts) /\ row.ts \in Int
      /\ yielded'.rows # <<>> /\ yielded'.rows[Len(yielded'.rows)] = row /\ passes # <<>>
  BY <1>1, <1>2, NotYetOver DEF Yield, Ready
<1>. DEFINE e == Exited(account, price, row.ts)
<1>4. price \in Int BY Numbers
<1>5. e \in Account /\ Balanced(e) /\ UpTo(e, row.ts)
  BY <1>3, <1>4, ExitedBalances DEF AccountInv
<1>6. account' \in Account /\ Balanced(account') /\ UpTo(account', row.ts)
  <2>1. CASE account' = e BY <1>5, <2>1
  <2>2. ASSUME e.position = Flat, NEW p \in Levels, NEW q \in Levels,
               account' = Opened(e, Direction(p), price, q, row.ts)
        PROVE  account' \in Account /\ Balanced(account') /\ UpTo(account', row.ts)
    <3>1. Direction(p) \in {"LONG", "SHORT"} /\ q \in Int BY Numbers DEF Direction
    <3>. HIDE DEF e
    <3>. QED BY <1>3, <1>4, <1>5, <2>2, <3>1, OpenedBalances
  <2>. QED BY <1>1, <2>1, <2>2
<1>. QED BY <1>2, <1>3, <1>6 DEF AccountInv, Balanced

LEMMA OthersAccount ==
  ASSUME AccountInv, UNCHANGED <<passes, yielded, account>>
  PROVE  AccountInv'
BY DEF AccountInv

LEMMA EndPassAccount ==
  ASSUME EndPass
  PROVE  AccountInv'
<1>1. account' = NewAccount /\ yielded'.rows = <<>> BY DEF EndPass, Begins
<1>. QED BY <1>1, FreshAccount DEF AccountInv

THEOREM AccountHolds == Spec => []AccountInv
<1>1. Init => AccountInv
  <2>. SUFFICES ASSUME Init PROVE AccountInv OBVIOUS
  <2>1. account = NewAccount /\ yielded.rows = <<>> BY DEF Init
  <2>. QED BY <2>1, FreshAccount DEF AccountInv
<1>2. MergeInv /\ AccountInv /\ [Next]_vars => AccountInv'
  <2>. SUFFICES ASSUME MergeInv, AccountInv, [Next]_vars PROVE AccountInv' OBVIOUS
  <2>1. ASSUME NEW k \in Kinds, Record(k) \/ Fetch(k) PROVE AccountInv'
    BY <2>1, OthersAccount DEF Record, Fetch
  <2>2. CASE Depth BY <2>2, DepthAccount
  <2>3. CASE Trade BY <2>3, TradeAccount
  <2>4. CASE EndPass BY <2>4, EndPassAccount
  <2>5. CASE UNCHANGED vars BY <2>5, OthersAccount DEF vars
  <2>. QED BY <2>1, <2>2, <2>3, <2>4, <2>5 DEF Next
<1>. QED BY <1>1, <1>2, MergeHolds, PTL DEF Spec

(* tick_replay.py:508-614: over a replay of any length each trade's result *)
(* is what the equity curve has gone by between its entry and its exit,    *)
(* an open position has cost its entry, and no two positions overlap.      *)
THEOREM TradesExplainEquity == Spec => []BooksBalance
<1>1. AccountInv => BooksBalance BY DEF AccountInv, Balanced, BooksBalance
<1>. QED BY <1>1, AccountHolds, PTL
=============================================================================
