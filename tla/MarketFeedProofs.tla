--------------------------- MODULE MarketFeedProofs ---------------------------
(***************************************************************************)
(* The safety properties of MarketFeed, for any number of update ids, any  *)
(* tolerance, limits and sizes of the queues.                              *)
(*                                                                         *)
(* Why they hold: a synced book misses only what it was allowed to apply   *)
(* across, and holds the id it ends with, so that a new hole never joins   *)
(* an old one; the seed leaves no hole, for its diffs form a chain from    *)
(* the snapshot on; and behind a consumer without a book the queues are    *)
(* empty, so nothing can set SYNCED before it has one.                     *)
(***************************************************************************)
EXTENDS MarketFeed, SequenceTheorems, WellFoundedInduction, TLAPS

(* A book that ends with an id it holds. *)
Trusted(book, n) == n \in book /\ OnlyToleratedHoles(book, n)

Current == [id |-> ws.id, book |-> ws.book]

(* A seed is under way, or has failed, only for a connection without book. *)
SeedInv ==
  /\ seed.pc # "none" => conn = "up" /\ ~ws.synced
  /\ seed.pc = "answered" => seed.id \in Ids

(* Nothing is left in the queues of a connection that has no book yet. *)
UnseededInv ==
  conn = "up" /\ ~ws.synced => rawQ = <<>> /\ lobQ = <<>> /\ lobStatus # "SYNCED"

(* Every book on the way is trusted. *)
BookInv ==
  /\ ws.synced => ws.id \in Ids /\ Trusted(ws.book, ws.id)
  /\ \A i \in DOMAIN rawQ : Trusted(rawQ[i].book, rawQ[i].id)
  /\ \A i \in DOMAIN lobQ : Trusted(lobQ[i].book, lobQ[i].id)
  /\ OnlyToleratedHoles(eng.book, eng.id)

(* The last book on the way is the consumer's, unless one was dropped. *)
LatestInv ==
  ws.synced /\ ~dropped =>
    /\ rawQ # <<>> => rawQ[Len(rawQ)] = Current
    /\ rawQ = <<>> /\ lobQ # <<>> => lobQ[Len(lobQ)] = Current
    /\ rawQ = <<>> /\ lobQ = <<>> /\ lobStatus = "SYNCED" =>
         eng.id = ws.id /\ eng.book = ws.book

StatusInv == lobStatus = "SYNCED" => eng.state = "SYNCED"

(* TypeOK, with names for the records. *)
Beats == [critical : BOOLEAN, late : 0..ConsecLimit]
Consumers == [synced : BOOLEAN, id : 0..MaxId, book : SUBSET Ids,
              pending : Seq(Diffs), gaps : 0..GapLimit - 1]
SeedStates == [pc : {"none", "asked", "answered", "failed"}, id : 0..MaxId]
Engines == [state : {"UNINITIALISED", "SYNCED", "GAP_DETECTED"}, id : 0..MaxId,
            book : SUBSET Ids]

NetType ==
  /\ head \in Ids /\ published \in 1..head
  /\ wire \in Seq(Diffs)
  /\ conn \in {"connecting", "up", "backoff"}
  /\ hb \in Beats /\ lobLate \in BOOLEAN
  /\ seed \in SeedStates

WsType == ws \in Consumers /\ Len(ws.pending) <= PendingCap

PipeType ==
  /\ rawQ \in Seq(Snapshots) /\ Len(rawQ) <= RawSize
  /\ lobQ \in Seq(Snapshots) /\ Len(lobQ) <= LobSize
  /\ dropped \in BOOLEAN /\ eng \in Engines
  /\ lobStatus \in {"UNINITIALISED", "SYNCED", "GAP_DETECTED", "DISCONNECTED"}

IInv ==
  /\ NetType /\ WsType /\ PipeType
  /\ SeedInv /\ UnseededInv /\ BookInv /\ LatestInv /\ StatusInv

LEMMA Typed == TypeOK <=> NetType /\ WsType /\ PipeType
BY DEF TypeOK, NetType, WsType, PipeType, Beats, Consumers, SeedStates, Engines

-----------------------------------------------------------------------------
(* Sequences and least elements                                            *)

LEMMA Least ==
  ASSUME NEW T, T \subseteq Nat, T # {}
  PROVE  \E x \in T : \A y \in T : x <= y
<1> DEFINE R == OpToRel(<, Nat)
<1>1. IsWellFoundedOn(R, Nat)  BY NatLessThanWellFounded
<1>2. R = {ss \in Nat \X Nat : ss[1] < ss[2]}  BY DEF OpToRel
<1> HIDE DEF R
<1>3. PICK x \in T : \A y \in T : ~(<<y, x>> \in R)  BY <1>1, WFMin
<1>4. \A y \in T : x <= y
  <2> TAKE y \in T
  <2>1. ~(y < x)  BY <1>2, <1>3
  <2> QED  BY <2>1
<1> QED  BY <1>4

LEMMA Appended ==
  ASSUME NEW S, NEW q \in Seq(S), NEW e \in S
  PROVE  /\ Append(q, e) \in Seq(S) /\ Append(q, e) # <<>>
         /\ Len(Append(q, e)) = Len(q) + 1
         /\ DOMAIN Append(q, e) = 1..(Len(q) + 1)
         /\ \A i \in 1..Len(q) : Append(q, e)[i] = q[i]
         /\ Append(q, e)[Len(q) + 1] = e
<1> DEFINE r == Append(q, e)
<1>1. /\ r \in Seq(S) /\ Len(r) = Len(q) + 1 /\ Len(q) \in Nat
      /\ \A i \in 1..Len(q) : r[i] = q[i]
      /\ r[Len(q) + 1] = e
  BY AppendProperties, LenProperties
<1>2. DOMAIN r = 1..Len(r)  BY <1>1, LenProperties
<1>3. r # <<>>  BY <1>1, EmptySeq
<1> QED  BY <1>1, <1>2, <1>3

LEMMA Shortened ==
  ASSUME NEW S, NEW q \in Seq(S), q # <<>>
  PROVE  /\ Head(q) \in S /\ Head(q) = q[1] /\ 1 \in DOMAIN q
         /\ Tail(q) \in Seq(S) /\ Len(Tail(q)) = Len(q) - 1
         /\ Len(q) \in Nat /\ Len(q) >= 1
         /\ DOMAIN q = 1..Len(q)
         /\ DOMAIN Tail(q) = 1..(Len(q) - 1)
         /\ \A i \in 1..(Len(q) - 1) : Tail(q)[i] = q[i + 1]
<1>1. Len(q) \in Nat /\ Len(q) >= 1 /\ DOMAIN q = 1..Len(q)  BY LenProperties, EmptySeq
<1>2. /\ Head(q) \in S /\ Tail(q) \in Seq(S) /\ Len(Tail(q)) = Len(q) - 1
      /\ \A i \in 1..Len(Tail(q)) : Tail(q)[i] = q[i + 1]
  BY HeadTailProperties
<1>3. DOMAIN Tail(q) = 1..Len(Tail(q))  BY <1>2, LenProperties
<1>4. Head(q) = q[1]  OBVIOUS
<1> QED  BY <1>1, <1>2, <1>3, <1>4

-----------------------------------------------------------------------------
(* Books                                                                   *)

(* A diff that continues the book, or leaves out less than the tolerance.  *)
LEMMA DiffKeepsTrust ==
  ASSUME NEW book, NEW n \in Ids, Trusted(book, n), NEW d \in Diffs, d.u > n,
         d.pu = n \/ Distance(d.pu, n) < Tolerance
  PROVE  Trusted(book \union (d.pu + 1)..d.u, d.u)
<1> DEFINE pu == d.pu
           u == d.u
           more == book \union (pu + 1)..u
<1>1. pu \in Nat /\ u \in Nat /\ n \in Nat /\ pu < u /\ u > n  BY FeedAssumption DEF Diffs, Ids
<1>2. pu <= n \/ pu - n < Tolerance  BY <1>1, FeedAssumption DEF Distance
<1> HIDE DEF pu, u
<1>3. u \in more  BY <1>1
<1>4. ASSUME NEW a \in 1..u, NEW b \in a..u, (a..b) \intersect more = {}
      PROVE  b - a + 1 < Tolerance
  <2>1. b \notin more /\ (n \in a..b => n \notin book) /\ (a..b) \intersect book = {}
    <3>1. \A x \in a..b : x \notin more  BY <1>4
    <3>2. \A x \in a..b : x \notin book  BY <3>1
    <3>3. b \in a..b  BY <1>1
    <3> QED  BY <3>1, <3>2, <3>3
  <2>2. b <= pu
    <3>1. b \notin (pu + 1)..u  BY <2>1
    <3> QED  BY <1>1, <3>1
  <2>3. CASE b <= n
    <3>1. a \in 1..n /\ b \in a..n  BY <1>1, <2>3
    <3> QED  BY <2>1, <3>1 DEF Trusted, OnlyToleratedHoles
  <2>4. CASE b > n
    <3>1. n \notin a..b  BY <2>1 DEF Trusted
    <3>2. a > n  BY <1>1, <2>4, <3>1
    <3> QED  BY <1>1, <1>2, <2>2, <2>4, <3>2, FeedAssumption
  <2> QED  BY <1>1, <2>3, <2>4
<1> QED  BY <1>3, <1>4 DEF Trusted, OnlyToleratedHoles, pu, u

(* The diffs that seed a book form a chain, which leaves nothing out.      *)
SeedId(pending, id) == IF Newer(pending, id) = {} THEN id ELSE Last(pending).u
SeedBook(pending, id) == 1..id \union Covered({pending[i] : i \in Newer(pending, id)})

LEMMA SeedIsWhole ==
  ASSUME NEW pending \in Seq(Diffs), NEW id \in Ids, Seeds(pending, id)
  PROVE  /\ SeedId(pending, id) \in Ids /\ SeedBook(pending, id) \in SUBSET Ids
         /\ Trusted(SeedBook(pending, id), SeedId(pending, id))
<1> DEFINE n == SeedId(pending, id)
           book == SeedBook(pending, id)
           newer == Newer(pending, id)
           l == Len(pending)
<1>1. /\ l \in Nat /\ DOMAIN pending = 1..l
      /\ \A i \in 1..l : pending[i] \in Diffs
  BY LenProperties
<1>2. \A i \in 1..l : /\ pending[i].pu \in Nat /\ pending[i].u \in Ids
                      /\ pending[i].pu + 1 >= 1
  BY <1>1, FeedAssumption DEF Diffs, Ids
<1>3. newer \subseteq 1..l /\ \A i \in 1..l : i \in newer <=> pending[i].u > id
  BY <1>1 DEF Newer
<1>4. id \in Nat /\ id >= 1 /\ id <= MaxId /\ MaxId \in Nat  BY FeedAssumption DEF Ids
<1>5. \A x : x \in book <=> \/ x \in 1..id
                            \/ \E i \in newer : x \in (pending[i].pu + 1)..pending[i].u
  BY DEF SeedBook, Covered
<1>6. /\ n \in Ids /\ n \in Nat
      /\ newer = {} => n = id
      /\ newer # {} => l \in 1..l /\ n = pending[l].u
  <2>1. CASE newer = {}  BY <1>4, <2>1 DEF SeedId
  <2>2. CASE newer # {}
    <3>1. l \in 1..l  BY <1>1, <1>3, <2>2
    <3>2. n = pending[l].u  BY <2>2 DEF SeedId, Last
    <3>3. n \in Ids  BY <1>2, <3>1, <3>2
    <3> QED  BY <2>2, <3>1, <3>2, <3>3 DEF Ids
  <2> QED  BY <2>1, <2>2
<1>7. book \in SUBSET Ids
  <2> SUFFICES ASSUME NEW x \in book PROVE x \in Ids  OBVIOUS
  <2>1. CASE x \in 1..id  BY <1>4, <2>1 DEF Ids
  <2>2. CASE \E i \in newer : x \in (pending[i].pu + 1)..pending[i].u
    BY <1>2, <1>3, <1>4, <2>2 DEF Ids
  <2> QED  BY <1>5, <2>1, <2>2
<1> HIDE DEF n, book, newer, l
<1>8. ASSUME NEW x \in 1..n PROVE x \in book
  <2>1. CASE x <= id  BY <1>4, <1>5, <1>6, <2>1
  <2>2. CASE x > id
    <3> DEFINE T == {i \in newer : pending[i].u >= x}
    <3>1. newer # {}  BY <1>4, <1>6, <2>2
    <3>2. l \in newer  BY <1>3, <1>4, <1>6, <2>2, <3>1
    <3>3. T # {} /\ T \subseteq Nat
      <4>1. pending[l].u >= x  BY <1>6, <3>1
      <4>2. l \in T  BY <3>2, <4>1
      <4>3. T \subseteq 1..l  BY <1>3
      <4> QED  BY <1>1, <4>2, <4>3
    <3>4. PICK i \in T : \A j \in T : i <= j  BY <3>3, Least
    <3>5. i \in newer /\ i \in 1..l /\ pending[i].u >= x  BY <1>3, <3>4
    <3>6. pending[i].pu + 1 <= x
      <4>1. CASE i - 1 \in newer
        <5>1. pending[i].pu = pending[i - 1].u  BY <3>5, <4>1 DEF Seeds, newer
        <5>2. i - 1 \notin T  BY <1>1, <3>4, <3>5
        <5>3. i - 1 \in 1..l  BY <1>3, <4>1
        <5>4. pending[i - 1].u < x  BY <1>2, <1>4, <1>6, <4>1, <5>2, <5>3 DEF Ids
        <5> QED  BY <1>2, <3>5, <5>1, <5>4, <1>6
      <4>2. CASE i - 1 \notin newer
        <5>1. pending[i].pu + 1 <= id  BY <3>5, <4>2 DEF Seeds, Bridges, newer
        <5> QED  BY <1>2, <1>4, <2>2, <3>5, <5>1
      <4> QED  BY <4>1, <4>2
    <3>7. x \in (pending[i].pu + 1)..pending[i].u  BY <1>2, <1>6, <3>5, <3>6
    <3> QED  BY <1>5, <3>5, <3>7
  <2> QED  BY <1>4, <1>6, <2>1, <2>2
<1>9. n \in book  BY <1>6, <1>8 DEF Ids
<1>10. OnlyToleratedHoles(book, n)
  <2> SUFFICES ASSUME NEW a \in 1..n, NEW b \in a..n, (a..b) \intersect book = {}
               PROVE  b - a + 1 < Tolerance
    BY DEF OnlyToleratedHoles
  <2>1. a \in book /\ a \in a..b  BY <1>6, <1>8
  <2> QED  BY <2>1
<1> QED  BY <1>6, <1>7, <1>9, <1>10 DEF Trusted, n, book

-----------------------------------------------------------------------------
(* The steps                                                               *)

LEMMA Sizes ==
  /\ RawSize \in Nat /\ RawSize >= 1 /\ LobSize \in Nat /\ LobSize >= 1
  /\ GapLimit \in Nat /\ GapLimit >= 1 /\ ConsecLimit \in Nat /\ ConsecLimit >= 1
  /\ PendingCap \in Nat /\ PendingCap >= 1 /\ MaxId \in Nat /\ MaxId >= 1
BY FeedAssumption

LEMMA NothingLeft ==
  /\ Len(<<>>) = 0 /\ <<>> \in Seq(Diffs) /\ <<>> \in Seq(Snapshots)
BY EmptySeq

LEMMA SeedType ==
  NoSeed \in SeedStates /\ [pc |-> "asked", id |-> 0] \in SeedStates
    /\ [pc |-> "failed", id |-> 0] \in SeedStates
BY Sizes DEF NoSeed, SeedStates

LEMMA PipelineKept ==
  ASSUME IInv, UNCHANGED <<ws, pipeline>>, lobStatus' = lobStatus \/ lobStatus' = "DISCONNECTED"
  PROVE  WsType' /\ PipeType' /\ BookInv' /\ LatestInv' /\ StatusInv'
BY DEF IInv, pipeline, WsType, PipeType, BookInv, LatestInv, StatusInv, Current

LEMMA ExchangeKeeps ==
  ASSUME IInv, BookChanges \/ Publish
  PROVE  IInv'
<1>1. UNCHANGED <<conn, hb, ws, seed, pipeline, lobStatus, lobLate>>
  BY DEF BookChanges, Publish
<1>2. head' \in Ids /\ published' \in 1..head'
  BY FeedAssumption DEF IInv, NetType, BookChanges, Publish, Ids
<1>3. wire' \in Seq(Diffs)
  <2>1. CASE wire' = wire  BY <2>1 DEF IInv, NetType
  <2>2. CASE Publish /\ wire' = Append(wire, [pu |-> published, u |-> head])
    <3>1. [pu |-> published, u |-> head] \in Diffs
      BY <2>2, FeedAssumption DEF IInv, NetType, Publish, Ids, Diffs
    <3> QED  BY <2>2, <3>1, Appended DEF IInv, NetType
  <2> QED  BY <2>1, <2>2 DEF BookChanges, Publish
<1>4. NetType' /\ SeedInv' /\ UnseededInv'
  BY <1>1, <1>2, <1>3 DEF IInv, NetType, SeedInv, UnseededInv, pipeline
<1> QED  BY <1>1, <1>4, PipelineKept DEF IInv

LEMMA ConnectKeeps ==
  ASSUME IInv, Connect
  PROVE  IInv'
<1>1. /\ rawQ = <<>> /\ lobQ = <<>> /\ ws' = NoBook /\ conn' = "up" /\ wire' = <<>>
      /\ seed' = [pc |-> "asked", id |-> 0] /\ lobStatus' = "UNINITIALISED"
      /\ UNCHANGED <<head, published, hb, rawQ, lobQ, dropped, eng, lobLate>>
  BY DEF Connect, ConnectedStatus, exchange, pipeline
<1>2. NetType'
  <2>1. wire' \in Seq(Diffs)  BY <1>1, EmptySeq
  <2> QED  BY <1>1, <2>1, SeedType DEF IInv, NetType
<1>3. WsType'
  BY <1>1, EmptySeq, FeedAssumption DEF NoBook, WsType, Consumers
<1>4. PipeType' /\ StatusInv'  BY <1>1 DEF IInv, PipeType, StatusInv
<1>5. SeedInv' /\ UnseededInv' /\ LatestInv'
  BY <1>1 DEF SeedInv, UnseededInv, LatestInv, NoBook
<1>6. BookInv'  BY <1>1 DEF IInv, BookInv, NoBook
<1> QED  BY <1>2, <1>3, <1>4, <1>5, <1>6 DEF IInv

LEMMA ConnectionKeeps ==
  ASSUME IInv, ConnectFails \/ Retry \/ ConnectionLost
  PROVE  IInv'
<1>1. /\ UNCHANGED <<head, published, hb, ws, pipeline, lobLate>>
      /\ lobStatus' = lobStatus \/ lobStatus' = "DISCONNECTED"
      /\ conn' \in {"connecting", "backoff"}
      /\ wire' = wire \/ wire' = <<>>
      /\ (seed' = seed /\ conn # "up") \/ seed' = NoSeed
  BY DEF ConnectFails, Retry, ConnectionLost, Disconnect, exchange, FailedStatus
<1>2. NetType'
  <2>1. wire' \in Seq(Diffs) /\ seed' \in SeedStates
    BY <1>1, EmptySeq, SeedType DEF IInv, NetType
  <2> QED  BY <1>1, <2>1 DEF IInv, NetType
<1>3. SeedInv' /\ UnseededInv'  BY <1>1 DEF IInv, SeedInv, UnseededInv, NoSeed
<1> QED  BY <1>1, <1>2, <1>3, PipelineKept DEF IInv

LEMMA RecordType ==
  ASSUME hb \in Beats, NEW latency
  PROVE  Record(latency) \in Beats
<1> DEFINE n == IF latency # "late" THEN 0
                ELSE IF hb.late = ConsecLimit THEN hb.late ELSE hb.late + 1
           c == n = ConsecLimit \/ (hb.critical /\ latency # "fast")
<1>1. n \in 0..ConsecLimit  BY FeedAssumption DEF Beats
<1>2. Record(latency) = [late |-> n, critical |-> c]  BY DEF Record
<1>3. c \in BOOLEAN  OBVIOUS
<1> HIDE DEF n, c
<1> QED  BY <1>1, <1>2, <1>3 DEF Beats

LEMMA MessageKeeps ==
  ASSUME IInv, NEW latency \in Latencies, ReceiveLate(latency) \/ ReceiveKline(latency)
  PROVE  IInv'
<1>1. /\ UNCHANGED <<head, published, ws, pipeline, lobStatus>>
      /\ hb' = Record(latency) /\ lobLate' \in BOOLEAN
      /\ \/ UNCHANGED <<wire, conn, seed>>
         \/ conn' = "connecting" /\ wire' = <<>> /\ seed' = NoSeed
  BY DEF ReceiveLate, ReceiveKline, Disconnect, exchange
<1>2. NetType'
  <2>1. wire' \in Seq(Diffs) /\ seed' \in SeedStates /\ hb' \in Beats
    BY <1>1, EmptySeq, SeedType, RecordType DEF IInv, NetType
  <2> QED  BY <1>1, <2>1 DEF IInv, NetType
<1>3. SeedInv' /\ UnseededInv'  BY <1>1 DEF IInv, SeedInv, UnseededInv, NoSeed, pipeline
<1> QED  BY <1>1, <1>2, <1>3, PipelineKept DEF IInv

LEMMA EnqueueKeeps ==
  ASSUME rawQ \in Seq(Snapshots), Len(rawQ) <= RawSize,
         \A i \in DOMAIN rawQ : Trusted(rawQ[i].book, rawQ[i].id),
         NEW s \in Snapshots, Trusted(s.book, s.id), EnqueueLatest(s)
  PROVE  /\ rawQ' \in Seq(Snapshots) /\ Len(rawQ') <= RawSize
         /\ \A i \in DOMAIN rawQ' : Trusted(rawQ'[i].book, rawQ'[i].id)
         /\ rawQ' # <<>> /\ rawQ'[Len(rawQ')] = s
<1> DEFINE q == IF Len(rawQ) = RawSize THEN Tail(rawQ) ELSE rawQ
<1>1. rawQ' = Append(q, s)  BY DEF EnqueueLatest, Enqueue
<1>2. /\ q \in Seq(Snapshots) /\ Len(q) \in Nat /\ Len(q) < RawSize /\ DOMAIN q = 1..Len(q)
      /\ \A i \in 1..Len(q) : Trusted(q[i].book, q[i].id)
  <2>1. CASE Len(rawQ) = RawSize
    <3>1. rawQ # <<>>  BY <2>1, EmptySeq, FeedAssumption
    <3>2. /\ q = Tail(rawQ) /\ q \in Seq(Snapshots) /\ Len(q) = Len(rawQ) - 1
          /\ Len(rawQ) \in Nat /\ Len(rawQ) >= 1
          /\ DOMAIN rawQ = 1..Len(rawQ) /\ DOMAIN q = 1..(Len(rawQ) - 1)
          /\ \A i \in 1..(Len(rawQ) - 1) : q[i] = rawQ[i + 1]
      BY <2>1, <3>1, Shortened
    <3> HIDE DEF q
    <3>3. \A i \in 1..Len(q) : q[i] = rawQ[i + 1] /\ i + 1 \in DOMAIN rawQ  BY <3>2
    <3> QED  BY <2>1, <3>2, <3>3
  <2>2. CASE Len(rawQ) # RawSize
    <3>1. q = rawQ  BY <2>2
    <3> HIDE DEF q
    <3>2. DOMAIN rawQ = 1..Len(rawQ) /\ Len(rawQ) \in Nat  BY LenProperties
    <3>3. Len(rawQ) < RawSize
      <4> DEFINE l == Len(rawQ)
      <4>1. l \in Nat /\ l <= RawSize /\ l # RawSize  BY <2>2, <3>2
      <4> HIDE DEF l
      <4>2. l < RawSize  BY <4>1, Sizes
      <4> QED  BY <4>2 DEF l
    <3> QED  BY <3>1, <3>2, <3>3
  <2> QED  BY <2>1, <2>2
<1> HIDE DEF q
<1>3. /\ rawQ' \in Seq(Snapshots) /\ rawQ' # <<>> /\ Len(rawQ') = Len(q) + 1
      /\ DOMAIN rawQ' = 1..(Len(q) + 1)
      /\ \A i \in 1..Len(q) : rawQ'[i] = q[i]
      /\ rawQ'[Len(q) + 1] = s
  BY <1>1, <1>2, Appended
<1>4. ASSUME NEW i \in DOMAIN rawQ'
      PROVE  Trusted(rawQ'[i].book, rawQ'[i].id)
  <2>1. i = Len(q) + 1 \/ i \in 1..Len(q)  BY <1>2, <1>3
  <2> QED  BY <1>2, <1>3, <2>1
<1>5. Len(rawQ') <= RawSize  BY <1>2, <1>3, FeedAssumption
<1> QED  BY <1>3, <1>4, <1>5

LEMMA DiffKeeps ==
  ASSUME IInv, NEW latency \in Latencies, ReceiveDiff(latency)
  PROVE  IInv'
<1> DEFINE d == Head(wire)
<1>1. /\ conn = "up" /\ wire # <<>>
      /\ UNCHANGED <<head, published, lobQ, dropped, eng, lobStatus>>
      /\ lobLate' = FALSE
      /\ \E c \in BOOLEAN : hb' = [Record(latency) EXCEPT !.critical = c]
      /\ \/ wire' = Tail(wire) /\ UNCHANGED <<conn, seed>>
         \/ wire' = <<>> /\ conn' = "connecting" /\ seed' = NoSeed
      /\ \/ ~ws.synced /\ Buffer(d) /\ UNCHANGED rawQ
         \/ ws.synced /\ ~GapDetected(d) /\ Apply(d)
         \/ ws.synced /\ Skip /\ UNCHANGED rawQ
  BY DEF ReceiveDiff, Disconnect, exchange, IInv, WsType, Consumers
<1>2. wire \in Seq(Diffs) /\ hb \in Beats /\ ws \in Consumers /\ Len(ws.pending) <= PendingCap
  BY DEF IInv, NetType, WsType
<1>3. d \in Diffs /\ Tail(wire) \in Seq(Diffs)  BY <1>1, <1>2, Shortened
<1> HIDE DEF d
<1>4. NetType'
  <2>1. wire' \in Seq(Diffs) /\ seed' \in SeedStates
    BY <1>1, <1>3, EmptySeq, SeedType DEF IInv, NetType
  <2>2. hb' \in Beats
    <3>1. Record(latency) \in Beats  BY <1>2, RecordType
    <3> QED  BY <1>1, <3>1 DEF Beats
  <2> QED  BY <1>1, <2>1, <2>2 DEF IInv, NetType
<1>5. CASE ~ws.synced /\ Buffer(d) /\ UNCHANGED rawQ
  <2> DEFINE more == Append(ws.pending, d)
             p == IF Len(ws.pending) = PendingCap THEN Tail(more) ELSE more
  <2>1. ws' = [ws EXCEPT !.pending = p]  BY <1>5 DEF Buffer
  <2>2. ws.pending \in Seq(Diffs) /\ Len(ws.pending) \in Nat  BY <1>2, LenProperties DEF Consumers
  <2>3. more \in Seq(Diffs) /\ Len(more) = Len(ws.pending) + 1 /\ more # <<>>
    BY <1>3, <2>2, Appended
  <2> HIDE DEF more
  <2>4. Tail(more) \in Seq(Diffs) /\ Len(Tail(more)) = Len(ws.pending)
    BY <2>2, <2>3, Shortened
  <2>5. p \in Seq(Diffs) /\ Len(p) <= PendingCap
    <3>1. CASE Len(ws.pending) = PendingCap  BY <2>4, <3>1, Sizes
    <3>2. CASE Len(ws.pending) # PendingCap
      <4>1. p = more /\ Len(ws.pending) + 1 <= PendingCap  BY <1>2, <2>2, <3>2, Sizes
      <4> QED  BY <2>3, <4>1
    <3> QED  BY <3>1, <3>2
  <2> HIDE DEF p
  <2>6. WsType' /\ ~ws'.synced  BY <1>2, <1>5, <2>1, <2>5 DEF WsType, Consumers
  <2>7. PipeType' /\ BookInv' /\ LatestInv' /\ StatusInv'
    BY <1>1, <1>5, <2>6 DEF IInv, PipeType, BookInv, LatestInv, StatusInv
  <2>8. SeedInv' /\ UnseededInv'
    BY <1>1, <1>5, <2>6 DEF IInv, SeedInv, UnseededInv, NoSeed
  <2> QED  BY <1>4, <2>6, <2>7, <2>8 DEF IInv
<1>6. CASE ws.synced /\ ~GapDetected(d) /\ Apply(d)
  <2> DEFINE id == IF d.u > ws.id THEN d.u ELSE ws.id
             book == IF d.u > ws.id THEN ws.book \union (d.pu + 1)..d.u ELSE ws.book
             zero == 0
  <2>1. ws' = [ws EXCEPT !.gaps = zero, !.id = id, !.book = book]
    BY <1>6 DEF Apply
  <2>2. ws.id \in Ids /\ Trusted(ws.book, ws.id)  BY <1>6 DEF IInv, BookInv
  <2>3. ws.book \in SUBSET Ids  BY <1>2 DEF Consumers
  <2>4. id \in Ids /\ book \in SUBSET Ids /\ Trusted(book, id)
    <3>1. CASE d.u > ws.id
      <4>1. d.pu = ws.id \/ Distance(d.pu, ws.id) < Tolerance
        <5>1. d.pu \in Int /\ ws.id \in Int /\ Tolerance \in Int
          BY <1>3, <2>2, FeedAssumption DEF Diffs, Ids
        <5>2. Distance(d.pu, ws.id) \in Int  BY <5>1 DEF Distance
        <5> QED  BY <1>6, <5>1, <5>2 DEF GapDetected
      <4>2. Trusted(ws.book \union (d.pu + 1)..d.u, d.u)
        BY <1>3, <2>2, <3>1, <4>1, DiffKeepsTrust
      <4>3. d.u \in Ids /\ (d.pu + 1)..d.u \subseteq Ids  BY <1>3, Sizes DEF Diffs, Ids
      <4> QED  BY <2>3, <3>1, <4>2, <4>3
    <3>2. CASE ~(d.u > ws.id)  BY <2>2, <2>3, <3>2
    <3> QED  BY <3>1, <3>2
  <2>5. id \in 0..MaxId /\ zero \in 0..GapLimit - 1  BY <2>4, Sizes DEF Ids
  <2> HIDE DEF id, book, zero
  <2>6. WsType' /\ ws'.synced /\ ws'.id = id /\ ws'.book = book
    BY <1>2, <1>6, <2>1, <2>4, <2>5 DEF WsType, Consumers
  <2> DEFINE s == [id |-> id, book |-> book]
  <2>7. EnqueueLatest(s)  BY <1>6, <2>6 DEF Apply
  <2>8. s \in Snapshots /\ s.id = id /\ s.book = book  BY <2>4 DEF Snapshots
  <2> HIDE DEF s
  <2>9. /\ rawQ' \in Seq(Snapshots) /\ Len(rawQ') <= RawSize
        /\ \A i \in DOMAIN rawQ' : Trusted(rawQ'[i].book, rawQ'[i].id)
        /\ rawQ' # <<>> /\ rawQ'[Len(rawQ')] = s
    BY <2>4, <2>7, <2>8, EnqueueKeeps DEF IInv, PipeType, BookInv
  <2>10. PipeType' /\ StatusInv'  BY <1>1, <2>9 DEF IInv, PipeType, StatusInv
  <2>11. BookInv'  BY <1>1, <2>4, <2>6, <2>9 DEF IInv, BookInv
  <2>12. LatestInv'  BY <2>6, <2>9 DEF LatestInv, Current, s
  <2>13. SeedInv' /\ UnseededInv'
    BY <1>1, <1>6, <2>6 DEF IInv, SeedInv, UnseededInv, NoSeed
  <2> QED  BY <1>4, <2>6, <2>10, <2>11, <2>12, <2>13 DEF IInv
<1>7. CASE ws.synced /\ Skip /\ UNCHANGED rawQ
  <2> DEFINE g == (ws.gaps + 1) % GapLimit
  <2>1. ws' = [ws EXCEPT !.gaps = g]  BY <1>7 DEF Skip
  <2>2. g \in 0..GapLimit - 1
    <3>1. ws.gaps + 1 \in Int  BY <1>2, Sizes DEF Consumers
    <3> QED  BY <3>1, Sizes
  <2> HIDE DEF g
  <2>3. WsType' /\ ws'.synced /\ ws'.id = ws.id /\ ws'.book = ws.book
    BY <1>2, <1>7, <2>1, <2>2 DEF WsType, Consumers
  <2>4. PipeType' /\ BookInv' /\ LatestInv' /\ StatusInv'
    BY <1>1, <1>7, <2>3 DEF IInv, PipeType, BookInv, LatestInv, StatusInv, Current
  <2>5. SeedInv' /\ UnseededInv'
    BY <1>1, <1>7, <2>3 DEF IInv, SeedInv, UnseededInv, NoSeed
  <2> QED  BY <1>4, <2>3, <2>4, <2>5 DEF IInv
<1> QED  BY <1>1, <1>5, <1>6, <1>7

(* Giving up finds no book: a seed is under way only without one.          *)
LEMMA GivenUpKeeps ==
  ASSUME IInv, seed.pc # "none", SeedGivenUp,
         UNCHANGED <<exchange, wire, conn, hb, pipeline, lobStatus, lobLate>>
  PROVE  IInv'
<1>1. /\ seed' = [pc |-> "failed", id |-> 0] /\ ws' = [ws EXCEPT !.pending = <<>>, !.synced = FALSE]
      /\ conn = "up" /\ ~ws.synced
  BY DEF SeedGivenUp, IInv, SeedInv
<1>2. NetType'  BY <1>1, SeedType DEF IInv, NetType, exchange
<1>3. WsType' /\ ~ws'.synced
  <2> DEFINE nothing == <<>>
             no == FALSE
  <2>1. ws' = [ws EXCEPT !.pending = nothing, !.synced = no]  BY <1>1
  <2>2. nothing \in Seq(Diffs) /\ Len(nothing) <= PendingCap  BY NothingLeft, Sizes
  <2>3. no \in BOOLEAN /\ ~no  OBVIOUS
  <2>4. ws \in Consumers  BY DEF IInv, WsType
  <2> HIDE DEF nothing, no
  <2> QED  BY <2>1, <2>2, <2>3, <2>4 DEF WsType, Consumers
<1>4. PipeType' /\ BookInv' /\ LatestInv' /\ StatusInv'
  BY <1>3 DEF IInv, PipeType, BookInv, LatestInv, StatusInv, pipeline
<1>5. SeedInv' /\ UnseededInv'
  BY <1>1, <1>3 DEF IInv, SeedInv, UnseededInv, pipeline
<1> QED  BY <1>2, <1>3, <1>4, <1>5 DEF IInv

LEMMA SeedKeeps ==
  ASSUME IInv, SeedAnswered \/ SeedUnanswered \/ SeedArrives
  PROVE  IInv'
<1>1. CASE SeedAnswered
  <2>1. /\ seed.pc = "asked" /\ seed' = [pc |-> "answered", id |-> head]
        /\ UNCHANGED <<head, published, wire, conn, hb, ws, pipeline, lobStatus, lobLate>>
    BY <1>1 DEF SeedAnswered, exchange
  <2>2. NetType'  BY <2>1, Sizes DEF IInv, NetType, SeedStates, Ids
  <2>3. SeedInv' /\ UnseededInv'
    BY <2>1 DEF IInv, NetType, SeedInv, UnseededInv, pipeline
  <2> QED  BY <2>1, <2>2, <2>3, PipelineKept DEF IInv
<1>2. CASE SeedUnanswered  BY <1>2, GivenUpKeeps DEF SeedUnanswered
<1>3. CASE SeedArrives /\ ~Seeds(ws.pending, seed.id)
  BY <1>3, GivenUpKeeps DEF SeedArrives, pipeline
<1>4. CASE SeedArrives /\ Seeds(ws.pending, seed.id)
  <2> DEFINE id == SeedId(ws.pending, seed.id)
             book == SeedBook(ws.pending, seed.id)
             s == [id |-> id, book |-> book]
  <2>1. /\ seed.pc = "answered" /\ seed' = NoSeed
        /\ ws' = [ws EXCEPT !.synced = TRUE, !.pending = <<>>, !.id = id, !.book = book]
        /\ EnqueueLatest([id |-> ws'.id, book |-> ws'.book])
        /\ UNCHANGED <<head, published, wire, conn, hb, lobQ, dropped, eng, lobStatus, lobLate>>
    BY <1>4 DEF SeedArrives, SeedId, SeedBook, exchange
  <2>2. ws.pending \in Seq(Diffs) /\ seed.id \in Ids /\ conn = "up"
    BY <2>1 DEF IInv, WsType, Consumers, SeedInv
  <2>3. id \in Ids /\ book \in SUBSET Ids /\ Trusted(book, id)
    BY <1>4, <2>2, SeedIsWhole
  <2>4. id \in 0..MaxId  BY <2>3 DEF Ids
  <2> HIDE DEF id, book
  <2>5. WsType' /\ ws'.synced /\ ws'.id = id /\ ws'.book = book
    <3> DEFINE nothing == <<>>
               yes == TRUE
    <3>1. ws' = [ws EXCEPT !.synced = yes, !.pending = nothing, !.id = id, !.book = book]
      BY <2>1
    <3>2. nothing \in Seq(Diffs) /\ Len(nothing) <= PendingCap  BY NothingLeft, Sizes
    <3>3. yes \in BOOLEAN /\ yes  OBVIOUS
    <3>4. ws \in Consumers  BY DEF IInv, WsType
    <3> HIDE DEF nothing, yes
    <3> QED  BY <2>3, <2>4, <3>1, <3>2, <3>3, <3>4 DEF WsType, Consumers
  <2>6. EnqueueLatest(s) /\ s \in Snapshots /\ s.id = id /\ s.book = book
    BY <2>1, <2>3, <2>5 DEF Snapshots
  <2>7. s = Current'  BY <2>5 DEF Current
  <2> HIDE DEF s
  <2>8. /\ rawQ' \in Seq(Snapshots) /\ Len(rawQ') <= RawSize
        /\ \A i \in DOMAIN rawQ' : Trusted(rawQ'[i].book, rawQ'[i].id)
        /\ rawQ' # <<>> /\ rawQ'[Len(rawQ')] = s
    BY <2>3, <2>6, EnqueueKeeps DEF IInv, PipeType, BookInv
  <2>9. NetType'  BY <2>1, SeedType DEF IInv, NetType
  <2>10. PipeType' /\ StatusInv'  BY <2>1, <2>8 DEF IInv, PipeType, StatusInv
  <2>11. BookInv'  BY <2>1, <2>3, <2>5, <2>8 DEF IInv, BookInv
  <2>12. LatestInv'  BY <2>7, <2>8 DEF LatestInv
  <2>13. SeedInv' /\ UnseededInv'  BY <2>1, <2>5 DEF SeedInv, UnseededInv, NoSeed
  <2> QED  BY <2>5, <2>9, <2>10, <2>11, <2>12, <2>13 DEF IInv
<1> QED  BY <1>1, <1>2, <1>3, <1>4

LEMMA FanoutKeeps ==
  ASSUME IInv, Fanout
  PROVE  IInv'
<1> DEFINE s == Head(rawQ)
<1>1. /\ rawQ # <<>> /\ rawQ' = Tail(rawQ)
      /\ \/ Len(lobQ) < LobSize /\ lobQ' = Append(lobQ, s) /\ dropped' = dropped
         \/ dropped' = TRUE /\ lobQ' = lobQ
      /\ UNCHANGED <<head, published, wire, conn, hb, ws, seed, eng, lobStatus, lobLate>>
  BY DEF Fanout, exchange
<1>2. /\ s \in Snapshots /\ s = rawQ[1] /\ 1 \in DOMAIN rawQ
      /\ Tail(rawQ) \in Seq(Snapshots) /\ Len(Tail(rawQ)) = Len(rawQ) - 1
      /\ Len(rawQ) \in Nat /\ Len(rawQ) >= 1
      /\ DOMAIN rawQ = 1..Len(rawQ)
      /\ DOMAIN Tail(rawQ) = 1..(Len(rawQ) - 1)
      /\ \A i \in 1..(Len(rawQ) - 1) : Tail(rawQ)[i] = rawQ[i + 1]
  BY <1>1, Shortened DEF IInv, PipeType
<1> HIDE DEF s
<1>3. \A i \in DOMAIN rawQ' : i + 1 \in DOMAIN rawQ /\ rawQ'[i] = rawQ[i + 1]
  BY <1>1, <1>2
<1>4. Trusted(s.book, s.id)  BY <1>2 DEF IInv, BookInv
<1>5. /\ lobQ \in Seq(Snapshots) /\ DOMAIN lobQ = 1..Len(lobQ) /\ Len(lobQ) \in Nat
      /\ Len(lobQ) <= LobSize
  BY LenProperties DEF IInv, PipeType
<1>6. /\ lobQ' \in Seq(Snapshots) /\ Len(lobQ') <= LobSize
      /\ \A i \in DOMAIN lobQ' : Trusted(lobQ'[i].book, lobQ'[i].id)
      /\ dropped' \/ (lobQ' # <<>> /\ lobQ'[Len(lobQ')] = s)
  <2>1. CASE lobQ' = lobQ /\ dropped'  BY <1>5, <2>1 DEF IInv, BookInv
  <2>2. CASE Len(lobQ) < LobSize /\ lobQ' = Append(lobQ, s)
    <3>1. /\ lobQ' \in Seq(Snapshots) /\ lobQ' # <<>> /\ Len(lobQ') = Len(lobQ) + 1
          /\ DOMAIN lobQ' = 1..(Len(lobQ) + 1)
          /\ \A i \in 1..Len(lobQ) : lobQ'[i] = lobQ[i]
          /\ lobQ'[Len(lobQ) + 1] = s
      BY <1>2, <1>5, <2>2, Appended
    <3>2. ASSUME NEW i \in DOMAIN lobQ'
          PROVE  Trusted(lobQ'[i].book, lobQ'[i].id)
      <4>1. i = Len(lobQ) + 1 \/ i \in 1..Len(lobQ)  BY <1>5, <3>1
      <4> QED  BY <1>4, <1>5, <3>1, <4>1 DEF IInv, BookInv
    <3>3. Len(lobQ') <= LobSize  BY <1>5, <2>2, <3>1, Sizes
    <3> QED  BY <3>1, <3>2, <3>3
  <2> QED  BY <1>1, <2>1, <2>2
<1>7. PipeType' /\ WsType' /\ NetType' /\ StatusInv'
  <2>1. Len(rawQ') <= RawSize /\ rawQ' \in Seq(Snapshots)
    BY <1>1, <1>2, Sizes DEF IInv, PipeType
  <2>2. dropped' \in BOOLEAN  BY <1>1 DEF IInv, PipeType
  <2> QED  BY <1>1, <1>6, <2>1, <2>2 DEF IInv, PipeType, WsType, NetType, StatusInv
<1>8. BookInv'  BY <1>1, <1>3, <1>6 DEF IInv, BookInv
<1>9. SeedInv' /\ UnseededInv'  BY <1>1 DEF IInv, SeedInv, UnseededInv
<1>10. LatestInv'
  <2> SUFFICES ASSUME ws'.synced, ~dropped'
               PROVE  /\ rawQ' # <<>> => rawQ'[Len(rawQ')] = Current'
                      /\ lobQ' # <<>> /\ (rawQ' = <<>> => lobQ'[Len(lobQ')] = Current')
    BY DEF LatestInv
  <2>1. rawQ[Len(rawQ)] = Current /\ Current' = Current /\ lobQ' # <<>> /\ lobQ'[Len(lobQ')] = s
    BY <1>1, <1>6 DEF IInv, LatestInv, PipeType, Current
  <2>2. ASSUME rawQ' # <<>> PROVE rawQ'[Len(rawQ')] = Current'
    <3>1. Len(rawQ') >= 1 /\ Len(rawQ') = Len(rawQ) - 1
      BY <1>1, <1>2, <2>2, Shortened
    <3>2. rawQ'[Len(rawQ')] = rawQ[Len(rawQ)]
      <4>1. Len(rawQ) - 1 \in 1..(Len(rawQ) - 1) /\ Len(rawQ) - 1 + 1 = Len(rawQ)
        BY <1>2, <3>1
      <4> QED  BY <1>1, <1>2, <3>1, <4>1
    <3> QED  BY <2>1, <3>2
  <2>3. ASSUME rawQ' = <<>> PROVE s = Current'
    <3>1. Len(rawQ) - 1 = 0  BY <1>1, <1>2, <2>3, NothingLeft
    <3>2. Len(rawQ) = 1
      <4> DEFINE l == Len(rawQ)
      <4>1. l \in Nat /\ l - 1 = 0  BY <1>2, <3>1
      <4> HIDE DEF l
      <4>2. l = 1  BY <4>1
      <4> QED  BY <4>2 DEF l
    <3> QED  BY <1>2, <2>1, <3>2
  <2> QED  BY <2>1, <2>2, <2>3
<1> QED  BY <1>7, <1>8, <1>9, <1>10 DEF IInv

LEMMA SnapshotKeeps ==
  ASSUME IInv, ApplySnapshot
  PROVE  IInv'
<1> DEFINE s == Head(lobQ)
<1>1. /\ lobQ # <<>> /\ lobQ' = Tail(lobQ)
      /\ \/ /\ s.id <= eng.id
            /\ eng' = [eng EXCEPT !.state = "GAP_DETECTED"]
            /\ lobStatus' = IF eng.state # "GAP_DETECTED" THEN "GAP_DETECTED" ELSE lobStatus
         \/ /\ eng' = [state |-> "SYNCED", id |-> s.id, book |-> s.book]
            /\ lobStatus' = "SYNCED"
      /\ UNCHANGED <<head, published, wire, conn, hb, ws, seed, rawQ, dropped, lobLate>>
  BY DEF ApplySnapshot, exchange
<1>2. /\ s \in Snapshots /\ s = lobQ[1] /\ 1 \in DOMAIN lobQ
      /\ Tail(lobQ) \in Seq(Snapshots) /\ Len(Tail(lobQ)) = Len(lobQ) - 1
      /\ Len(lobQ) \in Nat /\ Len(lobQ) >= 1
      /\ DOMAIN lobQ = 1..Len(lobQ)
      /\ DOMAIN Tail(lobQ) = 1..(Len(lobQ) - 1)
      /\ \A i \in 1..(Len(lobQ) - 1) : Tail(lobQ)[i] = lobQ[i + 1]
  BY <1>1, Shortened DEF IInv, PipeType
<1> HIDE DEF s
<1>3. Trusted(s.book, s.id) /\ s.id \in 0..MaxId /\ s.book \in SUBSET Ids
  BY <1>2, Sizes DEF IInv, BookInv, Snapshots, Ids
<1>4. \A i \in DOMAIN lobQ' : i + 1 \in DOMAIN lobQ /\ lobQ'[i] = lobQ[i + 1]
  BY <1>1, <1>2
<1>5. eng \in Engines /\ (lobStatus = "SYNCED" => eng.state = "SYNCED")
  BY DEF IInv, PipeType, StatusInv
<1>6. /\ eng' \in Engines /\ OnlyToleratedHoles(eng'.book, eng'.id)
      /\ lobStatus' \in {"UNINITIALISED", "SYNCED", "GAP_DETECTED", "DISCONNECTED"}
      /\ lobStatus' = "SYNCED" => eng'.state = "SYNCED" /\ eng'.id = s.id /\ eng'.book = s.book
  <2>1. CASE /\ eng' = [eng EXCEPT !.state = "GAP_DETECTED"]
             /\ lobStatus' = IF eng.state # "GAP_DETECTED" THEN "GAP_DETECTED" ELSE lobStatus
    BY <1>5, <2>1 DEF IInv, PipeType, BookInv, Engines
  <2>2. CASE eng' = [state |-> "SYNCED", id |-> s.id, book |-> s.book] /\ lobStatus' = "SYNCED"
    BY <1>3, <2>2 DEF Trusted, Engines
  <2> QED  BY <1>1, <2>1, <2>2
<1>7. PipeType' /\ WsType' /\ NetType' /\ StatusInv'
  <2>1. Len(lobQ') <= LobSize /\ lobQ' \in Seq(Snapshots)
    BY <1>1, <1>2, Sizes DEF IInv, PipeType
  <2> QED  BY <1>1, <1>6, <2>1 DEF IInv, PipeType, WsType, NetType, StatusInv
<1>8. BookInv'  BY <1>1, <1>4, <1>6 DEF IInv, BookInv
<1>9. SeedInv' /\ UnseededInv'  BY <1>1 DEF IInv, SeedInv, UnseededInv
<1>10. LatestInv'
  <2> SUFFICES ASSUME ws.synced, ~dropped, rawQ = <<>>
               PROVE  /\ lobQ' # <<>> => lobQ'[Len(lobQ')] = Current
                      /\ lobQ' = <<>> => s = Current
    BY <1>1, <1>6 DEF IInv, LatestInv, Current
  <2>1. lobQ[Len(lobQ)] = Current  BY <1>1 DEF IInv, LatestInv
  <2>2. ASSUME lobQ' # <<>> PROVE lobQ'[Len(lobQ')] = Current
    <3>1. Len(lobQ') >= 1 /\ Len(lobQ') = Len(lobQ) - 1
      BY <1>1, <1>2, <2>2, Shortened
    <3>2. Len(lobQ) - 1 \in 1..(Len(lobQ) - 1) /\ Len(lobQ) - 1 + 1 = Len(lobQ)
      BY <1>2, <3>1
    <3> QED  BY <1>1, <1>2, <2>1, <3>1, <3>2
  <2>3. ASSUME lobQ' = <<>> PROVE s = Current
    <3>1. Len(lobQ) = 1  BY <1>1, <1>2, <2>3, EmptySeq
    <3> QED  BY <1>2, <2>1, <3>1
  <2> QED  BY <2>2, <2>3
<1> QED  BY <1>7, <1>8, <1>9, <1>10 DEF IInv

-----------------------------------------------------------------------------
(* The invariant                                                           *)

LEMMA InitInv == ASSUME Init PROVE IInv
<1>1. NetType /\ WsType /\ PipeType
  <2>1. 1 \in Ids /\ 1..1 = {1}  BY Sizes DEF Ids
  <2>2. hb \in Beats  BY Sizes DEF Init, Beats
  <2>3. NetType  BY <2>1, <2>2, NothingLeft, SeedType DEF Init, NetType
  <2>4. WsType  BY NothingLeft, Sizes DEF Init, NoBook, WsType, Consumers
  <2>5. eng \in Engines  BY Sizes DEF Init, Engines
  <2>6. /\ rawQ \in Seq(Snapshots) /\ Len(rawQ) <= RawSize
        /\ lobQ \in Seq(Snapshots) /\ Len(lobQ) <= LobSize
    <3>1. rawQ = <<>> /\ lobQ = <<>>  BY DEF Init
    <3>2. Len(rawQ) = 0 /\ Len(lobQ) = 0 /\ rawQ \in Seq(Snapshots) /\ lobQ \in Seq(Snapshots)
      BY <3>1, NothingLeft
    <3> QED  BY <3>2, Sizes
  <2>7. PipeType  BY <2>5, <2>6 DEF Init, PipeType
  <2> QED  BY <2>3, <2>4, <2>7
<1>2. SeedInv /\ UnseededInv /\ LatestInv /\ StatusInv
  BY DEF Init, SeedInv, UnseededInv, LatestInv, StatusInv, NoSeed, NoBook
<1>3. BookInv
  <2>1. DOMAIN rawQ = {} /\ DOMAIN lobQ = {}  BY DEF Init
  <2>2. OnlyToleratedHoles(eng.book, eng.id)
    <3>1. eng.id = 0 /\ 1..0 = {}  BY DEF Init
    <3> QED  BY <3>1 DEF OnlyToleratedHoles
  <2> QED  BY <2>1, <2>2 DEF Init, BookInv, NoBook
<1> QED  BY <1>1, <1>2, <1>3 DEF IInv

LEMMA NextKeeps ==
  ASSUME IInv, [Next]_vars
  PROVE  IInv'
<1>1. CASE UNCHANGED vars
  BY <1>1, PipelineKept DEF vars, IInv, NetType, SeedInv, UnseededInv, pipeline
<1>2. CASE Next
  BY <1>2, ExchangeKeeps, ConnectKeeps, ConnectionKeeps, MessageKeeps, DiffKeeps, SeedKeeps,
     FanoutKeeps, SnapshotKeeps
  DEF Next, Receive
<1> QED  BY <1>1, <1>2

LEMMA Invariant == Spec => []IInv
<1>1. Init => IInv  BY InitInv
<1>2. IInv /\ [Next]_vars => IInv'  BY NextKeeps
<1> QED  BY <1>1, <1>2, PTL DEF Spec

-----------------------------------------------------------------------------
(* The theorems                                                            *)

(* ws_consumer.py, lob_engine.py: the queues keep their bounds, as does    *)
(* what is buffered while a seed is under way.                             *)
THEOREM TypeCorrect == Spec => []TypeOK
<1>1. IInv => TypeOK  BY Typed DEF IInv
<1> QED  BY <1>1, Invariant, PTL

(* Gate 0 is never open on a book that misses more than tolerated gaps,    *)
(* whatever is lost, late, refused, reconnected or dropped on the way.     *)
THEOREM GateIsTrustworthy == Spec => []GateSeesTrustedBook
<1>1. IInv => GateSeesTrustedBook  BY DEF IInv, BookInv, GateSeesTrustedBook
<1> QED  BY <1>1, Invariant, PTL

(* A connection without a book never looks SYNCED, whatever its            *)
(* predecessor left behind.                                                *)
THEOREM NoFalseSync == Spec => []UnseededIsNotSynced
<1>1. IInv => UnseededIsNotSynced  BY DEF IInv, UnseededInv, UnseededIsNotSynced
<1> QED  BY <1>1, Invariant, PTL

(* With empty queues, no drop and an open gate the executor's book is the  *)
(* consumer's.                                                             *)
THEOREM SameBook == Spec => []BooksAgree
<1>1. IInv => BooksAgree  BY DEF IInv, LatestInv, BooksAgree, GateOpen
<1> QED  BY <1>1, Invariant, PTL
=============================================================================
