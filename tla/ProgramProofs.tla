---------------------------- MODULE ProgramProofs ----------------------------
(***************************************************************************)
(* Proofs about the two programs that run for months: Engine.tla, the      *)
(* tasks of main.py, and LobRecorder.tla, for any clients, pages, reports, *)
(* changes, events, losses, failures, purges and restarts.                 *)
(*                                                                         *)
(* Engine ends in order because the api task is the only way into a hub    *)
(* and empties both when it ends; the group is left when no task runs; and *)
(* what could touch the key or a callback afterwards is a task, or has     *)
(* main to wait for.                                                       *)
(*                                                                         *)
(* The recorder's book is its snapshot and a run of changes without a gap: *)
(* the buffered diffs were checked one against the other, and what was     *)
(* lost before is within them or within the snapshot.                      *)
(***************************************************************************)
EXTENDS Engine, LobRecorder, SequenceTheorems, WellFoundedInduction, TLAPS

(* A connection has a handler, a handler has the server.                   *)
HubInv ==
  /\ conns \in [Hubs -> SUBSET Clients] /\ open \in [Hubs -> SUBSET Clients]
  /\ \A h \in Hubs : conns[h] \subseteq open[h]
  /\ "api" \notin running => \A h \in Hubs : open[h] = {}

GroupInv == life \in {"stopped", "closed"} => running = {}

ClosedInv ==
  /\ stream = [pc |-> stream.pc, key |-> stream.key, cancelled |-> stream.cancelled]
  /\ life = "closed" => callbacks = {} /\ stream.key = NoKey

IInv == HubInv /\ GroupInv /\ ClosedInv

-----------------------------------------------------------------------------
(* The group is aborted once, while the program is up.                     *)
LEMMA AbortKeeps ==
  ASSUME IInv, life = "up", NEW t, t # "api", Abort({t}), UNCHANGED <<conns, open, reports>>
  PROVE  IInv'
<1>1. HubInv'  BY DEF IInv, HubInv, Abort, Lingering
<1>2. GroupInv' /\ life' # "closed"  BY DEF Abort, GroupInv
<1>3. ClosedInv'
  <2>1. stream' = stream \/ stream' = [stream EXCEPT !.cancelled = TRUE]  BY DEF Abort
  <2> QED  BY <1>2, <2>1 DEF IInv, ClosedInv
<1> QED  BY <1>1, <1>2, <1>3 DEF IInv

(* Clients come while the server runs, and go at any time.                 *)
LEMMA ClientsKeep ==
  ASSUME IInv, NEW h \in Hubs, NEW c \in Clients, Join(h, c) \/ Leave(h, c)
  PROVE  IInv'
<1>1. HubInv'
  <2>1. CASE Join(h, c)  BY <2>1 DEF IInv, HubInv, Join, Up
  <2>2. CASE Leave(h, c)  BY <2>2 DEF IInv, HubInv, Leave
  <2> QED  BY <2>1, <2>2
<1> QED  BY <1>1 DEF IInv, GroupInv, ClosedInv, Join, Leave, reports

(* A broadcast only drops connections, unless it ends its task.            *)
LEMMA BroadcastKeeps ==
  ASSUME IInv, NEW p \in Producers,
         Broadcast(p) \/ SendNext(p) \/ SentAll(p) \/ GuardedRaise(p) \/ Raise(p)
  PROVE  IInv'
<1>1. CASE Broadcast(p) \/ SendNext(p) \/ GuardedRaise(p)
  BY <1>1
  DEF Broadcast, SendNext, GuardedRaise, IInv, HubInv, GroupInv, ClosedInv, reports
<1>2. CASE SentAll(p)
  <2>1. PICK ok \in BOOLEAN : conns' = [conns EXCEPT ![HubOf[p]] = @ \ Dead(p, ok)]
    BY <1>2 DEF SentAll
  <2>2. UNCHANGED <<life, running, open, stream, reports>>  BY <1>2 DEF SentAll
  <2>3. HubInv'  BY <2>1, <2>2 DEF IInv, HubInv
  <2> QED  BY <2>2, <2>3 DEF IInv, GroupInv, ClosedInv, reports
<1>3. CASE Raise(p)
  <2>1. p # "api"  BY DEF Producers, HubOf
  <2> QED  BY <1>3, <2>1, AbortKeeps DEF Raise, Sending, Up
<1> QED  BY <1>1, <1>2, <1>3

(* The stream moves while its task runs, and an expired key was valid.     *)
LEMMA StreamKeeps ==
  ASSUME IInv, StreamTask \/ Expires \/ StreamCancelled
  PROVE  IInv'
<1>1. /\ UNCHANGED <<life, conns, open, reports>>
      /\ running' = running \/ running' = running \ {"stream"}
  BY DEF StreamTask, Expires, StreamCancelled, KeyObtained, KeyRefused, KeyGone, Connected,
         ConnectFails, ConnectionEnds, Unwound, Backoff, others, hubs
<1>2. "stream" \in running \/ stream.key = "valid"
  BY DEF StreamTask, Expires, StreamCancelled, KeyObtained, KeyRefused, KeyGone, Connected,
         ConnectFails, ConnectionEnds, Unwound, Backoff, Streaming
<1>3. life # "closed"  BY <1>2 DEF IInv, GroupInv, ClosedInv, NoKey
<1>4. stream' = [pc |-> stream'.pc, key |-> stream'.key, cancelled |-> stream'.cancelled]
  <2>1. CASE StreamTask
    BY <2>1
    DEF StreamTask, KeyObtained, KeyRefused, KeyGone, Connected, ConnectFails, ConnectionEnds,
        Unwound, Backoff, Goes, IInv, ClosedInv
  <2>2. CASE Expires \/ StreamCancelled
    BY <2>2 DEF Expires, StreamCancelled, Goes, IInv, ClosedInv
  <2> QED  BY <2>1, <2>2
<1> QED  BY <1>1, <1>3, <1>4 DEF IInv, HubInv, GroupInv, ClosedInv, reports

LEMMA EndKeeps ==
  ASSUME IInv, ApiEnds \/ Stop \/ Close
  PROVE  IInv'
<1>1. CASE ApiEnds
  <2>1. \A h \in Hubs : conns[h] \ open[h] = {}  BY DEF IInv, HubInv
  <2>2. HubInv'  BY <1>1, <2>1 DEF ApiEnds, IInv, HubInv
  <2> QED  BY <1>1, <2>2 DEF ApiEnds, IInv, GroupInv, ClosedInv, reports
<1>2. CASE Stop
  BY <1>2 DEF Stop, GroupEmpty, IInv, HubInv, GroupInv, ClosedInv, hubs, reports
<1>3. CASE Close
  BY <1>3 DEF Close, IInv, HubInv, GroupInv, ClosedInv, hubs
<1> QED  BY <1>1, <1>2, <1>3

(* Reports come until the client is closed; the other tasks stop.          *)
LEMMA RestKeeps ==
  ASSUME IInv,
         \/ Signal \/ Watcher \/ LoopReturns \/ Kline("candles") \/ Kline("dbwriter")
         \/ \E r \in Reports : Report(r) \/ Callback(r)
  PROVE  IInv'
<1>1. CASE Signal
  BY <1>1 DEF Signal, IInv, HubInv, GroupInv, ClosedInv, hubs, reports
<1>2. CASE Watcher \/ LoopReturns
  BY <1>2 DEF Watcher, LoopReturns, IInv, HubInv, GroupInv, ClosedInv, hubs, reports
<1>3. CASE Kline("candles") \/ Kline("dbwriter")
  BY <1>3, AbortKeeps DEF Kline, Up
<1>4. ASSUME NEW r \in Reports, Report(r) \/ Callback(r)
      PROVE  IInv'
  <2>1. life # "closed" /\ UNCHANGED <<life, running, hubs, stream>>
    BY <1>4 DEF Report, Callback
  <2> QED  BY <2>1 DEF IInv, HubInv, GroupInv, ClosedInv, hubs
<1> QED  BY <1>1, <1>2, <1>3, <1>4

-----------------------------------------------------------------------------
(* What main closes is used by nothing that still runs: neither tasks of   *)
(* the group, nor handlers of the hubs, nor callbacks of the stream.       *)
THEOREM ClosesInOrder == EngineSpec => []EndsInOrder
<1>1. EngineInit => IInv
  BY DEF EngineInit, IInv, HubInv, GroupInv, ClosedInv, Tasks
<1>2. IInv /\ [EngineNext]_engineVars => IInv'
  <2> SUFFICES ASSUME IInv, [EngineNext]_engineVars PROVE IInv'
    OBVIOUS
  <2>1. CASE UNCHANGED engineVars
    BY <2>1 DEF engineVars, hubs, reports, IInv, HubInv, GroupInv, ClosedInv
  <2>2. CASE EngineNext
    BY <2>2, RestKeeps, ClientsKeep, BroadcastKeeps, StreamKeeps, EndKeeps
    DEF EngineNext, Hub, Ending
  <2> QED  BY <2>1, <2>2
<1>3. IInv => EndsInOrder
  BY DEF IInv, HubInv, GroupInv, ClosedInv, EndsInOrder
<1> QED  BY <1>1, <1>2, <1>3, PTL DEF EngineSpec

-----------------------------------------------------------------------------
(* The recorder. First, sets of numbers.                                   *)

LEMMA Least ==
  ASSUME NEW T, T \subseteq Nat, T # {}
  PROVE  Min(T) \in T /\ \A y \in T : Min(T) <= y
<1>. DEFINE R == OpToRel(<, Nat)
<1>1. IsWellFoundedOn(R, Nat) BY NatLessThanWellFounded
<1>2. R = {ss \in Nat \X Nat : ss[1] < ss[2]} BY DEF OpToRel
<1>. HIDE DEF R
<1>3. PICK x \in T : \A y \in T : ~(<<y, x>> \in R) BY <1>1, WFMin
<1>4. \A y \in T : ~(y < x) BY <1>2, <1>3
<1>5. \E z \in T : \A y \in T : z <= y BY <1>4
<1>. QED BY <1>5 DEF Min

LEMMA Greatest ==
  ASSUME NEW n \in Nat, NEW T, T \subseteq 0..n, T # {}
  PROVE  Max(T) \in T /\ \A y \in T : y <= Max(T)
<1>. DEFINE below == {n - x : x \in T}
<1>1. below \subseteq Nat /\ below # {} OBVIOUS
<1>2. PICK b \in below : \A y \in below : b <= y
  <2>. HIDE DEF below
  <2>. QED BY <1>1, Least
<1>3. PICK x \in T : b = n - x OBVIOUS
<1>4. \A y \in T : x >= y
  <2>. TAKE y \in T
  <2>1. n - y \in below OBVIOUS
  <2>. QED BY <1>2, <1>3, <2>1
<1>5. \E z \in T : \A y \in T : z >= y BY <1>4
<1>6. Max(T) \in T /\ \A y \in T : Max(T) >= y BY <1>5 DEF Max
<1>. QED BY <1>6

LEMMA OnlyOneIsGreatest ==
  ASSUME NEW T, T \subseteq Nat, NEW m \in T, \A y \in T : y <= m
  PROVE  Max(T) = m
<1>1. \A y \in T : m >= y OBVIOUS
<1>2. Max(T) \in T /\ \A y \in T : Max(T) >= y BY <1>1 DEF Max
<1>3. Max(T) >= m /\ m >= Max(T) BY <1>1, <1>2
<1>4. Max(T) \in Nat /\ m \in Nat BY <1>2
<1>. QED BY <1>3, <1>4

-----------------------------------------------------------------------------
(* Books: b after those of h's changes that are in the set.                *)

On(h, b, changes) ==
  [s \in Sides |-> LET its == {n \in changes : h[n][1] = s}
                   IN  IF its = {} THEN b[s] ELSE h[Max(its)][2]]

LEMMA OnNothing ==
  ASSUME NEW h, NEW b, NEW A
  PROVE  On(h, On(h, b, A), {}) = On(h, b, A)
BY DEF On

(* Some of the changes may be applied for a second time, if what follows   *)
(* them is as well.                                                        *)
LEMMA OnTwice ==
  ASSUME NEW h, NEW b, NEW k \in Nat, NEW l \in Nat, NEW m \in Nat, NEW n \in Nat,
         k <= m, m <= l + 1, l <= n
  PROVE  On(h, On(h, b, k..l), m..n) = On(h, b, k..n)
<1>. DEFINE A == k..l
            B == m..n
<1>0. /\ A \subseteq 0..n /\ B \subseteq 0..n
      /\ \A x \in A : x \in B \/ \A y \in B : x < y
      /\ A \union B = k..n
  OBVIOUS
<1>. SUFFICES On(h, On(h, b, A), B) = On(h, b, A \union B) BY <1>0
<1>. HIDE DEF A, B
<1>. DEFINE Its(C, s) == {x \in C : h[x][1] = s}
            Value(C, s, v) == IF Its(C, s) = {} THEN v ELSE h[Max(Its(C, s))][2]
<1>1. ASSUME NEW s \in Sides, NEW v
      PROVE  Value(B, s, Value(A, s, v)) = Value(A \union B, s, v)
  <2>1. CASE Its(B, s) = {}
    <3>1. Its(A \union B, s) = Its(A, s) BY <2>1
    <3>. QED BY <2>1, <3>1
  <2>2. CASE Its(B, s) # {}
    <3>. DEFINE top == Max(Its(B, s))
    <3>1. top \in Its(B, s) /\ \A y \in Its(B, s) : y <= top
      <4>1. Its(B, s) \subseteq 0..n BY <1>0
      <4>. HIDE DEF Its
      <4>. QED BY <2>2, <4>1, Greatest
    <3>. HIDE DEF top
    <3>2. \A x \in Its(A \union B, s) : x <= top
      <4>. TAKE x \in Its(A \union B, s)
      <4>1. CASE x \in B BY <4>1, <3>1
      <4>2. CASE x \notin B
        <5>1. x < top BY <4>2, <3>1, <1>0
        <5>. QED BY <5>1, <3>1, <1>0
      <4>. QED BY <4>1, <4>2
    <3>3. top \in Its(A \union B, s) /\ Its(A \union B, s) \subseteq Nat
      <4>1. A \union B \subseteq Nat BY <1>0
      <4>2. Its(A \union B, s) \subseteq Nat BY <4>1
      <4>3. Its(B, s) \subseteq Its(A \union B, s) OBVIOUS
      <4>. HIDE DEF Its
      <4>. QED BY <3>1, <4>2, <4>3
    <3>4. Max(Its(A \union B, s)) = top
      <4>. HIDE DEF Its
      <4>. QED BY <3>2, <3>3, OnlyOneIsGreatest
    <3>5. Its(A \union B, s) # {} BY <3>3
    <3>. QED BY <2>2, <3>4, <3>5 DEF top
  <2>. QED BY <2>1, <2>2
<1>2. \A s \in Sides : On(h, On(h, b, A), B)[s] = Value(B, s, Value(A, s, b[s]))
  BY DEF On
<1>3. \A s \in Sides : On(h, b, A \union B)[s] = Value(A \union B, s, b[s])
  BY DEF On
<1>4. \A s \in Sides : On(h, On(h, b, A), B)[s] = On(h, b, A \union B)[s]
  <2>. HIDE DEF Value
  <2>. QED BY <1>1, <1>2, <1>3
<1>. QED BY <1>4 DEF On

(* What the exchange does later does not change what it has done.          *)
LEMMA OnTheSame ==
  ASSUME NEW h, NEW g, NEW b, NEW m \in Nat, NEW n \in Nat, \A x \in m..n : g[x] = h[x]
  PROVE  On(g, b, m..n) = On(h, b, m..n)
<1>. DEFINE C == m..n
<1>0. C \subseteq 0..n /\ \A x \in C : g[x] = h[x] OBVIOUS
<1>. HIDE DEF C
<1>1. ASSUME NEW s \in Sides
      PROVE  On(g, b, C)[s] = On(h, b, C)[s]
  <2>. DEFINE its == {x \in C : h[x][1] = s}
  <2>1. {x \in C : g[x][1] = s} = its BY <1>0
  <2>2. On(g, b, C)[s] = IF its = {} THEN b[s] ELSE g[Max(its)][2] BY <2>1 DEF On
  <2>3. On(h, b, C)[s] = IF its = {} THEN b[s] ELSE h[Max(its)][2] BY DEF On
  <2>4. its # {} => Max(its) \in its
    <3>1. its \subseteq 0..n BY <1>0
    <3>. HIDE DEF its
    <3>. QED BY <3>1, Greatest
  <2>5. its # {} => Max(its) \in C BY <2>4
  <2>. HIDE DEF its
  <2>. QED BY <2>2, <2>3, <2>5, <1>0
<1>2. On(g, b, C) = On(h, b, C) BY <1>1 DEF On
<1>. QED BY <1>2 DEF C

LEMMA AppliesOn ==
  /\ \A b, C : Apply(b, C) = On(hist, b, C)
  /\ \A n : BookAt(n) = On(hist, EmptyBook, 1..n)
BY DEF Apply, BookAt, On

-----------------------------------------------------------------------------
(* Events                                                                  *)

CutsInv ==
  /\ hist \in Seq(Sides \X Qtys) /\ cuts \in Seq(Nat)
  /\ \A e \in 1..Len(cuts) : cuts[e] \in 1..Len(hist)
  /\ \A e, f \in 1..Len(cuts) : e < f => cuts[e] < cuts[f]
  /\ next \in 0..Len(cuts) + 1

LEMMA PrevUs ==
  ASSUME CutsInv, NEW e \in 1..Len(cuts) + 1
  PROVE  /\ PrevU(e) \in 0..Len(hist)
         /\ e <= Len(cuts) => PrevU(e) < cuts[e]
         /\ \A d \in 1..Len(cuts) : d < e => cuts[d] <= PrevU(e)
<1>. DEFINE n == Len(cuts)
            k == Len(hist)
<1>1. n \in Nat /\ k \in Nat BY LenProperties DEF CutsInv
<1>2. /\ \A d \in 1..n : cuts[d] \in 1..k
      /\ \A d, f \in 1..n : d < f => cuts[d] < cuts[f]
      /\ e \in 1..n + 1
  BY DEF CutsInv
<1>. SUFFICES /\ PrevU(e) \in 0..k
              /\ e <= n => PrevU(e) < cuts[e]
              /\ \A d \in 1..n : d < e => cuts[d] <= PrevU(e)
  OBVIOUS
<1>. HIDE DEF n, k
<1>3. CASE e = 1
  <2>1. PrevU(e) = 0 BY <1>3 DEF PrevU
  <2>2. e <= n => 0 < cuts[e] BY <1>1, <1>2
  <2>3. \A d \in 1..n : d < e => cuts[d] <= 0 BY <1>1, <1>3
  <2>4. 0 \in 0..k BY <1>1
  <2>. QED BY <2>1, <2>2, <2>3, <2>4
<1>4. CASE e # 1
  <2>1. e - 1 \in 1..n /\ PrevU(e) = cuts[e - 1] BY <1>1, <1>2, <1>4 DEF PrevU
  <2>2. cuts[e - 1] \in 0..k BY <1>1, <1>2, <2>1
  <2>3. e <= n => cuts[e - 1] < cuts[e] BY <1>1, <1>2, <2>1
  <2>4. \A d \in 1..n : d < e => cuts[d] <= cuts[e - 1]
    <3>. SUFFICES ASSUME NEW d \in 1..n, d < e PROVE cuts[d] <= cuts[e - 1] OBVIOUS
    <3>1. d = e - 1 \/ d < e - 1 BY <1>2
    <3>2. cuts[d] \in Nat /\ cuts[e - 1] \in Nat BY <1>1, <1>2, <2>1
    <3>. QED BY <1>2, <2>1, <3>1, <3>2
  <2>. QED BY <2>1, <2>2, <2>3, <2>4
<1>. QED BY <1>3, <1>4

(* Where each event's pu is the u of the one before, none is missing.      *)
LEMMA NoneIsMissing ==
  ASSUME CutsInv, NEW events, events \subseteq 1..Len(cuts), events # {}, Contiguous(events)
  PROVE  /\ Min(events) \in events /\ Max(events) \in events /\ Min(events) <= Max(events)
         /\ \A e \in Min(events)..Max(events) : e \in events
         /\ \A e \in events : e \in Min(events)..Max(events)
<1>. DEFINE n == Len(cuts)
            m == Min(events)
            k == Max(events)
<1>1. n \in Nat BY LenProperties DEF CutsInv
<1>2. events \subseteq 0..n /\ events \subseteq 1..n /\ events \subseteq Nat BY <1>1
<1>3. /\ m \in events /\ k \in events
      /\ \A e \in events : m <= e /\ e <= k
  BY <1>1, <1>2, Least, Greatest
<1>. HIDE DEF m, k
<1>4. m \in 1..n /\ k \in 1..n BY <1>2, <1>3
<1>5. \A e \in m..k : e \in events
  <2>. SUFFICES ASSUME NEW j \in m..k, j \notin events PROVE FALSE OBVIOUS
  <2>. DEFINE under == {x \in events : x < j}
              above == {x \in events : j < x}
              e == Max(under)
              f == Min(above)
  <2>0. j \in Nat BY <1>4, <1>1
  <2>1. m < j /\ j < k BY <1>3, <1>4, <1>1
  <2>2. under \subseteq 0..n /\ under # {} /\ above \subseteq Nat /\ above # {}
    BY <1>2, <1>3, <2>1
  <2>3. /\ e \in under /\ \A x \in under : x <= e
        /\ f \in above /\ \A x \in above : f <= x
    <3>. HIDE DEF under, above
    <3>. QED BY <1>1, <2>2, Least, Greatest
  <2>4. e \in events /\ f \in events /\ e < j /\ j < f BY <2>3
  <2>5. \A g \in events : g <= e \/ f <= g
    <3>. TAKE g \in events
    <3>1. g < j \/ j < g BY <1>2, <2>0
    <3>2. g \in under \/ g \in above BY <3>1
    <3>. QED BY <2>3, <3>2
  <2>. HIDE DEF e, f, under, above
  <2>6. e < f /\ e \in 1..n /\ f \in 1..n /\ f - 1 \in 1..n /\ e < f - 1 /\ f # 1
    BY <2>4, <1>2, <2>0, <1>1
  <2>7. PrevU(f) = cuts[e] BY <2>4, <2>5, <2>6 DEF Contiguous
  <2>8. cuts[e] < cuts[f - 1] /\ cuts[e] \in Int BY <2>6 DEF CutsInv
  <2>9. PrevU(f) = cuts[f - 1] BY <2>6 DEF PrevU
  <2>. QED BY <2>7, <2>8, <2>9
<1>6. m <= k /\ \A e \in events : e \in m..k BY <1>2, <1>3, <1>4
<1>. QED BY <1>3, <1>5, <1>6 DEF m, k

(* The changes of events without a gap are changes without a gap.          *)
LEMMA DiffsOfEvents ==
  ASSUME CutsInv, NEW m \in 1..Len(cuts), NEW k \in 1..Len(cuts), m <= k
  PROVE  UNION {Diff(e) : e \in m..k} = FirstU(m)..cuts[k]
<1>. DEFINE n == Len(cuts)
            changes == UNION {Diff(e) : e \in m..k}
<1>1. n \in Nat BY LenProperties DEF CutsInv
<1>2. /\ \A e \in m..k : e \in 1..n /\ e \in 1..n + 1
      /\ \A e \in 1..n : cuts[e] \in Nat
  BY <1>1 DEF CutsInv
<1>3. \A e \in m..k : PrevU(e) \in Nat /\ FirstU(e) = PrevU(e) + 1 BY <1>2, PrevUs DEF FirstU
<1>4. \A e \in m..k : cuts[e] <= cuts[k]
  <2>. TAKE e \in m..k
  <2>1. e = k \/ e < k BY <1>2
  <2>. QED BY <1>2, <2>1 DEF CutsInv
<1>5. \A e \in m..k : PrevU(m) <= PrevU(e)
  <2>. TAKE e \in m..k
  <2>1. CASE e = m BY <2>1, <1>3
  <2>2. CASE e # m
    <3>1. m < e BY <2>2, <1>2
    <3>2. cuts[m] <= PrevU(e) BY <1>2, <3>1, PrevUs
    <3>3. PrevU(m) < cuts[m] BY <1>2, PrevUs
    <3>. QED BY <3>2, <3>3, <1>2, <1>3
  <2>. QED BY <2>1, <2>2
<1>6. m \in m..k /\ k \in m..k BY <1>1
<1>7. ASSUME NEW u \in changes PROVE u \in FirstU(m)..cuts[k]
  <2>1. PICK e \in m..k : u \in FirstU(e)..cuts[e] BY DEF Diff
  <2>. QED BY <2>1, <1>2, <1>3, <1>4, <1>5, <1>6
<1>8. ASSUME NEW u \in FirstU(m)..cuts[k] PROVE u \in changes
  <2>. DEFINE later == {e \in m..k : u <= cuts[e]}
              e == Min(later)
  <2>0. u \in Int /\ FirstU(m) <= u /\ u <= cuts[k] BY <1>2, <1>3, <1>6
  <2>1. later \subseteq Nat /\ later # {} BY <1>2, <1>6, <2>0
  <2>2. e \in later /\ \A x \in later : e <= x
    <3>. HIDE DEF later
    <3>. QED BY <2>1, Least
  <2>3. e \in m..k /\ u <= cuts[e] BY <2>2
  <2>4. \A x \in m..k : x < e => cuts[x] < u
    <3>. SUFFICES ASSUME NEW x \in m..k, x < e, ~(cuts[x] < u) PROVE FALSE OBVIOUS
    <3>1. x \in later BY <1>2, <2>0
    <3>. HIDE DEF e, later
    <3>. QED BY <2>2, <2>3, <3>1, <1>2
  <2>. HIDE DEF e, later
  <2>5. FirstU(e) <= u
    <3>1. CASE e = m BY <3>1, <2>0
    <3>2. CASE e # m
      <4>1. e - 1 \in m..k /\ e - 1 < e /\ e # 1 BY <3>2, <2>3, <1>2
      <4>2. cuts[e - 1] < u BY <2>4, <4>1
      <4>3. FirstU(e) = cuts[e - 1] + 1 BY <4>1 DEF FirstU, PrevU
      <4>. QED BY <4>2, <4>3, <4>1, <1>2, <2>0
    <3>. QED BY <3>1, <3>2
  <2>6. u \in Diff(e) BY <2>0, <2>3, <2>5, <1>2, <1>3 DEF Diff
  <2>. QED BY <2>3, <2>6
<1>. QED BY <1>7, <1>8

-----------------------------------------------------------------------------
(* Seeding                                                                 *)

(* Every event that the connection has passed is in the snapshot, waits    *)
(* for it, or was lost.                                                    *)
SeedInv ==
  /\ next # 0 => lost \subseteq 1..next - 1 /\ pending \subseteq 1..next - 1
  /\ next = 0 => seed.pc = "none"
  /\ seed.pc \in {"ask", "reply"} => ~synced
  /\ seed.pc = "reply" => /\ seed.uid \in 0..Len(hist)
                          /\ \A e \in 1..next - 1 : cuts[e] <= seed.uid \/ e \in pending \union lost
  /\ seed.pc = "done" => /\ seed.uid \in 0..Len(hist)
                         /\ \A e \in seed.bridged : e \in 1..next - 1

(* The book is the snapshot and the changes since the first one that was   *)
(* applied, and the next event goes on where they end - or begins within   *)
(* the snapshot.                                                           *)
Since(first) ==
  /\ last \in 0..Len(hist) /\ first <= seed.uid + 1 /\ first <= last + 1
  /\ book = On(hist, On(hist, EmptyBook, 1..seed.uid), first..last)
  /\ \/ PrevU(next) = last
     \/ last = seed.uid /\ first = last + 1 /\ PrevU(next) <= last

CaughtUp ==
  synced /\ seed.pc = "done" /\ SeedSawTheLosses => \E first \in Nat \ {0} : Since(first)

BookInv == CutsInv /\ SeedInv /\ CaughtUp

LEMMA ChangeKeeps ==
  ASSUME BookInv, Change
  PROVE  BookInv'
<1>. DEFINE n == Len(hist)
            k == Len(cuts)
<1>1. PICK cut \in BOOLEAN, c \in Changes[n + 1] :
        /\ n < MaxUpdates /\ hist' = Append(hist, c)
        /\ cuts' = IF cut THEN Append(cuts, n + 1) ELSE cuts
        /\ UNCHANGED <<lost, next, book, last, synced, pending, seed>>
  BY DEF Change, lob
<1>2. n \in Nat /\ k \in Nat BY LenProperties DEF BookInv, CutsInv
<1>3. c \in Sides \X Qtys
  <2>1. n + 1 \in 1..Len(Changes) /\ Changes \in Seq(SUBSET (Sides \X Qtys))
    BY <1>1, <1>2, RecorderAssumption, LenProperties DEF RecorderAssumption, MaxUpdates, Sides
  <2>2. Changes[n + 1] \in SUBSET (Sides \X Qtys) BY <2>1, ElementOfSeq
  <2>. QED BY <1>1, <2>2
<1>4. /\ hist' \in Seq(Sides \X Qtys) /\ Len(hist') = n + 1
      /\ \A x \in 1..n : hist'[x] = hist[x]
  BY <1>1, <1>3, AppendProperties DEF BookInv, CutsInv
<1>5. /\ cuts' \in Seq(Nat) /\ Len(cuts') \in {k, k + 1}
      /\ \A e \in 1..k : cuts'[e] = cuts[e]
      /\ Len(cuts') = k + 1 => cuts'[k + 1] = n + 1
  BY <1>1, <1>2, AppendProperties DEF BookInv, CutsInv
<1>6. /\ \A e \in 1..k : cuts[e] \in 1..n
      /\ \A e, f \in 1..k : e < f => cuts[e] < cuts[f]
      /\ next \in 0..k + 1
  BY DEF BookInv, CutsInv
<1>7. CutsInv'
  <2>. DEFINE k2 == Len(cuts')
  <2>. HIDE DEF n, k, k2
  <2>1. k2 \in {k, k + 1} /\ (k2 = k + 1 => cuts'[k + 1] = n + 1) BY <1>5 DEF k2
  <2>2. \A e \in 1..k2 : e \in 1..k \/ (k2 = k + 1 /\ e = k + 1) BY <2>1, <1>2
  <2>3. \A e \in 1..k2 : cuts'[e] \in 1..n + 1 BY <2>1, <2>2, <1>5, <1>6, <1>2
  <2>4. \A e, f \in 1..k2 : e < f => cuts'[e] < cuts'[f]
    <3>. SUFFICES ASSUME NEW e \in 1..k2, NEW f \in 1..k2, e < f PROVE cuts'[e] < cuts'[f]
      OBVIOUS
    <3>1. e \in 1..k BY <2>2, <1>2
    <3>2. cuts'[e] = cuts[e] /\ cuts[e] \in 1..n BY <3>1, <1>5, <1>6
    <3>3. CASE f \in 1..k BY <3>1, <3>2, <3>3, <1>5, <1>6
    <3>4. CASE f = k + 1 /\ k2 = k + 1 BY <3>2, <3>4, <2>1, <1>2
    <3>. QED BY <2>2, <3>3, <3>4
  <2>5. next' \in 0..k2 + 1 BY <1>1, <1>6, <2>1, <1>2
  <2>. QED BY <1>4, <1>5, <2>3, <2>4, <2>5 DEF CutsInv, k2
<1>. HIDE DEF n, k
<1>8. \A e \in 1..next - 1 : e \in 1..k BY <1>2, <1>6
<1>9. SeedInv'
  <2>0. n + 1 = Len(hist') /\ n = Len(hist) BY <1>4 DEF n
  <2>1. seed.pc = "reply" => \A e \in 1..next - 1 : cuts'[e] <= seed.uid \/ e \in pending \union lost
    BY <1>5, <1>8 DEF BookInv, SeedInv
  <2>2. \A u : u \in 0..Len(hist) => u \in 0..Len(hist') BY <2>0, <1>2
  <2>. QED BY <1>1, <2>1, <2>2 DEF BookInv, SeedInv
<1>10. CaughtUp'
  <2>. SUFFICES ASSUME synced, seed.pc = "done", SeedSawTheLosses
                PROVE  \E first \in Nat \ {0} : Since(first)'
    BY <1>1 DEF CaughtUp, SeedSawTheLosses
  <2>1. PICK first \in Nat \ {0} : Since(first) BY DEF BookInv, CaughtUp
  <2>2. seed.uid \in 0..n /\ next # 0 /\ last \in 0..n
    BY <2>1 DEF BookInv, SeedInv, Since, n
  <2>3. 1..seed.uid \subseteq 0..n /\ first..last \subseteq 0..n
        /\ 1..seed.uid \subseteq 1..n /\ first..last \subseteq 1..n
    BY <2>1, <2>2, <1>2
  <2>4. On(hist', EmptyBook, 1..seed.uid) = On(hist, EmptyBook, 1..seed.uid)
    <3>1. \A x \in 1..seed.uid : hist'[x] = hist[x] BY <2>3, <1>4
    <3>2. seed.uid \in Nat BY <2>2, <1>2
    <3>. QED BY <3>1, <3>2, OnTheSame
  <2>. DEFINE b == On(hist, EmptyBook, 1..seed.uid)
  <2>5. On(hist', b, first..last) = On(hist, b, first..last)
    <3>1. \A x \in first..last : hist'[x] = hist[x] BY <2>3, <1>4
    <3>2. first \in Nat /\ last \in Nat BY <2>1, <2>2, <1>2
    <3>. HIDE DEF b
    <3>. QED BY <3>1, <3>2, OnTheSame
  <2>6. PrevU(next)' = PrevU(next)
    <3>1. next = 1 \/ next - 1 \in 1..k BY <2>2, <1>6, <1>2
    <3>. QED BY <3>1, <1>1, <1>5 DEF PrevU
  <2>7. last \in 0..Len(hist') BY <2>2, <1>2, <1>4
  <2>8. Since(first)'
    BY <2>1, <2>4, <2>5, <2>6, <2>7, <1>1 DEF Since, EmptyBook, Sides
  <2>. QED BY <2>8
<1>. QED BY <1>7, <1>9, <1>10 DEF BookInv

(* A new connection, or none, starts without events.                       *)
LEMMA ConnectionKeeps ==
  ASSUME BookInv, Connect \/ Disconnect \/ Restart
  PROVE  BookInv'
<1>1. /\ UNCHANGED <<hist, cuts>> /\ seed'.pc \in {"none", "ask"}
      /\ next' \in {0, Len(cuts) + 1} /\ (next' = 0 => seed'.pc = "none")
      /\ next' # 0 => lost' = {} /\ pending' = {} /\ synced' = FALSE
  BY DEF Connect, Disconnect, Restart, NoSeed, exchange, lob
<1>2. Len(cuts) \in Nat BY LenProperties DEF BookInv, CutsInv
<1>3. CutsInv' BY <1>1, <1>2 DEF BookInv, CutsInv
<1>4. SeedInv' BY <1>1 DEF SeedInv
<1>5. CaughtUp' BY <1>1 DEF CaughtUp
<1>. QED BY <1>3, <1>4, <1>5 DEF BookInv

LEMMA SnapshotKeeps ==
  ASSUME BookInv, Snapshot \/ SnapshotFails
  PROVE  BookInv'
<1>1. /\ UNCHANGED <<hist, cuts, lost, next, synced>> /\ seed.pc \in {"ask", "reply"}
      /\ seed'.pc \in {"ask", "reply", "failed"} /\ pending' \subseteq pending
      /\ seed'.pc = "reply" => seed.pc = "ask" /\ seed'.uid = Len(hist)
  BY DEF Snapshot, SnapshotFails, TryAgain, GiveUpIfLast, exchange
<1>2. Len(hist) \in Nat BY LenProperties DEF BookInv, CutsInv
<1>3. \A e \in 1..next - 1 : cuts[e] <= Len(hist)
  <2>1. \A e \in 1..next - 1 : e \in 1..Len(cuts) BY LenProperties DEF BookInv, CutsInv
  <2>. QED BY <1>2, <2>1 DEF BookInv, CutsInv
<1>4. CutsInv' BY <1>1 DEF BookInv, CutsInv
<1>5. SeedInv' BY <1>1, <1>2, <1>3 DEF BookInv, SeedInv
<1>6. CaughtUp' BY <1>1 DEF CaughtUp
<1>. QED BY <1>4, <1>5, <1>6 DEF BookInv

(* What is lost after the seed was not seen by it.                         *)
LEMMA LoseKeeps ==
  ASSUME BookInv, Lose
  PROVE  BookInv'
<1>1. /\ UNCHANGED <<hist, cuts, book, last, synced, pending, seed>>
      /\ next \in 1..Len(cuts) /\ next' = next + 1 /\ lost' = lost \union {next}
  BY DEF Lose, exchange, lob
<1>2. Len(cuts) \in Nat /\ next \in Nat BY <1>1, LenProperties DEF BookInv, CutsInv
<1>3. \A e : e \in 1..next' - 1 => e \in 1..next - 1 \/ e = next BY <1>1, <1>2
<1>4. \A e : e \in 1..next - 1 => e \in 1..next' - 1 BY <1>1, <1>2
<1>5. CutsInv' BY <1>1, <1>2 DEF BookInv, CutsInv
<1>6. SeedInv'
  <2>1. next' # 0 /\ next # 0 /\ next \in 1..next' - 1 BY <1>1, <1>2
  <2>2. lost' \subseteq 1..next' - 1 /\ pending' \subseteq 1..next' - 1
    BY <1>1, <1>4, <2>1 DEF BookInv, SeedInv
  <2>. QED BY <1>1, <1>3, <1>4, <2>1, <2>2 DEF BookInv, SeedInv
<1>7. CaughtUp'
  <2>1. seed.pc = "done" => ~SeedSawTheLosses'
    <3>1. next \notin 1..next - 1 BY <1>2
    <3>. QED BY <1>1, <3>1 DEF BookInv, SeedInv, SeedSawTheLosses
  <2>. QED BY <1>1, <2>1 DEF CaughtUp
<1>. QED BY <1>5, <1>6, <1>7 DEF BookInv

(* Rows come and go without the book.                                      *)
LEMMA RowsOnlyKeep ==
  ASSUME BookInv, UNCHANGED <<hist, cuts, lost, next, lob>>
  PROVE  BookInv'
<1>1. UNCHANGED <<book, last, synced, pending, seed>> BY DEF lob
<1>2. CutsInv' BY DEF BookInv, CutsInv
<1>3. SeedInv' BY <1>1 DEF BookInv, SeedInv
<1>4. \A first : Since(first)' = Since(first) BY <1>1 DEF Since, PrevU, EmptyBook, On
<1>5. CaughtUp' BY <1>1, <1>4 DEF BookInv, CaughtUp, SeedSawTheLosses
<1>. QED BY <1>2, <1>3, <1>5 DEF BookInv

(* A synced book goes on where it was, or is where the snapshot was.       *)
LEMMA ReceiveKeeps ==
  ASSUME BookInv, ReceiveDepth
  PROVE  BookInv'
<1>1. /\ UNCHANGED <<hist, cuts, lost, synced, seed>>
      /\ next \in 1..Len(cuts) /\ next' = next + 1
      /\ synced => /\ book' = On(hist, book, Diff(next)) /\ last' = cuts[next]
                   /\ pending' = pending
      /\ ~synced => pending' = pending \union {next}
  BY AppliesOn DEF ReceiveDepth, exchange
<1>. DEFINE n == Len(hist)
            k == Len(cuts)
<1>2. n \in Nat /\ k \in Nat /\ next \in Nat BY <1>1, LenProperties DEF BookInv, CutsInv
<1>3. \A e : e \in 1..next' - 1 => e \in 1..next - 1 \/ e = next BY <1>1, <1>2
<1>4. \A e : e \in 1..next - 1 => e \in 1..next' - 1 BY <1>1, <1>2
<1>5. CutsInv' BY <1>1, <1>2 DEF BookInv, CutsInv
<1>6. SeedInv'
  <2>1. next' # 0 /\ next # 0 /\ next \in 1..next' - 1 BY <1>1, <1>2
  <2>2. lost' \subseteq 1..next' - 1 /\ pending' \subseteq 1..next' - 1
    BY <1>1, <1>4, <2>1 DEF BookInv, SeedInv
  <2>3. seed.pc = "reply" => next \in pending' BY <1>1 DEF BookInv, SeedInv
  <2>4. pending \subseteq pending' BY <1>1
  <2>. QED BY <1>1, <1>3, <1>4, <2>1, <2>2, <2>3, <2>4 DEF BookInv, SeedInv
<1>7. CaughtUp'
  <2>. SUFFICES ASSUME synced, seed.pc = "done", SeedSawTheLosses
                PROVE  \E first \in Nat \ {0} : Since(first)'
    BY <1>1 DEF CaughtUp, SeedSawTheLosses
  <2>1. PICK first \in Nat \ {0} : Since(first) BY DEF BookInv, CaughtUp
  <2>2. seed.uid \in 0..n /\ last \in 0..n BY <2>1 DEF BookInv, SeedInv, Since, n
  <2>3. /\ PrevU(next) \in 0..n /\ PrevU(next) < cuts[next] /\ cuts[next] \in 1..n
        /\ PrevU(next)' = cuts[next]
    <3>1. next \in 1..k + 1 /\ next \in 1..k /\ next <= k BY <1>1, <1>2
    <3>2. next' # 1 /\ next' - 1 = next BY <1>1, <1>2
    <3>. QED BY <3>1, <3>2, <1>1, PrevUs DEF BookInv, CutsInv, PrevU
  <2>. DEFINE c == cuts[next]
              p == PrevU(next)
              b == On(hist, EmptyBook, 1..seed.uid)
  <2>4. Diff(next) = p + 1..c BY DEF Diff, FirstU
  <2>5. book' = On(hist, book, p + 1..c) /\ last' = c BY <1>1, <2>4
  <2>. HIDE DEF b, c, p, n, k
  <2>6. p \in 0..n /\ c \in 1..n /\ p < c BY <2>3 DEF p, c
  <2>7. CASE p = last
    <3>1. book = On(hist, b, first..last) /\ first <= last + 1 /\ first <= seed.uid + 1
      BY <2>1 DEF Since, b
    <3>2. On(hist, On(hist, b, first..last), last + 1..c) = On(hist, b, first..c)
      <4>1. first \in Nat /\ last \in Nat /\ last + 1 \in Nat /\ c \in Nat /\ last <= c
        BY <2>1, <2>2, <2>6, <2>7, <1>2
      <4>. QED BY <4>1, <3>1, OnTwice
    <3>3. book' = On(hist, b, first..c) BY <2>5, <2>7, <3>1, <3>2
    <3>4. first <= c + 1 BY <2>1, <2>2, <2>6, <2>7, <3>1, <1>2
    <3>5. Since(first)'
      <4>1. last' \in 0..Len(hist) BY <2>5, <2>6, <1>2 DEF n
      <4>. QED BY <1>1, <2>3, <2>5, <3>1, <3>3, <3>4, <4>1 DEF Since, b, c, EmptyBook, Sides
    <3>. QED BY <3>5
  <2>8. CASE last = seed.uid /\ first = last + 1 /\ p <= last
    <3>1. book = b
      <4>1. first..last = {} BY <2>8, <2>1, <2>2, <1>2
      <4>. QED BY <4>1, <2>1, OnNothing DEF Since, b
    <3>2. p + 1 \in Nat \ {0} /\ p + 1 <= seed.uid + 1 /\ p + 1 <= c + 1 BY <2>2, <2>6, <2>8, <1>2
    <3>3. book' = On(hist, b, p + 1..c) BY <2>5, <3>1
    <3>4. PICK f \in Nat \ {0} : f = p + 1 BY <3>2
    <3>5. Since(f)'
      <4>1. last' \in 0..Len(hist) BY <2>5, <2>6, <1>2 DEF n
      <4>2. book' = On(hist, b, f..last') /\ f <= seed.uid + 1 /\ f <= last' + 1
        BY <2>5, <3>2, <3>3, <3>4
      <4>3. PrevU(next)' = last' BY <2>3, <2>5 DEF c
      <4>. QED BY <1>1, <4>1, <4>2, <4>3 DEF Since, b, EmptyBook, Sides
    <3>. QED BY <3>5
  <2>. QED BY <2>1, <2>7, <2>8 DEF Since, p
<1>. QED BY <1>5, <1>6, <1>7 DEF BookInv

(* What the seed has bridged leaves no gap before the next event.          *)
LEMMA MergeKeeps ==
  ASSUME BookInv, Merge
  PROVE  BookInv'
<1>. DEFINE n == Len(hist)
            k == Len(cuts)
            uid == seed.uid
            fresh == Fresh(uid)
            ok == Bridges(fresh, uid) /\ Contiguous(fresh)
<1>1. /\ UNCHANGED <<hist, cuts, lost, next>> /\ seed.pc = "reply"
      /\ ok => /\ book' = On(hist, On(hist, EmptyBook, 1..uid), UNION {Diff(e) : e \in fresh})
               /\ last' = IF fresh = {} THEN uid ELSE cuts[Max(fresh)]
               /\ pending' = {} /\ seed'.pc = "done" /\ seed'.uid = uid
               /\ seed'.bridged = {e \in lost : cuts[e] <= last'}
      /\ ~ok => /\ UNCHANGED synced /\ seed'.pc \in {"ask", "failed"} /\ pending' \subseteq pending
  BY AppliesOn DEF Merge, exchange, TryAgain, GiveUpIfLast
<1>2. /\ ~synced /\ uid \in 0..n /\ next # 0
      /\ \A e \in 1..next - 1 : cuts[e] <= uid \/ e \in pending \/ e \in lost
      /\ lost \subseteq 1..next - 1 /\ pending \subseteq 1..next - 1
  BY <1>1 DEF BookInv, SeedInv
<1>3. /\ n \in Nat /\ k \in Nat /\ next \in 1..k + 1
      /\ \A e \in 1..next - 1 : e \in 1..k
      /\ \A e \in 1..k : cuts[e] \in 1..n
  BY <1>2, LenProperties DEF BookInv, CutsInv
<1>4. CutsInv' BY <1>1 DEF BookInv, CutsInv
<1>5. \A e \in fresh : e \in pending /\ cuts[e] > uid /\ e \in 1..next - 1 /\ e \in 1..k
  BY <1>2, <1>3 DEF Fresh
<1>6. \A e \in 1..next - 1 : cuts[e] <= uid \/ e \in fresh \/ e \in lost BY <1>2, <1>3 DEF Fresh
<1>7. PrevU(next) \in 0..n BY <1>3, PrevUs DEF BookInv
<1>8. next = 1 \/ next - 1 \in 1..next - 1 BY <1>3
<1>9. CASE ~ok
  <2>. HIDE DEF fresh, ok, n, k
  <2>1. SeedInv'
    <3>1. lost' \subseteq 1..next' - 1 /\ pending' \subseteq 1..next' - 1 BY <1>1, <1>2, <1>9
    <3>. QED BY <3>1, <1>1, <1>2, <1>9 DEF SeedInv
  <2>2. CaughtUp' BY <1>1, <1>9 DEF CaughtUp
  <2>. QED BY <1>4, <2>1, <2>2 DEF BookInv
<1>10. CASE ok
  <2>. HIDE DEF fresh, ok, n, k
  <2>1. SeedInv'
    <3>1. \A e \in seed'.bridged : e \in 1..next - 1 BY <1>1, <1>2, <1>10
    <3>2. seed'.uid \in 0..Len(hist') BY <1>1, <1>2, <1>10 DEF n
    <3>. QED BY <1>1, <1>2, <1>10, <3>1, <3>2 DEF SeedInv
  <2>2. CaughtUp'
    <3>. SUFFICES ASSUME SeedSawTheLosses'
                  PROVE  \E first \in Nat \ {0} : Since(first)'
      BY DEF CaughtUp
    <3>1. \A e \in lost : cuts[e] <= last' BY <1>1, <1>10 DEF SeedSawTheLosses
    <3>. DEFINE b == On(hist, EmptyBook, 1..uid)
    <3>2. CASE fresh = {}
      <4>1. last' = uid /\ last' \in 0..n BY <1>1, <1>2, <1>10, <3>2
      <4>2. PrevU(next) <= uid
        <5>1. \A e \in 1..next - 1 : cuts[e] <= uid BY <1>6, <3>1, <3>2, <4>1
        <5>2. CASE next = 1 BY <5>2, <1>2, <1>3 DEF PrevU
        <5>3. CASE next # 1 BY <5>1, <5>3, <1>8 DEF PrevU
        <5>. QED BY <5>2, <5>3
      <4>3. PICK f \in Nat \ {0} : f = uid + 1 BY <1>2, <1>3
      <4>4. book' = On(hist, b, f..last')
        <5>1. UNION {Diff(e) : e \in fresh} = {} BY <3>2
        <5>2. f..last' = {} BY <4>1, <4>3, <1>2, <1>3
        <5>. QED BY <1>1, <1>10, <5>1, <5>2
      <4>5. PrevU(next)' <= last' BY <1>1, <4>1, <4>2 DEF PrevU
      <4>6. Since(f)' BY <1>1, <1>10, <4>1, <4>3, <4>4, <4>5, <1>2, <1>3 DEF Since, EmptyBook, Sides, n
      <4>. QED BY <4>6
    <3>3. CASE fresh # {}
      <4>. DEFINE m == Min(fresh)
                  x == Max(fresh)
      <4>1. /\ m \in fresh /\ x \in fresh /\ m <= x
            /\ \A e \in m..x : e \in fresh
            /\ \A e \in fresh : e \in m..x
        <5>1. fresh \subseteq 1..Len(cuts) BY <1>5 DEF k
        <5>. QED BY <3>3, <5>1, <1>10, NoneIsMissing DEF BookInv, ok
      <4>2. FirstU(m) <= uid /\ last' = cuts[x] BY <1>1, <1>10, <3>3 DEF Bridges, ok
      <4>. HIDE DEF m, x
      <4>3. m \in 1..k /\ x \in 1..k /\ x \in 1..next - 1 /\ cuts[x] > uid /\ cuts[x] \in 1..n
        BY <1>3, <1>5, <4>1
      <4>4. book' = On(hist, b, FirstU(m)..last')
        <5>1. fresh = m..x BY <4>1
        <5>2. UNION {Diff(e) : e \in m..x} = FirstU(m)..cuts[x]
          BY <4>1, <4>3, DiffsOfEvents DEF BookInv, k
        <5>. QED BY <1>1, <1>10, <4>2, <5>1, <5>2
      <4>5. x = next - 1
        <5>. SUFFICES ASSUME x # next - 1 PROVE FALSE OBVIOUS
        <5>1. next - 1 \in 1..next - 1 /\ x < next - 1 /\ next - 1 \in 1..k BY <4>3, <1>3
        <5>2. cuts[x] < cuts[next - 1] /\ cuts[next - 1] \in Nat
          BY <5>1, <4>3, <1>3 DEF BookInv, CutsInv, k
        <5>3. next - 1 \notin fresh BY <5>1, <4>1, <4>3, <1>3
        <5>4. next - 1 \notin lost BY <5>2, <3>1, <4>2, <4>3, <1>3
        <5>5. ~(cuts[next - 1] <= uid) BY <5>2, <4>3, <1>2, <1>3
        <5>. QED BY <1>6, <5>1, <5>3, <5>4, <5>5
      <4>6. PrevU(next)' = last' BY <1>1, <1>3, <4>2, <4>3, <4>5 DEF PrevU
      <4>7. PrevU(m) \in Nat BY <4>3, <1>3, PrevUs DEF BookInv, k
      <4>8. PICK f \in Nat \ {0} : f = FirstU(m) BY <4>7 DEF FirstU
      <4>9. f <= uid + 1 /\ f <= last' + 1 /\ last' \in 0..n
        BY <4>2, <4>3, <4>8, <1>2, <1>3
      <4>10. Since(f)'
        BY <1>1, <1>10, <4>4, <4>6, <4>8, <4>9 DEF Since, EmptyBook, Sides, n
      <4>. QED BY <4>10
    <3>. QED BY <3>2, <3>3
  <2>. QED BY <1>4, <2>1, <2>2 DEF BookInv
<1>. QED BY <1>9, <1>10

(* After the snapshot, the changes make the book of their last update id,  *)
(* wherever they begin.                                                    *)
LEMMA CaughtUpIsRight ==
  ASSUME BookInv
  PROVE  BookIsTheExchanges
<1>. SUFFICES ASSUME synced, seed.pc = "done", last >= seed.uid, SeedSawTheLosses
              PROVE  book = BookAt(last)
  BY DEF BookIsTheExchanges
<1>1. PICK first \in Nat \ {0} : Since(first) BY DEF BookInv, CaughtUp
<1>2. /\ seed.uid \in 0..Len(hist) /\ last \in 0..Len(hist) /\ Len(hist) \in Nat
      /\ first <= seed.uid + 1
      /\ book = On(hist, On(hist, EmptyBook, 1..seed.uid), first..last)
  BY <1>1, LenProperties DEF BookInv, CutsInv, SeedInv, Since
<1>3. /\ 1 \in Nat /\ seed.uid \in Nat /\ first \in Nat /\ last \in Nat
      /\ 1 <= first /\ first <= seed.uid + 1 /\ seed.uid <= last
  BY <1>2
<1>4. book = On(hist, EmptyBook, 1..last) BY <1>2, <1>3, OnTwice
<1>. QED BY <1>4, AppliesOn

(* The invariant of the book.                                              *)
THEOREM BookHolds == Spec => []BookInv
<1>1. Init => BookInv
  <2>. SUFFICES ASSUME Init PROVE BookInv OBVIOUS
  <2>1. CutsInv BY EmptySeq DEF Init, CutsInv
  <2>. QED BY <2>1 DEF Init, NoSeed, BookInv, SeedInv, CaughtUp
<1>2. BookInv /\ [Next]_vars => BookInv'
  <2>. SUFFICES ASSUME BookInv, [Next]_vars PROVE BookInv' OBVIOUS
  <2>1. CASE UNCHANGED vars BY <2>1, RowsOnlyKeep DEF vars, exchange
  <2>2. CASE Change BY <2>2, ChangeKeeps
  <2>3. CASE Connect \/ Disconnect \/ Restart BY <2>3, ConnectionKeeps
  <2>4. CASE Snapshot \/ SnapshotFails BY <2>4, SnapshotKeeps
  <2>5. CASE Merge BY <2>5, MergeKeeps
  <2>6. CASE ReceiveDepth BY <2>6, ReceiveKeeps
  <2>7. CASE Lose BY <2>7, LoseKeeps
  <2>8. CASE ReceiveTrade \/ InsertDepth \/ InsertTrades \/ Commit \/ PutBack \/ Purge
    <3>1. UNCHANGED <<hist, cuts, lost, next, lob>>
      BY <2>8
      DEF ReceiveTrade, InsertDepth, InsertTrades, Insert, Commit, PutBack, Purge, exchange
    <3>. QED BY <3>1, RowsOnlyKeep
  <2>. QED BY <2>1, <2>2, <2>3, <2>4, <2>5, <2>6, <2>7, <2>8 DEF Next
<1>. QED BY <1>1, <1>2, PTL DEF Spec

(* A book that was seeded, with no event lost since, is the exchange's:    *)
(* for any changes, events, losses, snapshots and reconnections.           *)
THEOREM SeededBookIsRight == Spec => []BookIsTheExchanges
<1>1. BookInv => BookIsTheExchanges BY CaughtUpIsRight
<1>. QED BY <1>1, BookHolds, PTL

-----------------------------------------------------------------------------
(* Rows in sequences                                                       *)

Rows == {"depth", "trade"} \X Nat

LEMMA RowsOf ==
  ASSUME NEW q \in Seq(Rows)
  PROVE  /\ \A j \in 1..Len(q) : q[j] \in Range(q)
         /\ \A r \in Range(q) : \E j \in 1..Len(q) : r = q[j]
<1>1. DOMAIN q = 1..Len(q) BY LenProperties
<1>. QED BY <1>1 DEF Range

LEMMA NoRows == <<>> \in Seq(Rows) /\ Len(<<>>) = 0 /\ Range(<<>>) = {}
BY EmptySeq DEF Range

LEMMA RowAdded ==
  ASSUME NEW q \in Seq(Rows), NEW r \in Rows
  PROVE  Append(q, r) \in Seq(Rows) /\ Range(q) \subseteq Range(Append(q, r))
<1>. DEFINE n == Len(q)
            a == Append(q, r)
<1>1. n \in Nat BY LenProperties
<1>2. a \in Seq(Rows) /\ Len(a) = n + 1 /\ \A j \in 1..n : a[j] = q[j]
  BY AppendProperties
<1>. HIDE DEF n, a
<1>3. \A j \in 1..n : a[j] \in Range(a)
  <2>. TAKE j \in 1..n
  <2>1. j \in 1..Len(a) BY <1>1, <1>2
  <2>. QED BY <1>2, <2>1, RowsOf
<1>4. Range(q) \subseteq Range(a) BY <1>2, <1>3, RowsOf DEF n
<1>. QED BY <1>2, <1>4 DEF a

LEMMA RowsTogether ==
  ASSUME NEW p \in Seq(Rows), NEW q \in Seq(Rows)
  PROVE  p \o q \in Seq(Rows) /\ Range(p) \union Range(q) \subseteq Range(p \o q)
<1>. DEFINE m == Len(p)
            n == Len(q)
            a == p \o q
<1>1. m \in Nat /\ n \in Nat BY LenProperties
<1>2. /\ a \in Seq(Rows) /\ Len(a) = m + n
      /\ \A j \in 1..m + n : a[j] = IF j <= m THEN p[j] ELSE q[j - m]
  BY ConcatProperties
<1>. HIDE DEF m, n, a
<1>3. \A j \in 1..m : p[j] \in Range(a)
  <2>. TAKE j \in 1..m
  <2>1. j \in 1..Len(a) /\ a[j] = p[j] BY <1>1, <1>2
  <2>. QED BY <1>2, <2>1, RowsOf
<1>4. \A j \in 1..n : q[j] \in Range(a)
  <2>. TAKE j \in 1..n
  <2>1. m + j \in 1..Len(a) /\ a[m + j] = q[j] BY <1>1, <1>2
  <2>. QED BY <1>2, <2>1, RowsOf
<1>5. Range(p) \subseteq Range(a) BY <1>3, RowsOf DEF m
<1>6. Range(q) \subseteq Range(a) BY <1>4, RowsOf DEF n
<1>. QED BY <1>2, <1>5, <1>6 DEF a

(* What is over the limit is dropped, the rest is kept.                    *)
LEMMA CappedKeeps ==
  ASSUME NEW q \in Seq(Rows)
  PROVE  /\ Capped(q) \in Seq(Rows)
         /\ Range(q) \subseteq Range(Capped(q)) \union Range(SubSeq(q, MaxBuffer + 1, Len(q)))
<1>. DEFINE n == Len(q)
            c == Capped(q)
            o == SubSeq(q, MaxBuffer + 1, n)
<1>1. n \in Nat /\ MaxBuffer \in Nat BY LenProperties, RecorderAssumption DEF RecorderAssumption
<1>2. \A j \in 1..n : q[j] \in Rows BY ElementOfSeq
<1>3. CASE n <= MaxBuffer
  <2>1. c = q BY <1>3 DEF Capped
  <2>. HIDE DEF c, o, n
  <2>2. c \in Seq(Rows) /\ Range(q) \subseteq Range(c) \union Range(o) BY <2>1
  <2>. QED BY <2>2 DEF c, o, n
<1>4. CASE ~(n <= MaxBuffer)
  <2>1. c = SubSeq(q, 1, MaxBuffer) BY <1>4 DEF Capped
  <2>2. \A j \in 1..MaxBuffer : q[j] \in Rows BY <1>1, <1>2, <1>4
  <2>3. \A j \in MaxBuffer + 1..n : q[j] \in Rows BY <1>1, <1>2, <1>4
  <2>. HIDE DEF n
  <2>4. /\ c \in Seq(Rows) /\ Len(c) = MaxBuffer
        /\ \A j \in 1..MaxBuffer : c[j] = q[j]
    <3>. DEFINE s == SubSeq(q, 1, MaxBuffer)
    <3>1. /\ s \in Seq(Rows) /\ Len(s) = IF 1 <= MaxBuffer THEN MaxBuffer - 1 + 1 ELSE 0
          /\ \A j \in 1..MaxBuffer - 1 + 1 : s[j] = q[1 + j - 1]
      BY <1>1, <2>2, SubSeqProperties
    <3>. HIDE DEF s
    <3>2. c = s BY <2>1 DEF s
    <3>3. MaxBuffer - 1 + 1 = MaxBuffer /\ \A j \in 1..MaxBuffer : 1 + j - 1 = j BY <1>1
    <3>4. 1 <= MaxBuffer \/ MaxBuffer = 0 BY <1>1
    <3>. HIDE DEF c
    <3>. QED BY <3>1, <3>2, <3>3, <3>4
  <2>5. /\ o \in Seq(Rows) /\ Len(o) = n - MaxBuffer
        /\ \A j \in 1..n - MaxBuffer : o[j] = q[MaxBuffer + j]
    <3>1. MaxBuffer + 1 \in Int /\ n \in Int BY <1>1
    <3>2. /\ o \in Seq(Rows)
          /\ Len(o) = IF MaxBuffer + 1 <= n THEN n - (MaxBuffer + 1) + 1 ELSE 0
          /\ \A j \in 1..n - (MaxBuffer + 1) + 1 : o[j] = q[MaxBuffer + 1 + j - 1]
      BY <2>3, <3>1, SubSeqProperties
    <3>. HIDE DEF o
    <3>3. MaxBuffer + 1 <= n /\ n - (MaxBuffer + 1) + 1 = n - MaxBuffer BY <1>1, <1>4
    <3>4. \A j \in 1..n - MaxBuffer : MaxBuffer + 1 + j - 1 = MaxBuffer + j BY <1>1
    <3>. QED BY <3>2, <3>3, <3>4
  <2>. HIDE DEF c, o
  <2>6. \A j \in 1..n : q[j] \in Range(c) \union Range(o)
    <3>. TAKE j \in 1..n
    <3>1. CASE j <= MaxBuffer
      <4>1. j \in 1..Len(c) /\ c[j] = q[j] BY <3>1, <2>4, <1>1
      <4>. QED BY <4>1, <2>4, RowsOf
    <3>2. CASE ~(j <= MaxBuffer)
      <4>1. j - MaxBuffer \in 1..Len(o) /\ o[j - MaxBuffer] = q[j]
        <5>1. j - MaxBuffer \in 1..n - MaxBuffer /\ MaxBuffer + (j - MaxBuffer) = j
          BY <3>2, <1>1
        <5>. QED BY <5>1, <2>5
      <4>. QED BY <4>1, <2>5, RowsOf
    <3>. QED BY <3>1, <3>2
  <2>7. Range(q) \subseteq Range(c) \union Range(o) BY <2>6, RowsOf DEF n
  <2>. QED BY <2>4, <2>7 DEF c, o, n
<1>. QED BY <1>3, <1>4

-----------------------------------------------------------------------------
(* The rows of a flush                                                     *)

(* What a flush has inserted is in the transaction, or was committed by    *)
(* the purge and may have been purged since.                               *)
RowsInv ==
  /\ trades \in Nat /\ depthBuf \in Seq(Rows) /\ tradeBuf \in Seq(Rows)
  /\ flush \in [pc : {"none", "depth", "trade", "commit", "failed"}, depth : Seq(Rows),
                trade : Seq(Rows)]
  /\ flush.pc = "none" => flush = NoFlush
  /\ flush.pc \in {"trade", "commit"} => Range(flush.depth) \subseteq txn \union db \union gone
  /\ flush.pc = "commit" => Range(flush.trade) \subseteq txn \union db \union gone

LEMMA KnownRows ==
  Known = Range(depthBuf) \union Range(tradeBuf) \union Range(flush.depth)
            \union Range(flush.trade) \union txn \union db \union gone
BY DEF Known, InMemory

LEMMA KnownThen ==
  Known' = Range(depthBuf') \union Range(tradeBuf') \union Range(flush'.depth)
             \union Range(flush'.trade) \union txn' \union db' \union gone'
BY DEF Known, InMemory

(* A message adds rows to those in memory, and may begin a flush.          *)
LEMMA MessageKeepsRows ==
  ASSUME RowsInv, flush = NoFlush, UNCHANGED <<txn, db, gone>>, trades' \in Nat,
         NEW d \in Seq(Rows), Range(depthBuf) \subseteq Range(d),
         NEW t \in Seq(Rows), Range(tradeBuf) \subseteq Range(t), MaybeFlush(d, t)
  PROVE  RowsInv' /\ Known \subseteq Known'
<1>1. Range(flush.depth) = {} /\ Range(flush.trade) = {} BY NoRows DEF NoFlush
<1>2. CASE depthBuf' = d /\ tradeBuf' = t /\ UNCHANGED flush
  <2>1. RowsInv' BY <1>2, NoRows DEF RowsInv, NoFlush
  <2>2. Known \subseteq Known' BY <1>2, KnownRows, KnownThen
  <2>. QED BY <2>1, <2>2
<1>3. CASE /\ depthBuf' = <<>> /\ tradeBuf' = <<>>
           /\ flush' = [pc |-> "depth", depth |-> d, trade |-> t]
  <2>1. flush'.pc = "depth" /\ flush'.depth = d /\ flush'.trade = t BY <1>3
  <2>2. RowsInv' BY <1>3, <2>1, NoRows DEF RowsInv
  <2>3. Known \subseteq Known' BY <1>1, <1>3, <2>1, KnownRows, KnownThen
  <2>. QED BY <2>2, <2>3
<1>. QED BY <1>2, <1>3 DEF MaybeFlush

LEMMA ReceiveKeepsRows ==
  ASSUME RowsInv, CutsInv, ReceiveDepth \/ ReceiveTrade
  PROVE  RowsInv' /\ Known \subseteq Known'
<1>. DEFINE row == Depth(next)
            more == Append(depthBuf, row)
            trade == Trade(trades + 1)
            tMore == Append(tradeBuf, trade)
<1>1. row \in Rows /\ trade \in Rows BY DEF CutsInv, RowsInv, Depth, Trade, Rows
<1>. HIDE DEF row, trade
<1>2. /\ depthBuf \in Seq(Rows) /\ tradeBuf \in Seq(Rows)
      /\ more \in Seq(Rows) /\ Range(depthBuf) \subseteq Range(more)
      /\ tMore \in Seq(Rows) /\ Range(tradeBuf) \subseteq Range(tMore)
  BY <1>1, RowAdded DEF RowsInv
<1>. HIDE DEF more, tMore
<1>3. CASE ReceiveDepth
  <2>1. /\ flush = NoFlush /\ UNCHANGED <<trades, txn, db, gone>>
        /\ MaybeFlush(depthBuf, tradeBuf) \/ MaybeFlush(more, tradeBuf)
    BY <1>3 DEF ReceiveDepth, exchange, row, more
  <2>. QED BY <1>2, <2>1, MessageKeepsRows DEF RowsInv
<1>4. CASE ReceiveTrade
  <2>1. /\ flush = NoFlush /\ UNCHANGED <<txn, db, gone>> /\ trades' = trades + 1
        /\ MaybeFlush(depthBuf, tMore)
    BY <1>4 DEF ReceiveTrade, trade, tMore
  <2>. QED BY <1>2, <2>1, MessageKeepsRows DEF RowsInv
<1>. QED BY <1>3, <1>4

(* A statement of the flush's thread, or the purge between two of them.    *)
LEMMA ThreadKeepsRows ==
  ASSUME RowsInv, InsertDepth \/ InsertTrades \/ Commit \/ Purge
  PROVE  RowsInv' /\ Known \subseteq Known'
<1>. DEFINE in == txn \union db \union gone
<1>1. \/ InsertDepth \/ InsertTrades \/ Commit \/ Purge
  OBVIOUS
<1>2. UNCHANGED <<trades, depthBuf, tradeBuf>>
  BY DEF InsertDepth, InsertTrades, Insert, Commit, Purge, exchange
<1>3. CASE InsertDepth
  <2>1. /\ flush.pc = "depth" /\ UNCHANGED <<db, gone>>
        /\ \/ txn' = txn \union Range(flush.depth) /\ flush' = [flush EXCEPT !.pc = "trade"]
           \/ txn' = txn /\ flush' = [flush EXCEPT !.pc = "failed"]
    BY <1>3 DEF InsertDepth, Insert
  <2>2. /\ flush'.depth = flush.depth /\ flush'.trade = flush.trade
        /\ flush'.pc = "failed" \/ (flush'.pc = "trade" /\ txn' = txn \union Range(flush.depth))
        /\ flush' \in [pc : {"none", "depth", "trade", "commit", "failed"}, depth : Seq(Rows),
                       trade : Seq(Rows)]
    BY <2>1 DEF RowsInv
  <2>3. RowsInv' BY <1>2, <2>1, <2>2 DEF RowsInv
  <2>4. Known \subseteq Known' BY <1>2, <2>1, <2>2, KnownRows, KnownThen
  <2>. QED BY <2>3, <2>4
<1>4. CASE InsertTrades
  <2>1. /\ flush.pc = "trade" /\ UNCHANGED <<db, gone>>
        /\ \/ txn' = txn \union Range(flush.trade) /\ flush' = [flush EXCEPT !.pc = "commit"]
           \/ txn' = txn /\ flush' = [flush EXCEPT !.pc = "failed"]
    BY <1>4 DEF InsertTrades, Insert
  <2>2. /\ flush'.depth = flush.depth /\ flush'.trade = flush.trade
        /\ flush'.pc = "failed" \/ (flush'.pc = "commit" /\ txn' = txn \union Range(flush.trade))
        /\ flush' \in [pc : {"none", "depth", "trade", "commit", "failed"}, depth : Seq(Rows),
                       trade : Seq(Rows)]
    BY <2>1 DEF RowsInv
  <2>3. RowsInv' BY <1>2, <2>1, <2>2 DEF RowsInv
  <2>4. Known \subseteq Known' BY <1>2, <2>1, <2>2, KnownRows, KnownThen
  <2>. QED BY <2>3, <2>4
<1>5. CASE Commit
  <2>1. CASE db' = db \union txn /\ txn' = {} /\ flush' = NoFlush
    <3>1. flush.pc = "commit" /\ gone' = gone BY <1>5 DEF Commit
    <3>2. Range(flush.depth) \union Range(flush.trade) \subseteq in BY <3>1 DEF RowsInv
    <3>3. RowsInv' BY <1>2, <2>1, NoRows DEF RowsInv, NoFlush
    <3>4. Known \subseteq Known' BY <1>2, <2>1, <3>1, <3>2, KnownRows, KnownThen
    <3>. QED BY <3>3, <3>4
  <2>2. CASE flush' = [flush EXCEPT !.pc = "failed"] /\ UNCHANGED <<db, txn>>
    <3>1. gone' = gone BY <1>5 DEF Commit
    <3>2. /\ flush'.depth = flush.depth /\ flush'.trade = flush.trade /\ flush'.pc = "failed"
          /\ flush' \in [pc : {"none", "depth", "trade", "commit", "failed"}, depth : Seq(Rows),
                         trade : Seq(Rows)]
      BY <2>2 DEF RowsInv
    <3>3. RowsInv' BY <1>2, <3>2 DEF RowsInv
    <3>4. Known \subseteq Known' BY <1>2, <2>2, <3>1, <3>2, KnownRows, KnownThen
    <3>. QED BY <3>3, <3>4
  <2>. QED BY <1>5, <2>1, <2>2 DEF Commit
<1>6. CASE Purge
  <2>1. PICK old \in {{}, db} : db' = (db \ old) \union txn /\ txn' = {} /\ gone' = gone \union old
    BY <1>6 DEF Purge
  <2>2. flush' = flush BY <1>6 DEF Purge
  <2>3. in \subseteq txn' \union db' \union gone' BY <2>1
  <2>4. RowsInv' BY <1>2, <2>2, <2>3 DEF RowsInv
  <2>5. Known \subseteq Known' BY <1>2, <2>2, <2>3, KnownRows, KnownThen
  <2>. QED BY <2>4, <2>5
<1>. QED BY <1>1, <1>3, <1>4, <1>5, <1>6

LEMMA PutBackKeepsRows ==
  ASSUME RowsInv, PutBack
  PROVE  RowsInv' /\ Known \subseteq Known'
<1>. DEFINE d == flush.depth \o depthBuf
            t == flush.trade \o tradeBuf
            Over(q) == Range(SubSeq(q, MaxBuffer + 1, Len(q)))
<1>1. /\ depthBuf' = Capped(d) /\ tradeBuf' = Capped(t) /\ gone' = gone \union Over(d) \union Over(t)
      /\ flush' = NoFlush /\ UNCHANGED <<trades, db, txn>>
  BY DEF PutBack, exchange
<1>2. /\ d \in Seq(Rows) /\ Range(flush.depth) \union Range(depthBuf) \subseteq Range(d)
      /\ t \in Seq(Rows) /\ Range(flush.trade) \union Range(tradeBuf) \subseteq Range(t)
  BY RowsTogether DEF RowsInv
<1>. HIDE DEF d, t
<1>3. /\ Capped(d) \in Seq(Rows) /\ Range(d) \subseteq Range(Capped(d)) \union Over(d)
      /\ Capped(t) \in Seq(Rows) /\ Range(t) \subseteq Range(Capped(t)) \union Over(t)
  BY <1>2, CappedKeeps
<1>. HIDE DEF Over
<1>4. RowsInv' BY <1>1, <1>3, NoRows DEF RowsInv, NoFlush
<1>5. Known \subseteq Known' BY <1>1, <1>2, <1>3, KnownRows, KnownThen
<1>. QED BY <1>4, <1>5

LEMMA RestartKeepsRows ==
  ASSUME RowsInv, Restart
  PROVE  RowsInv' /\ Known \subseteq Known'
<1>1. /\ gone' = gone \union txn \union InMemory /\ db' = db /\ txn' = {}
      /\ depthBuf' = <<>> /\ tradeBuf' = <<>> /\ flush' = NoFlush /\ trades' = trades
  BY DEF Restart, exchange
<1>2. RowsInv' BY <1>1, NoRows DEF RowsInv, NoFlush
<1>3. Known \subseteq Known' BY <1>1, KnownThen DEF Known
<1>. QED BY <1>2, <1>3

LEMMA StepKeepsRows ==
  ASSUME RowsInv, CutsInv, [Next]_vars
  PROVE  RowsInv' /\ Known \subseteq Known'
<1>1. ASSUME UNCHANGED <<trades, rows>> PROVE RowsInv' /\ Known \subseteq Known'
  <2>1. UNCHANGED <<trades, depthBuf, tradeBuf, flush, db, txn, gone>> BY <1>1 DEF rows
  <2>2. RowsInv' BY <2>1 DEF RowsInv
  <2>3. Known' = Known BY <2>1, KnownRows, KnownThen
  <2>. QED BY <2>2, <2>3
<1>2. CASE UNCHANGED vars BY <1>1, <1>2 DEF vars, exchange
<1>3. CASE Change \/ Connect \/ Disconnect \/ Snapshot \/ SnapshotFails \/ Merge \/ Lose
  <2>1. UNCHANGED <<trades, rows>>
    BY <1>3
    DEF Change, Connect, Disconnect, Snapshot, SnapshotFails, Merge, Lose, exchange
  <2>. QED BY <1>1, <2>1
<1>4. CASE ReceiveDepth \/ ReceiveTrade BY <1>4, ReceiveKeepsRows
<1>5. CASE InsertDepth \/ InsertTrades \/ Commit \/ Purge BY <1>5, ThreadKeepsRows
<1>6. CASE PutBack BY <1>6, PutBackKeepsRows
<1>7. CASE Restart BY <1>7, RestartKeepsRows
<1>. QED BY <1>2, <1>3, <1>4, <1>5, <1>6, <1>7 DEF Next

(* What a flush takes from memory it gives back, or has put where the      *)
(* purge or the commit finds it.                                           *)
THEOREM RowsHold == Spec => []RowsInv
<1>1. Init => RowsInv
  <2>. SUFFICES ASSUME Init PROVE RowsInv OBVIOUS
  <2>1. <<>> \in Seq(Rows) BY NoRows
  <2>. QED BY <2>1 DEF Init, RowsInv, NoFlush
<1>2. RowsInv /\ BookInv /\ [Next]_vars => RowsInv' BY StepKeepsRows DEF BookInv
<1>. QED BY <1>1, <1>2, BookHolds, PTL DEF Spec

(* No step loses a row between the buffers, the thread and the database:   *)
(* for any sizes of batches and buffers, failures, purges and restarts.    *)
THEOREM NoRowIsForgotten == Spec => RowsAreKept
<1>1. RowsInv /\ BookInv /\ [Next]_vars => [Known \subseteq Known']_vars
  BY StepKeepsRows DEF BookInv
<1>. QED BY <1>1, BookHolds, RowsHold, PTL DEF Spec, RowsAreKept
=============================================================================
