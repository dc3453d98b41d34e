------------------------------ MODULE MarketFeed ------------------------------
(***************************************************************************)
(* The order book on its way from the exchange to Gate 0: the LOB consumer *)
(* of core/ws_consumer.py with the seed checks of core/lob_sync.py, the    *)
(* depth queues and main._depth_fanout, and core/lob_engine.py.            *)
(*                                                                         *)
(* A book is the set of update ids whose effect it holds; levels are       *)
(* absolute quantities, so a diff brings the book it touches up to its own *)
(* ids whatever was there before.  A latency is "fast" below WARN_MS,      *)
(* "late" above CRITICAL_MS and "slow" between them.                       *)
(***************************************************************************)
EXTENDS Integers, Sequences, SequencesExt

CONSTANTS
  MaxId,        \* bound: the last update id of the exchange
  Tolerance,    \* settings.LOB_GAP_TOLERANCE_UPDATEIDS
  GapLimit,     \* settings.LOB_GAP_RECONNECT_MIN_CONSECUTIVE
  ConsecLimit,  \* settings.HEARTBEAT_CONSEC_LIMIT
  PendingCap,   \* how many diffs _lob_pending holds
  RawSize, LobSize   \* sizes of raw_depth_queue and lob_depth_queue

ASSUME FeedAssumption ==
  /\ {MaxId, GapLimit, ConsecLimit, PendingCap, RawSize, LobSize} \subseteq Nat \ {0}
  /\ Tolerance \in Nat

Ids == 1..MaxId
(* pu is the u of the diff before; a diff holds pu + 1 to u. *)
Diffs == {d \in [pu : Ids, u : Ids] : d.pu < d.u}
Snapshots == [id : Ids, book : SUBSET Ids]
Latencies == {"fast", "slow", "late"}

VARIABLES
  head,      \* id of the exchange's own book, external
  published, \* u of the last diff the exchange published, external
  wire,      \* diffs on the connection, not yet received
  conn,      \* the connection: "connecting", "up", or in "backoff"
  hb,        \* HeartbeatMonitor: its status is CRITICAL, late messages in a row
  ws,        \* the consumer's book: _lob_synced, _lob_update_id, ..., _consecutive_lob_gaps
  seed,      \* _sync_lob_snapshot: "none", "asked", "answered" (for id), or it "failed"
  rawQ,      \* raw_depth_queue
  lobQ,      \* lob_depth_queue
  dropped,   \* _fanout_drop_count is not 0
  eng,       \* LocalOrderBook: its state, _last_update_id (0 before any) and book
  lobStatus, \* shared_state.lob_status
  lobLate    \* shared_state.lob_heartbeat_status is CRITICAL

vars == <<head, published, wire, conn, hb, ws, seed, rawQ, lobQ, dropped, eng,
          lobStatus, lobLate>>
exchange == <<head, published>>
pipeline == <<rawQ, lobQ, dropped, eng>>

TypeOK ==
  /\ head \in Ids /\ published \in 1..head
  /\ wire \in Seq(Diffs)
  /\ conn \in {"connecting", "up", "backoff"}
  /\ hb \in [critical : BOOLEAN, late : 0..ConsecLimit]
  /\ ws \in [synced : BOOLEAN, id : 0..MaxId, book : SUBSET Ids,
             pending : Seq(Diffs), gaps : 0..GapLimit - 1]
  /\ Len(ws.pending) <= PendingCap
  /\ seed \in [pc : {"none", "asked", "answered", "failed"}, id : 0..MaxId]
  /\ rawQ \in Seq(Snapshots) /\ Len(rawQ) <= RawSize
  /\ lobQ \in Seq(Snapshots) /\ Len(lobQ) <= LobSize
  /\ dropped \in BOOLEAN
  /\ eng \in [state : {"UNINITIALISED", "SYNCED", "GAP_DETECTED"}, id : 0..MaxId,
              book : SUBSET Ids]
  /\ lobStatus \in {"UNINITIALISED", "SYNCED", "GAP_DETECTED", "DISCONNECTED"}
  /\ lobLate \in BOOLEAN

NoBook == [synced |-> FALSE, id |-> 0, book |-> {}, pending |-> <<>>, gaps |-> 0]
NoSeed == [pc |-> "none", id |-> 0]

Init ==
  /\ head = 1 /\ published = 1 /\ wire = <<>>
  /\ conn = "connecting"
  /\ hb = [critical |-> FALSE, late |-> 0]
  /\ ws = NoBook /\ seed = NoSeed
  /\ rawQ = <<>> /\ lobQ = <<>> /\ dropped = FALSE
  /\ eng = [state |-> "UNINITIALISED", id |-> 0, book |-> {}]
  /\ lobStatus = "UNINITIALISED" /\ lobLate = FALSE

-----------------------------------------------------------------------------
(* The exchange                                                            *)

BookChanges ==
  /\ head < MaxId
  /\ head' = head + 1
  /\ UNCHANGED <<published, wire, conn, hb, ws, seed, pipeline, lobStatus, lobLate>>

(* A diff with everything since the last one goes out, and may get lost.   *)
Publish ==
  /\ published < head
  /\ published' = head
  /\ \/ /\ conn = "up"
        /\ wire' = Append(wire, [pu |-> published, u |-> head])
     \/ UNCHANGED wire
  /\ UNCHANGED <<head, conn, hb, ws, seed, pipeline, lobStatus, lobLate>>

-----------------------------------------------------------------------------
(* Connecting                                                              *)

ConnectedStatusKept == lobStatus   \* mutant: lob_status is not reset

ConnectedStatus == "UNINITIALISED"

(* The book is reset and the seed task starts.  The handshake takes network *)
(* round trips; the tasks behind the queues have long run by then.         *)
Connect ==
  /\ conn = "connecting" /\ rawQ = <<>> /\ lobQ = <<>>
  /\ conn' = "up"
  /\ wire' = <<>>
  /\ ws' = NoBook
  /\ seed' = [pc |-> "asked", id |-> 0]
  /\ lobStatus' = ConnectedStatus
  /\ UNCHANGED <<exchange, hb, pipeline, lobLate>>

FailedStatusKept == lobStatus   \* mutant: a failed connection is not announced

FailedStatus == "DISCONNECTED"

ConnectFails ==
  /\ conn = "connecting"
  /\ conn' = "backoff"
  /\ lobStatus' = FailedStatus
  /\ UNCHANGED <<exchange, wire, hb, ws, seed, pipeline, lobLate>>

Retry ==
  /\ conn = "backoff"
  /\ conn' = "connecting"
  /\ UNCHANGED <<exchange, wire, hb, ws, seed, pipeline, lobStatus, lobLate>>

(* The receive loop is left: the seed task is cancelled, and the next      *)
(* attempt starts at once.                                                 *)
Disconnect ==
  /\ conn' = "connecting"
  /\ wire' = <<>>
  /\ seed' = NoSeed

(* Closed by the server, silent for WS_RECV_TIMEOUT_S, or 24 hours old.    *)
ConnectionLost ==
  /\ conn = "up"
  /\ Disconnect
  /\ UNCHANGED <<exchange, hb, ws, pipeline, lobStatus, lobLate>>

-----------------------------------------------------------------------------
(* Receiving                                                               *)

(* HeartbeatMonitor.record: CRITICAL after ConsecLimit late messages in a  *)
(* row, and until a fast one.                                              *)
Record(latency) ==
  LET n == IF latency # "late" THEN 0
           ELSE IF hb.late = ConsecLimit THEN hb.late ELSE hb.late + 1
  IN [late |-> n, critical |-> n = ConsecLimit \/ (hb.critical /\ latency # "fast")]

Enqueue(s) ==
  rawQ' = Append(IF Len(rawQ) = RawSize THEN Tail(rawQ) ELSE rawQ, s)

EnqueueUnlessFull(s) ==   \* mutant: the newest snapshot is dropped, not the oldest
  rawQ' = IF Len(rawQ) = RawSize THEN rawQ ELSE Append(rawQ, s)

(* _enqueue_latest_depth_snapshot: a full queue loses its oldest.          *)
EnqueueLatest(s) == Enqueue(s)

Distance(a, b) == IF a >= b THEN a - b ELSE b - a

GapDetected(d) == d.pu # ws.id /\ Distance(d.pu, ws.id) >= Tolerance

BufferUncapped(d) == ws' = [ws EXCEPT !.pending = Append(@, d)]   \* mutant: no limit

Buffer(d) ==
  ws' = [ws EXCEPT !.pending =
           IF Len(@) = PendingCap THEN Tail(Append(@, d)) ELSE Append(@, d)]

(* _apply_depth_diff returned True; of a diff the book is past it changes  *)
(* nothing, yet the book is sent on again.                                 *)
Apply(d) ==
  /\ ws' = [ws EXCEPT !.gaps = 0,
                      !.id = IF d.u > @ THEN d.u ELSE @,
                      !.book = IF d.u > ws.id THEN @ \union (d.pu + 1)..d.u ELSE @]
  /\ EnqueueLatest([id |-> ws'.id, book |-> ws'.book])

(* The diff is lost to the book; after GapLimit of them the consumer makes *)
(* its own heartbeat CRITICAL, which ends the connection.                  *)
Skip == ws' = [ws EXCEPT !.gaps = (@ + 1) % GapLimit]

TooManyGaps == ws.gaps + 1 = GapLimit

(* A message whose latency is CRITICAL is not routed and ends the          *)
(* connection.                                                             *)
ReceiveLate(latency) ==
  /\ conn = "up"
  /\ hb' = Record(latency) /\ hb'.critical
  /\ lobLate' = TRUE
  /\ Disconnect
  /\ UNCHANGED <<exchange, ws, pipeline, lobStatus>>

ReceiveDiff(latency) ==
  /\ conn = "up" /\ wire # <<>>
  /\ ~Record(latency).critical
  /\ lobLate' = FALSE
  /\ LET d == Head(wire)
         applied == ~GapDetected(d)
         gaveUp == ws.synced /\ ~applied /\ TooManyGaps
     IN
     /\ hb' = [Record(latency) EXCEPT !.critical = gaveUp]
     /\ \/ ~ws.synced /\ Buffer(d) /\ UNCHANGED rawQ
        \/ ws.synced /\ applied /\ Apply(d)
        \/ ws.synced /\ ~applied /\ Skip /\ UNCHANGED rawQ
     /\ IF gaveUp THEN Disconnect
                  ELSE wire' = Tail(wire) /\ UNCHANGED <<conn, seed>>
  /\ UNCHANGED <<exchange, lobQ, dropped, eng, lobStatus>>

(* A candle: for the book, no more than its latency. *)
ReceiveKline(latency) ==
  /\ conn = "up"
  /\ hb' = Record(latency) /\ ~hb'.critical
  /\ lobLate' = FALSE
  /\ UNCHANGED <<exchange, wire, conn, ws, seed, pipeline, lobStatus>>

-----------------------------------------------------------------------------
(* The seed                                                                *)

(* The exchange answers with its book as it is now. *)
SeedAnswered ==
  /\ seed.pc = "asked"
  /\ seed' = [pc |-> "answered", id |-> head]
  /\ UNCHANGED <<exchange, wire, conn, hb, ws, pipeline, lobStatus, lobLate>>

(* The snapshot and the diffs already applied to it stay in the book, which *)
(* nothing reads before the next connection has reset it.                  *)
SeedGivenUp ==
  /\ seed' = [pc |-> "failed", id |-> 0]
  /\ ws' = [ws EXCEPT !.pending = <<>>, !.synced = FALSE]

SeedUnanswered ==
  /\ seed.pc = "asked"
  /\ SeedGivenUp
  /\ UNCHANGED <<exchange, wire, conn, hb, pipeline, lobStatus, lobLate>>

(* The places of the buffered diffs that the snapshot does not already     *)
(* contain.  Diffs come in order, so these are the last ones.              *)
Newer(pending, id) == {i \in DOMAIN pending : pending[i].u > id}

(* futures_seed_bridge_ok, where the first id of a diff is pu + 1. *)
Bridges(d, id) == d.pu + 1 <= id /\ id <= d.u

SeedsUnchecked(pending, id) ==   \* mutant: only the first diff is checked
  \A i \in Newer(pending, id) : i - 1 \notin Newer(pending, id) => Bridges(pending[i], id)

(* The first of them bridges the snapshot, and each later one follows on   *)
(* the one before (futures_is_contiguous).                                 *)
Seeds(pending, id) ==
  \A i \in Newer(pending, id) :
    IF i - 1 \in Newer(pending, id) THEN pending[i].pu = pending[i - 1].u
                                    ELSE Bridges(pending[i], id)

Covered(diffs) == UNION {(d.pu + 1)..d.u : d \in diffs}

SeedArrives ==
  /\ seed.pc = "answered"
  /\ LET newer == Newer(ws.pending, seed.id) IN
     \/ /\ Seeds(ws.pending, seed.id)
        /\ ws' = [ws EXCEPT
             !.synced = TRUE, !.pending = <<>>,
             !.id = IF newer = {} THEN seed.id ELSE Last(ws.pending).u,
             !.book = 1..seed.id \union Covered({ws.pending[i] : i \in newer})]
        /\ EnqueueLatest([id |-> ws'.id, book |-> ws'.book])
        /\ seed' = NoSeed
     \/ /\ ~Seeds(ws.pending, seed.id)
        /\ SeedGivenUp
        /\ UNCHANGED rawQ
  /\ UNCHANGED <<exchange, wire, conn, hb, lobQ, dropped, eng, lobStatus, lobLate>>

-----------------------------------------------------------------------------
(* The queues and the local order book                                     *)

Fanout ==
  /\ rawQ # <<>>
  /\ rawQ' = Tail(rawQ)
  /\ IF Len(lobQ) < LobSize
     THEN lobQ' = Append(lobQ, Head(rawQ)) /\ UNCHANGED dropped
     ELSE dropped' = TRUE /\ UNCHANGED lobQ
  /\ UNCHANGED <<exchange, wire, conn, hb, ws, seed, eng, lobStatus, lobLate>>

(* apply_snapshot.  Only the first of several rejections in a row reaches  *)
(* shared_state.                                                           *)
ApplySnapshot ==
  /\ lobQ # <<>>
  /\ lobQ' = Tail(lobQ)
  /\ LET s == Head(lobQ) IN
     \/ /\ s.id <= eng.id
        /\ eng' = [eng EXCEPT !.state = "GAP_DETECTED"]
        /\ lobStatus' = IF eng.state # "GAP_DETECTED" THEN "GAP_DETECTED" ELSE lobStatus
     \/ /\ s.id > eng.id
        /\ eng' = [state |-> "SYNCED", id |-> s.id, book |-> s.book]
        /\ lobStatus' = "SYNCED"
  /\ UNCHANGED <<exchange, wire, conn, hb, ws, seed, rawQ, dropped, lobLate>>

-----------------------------------------------------------------------------
Receive ==
  \E latency \in Latencies :
    ReceiveLate(latency) \/ ReceiveDiff(latency) \/ ReceiveKline(latency)

Next ==
  \/ BookChanges \/ Publish
  \/ Connect \/ ConnectFails \/ Retry \/ ConnectionLost
  \/ Receive
  \/ SeedAnswered \/ SeedUnanswered \/ SeedArrives
  \/ Fanout \/ ApplySnapshot

(* Every task that can run does; REST answers or fails; messages arrive.   *)
Fairness ==
  /\ WF_vars(Connect \/ ConnectFails) /\ WF_vars(Retry)
  /\ WF_vars(Receive)
  /\ WF_vars(SeedAnswered \/ SeedUnanswered) /\ WF_vars(SeedArrives)
  /\ WF_vars(Fanout) /\ WF_vars(ApplySnapshot)

Spec == Init /\ [][Next]_vars /\ Fairness

-----------------------------------------------------------------------------
(* Properties                                                              *)

(* The ids up to n that a book does not hold come in runs that are shorter *)
(* than the tolerance: each was a gap the consumer may apply across.       *)
OnlyToleratedHoles(book, n) ==
  \A a \in 1..n : \A b \in a..n :
    (a..b) \intersect book = {} => b - a + 1 < Tolerance

(* Gate 0, on the consumer's data: lob_status and the consumer's heartbeat. *)
(* It is also shut while the heartbeat is SUSTAINED_DEGRADED.              *)
GateOpen == lobStatus = "SYNCED" /\ ~lobLate

(* While Gate 0 is open on it, the order book misses nothing but tolerated *)
(* gaps: not a diff lost before, during or after the seed, nor one refused. *)
GateSeesTrustedBook == GateOpen => OnlyToleratedHoles(eng.book, eng.id)

(* A new connection that has no book yet never looks SYNCED, whatever its  *)
(* predecessor left in the queues: "Gate 0 never sees a partial book".     *)
UnseededIsNotSynced == conn = "up" /\ ~ws.synced => lobStatus # "SYNCED"

(* When the queues are empty the order book is the consumer's, unless the  *)
(* fan-out had to drop a snapshot or Gate 0 is shut.                       *)
BooksAgree ==
  rawQ = <<>> /\ lobQ = <<>> /\ ws.synced /\ ~dropped /\ GateOpen =>
    eng.id = ws.id /\ eng.book = ws.book

(* A feed that is gone does not look SYNCED for ever. *)
DeadFeedNoticed == conn # "up" ~> lobStatus # "SYNCED"

-----------------------------------------------------------------------------
(* What the documentation says and the code does not do                    *)

(* The buffered diffs and the snapshot leave no id out. *)
Gapless(pending, id) ==
  LET all == 1..id \union Covered(ToSet(pending)) IN
  \A d \in ToSet(pending) : 1..d.u \subseteq all

(* "the first applied diff must bridge it", U <= lastUpdateId <= u; only a *)
(* violation of that means that events were missed.  Refuted by TLC: the   *)
(* diff that ends where the snapshot does is thrown away.                  *)
GaplessSeedSucceeds ==
  seed.pc = "answered" /\ Gapless(ws.pending, seed.id) =>
    Seeds(ws.pending, seed.id)

(* "LOB seed failed -- staying unsynced; will reseed".  Refuted by TLC:    *)
(* nothing asks again while the connection lives.                          *)
FailedSeedIsRetried == seed.pc = "failed" ~> seed.pc # "failed"
=============================================================================
