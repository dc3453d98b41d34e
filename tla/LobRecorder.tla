------------------------------ MODULE LobRecorder ------------------------------
(***************************************************************************)
(* core/lob_recorder.py: a local order book, seeded over REST and kept by  *)
(* the diff stream, and the rows it writes for the backtests.              *)
(*                                                                         *)
(* The event loop runs the receive loop, the seed and the flush one at a   *)
(* time, from one await to the next; the flush's and the purge's threads   *)
(* use one connection.  The exchange and the network are the environment.  *)
(***************************************************************************)
EXTENDS Integers, Sequences, SequencesExt, FiniteSetsExt

CONSTANTS
  Changes,      \* bound: the n-th change of the exchange's book is one of Changes[n]
  MaxTrades,    \* bound: trades
  Qtys,         \* quantities of a level, 0: no level
  FlushRecords, \* _FLUSH_RECORDS
  MaxBuffer,    \* _MAX_BUFFER_SIZE
  Attempts      \* _SEED_MAX_ATTEMPTS

ASSUME RecorderAssumption ==
  /\ {MaxTrades, FlushRecords, MaxBuffer, Attempts} \subseteq Nat \ {0}
  /\ 0 \in Qtys /\ Qtys \subseteq Nat
  /\ Changes \in Seq(SUBSET ({"bid", "ask"} \X Qtys))

MaxUpdates == Len(Changes)
Sides == {"bid", "ask"}   \* one level a side stands for the book

VARIABLES
  hist,    \* the exchange's book: its changes, in order of their update id
  cuts,    \* the diff events: the last update id (u) of each
  lost,    \* events that the open connection did not deliver
  next,    \* the first event it has still to deliver; 0: no connection
  trades,  \* trades so far
  book, last,  \* _bid_book and _ask_book, _last_update_id
  synced,
  pending, \* the events of _pending_depth, which come in order
  seed,    \* _sync_snapshot
  depthBuf, tradeBuf,
  flush,   \* _flush: the statement it has come to and the rows it has taken
  db,      \* committed rows
  txn,     \* rows of the open transaction
  gone     \* rows that were dropped, purged, or lost with the process

exchange == <<hist, cuts, trades>>
lob == <<book, last, synced, pending, seed>>
rows == <<depthBuf, tradeBuf, flush, db, txn, gone>>
vars == <<exchange, lost, next, lob, rows>>

Depth(e) == <<"depth", e>>
Trade(n) == <<"trade", n>>
DepthRows == {Depth(e) : e \in 1..MaxUpdates}
TradeRows == {Trade(n) : n \in 1..MaxTrades}

NoFlush == [pc |-> "none", depth |-> <<>>, trade |-> <<>>]
NoSeed == [pc |-> "none"]
EmptyBook == [s \in Sides |-> 0]

TypeOK ==
  /\ hist \in Seq(Sides \X Qtys) /\ cuts \in Seq(1..Len(hist)) /\ trades \in 0..MaxTrades
  /\ next \in 0..Len(cuts) + 1 /\ lost \subseteq 1..Len(cuts)
  /\ book \in [Sides -> Qtys] /\ last \in 0..Len(hist) /\ synced \in BOOLEAN
  /\ pending \subseteq 1..Len(cuts)
  /\ seed.pc \in {"none", "ask", "reply", "done", "failed"}
  /\ seed.pc \in {"ask", "reply"} => seed.try \in 1..Attempts
  /\ Range(depthBuf) \subseteq DepthRows /\ Range(tradeBuf) \subseteq TradeRows
  /\ flush.pc \in {"none", "depth", "trade", "commit", "failed"}
  /\ {db, txn, gone} \subseteq SUBSET (DepthRows \union TradeRows)

Init ==
  /\ hist = <<>> /\ cuts = <<>> /\ trades = 0
  /\ lost = {} /\ next = 0
  /\ book = EmptyBook /\ last = 0 /\ synced = FALSE /\ pending = {} /\ seed = NoSeed
  /\ depthBuf = <<>> /\ tradeBuf = <<>> /\ flush = NoFlush
  /\ db = {} /\ txn = {} /\ gone = {}

-----------------------------------------------------------------------------
(* The exchange                                                            *)

(* A side is what the last of its changes has made of it.                  *)
Apply(b, changes) ==
  [s \in Sides |-> LET its == {n \in changes : hist[n][1] = s}
                   IN  IF its = {} THEN b[s] ELSE hist[Max(its)][2]]

BookAt(n) == Apply(EmptyBook, 1..n)

(* A change of the book; every 100 ms an event takes all that came since.  *)
Change == \E cut \in BOOLEAN :
  /\ Len(hist) < MaxUpdates
  /\ \E c \in Changes[Len(hist) + 1] : hist' = Append(hist, c)
  /\ cuts' = IF cut THEN Append(cuts, Len(hist) + 1) ELSE cuts
  /\ UNCHANGED <<trades, lost, next, lob, rows>>

PrevU(e) == IF e = 1 THEN 0 ELSE cuts[e - 1]
FirstU(e) == PrevU(e) + 1
Diff(e) == FirstU(e)..cuts[e]

-----------------------------------------------------------------------------
(* Connecting and seeding                                                  *)

(* _connect_loop clears the book, not the rows, and begins a seed.         *)
Connect ==
  /\ next = 0
  /\ next' = Len(cuts) + 1 /\ lost' = {}
  /\ book' = EmptyBook /\ last' = 0 /\ synced' = FALSE /\ pending' = {}
  /\ seed' = [pc |-> "ask", try |-> 1]
  /\ UNCHANGED <<exchange, rows>>

(* The connection ends; the receive loop notices when it waits for it.     *)
Disconnect ==
  /\ next # 0 /\ flush = NoFlush
  /\ next' = 0 /\ seed' = NoSeed
  /\ UNCHANGED <<exchange, lost, book, last, synced, pending, rows>>

TryAgain == seed' = IF seed.try < Attempts THEN [pc |-> "ask", try |-> seed.try + 1]
                    ELSE [pc |-> "failed"]

(* The server takes the snapshot, and the answer comes later; or none.     *)
Snapshot ==
  /\ seed.pc = "ask"
  /\ seed' = [pc |-> "reply", try |-> seed.try, uid |-> Len(hist)]
  /\ UNCHANGED <<exchange, lost, next, book, last, synced, pending, rows>>

GiveUpIfLast == IF seed.try < Attempts THEN UNCHANGED pending ELSE pending' = {}

SnapshotFails ==
  /\ seed.pc \in {"ask", "reply"}
  /\ TryAgain /\ GiveUpIfLast
  /\ UNCHANGED <<exchange, lost, next, book, last, synced, rows>>

AnyOrder(events) == TRUE   \* mutant: the buffered diffs are applied unchecked

(* futures_is_contiguous: each event's pu is the u of the one before.      *)
Contiguous(events) ==
  \A e, f \in events :
    e < f /\ (\A g \in events : g <= e \/ f <= g) => PrevU(f) = cuts[e]

(* futures_seed_bridge_ok, of the first event after the snapshot.          *)
Bridges(events, uid) ==
  events # {} => FirstU(Min(events)) <= uid /\ uid <= cuts[Min(events)]

Fresh(uid) == {e \in pending : cuts[e] > uid}

(* The snapshot and the buffered diffs, from the answer to the next await: *)
(* a discontinuity leaves the book as far as it came, unsynced.            *)
Merge ==
  /\ seed.pc = "reply"
  /\ LET fresh == Fresh(seed.uid)
     IN  IF Bridges(fresh, seed.uid) /\ Contiguous(fresh)
         THEN /\ book' = Apply(BookAt(seed.uid), UNION {Diff(e) : e \in fresh})
              /\ last' = IF fresh = {} THEN seed.uid ELSE cuts[Max(fresh)]
              /\ synced' = TRUE /\ pending' = {}
              /\ seed' = [pc |-> "done", uid |-> seed.uid,
                          bridged |-> {e \in lost : cuts[e] <= last'}]
         ELSE /\ book' = BookAt(seed.uid) /\ UNCHANGED <<last, synced>>
              /\ TryAgain /\ GiveUpIfLast
  /\ UNCHANGED <<exchange, lost, next, rows>>

-----------------------------------------------------------------------------
(* The receive loop                                                        *)

(* _maybe_flush, with what the message has added: a full batch is flushed  *)
(* at once, a smaller one when _FLUSH_SECONDS have passed.                 *)
MaybeFlush(d, t) ==
  \/ /\ Len(d) + Len(t) < FlushRecords
     /\ depthBuf' = d /\ tradeBuf' = t /\ UNCHANGED flush
  \/ /\ depthBuf' = <<>> /\ tradeBuf' = <<>>
     /\ flush' = [pc |-> "depth", depth |-> d, trade |-> t]

WorthARow(b) == \A s \in Sides : b[s] > 0

(* A synced book takes each diff as it comes, whatever its u and pu.       *)
ReceiveDepth ==
  /\ next \in 1..Len(cuts) /\ flush = NoFlush
  /\ next' = next + 1
  /\ IF synced
     THEN LET b == Apply(book, Diff(next))
          IN  /\ book' = b /\ last' = cuts[next]
              /\ MaybeFlush(IF WorthARow(b) THEN Append(depthBuf, Depth(next)) ELSE depthBuf,
                            tradeBuf)
              /\ UNCHANGED <<pending, gone>>
     ELSE /\ pending' = pending \union {next}
          /\ MaybeFlush(depthBuf, tradeBuf)
          /\ UNCHANGED <<book, last, gone>>
  /\ UNCHANGED <<exchange, lost, synced, seed, db, txn, gone>>

ReceiveTrade ==
  /\ next # 0 /\ flush = NoFlush /\ trades < MaxTrades
  /\ trades' = trades + 1
  /\ MaybeFlush(depthBuf, Append(tradeBuf, Trade(trades + 1)))
  /\ UNCHANGED <<hist, cuts, lost, next, lob, db, txn, gone>>

(* An event that the connection does not deliver.                          *)
Lose ==
  /\ next \in 1..Len(cuts)
  /\ lost' = lost \union {next} /\ next' = next + 1
  /\ UNCHANGED <<exchange, lob, rows>>

-----------------------------------------------------------------------------
(* Persistence: the thread of _flush_sync, statement by statement          *)

Insert(pc, buffer, after) ==
  /\ flush.pc = pc
  /\ \/ txn' = txn \union Range(buffer) /\ flush' = [flush EXCEPT !.pc = after]
     \/ buffer # <<>> /\ flush' = [flush EXCEPT !.pc = "failed"] /\ UNCHANGED txn
  /\ UNCHANGED <<exchange, lost, next, lob, depthBuf, tradeBuf, db, gone>>

InsertDepth == Insert("depth", flush.depth, "trade")
InsertTrades == Insert("trade", flush.trade, "commit")

(* Without a rollback, a commit that fails leaves the transaction open.    *)
Commit ==
  /\ flush.pc = "commit"
  /\ \/ db' = db \union txn /\ txn' = {} /\ flush' = NoFlush
     \/ flush' = [flush EXCEPT !.pc = "failed"] /\ UNCHANGED <<db, txn>>
  /\ UNCHANGED <<exchange, lost, next, lob, depthBuf, tradeBuf, gone>>

Forget(all) == <<>>   \* mutant: the rows of a failed flush are given up

(* The rows of a failed flush go before those that came since; what is     *)
(* over the limit is dropped from the end.                                 *)
Capped(all) == IF Len(all) <= MaxBuffer THEN all ELSE SubSeq(all, 1, MaxBuffer)

PutBack ==
  /\ flush.pc = "failed"
  /\ LET d == flush.depth \o depthBuf
         t == flush.trade \o tradeBuf
         over(all) == Range(SubSeq(all, MaxBuffer + 1, Len(all)))
     IN  /\ depthBuf' = Capped(d) /\ tradeBuf' = Capped(t)
         /\ gone' = gone \union over(d) \union over(t)
  /\ flush' = NoFlush
  /\ UNCHANGED <<exchange, lost, next, lob, db, txn>>

(* _purge_old_records, in a thread of its own: its commit is the open      *)
(* transaction's, whatever the flush has come to.                          *)
Purge == \E old \in {{}, db} :
  /\ db' = (db \ old) \union txn /\ txn' = {}
  /\ gone' = gone \union old
  /\ UNCHANGED <<exchange, lost, next, lob, depthBuf, tradeBuf, flush>>

InMemory == UNION {Range(s) : s \in {depthBuf, tradeBuf, flush.depth, flush.trade}}

(* The process ends, by a crash or a cancellation of start, which flushes  *)
(* nothing; and it is started again.                                       *)
Restart ==
  /\ gone' = gone \union txn \union InMemory
  /\ txn' = {} /\ depthBuf' = <<>> /\ tradeBuf' = <<>> /\ flush' = NoFlush
  /\ next' = 0 /\ lost' = {}
  /\ book' = EmptyBook /\ last' = 0 /\ synced' = FALSE /\ pending' = {} /\ seed' = NoSeed
  /\ UNCHANGED <<exchange, db>>

Next ==
  \/ Change \/ Connect \/ Disconnect \/ Snapshot \/ SnapshotFails \/ Merge
  \/ ReceiveDepth \/ ReceiveTrade \/ Lose
  \/ InsertDepth \/ InsertTrades \/ Commit \/ PutBack \/ Purge \/ Restart

Spec == Init /\ [][Next]_vars

-----------------------------------------------------------------------------
(* Properties                                                              *)

(* Every lost event came before the seed and is in what the seed checked.  *)
SeedSawTheLosses == lost \subseteq seed.bridged

(* "each later event's pu == previous u": a seeded book is the exchange's  *)
(* book of its update id, once it has caught up with its snapshot and as   *)
(* long as no event is lost after the seed.                                *)
BookIsTheExchanges ==
  synced /\ seed.pc = "done" /\ last >= seed.uid /\ SeedSawTheLosses => book = BookAt(last)

Known == InMemory \union txn \union db \union gone

(* No row is lost between the buffers, the thread and the database: a      *)
(* failed flush gives back what it took, even if the purge commits half.   *)
RowsAreKept == [][Known \subseteq Known']_vars

(* walk_forward and tick_replay take each row for an event of its own.     *)
(* Refuted by TLC: rows that are given back may be in the transaction or   *)
(* the table already.                                                      *)
RecordedOnce ==
  /\ flush.pc = "depth" => Range(flush.depth) \intersect (txn \union db) = {}
  /\ flush.pc = "trade" => Range(flush.trade) \intersect (txn \union db) = {}

(* lob_recorder.py:216, "final seed attempt failed: break to reconnect".   *)
(* Refuted by TLC: nothing sets the flag, and the diffs pile up.           *)
PendingHasAUse == seed.pc = "failed" => pending = {}
=============================================================================
