---------------------------- MODULE SignalTelemetry ----------------------------
(***************************************************************************)
(* core/signal_telemetry.py with those who write through it: the executor  *)
(* hands over one record for each evaluated signal, the order manager's    *)
(* calls add the fill and the outcome of a trade, main shuts it down and   *)
(* the reconciler reads the outcomes back at the next start.               *)
(*                                                                         *)
(* The database is what is committed and what one open transaction holds;  *)
(* all writers share the connection, and so the transaction.               *)
(***************************************************************************)
EXTENDS Integers, Sequences, SequencesExt

CONSTANTS
  Sigs,       \* signals that may be evaluated
  Tradable,   \* those of them that every gate lets pass
  QueueSize,  \* size of telemetry_queue
  Batch,      \* _FLUSH_BATCH
  MaxBuf,     \* _MAX_BUF
  MaxStops    \* bound: how often the program ends

ASSUME TelemetryAssumption ==
  /\ Tradable \subseteq Sigs
  /\ {QueueSize, Batch, MaxBuf, MaxStops} \subseteq Nat \ {0}
  /\ Batch <= MaxBuf

Calls == [kind : {"fill", "outcome"}, sig : Tradable]
NoCall == [kind |-> "none"]
Nothing == [rows |-> {}, outcomes |-> {}]

VARIABLES
  life,      \* the program: "up", "stopping", "closed" or "down"
  stops,     \* how often it ended
  evaluated, \* signals the executor has evaluated
  lost,      \* records that were given up
  queue,     \* telemetry_queue
  drain,     \* _drain_loop: waits for a record, sends rec to the hub, or flushes
  buf,       \* _buf
  db,        \* what is committed
  txn,       \* what the open transaction adds
  calls,     \* update_fill and update_outcome, before the database lock
  holder,    \* the call that has _db_lock, its thread at work
  trade      \* "filled", then "booked" to the day's budget; "forgotten" by a restart

telemetryVars ==
  <<life, stops, evaluated, lost, queue, drain, buf, db, txn, calls, holder, trade>>
program == <<life, stops>>
trades == <<evaluated, trade>>

Tables == [rows : SUBSET Sigs, outcomes : SUBSET Tradable]

TelemetryTypeOK ==
  /\ life \in {"up", "stopping", "closed", "down"} /\ stops \in 0..MaxStops
  /\ evaluated \in SUBSET Sigs /\ lost \in SUBSET evaluated
  /\ queue \in Seq(Sigs) /\ Len(queue) <= QueueSize
  /\ drain.pc \in {"get", "send", "flush"} /\ drain.pc = "send" => drain.rec \in Sigs
  /\ buf \in Seq(Sigs) /\ Len(buf) <= MaxBuf + 1
  /\ db \in Tables /\ txn \in Tables /\ db.outcomes \subseteq db.rows
  /\ calls \in SUBSET Calls /\ holder \in Calls \union {NoCall}
  /\ trade \in [Tradable -> {"none", "filled", "booked", "forgotten"}]

Get == [pc |-> "get"]

TelemetryInit ==
  /\ life = "up" /\ stops = 0
  /\ evaluated = {} /\ lost = {}
  /\ trade = [s \in Tradable |-> "none"]
  /\ queue = <<>> /\ drain = Get /\ buf = <<>>
  /\ db = Nothing /\ txn = Nothing
  /\ calls = {} /\ holder = NoCall

-----------------------------------------------------------------------------
(* The database                                                            *)

Union(s, t) == [rows |-> s.rows \union t.rows, outcomes |-> s.outcomes \union t.outcomes]

(* commit makes the whole transaction last, whoever's statements are in it. *)
Commit(t) == db' = Union(db, t) /\ txn' = Nothing

LeaveOpen(t) == txn' = t /\ UNCHANGED db

Rollback == txn' = Nothing /\ UNCHANGED db

InsertOrReplace(records) ==   \* mutant: INSERT OR REPLACE INTO signal_records
  /\ db' = [rows |-> db.rows \union txn.rows \union records,
            outcomes |-> (db.outcomes \union txn.outcomes) \ records]
  /\ txn' = Nothing

(* INSERT OR IGNORE: a row that is there already keeps its outcome.        *)
InsertOrIgnore(records) == Commit(Union(txn, [rows |-> records, outcomes |-> {}]))

-----------------------------------------------------------------------------
(* Evaluated signals and trades                                            *)

(* StrategyExecutor._emit_telemetry: a full queue drops the record.        *)
Emit(s) ==
  /\ life = "up" /\ s \notin evaluated
  /\ evaluated' = evaluated \union {s}
  /\ IF Len(queue) < QueueSize
     THEN queue' = Append(queue, s) /\ UNCHANGED lost
     ELSE lost' = lost \union {s} /\ UNCHANGED queue
  /\ UNCHANGED <<program, drain, buf, db, txn, calls, holder, trade>>

(* _process_fills calls update_fill, one at a time.                        *)
Fill(s) ==
  /\ life = "up" /\ s \in evaluated /\ trade[s] = "none"
  /\ \A c \in calls \union {holder} : c.kind # "fill"
  /\ trade' = [trade EXCEPT ![s] = "filled"]
  /\ calls' = calls \union {[kind |-> "fill", sig |-> s]}
  /\ UNCHANGED <<program, evaluated, lost, queue, drain, buf, db, txn, holder>>

(* OrderManager._record_outcome: booked at once, update_outcome as a task. *)
Close(s) ==
  /\ life = "up" /\ trade[s] = "filled"
  /\ trade' = [trade EXCEPT ![s] = "booked"]
  /\ calls' = calls \union {[kind |-> "outcome", sig |-> s]}
  /\ UNCHANGED <<program, evaluated, lost, queue, drain, buf, db, txn, holder>>

-----------------------------------------------------------------------------
(* The drain loop                                                          *)

(* A record is taken and sent to the hub's clients. *)
Take ==
  /\ life = "up" /\ drain.pc = "get" /\ queue # <<>>
  /\ drain' = [pc |-> "send", rec |-> Head(queue)]
  /\ queue' = Tail(queue)
  /\ UNCHANGED <<program, trades, lost, buf, db, txn, calls, holder>>

(* Sent, or not: a failed broadcast is no reason not to record.            *)
Sent ==
  /\ life = "up" /\ drain.pc = "send"
  /\ buf' = Append(buf, drain.rec)
  /\ drain' = IF Len(buf') >= Batch \/ drain.rec \in Tradable
              THEN [pc |-> "flush"] ELSE Get
  /\ UNCHANGED <<program, trades, lost, queue, db, txn, calls, holder>>

WaitForRecord == UNCHANGED drain   \* mutant: the timeout does not flush

FlushBuffer == drain' = [pc |-> "flush"]

(* wait_for times out: for _FLUSH_INTERVAL there was no record to get.     *)
Timeout ==
  /\ life = "up" /\ drain.pc = "get" /\ queue = <<>> /\ buf # <<>>
  /\ FlushBuffer
  /\ UNCHANGED <<program, trades, lost, queue, buf, db, txn, calls, holder>>

ForgetBuffer == buf' = <<>> /\ UNCHANGED lost   \* mutant: a failed batch is not kept

(* The rows go back to the buffer; the newest beyond its size are dropped. *)
KeepBuffer ==
  /\ buf' = SubSeq(buf, 1, IF Len(buf) < MaxBuf THEN Len(buf) ELSE MaxBuf)
  /\ lost' = lost \union (ToSet(buf) \ ToSet(buf'))

(* _flush under _db_lock, from executemany to commit without an await.     *)
FlushSucceeds ==
  /\ life = "up" /\ drain.pc = "flush" /\ holder = NoCall
  /\ InsertOrIgnore(ToSet(buf))
  /\ buf' = <<>>
  /\ drain' = Get
  /\ UNCHANGED <<program, trades, lost, queue, calls, holder>>

(* An error after some of the rows, or in the commit, leaves the           *)
(* transaction open with what was inserted.                                *)
FlushFails ==
  /\ life = "up" /\ drain.pc = "flush" /\ holder = NoCall
  /\ \E n \in 0..Len(buf) :
       LeaveOpen(Union(txn, [rows |-> ToSet(SubSeq(buf, 1, n)) \ db.rows, outcomes |-> {}]))
  /\ KeepBuffer
  /\ drain' = Get
  /\ UNCHANGED <<program, trades, queue, calls, holder>>

-----------------------------------------------------------------------------
(* The calls of the order manager                                          *)

Acquire(c) ==
  /\ life \in {"up", "stopping"} /\ holder = NoCall /\ c \in calls
  /\ holder' = c /\ calls' = calls \ {c}
  /\ UNCHANGED <<program, trades, lost, queue, drain, buf, db, txn>>

(* UPDATE ... WHERE signal_id: without a row it changes nothing.           *)
Updated(c) ==
  IF c.kind = "outcome" /\ c.sig \in db.rows \union txn.rows
  THEN [txn EXCEPT !.outcomes = @ \union {c.sig}] ELSE txn

Update ==
  /\ holder # NoCall /\ life \in {"up", "stopping"}
  /\ \/ Commit(Updated(holder))
     \/ \E t \in {txn, Updated(holder)} : LeaveOpen(t)    \* an error, logged
  /\ holder' = NoCall
  /\ UNCHANGED <<program, trades, lost, queue, drain, buf, calls>>

(* write_system_event waits for _write_lock in the event loop; its with    *)
(* block commits or rolls back what the others left open.                  *)
SystemEvent ==
  /\ life = "up" /\ holder = NoCall /\ txn # Nothing
  /\ Commit(txn) \/ Rollback
  /\ UNCHANGED <<program, trades, lost, queue, drain, buf, calls, holder>>

-----------------------------------------------------------------------------
(* Shutdown, crash and restart                                             *)

(* The tasks are cancelled.  A record on its way to the hub is gone: the   *)
(* cancellation is not one of the exceptions the loop catches.             *)
Cancel ==
  /\ life = "up"
  /\ life' = "stopping"
  /\ lost' = IF drain.pc = "send" THEN lost \union {drain.rec} ELSE lost
  /\ drain' = Get
  /\ UNCHANGED <<stops, trades, queue, buf, db, txn, calls, holder>>

(* _flush_remaining, and in the same turn the connection is closed.  Calls *)
(* that still wait for the lock then find no connection, and so does the   *)
(* flush and the event of shutdown_handler.                                *)
FlushRemaining ==
  /\ life = "stopping" /\ holder = NoCall
  /\ life' = "closed"
  /\ LET records == ToSet(buf \o queue) IN
     \/ InsertOrIgnore(records) /\ UNCHANGED lost
     \/ Rollback /\ lost' = lost \union (records \ db.rows)
  /\ buf' = <<>> /\ queue' = <<>>
  /\ calls' = {}
  /\ UNCHANGED <<stops, trades, drain, holder>>

(* What is in memory when the program ends is lost.                        *)
InMemory ==
  ToSet(queue) \union ToSet(buf) \union (IF drain.pc = "send" THEN {drain.rec} ELSE {})

End ==
  /\ life' = "down" /\ stops' = stops + 1
  /\ queue' = <<>> /\ buf' = <<>> /\ drain' = Get
  /\ calls' = {} /\ holder' = NoCall
  /\ lost' = lost \union (InMemory \ db.rows)
  /\ Rollback
  /\ UNCHANGED trades

Exit == life = "closed" /\ End

Crash == life \in {"up", "stopping"} /\ End

(* reconcile_on_startup: the day's realised pnl is the sum of the outcomes. *)
Restart ==
  /\ life = "down" /\ stops < MaxStops
  /\ life' = "up"
  /\ trade' = [s \in Tradable |-> IF s \in db.outcomes THEN "booked"
                                 ELSE IF s \in evaluated THEN "forgotten" ELSE "none"]
  /\ UNCHANGED <<stops, evaluated, lost, queue, drain, buf, db, txn, calls, holder>>

-----------------------------------------------------------------------------
Telemetry == Take \/ Sent \/ Timeout \/ FlushSucceeds \/ FlushFails
CallTask == Update \/ \E c \in calls : Acquire(c)

TelemetryNext ==
  \/ \E s \in Sigs : Emit(s)
  \/ \E s \in Tradable : Fill(s) \/ Close(s)
  \/ Telemetry
  \/ CallTask \/ SystemEvent
  \/ Cancel \/ FlushRemaining \/ Exit \/ Crash \/ Restart

(* The tasks go on, and the database is not locked for ever.               *)
TelemetryFairness ==
  /\ WF_telemetryVars(Take) /\ WF_telemetryVars(Sent) /\ WF_telemetryVars(Timeout)
  /\ SF_telemetryVars(FlushSucceeds)
  /\ WF_telemetryVars(CallTask)

TelemetrySpec == TelemetryInit /\ [][TelemetryNext]_telemetryVars /\ TelemetryFairness

-----------------------------------------------------------------------------
(* Properties                                                              *)

(* A row, and the outcome in it, is there to stay: neither a batch that is *)
(* inserted a second time nor a rollback, a crash or a restart undoes it.  *)
CommittedStays ==
  [][db.rows \subseteq db'.rows /\ db.outcomes \subseteq db'.outcomes]_telemetryVars

(* Every evaluated signal's record is on its way or in the database, but   *)
(* for those a full queue, a full buffer, a cancelled broadcast, a failed  *)
(* last flush or a crash has cost.                                         *)
RecordsAccountedFor ==
  \A s \in evaluated \ lost : s \in db.rows \union InMemory

(* While the program is up, a record that waits gets into the database in  *)
(* the end, or is counted as lost.                                         *)
RecordsArrive ==
  \A s \in Sigs : s \in InMemory ~> s \in db.rows \union lost \/ life # "up"

-----------------------------------------------------------------------------
(* What the documentation says and the code does not do                    *)

(* "Every evaluated signal must be written to signal_records", at least    *)
(* when the program has been shut down in an orderly way.                  *)
GracefulStopKeepsRecords == life = "closed" => evaluated \subseteq db.rows

(* "S4: restore realised_pnl": the trades of the day are all in it.        *)
RestoredPnlIsComplete ==
  [][\A s \in Tradable : trade[s] = "booked" => trade'[s] = "booked"]_telemetryVars
=============================================================================
