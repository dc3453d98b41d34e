---------------------------- MODULE OrderManager ----------------------------
(***************************************************************************)
(* The execution layer of the engine: execution/order_manager.py with the  *)
(* tasks that call into it.                                                *)
(*                                                                         *)
(* Everything runs on one asyncio loop.  No section that holds             *)
(* _position_lock awaits anything, and taking a free asyncio.Lock does not *)
(* suspend, so a step of a task is what it does between two REST calls:    *)
(* one action below is one such step, and a task that is waiting for the   *)
(* exchange has the call in its "pc".  What the exchange does with a call  *)
(* and the reply to it are one step, the moment the caller resumes.        *)
(*                                                                         *)
(* The tasks:                                                              *)
(*   loop   _order_loop, _submit and the bracket placement it awaits       *)
(*   g6     the executor's Gate 6: watch for the fill, monitor the wall,   *)
(*          call handle_protection_wall_removed once                       *)
(*   fc[k]  one call of emergency_close_all, that is of force_close_all    *)
(*   er[s]  the task of an ORDER_TRADE_UPDATE that closed s's bracket      *)
(*   w      _watch_oco_outcome, the 2 s REST poller of the bracket         *)
(*   m      _watch_tp_sl, the software take-profit and stop of demo mode   *)
(***************************************************************************)
EXTENDS Integers, Sequences, Functions

CONSTANTS
  Signals,   \* approved order requests, each with its own signal_id
  None,
  Shorts,    \* the signals whose entry side is SELL
  Lots,      \* largest quantity an entry order can fill, in lots
  Kills,     \* bound: calls of emergency_close_all in a behaviour
  MaxExit,   \* bound: lots that closes nobody saw fill may have exited
  Modes      \* the settings a run starts under: LIVE, DEMO or DRY_RUN

ASSUME SignalsAssumption == None \notin Signals /\ Shorts \subseteq Signals
ASSUME LotsAssumption == Lots \in Nat \ {0}
ASSUME MaxExitAssumption == MaxExit \in Nat
ASSUME ModesAssumption == Modes \subseteq {"LIVE", "DEMO", "DRY_RUN"}

Legs == {"TP", "SL"}

VARIABLES
  mode,       \* settings.DRY_RUN and settings.BINANCE_DEMO
  (* GlobalKillswitch and the executor's side *)
  ksFired,    \* killswitch.is_active
  approved,   \* signals that passed the executor's gates
  queue,      \* the signal queue between executor and order manager
  (* OrderManager's own fields *)
  accepting,  \* accepting_new_signals
  om,         \* the fields _position_lock guards, see Flat
  filled,     \* requests whose fill_event is set
  closed,     \* requests whose position_closed_event is set
  recorded,   \* per signal, outcomes booked by _record_outcome
  unpriced,   \* signals closed by the poller with an unknown exit price
  (* tasks *)
  loop, g6, fc, er, w, m,
  (* the exchange, external *)
  entryQty,   \* per signal, lots its entry order executed
  exitQty,    \* per signal, lots orders meant to exit it executed
  ord,        \* per signal and bracket leg, the order's status
  late        \* requests a cancelled task had sent and nobody awaits

taskVars == <<loop, g6, fc, er, w, m>>
execVars == <<accepting, om, filled, closed, recorded, unpriced>>
exchVars == <<entryQty, exitQty, ord, late>>
vars == <<mode, ksFired, approved, queue, execVars, taskVars, exchVars>>

-----------------------------------------------------------------------------
(* State of one object *)

(* No position, no flag: what _reset_open_position leaves.  sig is         *)
(* _open_signal_id with its side, quantity and prices; ids says that both  *)
(* bracket order ids are recorded.                                         *)
Flat == [sig |-> None, ids |-> FALSE, placing |-> FALSE,
         cancelOnPlacement |-> FALSE, entering |-> FALSE, closing |-> FALSE]

Idle == [pc |-> "idle", sig |-> None]

(* _has_active_exposure_locked *)
Exposure ==
  \/ om.entering \/ om.closing \/ om.placing
  \/ om.sig # None

Sign(s) == IF s \in Shorts THEN -1 ELSE 1

(* The account's net position on the exchange, in lots. *)
NetPosition ==
  SumFunction([s \in Signals |-> Sign(s) * (entryQty[s] - exitQty[s])])

SignalOrNone == Signals \union {None}
Fields == [sig : SignalOrNone, ids : BOOLEAN, placing : BOOLEAN,
           cancelOnPlacement : BOOLEAN, entering : BOOLEAN, closing : BOOLEAN]
LoopStates ==
  [pc : {"drain", "idle", "entry", "tp", "sl", "failClose", "deferCancel", "deferClose"},
   sig : SignalOrNone]
GateStates == [pc : {"idle", "awaitFill", "monitor", "cancel", "close"},
               sig : SignalOrNone, cap : SignalOrNone]
ForceStates == [pc : {"unused", "pending", "cancel", "close", "done"}, cap : SignalOrNone]
ReportStates == {"idle", "cancel"}
PollerStates == [pc : {"idle", "poll", "cancel"}, sig : SignalOrNone]
MonitorStates == [pc : {"idle", "poll", "close"}, sig : SignalOrNone]
OrderStatus == {"none", "open", "filled", "cancelled"}
Requests == [kind : {"cancel", "close"}, sig : SignalOrNone]

TypeOK ==
  /\ mode \in Modes
  /\ ksFired \in BOOLEAN /\ accepting \in BOOLEAN
  /\ approved \subseteq Signals /\ queue \in Seq(Signals)
  /\ om \in Fields
  /\ filled \subseteq Signals /\ closed \subseteq Signals
  /\ unpriced \subseteq Signals
  /\ recorded \in [Signals -> Nat]
  /\ loop \in LoopStates
  /\ g6 \in GateStates
  /\ fc \in [Kills -> ForceStates]
  /\ er \in [Signals -> ReportStates]
  /\ w \in PollerStates
  /\ m \in MonitorStates
  /\ entryQty \in [Signals -> Nat] /\ exitQty \in [Signals -> Nat]
  /\ ord \in [Signals -> [Legs -> OrderStatus]]
  /\ late \subseteq Requests

Init ==
  /\ mode \in Modes
  /\ ksFired = FALSE /\ accepting = TRUE
  /\ approved = {} /\ queue = <<>>
  /\ om = Flat
  /\ filled = {} /\ closed = {} /\ unpriced = {}
  /\ recorded = [s \in Signals |-> 0]
  /\ \/ loop = Idle
     \/ mode # "DRY_RUN" /\ loop = [pc |-> "drain", sig |-> None]
  /\ g6 = [pc |-> "idle", sig |-> None, cap |-> None]
  /\ fc = [k \in Kills |-> [pc |-> "unused", cap |-> None]]
  /\ er = [s \in Signals |-> "idle"]
  /\ w = Idle /\ m = Idle
  /\ entryQty = [s \in Signals |-> 0] /\ exitQty = [s \in Signals |-> 0]
  /\ ord = [s \in Signals |-> [l \in Legs |-> "none"]]
  /\ late = {}

-----------------------------------------------------------------------------
(* Steps several handlers share *)

EmergencyCloseUnchecked(s, q, seen, isClosed) ==   \* mutant: executedQty is not looked at
  /\ q \in 0 .. entryQty[s]
  /\ isClosed = seen
  /\ exitQty' = [exitQty EXCEPT ![s] = @ + q]

(* The exchange executes q lots of the emergency close of s.  It is an IOC *)
(* limit order (a market order in demo mode) without reduceOnly, so it     *)
(* executes whatever the account then holds.  The caller is told (seen) or *)
(* is not: an exception, an order unfilled when the polling gave up.       *)
EmergencyClose(s, q, seen, isClosed) ==
  /\ q \in 0 .. entryQty[s]
  /\ isClosed <=> seen /\ q > 0
  /\ exitQty' = [exitQty EXCEPT ![s] = @ + q]

(* Each cancel of an open leg takes effect or fails, and the code swallows *)
(* the failure; a leg that is not open cannot be cancelled.                *)
CancelLegs(s) ==
  \E c \in SUBSET {l \in Legs : ord[s][l] = "open"} :
    ord' = [ord EXCEPT ![s] = [l \in Legs |-> IF l \in c THEN "cancelled" ELSE ord[s][l]]]

RecordOutcomeOfOpen(s) ==   \* mutant: books only what is still tracked
  IF s = None \/ om.sig # s
  THEN UNCHANGED <<recorded, ksFired>>
  ELSE /\ recorded' = [recorded EXCEPT ![s] = @ + 1]
       /\ ksFired' \in {ksFired, TRUE}

(* _record_outcome for a non-empty signal id: the budget is charged, and   *)
(* RiskEngine.record_trade_result may fire KS-1.                           *)
RecordOutcome(s) ==
  IF s = None
  THEN UNCHANGED <<recorded, ksFired>>
  ELSE /\ recorded' = [recorded EXCEPT ![s] = @ + 1]
       /\ ksFired' \in {ksFired, TRUE}

AnnounceTracked(s) ==   \* mutant: the event is read at the end, not captured
  closed' = closed \union {om.sig}

(* position_closed_event of a request is set. *)
AnnounceClosed(s) == closed' = closed \union {s}

KeepClosing == om' = om   \* mutant: the flag stays up after a close that failed

(* A close that did not fill takes its flag down again. *)
ReleaseClose == om' = [om EXCEPT !.closing = FALSE]

(* What a task cancelled in the middle of a REST call leaves on the wire.  *)
Unawaited(kind, s) == {[kind |-> kind, sig |-> s]}
PollerLeaves == IF w.pc = "cancel" THEN Unawaited("cancel", w.sig) ELSE {}
MonitorLeaves == IF m.pc = "close" THEN Unawaited("close", m.sig) ELSE {}
Gate6Leaves ==
  IF g6.pc \in {"cancel", "close"} THEN Unawaited(g6.pc, g6.cap) ELSE {}

ResetKeepingPoller ==   \* mutant: _oco_watcher_task is not cancelled
  /\ om' = Flat
  /\ m' = Idle /\ UNCHANGED w
  /\ late' = late \union MonitorLeaves

(* _reset_open_position: forget the position and every flag, and cancel    *)
(* the poller and the software monitor.  A watcher that resets is not      *)
(* itself waiting for a reply, so it leaves nothing behind.                *)
ResetOpenPosition ==
  /\ om' = Flat
  /\ w' = Idle /\ m' = Idle
  /\ late' = late \union PollerLeaves \union MonitorLeaves

(* A step of the loop task that ends in _order_loop's next get. *)
LoopDone == loop' = Idle

-----------------------------------------------------------------------------
(* The executor: approval of a signal and the Gate 6 task                  *)

NoPlacement == ~om.placing   \* mutant: _emergency_close_in_progress is not looked at

(* No other closer is at work: neither the bracket placement, which acts   *)
(* on a deferred alert itself, nor another emergency close.                *)
NoOtherCloser == ~om.placing /\ ~om.closing

(* Approval cancels the Gate 6 task of the signal before, wherever it is.  *)
Approve(s) ==
  /\ s \notin approved
  /\ ~Exposure                                     \* Gate 3
  /\ approved' = approved \union {s}
  /\ queue' = Append(queue, s)
  /\ g6' = [pc |-> "awaitFill", sig |-> s, cap |-> None]
  /\ late' = late \union Gate6Leaves
  /\ UNCHANGED <<mode, ksFired, execVars, loop, fc, er, w, m,
                 entryQty, exitQty, ord>>

Gate6Stops == g6' = [pc |-> "idle", sig |-> None, cap |-> None]

(* _gate6_watch: the fill is confirmed, or is not within the timeout. *)
Gate6Watch ==
  /\ g6.pc = "awaitFill"
  /\ IF g6.sig \in filled THEN g6' = [g6 EXCEPT !.pc = "monitor"] ELSE Gate6Stops
  /\ UNCHANGED <<mode, ksFired, approved, queue, execVars, loop, fc, er, w, m, exchVars>>

(* PersistenceMonitor returns once position_closed_event is set. *)
Gate6SeesClosed ==
  /\ g6.pc = "monitor" /\ g6.sig \in closed
  /\ Gate6Stops
  /\ UNCHANGED <<mode, ksFired, approved, queue, execVars, loop, fc, er, w, m, exchVars>>

(* The wall is gone, or a safety condition holds: the monitor's one call   *)
(* of handle_protection_wall_removed, up to its first REST call.           *)
Gate6AlertDeferred ==
  /\ g6.pc = "monitor" /\ g6.sig \notin closed
  /\ om.placing
  /\ om' = [om EXCEPT !.cancelOnPlacement = TRUE]
  /\ Gate6Stops
  /\ UNCHANGED <<mode, ksFired, approved, queue, accepting, filled, closed, recorded,
                 unpriced, loop, fc, er, w, m, exchVars>>

Gate6AlertSuppressed ==
  /\ g6.pc = "monitor" /\ g6.sig \notin closed
  /\ ~om.placing /\ om.closing
  /\ Gate6Stops
  /\ UNCHANGED <<mode, ksFired, approved, queue, execVars, loop, fc, er, w, m, exchVars>>

Gate6Alert ==
  /\ g6.pc = "monitor" /\ g6.sig \notin closed
  /\ NoOtherCloser
  /\ mode # "DRY_RUN"
  /\ CASE om.ids ->
            g6' = [g6 EXCEPT !.pc = "cancel", !.cap = om.sig] /\ om' = om
       [] ~om.ids /\ om.sig # None ->
            /\ g6' = [g6 EXCEPT !.pc = "close", !.cap = om.sig]
            /\ om' = [om EXCEPT !.closing = TRUE]
       [] OTHER -> Gate6Stops /\ om' = om
  /\ UNCHANGED <<mode, ksFired, approved, queue, accepting, filled, closed, recorded,
                 unpriced, loop, fc, er, w, m, exchVars>>

(* The two cancels are answered.  The flag is raised and the close is sent *)
(* for the position captured before them.                                  *)
Gate6Cancelled ==
  /\ g6.pc = "cancel"
  /\ CancelLegs(g6.cap)
  /\ om' = [om EXCEPT !.closing = TRUE]
  /\ g6' = [g6 EXCEPT !.pc = "close"]
  /\ UNCHANGED <<mode, ksFired, approved, queue, accepting, filled, closed, recorded,
                 unpriced, loop, fc, er, w, m, entryQty, exitQty, late>>

Gate6CloseReply ==
  /\ g6.pc = "close"
  /\ \E q \in 0 .. entryQty[g6.cap], seen, isClosed \in BOOLEAN :
       /\ EmergencyClose(g6.cap, q, seen, isClosed)
       /\ IF isClosed
          THEN /\ ResetOpenPosition
               /\ RecordOutcome(om.sig)
               /\ AnnounceClosed(g6.cap)
          ELSE /\ ReleaseClose
               /\ UNCHANGED <<recorded, ksFired, closed, w, m, late>>
  /\ Gate6Stops
  /\ UNCHANGED <<mode, approved, queue, accepting, filled, unpriced,
                 loop, fc, er, entryQty, ord>>

(* DRY_RUN: no order is sent; the position is closed at its entry price.   *)
PaperClose(s) ==
  /\ ResetOpenPosition
  /\ RecordOutcome(s)
  /\ closed' = IF s = None THEN closed ELSE closed \union {s}
  /\ exitQty' = IF s = None THEN exitQty ELSE [exitQty EXCEPT ![s] = @ + entryQty[s]]

Gate6AlertDryRun ==
  /\ g6.pc = "monitor" /\ g6.sig \notin closed
  /\ NoOtherCloser
  /\ mode = "DRY_RUN"
  /\ PaperClose(om.sig)
  /\ Gate6Stops
  /\ UNCHANGED <<mode, approved, queue, accepting, filled, unpriced,
                 loop, fc, er, entryQty, ord>>

-----------------------------------------------------------------------------
(* The killswitch: emergency_close_all and force_close_all                 *)

(* emergency_close_all is scheduled as a task: one of the calls the bound  *)
(* leaves, or, when none is left, one that never gets to run.              *)
ScheduleForceClose ==
  \/ \E k \in Kills : /\ fc[k].pc = "unused"
                      /\ fc' = [fc EXCEPT ![k].pc = "pending"]
  \/ (\A k \in Kills : fc[k].pc # "unused") /\ UNCHANGED fc

(* force_close_all up to its first REST call. *)
ForceClose(k) ==
  /\ accepting' = FALSE
  /\ IF om.sig = None
     THEN /\ fc' = [fc EXCEPT ![k].pc = "done"]
          /\ UNCHANGED <<om, w, m, late, recorded, closed, exitQty>>
     ELSE IF mode = "DRY_RUN"
     THEN /\ fc' = [fc EXCEPT ![k].pc = "done"]
          /\ ResetOpenPosition
          /\ recorded' = [recorded EXCEPT ![om.sig] = @ + 1]
          /\ closed' = closed \union {om.sig}
          /\ exitQty' = [exitQty EXCEPT ![om.sig] = @ + entryQty[om.sig]]
     ELSE IF om.placing
     THEN /\ fc' = [fc EXCEPT ![k].pc = "done"]
          /\ om' = [om EXCEPT !.cancelOnPlacement = TRUE]
          /\ UNCHANGED <<w, m, late, recorded, closed, exitQty>>
     ELSE /\ IF om.ids
             THEN /\ fc' = [fc EXCEPT ![k] = [pc |-> "cancel", cap |-> om.sig]]
                  /\ om' = om
             ELSE /\ fc' = [fc EXCEPT ![k] = [pc |-> "close", cap |-> om.sig]]
                  /\ om' = [om EXCEPT !.closing = TRUE]
          /\ UNCHANGED <<w, m, late, recorded, closed, exitQty>>
  /\ UNCHANGED <<mode, approved, queue, filled, unpriced, loop, g6, er,
                 entryQty, ord>>

(* KS-1 in the mark-to-market loop, or KS-2 in the heartbeat callback. *)
KillswitchFires(k) ==
  /\ ~ksFired /\ fc[k].pc = "unused"
  /\ ksFired' = TRUE
  /\ ForceClose(k)

(* The operator's button: the killswitch itself is not fired. *)
KillswitchUI(k) ==
  /\ ~ksFired /\ fc[k].pc = "unused"
  /\ ForceClose(k)
  /\ \/ UNCHANGED ksFired
     \/ mode = "DRY_RUN" /\ om.sig # None /\ ksFired' = TRUE   \* KS-1, by the booking

(* The task KS-3 scheduled at an entry fill begins. *)
KillswitchSlippage(k) ==
  /\ fc[k].pc = "pending"
  /\ ForceClose(k)
  /\ UNCHANGED ksFired

ForceCloseCancelled(k) ==
  /\ fc[k].pc = "cancel"
  /\ CancelLegs(fc[k].cap)
  /\ om' = [om EXCEPT !.closing = TRUE]
  /\ fc' = [fc EXCEPT ![k].pc = "close"]
  /\ UNCHANGED <<mode, ksFired, approved, queue, accepting, filled, closed, recorded,
                 unpriced, loop, g6, er, w, m, entryQty, exitQty, late>>

(* The state is reset whether or not the close filled. *)
ForceCloseReply(k) ==
  /\ fc[k].pc = "close"
  /\ \E q \in 0 .. entryQty[fc[k].cap], seen, isClosed \in BOOLEAN :
       /\ EmergencyClose(fc[k].cap, q, seen, isClosed)
       /\ ResetOpenPosition
       /\ IF isClosed
          THEN /\ RecordOutcome(om.sig)
               /\ AnnounceClosed(fc[k].cap)
          ELSE UNCHANGED <<recorded, ksFired, closed>>
  /\ fc' = [fc EXCEPT ![k].pc = "done"]
  /\ UNCHANGED <<mode, approved, queue, accepting, filled, unpriced,
                 loop, g6, er, entryQty, ord>>

-----------------------------------------------------------------------------
(* The order loop                                                          *)

(* start found the exchange unreachable: the queue is only drained. *)
Drain ==
  /\ loop.pc = "drain" /\ queue # <<>>
  /\ queue' = Tail(queue)
  /\ UNCHANGED <<mode, ksFired, approved, execVars, taskVars, exchVars>>

DiscardWhileAccepting ==   \* mutant: the loop stops taking requests once shut down
  /\ loop.pc = "idle" /\ queue # <<>> /\ accepting
  /\ queue' = Tail(queue)
  /\ UNCHANGED <<mode, ksFired, approved, execVars, taskVars, exchVars>>

(* No order is sent: shut down, killed, exposed, no book, a stale signal,  *)
(* a stop distance, quantity or notional too small.                        *)
Discard ==
  /\ loop.pc = "idle" /\ queue # <<>>
  /\ queue' = Tail(queue)
  /\ UNCHANGED <<mode, ksFired, approved, execVars, taskVars, exchVars>>

MayEnterExposed == accepting /\ ~ksFired   \* mutant: exposure is not looked at

MayEnter == accepting /\ ~ksFired /\ ~Exposure

(* _submit sends the entry order: book_fn answers at once, so the checks   *)
(* and the send are one step.                                              *)
SendEntry ==
  /\ loop.pc = "idle" /\ queue # <<>>
  /\ mode # "DRY_RUN"
  /\ MayEnter
  /\ queue' = Tail(queue)
  /\ om' = [om EXCEPT !.entering = TRUE]
  /\ loop' = [pc |-> "entry", sig |-> Head(queue)]
  /\ UNCHANGED <<mode, ksFired, approved, accepting, filled, closed, recorded, unpriced, g6, fc, er, w, m, exchVars>>

(* No fill was seen: the order expired, or the call raised, or demo mode   *)
(* stopped polling, and then the exchange may have executed it all the same. *)
EntryMissed ==
  /\ loop.pc = "entry"
  /\ \E q \in 0 .. Lots : entryQty' = [entryQty EXCEPT ![loop.sig] = q]
  /\ om' = [om EXCEPT !.entering = FALSE]
  /\ LoopDone
  /\ UNCHANGED <<mode, ksFired, approved, queue, accepting, filled, closed, recorded,
                 unpriced, g6, fc, er, w, m, exitQty, ord, late>>

(* The fill is seen: slippage is recorded (KS-3), the fill is announced and *)
(* the position cached.                                                    *)
Fill(s, placing) ==
  /\ \E q \in 1 .. Lots : entryQty' = [entryQty EXCEPT ![s] = q]
  /\ ksFired' \in {ksFired, TRUE}
  /\ IF ksFired' THEN ScheduleForceClose ELSE UNCHANGED fc
  /\ filled' = filled \union {s}
  /\ om' = [om EXCEPT !.sig = s, !.entering = FALSE, !.placing = placing]

(* LIVE: the bracket's take-profit order is sent in the same step. *)
EntryFilledLive ==
  /\ loop.pc = "entry" /\ mode = "LIVE"
  /\ Fill(loop.sig, TRUE)
  /\ loop' = [loop EXCEPT !.pc = "tp"]
  /\ UNCHANGED <<mode, approved, queue, accepting, closed, recorded, unpriced,
                 g6, er, w, m, exitQty, ord, late>>

(* DEMO: no bracket; the software monitor is started. *)
EntryFilledDemo ==
  /\ loop.pc = "entry" /\ mode = "DEMO"
  /\ Fill(loop.sig, FALSE)
  /\ m' = [pc |-> "poll", sig |-> loop.sig]
  /\ LoopDone
  /\ UNCHANGED <<mode, approved, queue, accepting, closed, recorded, unpriced,
                 g6, er, w, exitQty, ord, late>>

(* DRY_RUN: the synthetic fill involves no call at all. *)
EntryDryRun ==
  /\ loop.pc = "idle" /\ queue # <<>>
  /\ mode = "DRY_RUN"
  /\ MayEnter
  /\ queue' = Tail(queue)
  /\ Fill(Head(queue), FALSE)
  /\ UNCHANGED <<mode, approved, accepting, closed, recorded, unpriced,
                 loop, g6, er, w, m, exitQty, ord, late>>

PlaceLeg(s, l) == ord' = [ord EXCEPT ![s][l] = "open"]

TakeProfitPlaced ==
  /\ loop.pc = "tp"
  /\ PlaceLeg(loop.sig, "TP")
  /\ loop' = [loop EXCEPT !.pc = "sl"]
  /\ UNCHANGED <<mode, ksFired, approved, queue, execVars, g6, fc, er, w, m,
                 entryQty, exitQty, late>>

StartPoller == LoopDone /\ w' = [pc |-> "poll", sig |-> loop.sig]   \* mutant of the next

AfterPlacement ==
  IF om.cancelOnPlacement
  THEN loop' = [loop EXCEPT !.pc = "deferCancel"] /\ w' = w
  ELSE LoopDone /\ w' = [pc |-> "poll", sig |-> loop.sig]

(* The bracket is complete: the ids are recorded, and either the poller    *)
(* starts or the alert deferred meanwhile is acted upon.                   *)
StopLossPlaced ==
  /\ loop.pc = "sl"
  /\ PlaceLeg(loop.sig, "SL")
  /\ om' = [om EXCEPT !.ids = TRUE, !.placing = FALSE, !.cancelOnPlacement = FALSE]
  /\ AfterPlacement
  /\ UNCHANGED <<mode, ksFired, approved, queue, accepting, filled, closed, recorded,
                 unpriced, g6, fc, er, m, entryQty, exitQty, late>>

(* A leg is refused, or its call raises though it was accepted.  The ids   *)
(* are not recorded yet, so there is nothing _cancel_bracket_orders could  *)
(* cancel, and the emergency close goes out.                               *)
BracketFailed ==
  /\ loop.pc \in {"tp", "sl"}
  /\ \/ PlaceLeg(loop.sig, IF loop.pc = "tp" THEN "TP" ELSE "SL")
     \/ UNCHANGED ord
  /\ om' = [om EXCEPT !.placing = FALSE, !.cancelOnPlacement = FALSE, !.closing = TRUE]
  /\ loop' = [loop EXCEPT !.pc = "failClose"]
  /\ UNCHANGED <<mode, ksFired, approved, queue, accepting, filled, closed, recorded,
                 unpriced, g6, fc, er, w, m, entryQty, exitQty, late>>

DeferredCancelled ==
  /\ loop.pc = "deferCancel"
  /\ CancelLegs(loop.sig)
  /\ loop' = [loop EXCEPT !.pc = "deferClose"]
  /\ UNCHANGED <<mode, ksFired, approved, queue, execVars, g6, fc, er, w, m,
                 entryQty, exitQty, late>>

(* The emergency close of _place_oco is answered.  The outcome is booked   *)
(* for the request, whoever reset the state meanwhile.  Unfilled, the      *)
(* deferred path releases the flag and the failure path does not.          *)
LoopCloseReply ==
  /\ loop.pc \in {"failClose", "deferClose"}
  /\ \E q \in 0 .. entryQty[loop.sig], seen, isClosed \in BOOLEAN :
       /\ EmergencyClose(loop.sig, q, seen, isClosed)
       /\ IF isClosed
          THEN /\ ResetOpenPosition
               /\ RecordOutcome(loop.sig)
               /\ AnnounceClosed(loop.sig)
          ELSE /\ IF loop.pc = "failClose" THEN om' = om ELSE ReleaseClose
               /\ UNCHANGED <<recorded, ksFired, closed, w, m, late>>
  /\ LoopDone
  /\ UNCHANGED <<mode, approved, queue, accepting, filled, unpriced,
                 g6, fc, er, entryQty, ord>>

-----------------------------------------------------------------------------
(* on_execution_report                                                     *)

(* A filled leg is reported, and its id is one of the recorded ones: the   *)
(* state is reset at once, the outcome only after the other leg's cancel.  *)
(* A report of another id (the bracket is not complete yet, or already     *)
(* forgotten) changes nothing, and a report may never come.                *)
ExecutionReport(s, l) ==
  /\ ord[s][l] = "filled"
  /\ om.ids /\ om.sig = s
  /\ ResetOpenPosition
  /\ er' = [er EXCEPT ![s] = "cancel"]
  /\ UNCHANGED <<mode, ksFired, approved, queue, accepting, filled, closed, recorded,
                 unpriced, loop, g6, fc, entryQty, exitQty, ord>>

ExecutionReportDone(s) ==
  /\ er[s] = "cancel"
  /\ CancelLegs(s)
  /\ RecordOutcome(s)
  /\ AnnounceClosed(s)
  /\ er' = [er EXCEPT ![s] = "idle"]
  /\ UNCHANGED <<mode, approved, queue, accepting, om, filled, unpriced,
                 loop, g6, fc, w, m, entryQty, exitQty, late>>

-----------------------------------------------------------------------------
(* _watch_oco_outcome: it dies with the reset of any other closer, so it   *)
(* never observes position_closed_event set.                               *)

PollSeesFill ==
  /\ w.pc = "poll"
  /\ \E l \in Legs : ord[w.sig][l] = "filled"
  /\ w' = [w EXCEPT !.pc = "cancel"]
  /\ UNCHANGED <<mode, ksFired, approved, queue, execVars, loop, g6, fc, er, m, exchVars>>

(* The fill carries no usable price: nothing is recorded and the other leg *)
(* is not cancelled.                                                       *)
PollSeesUnpricedFill ==
  /\ w.pc = "poll"
  /\ \E l \in Legs : ord[w.sig][l] = "filled"
  /\ IF om.sig = w.sig THEN ResetOpenPosition ELSE w' = Idle /\ UNCHANGED <<om, m, late>>
  /\ AnnounceClosed(w.sig)
  /\ unpriced' = unpriced \union {w.sig}
  /\ UNCHANGED <<mode, ksFired, approved, queue, accepting, filled, recorded,
                 loop, g6, fc, er, entryQty, exitQty, ord>>

PollerCancelled ==
  /\ w.pc = "cancel"
  /\ CancelLegs(w.sig)
  /\ om' = IF om.sig = w.sig THEN Flat ELSE om
  /\ w' = Idle /\ m' = Idle
  /\ RecordOutcome(w.sig)
  /\ AnnounceClosed(w.sig)
  /\ UNCHANGED <<mode, approved, queue, accepting, filled, unpriced,
                 loop, g6, fc, er, entryQty, exitQty, late>>

-----------------------------------------------------------------------------
(* _watch_tp_sl, demo mode only; like the poller it dies with any reset    *)

(* The mid price touches a target and no other close is under way.         *)
TargetTouched ==
  /\ m.pc = "poll"
  /\ NoOtherCloser
  /\ om' = [om EXCEPT !.closing = TRUE]
  /\ m' = [m EXCEPT !.pc = "close"]
  /\ UNCHANGED <<mode, ksFired, approved, queue, accepting, filled, closed, recorded,
                 unpriced, loop, g6, fc, er, w, exchVars>>

TargetCloseFilled ==
  /\ m.pc = "close"
  /\ \E q \in 1 .. entryQty[m.sig] : EmergencyClose(m.sig, q, TRUE, TRUE)
  /\ om' = Flat /\ w' = Idle /\ m' = Idle
  /\ late' = late \union PollerLeaves
  /\ RecordOutcome(m.sig)
  /\ AnnounceClosed(m.sig)
  /\ UNCHANGED <<mode, approved, queue, accepting, filled, unpriced,
                 loop, g6, fc, er, entryQty, ord>>

(* Unfilled, or filled unseen: the flag is released and the loop retries.  *)
TargetCloseMissed ==
  /\ m.pc = "close"
  /\ \E q \in 0 .. entryQty[m.sig], seen \in BOOLEAN :
       EmergencyClose(m.sig, q, seen, FALSE) /\ (q = 0 \/ exitQty'[m.sig] <= MaxExit)
  /\ ReleaseClose
  /\ m' = [m EXCEPT !.pc = "poll"]
  /\ UNCHANGED <<mode, ksFired, approved, queue, accepting, filled, closed, recorded,
                 unpriced, loop, g6, fc, er, w, entryQty, ord, late>>

-----------------------------------------------------------------------------
(* The exchange                                                            *)

(* A leg is triggered.  It is reduceOnly: it executes against whatever the *)
(* account holds on its side, and not at all when there is nothing.        *)
LegFills(s, l) ==
  /\ ord[s][l] = "open"
  /\ \E q \in 1 .. entryQty[s] :
       /\ \/ q = entryQty[s] /\ q <= Sign(s) * NetPosition
          \/ q < entryQty[s] /\ q = Sign(s) * NetPosition
       /\ exitQty' = [exitQty EXCEPT ![s] = @ + q]
  /\ ord' = [ord EXCEPT ![s][l] = "filled"]
  /\ UNCHANGED <<mode, ksFired, approved, queue, execVars, taskVars,
                 entryQty, late>>

(* A request whose sender was cancelled reaches the exchange. *)
LateRequest(r) ==
  /\ r \in late
  /\ late' = late \ {r}
  /\ IF r.kind = "cancel"
     THEN CancelLegs(r.sig) /\ UNCHANGED exitQty
     ELSE /\ \E q \in 1 .. entryQty[r.sig] : exitQty' = [exitQty EXCEPT ![r.sig] = @ + q]
          /\ UNCHANGED ord
  /\ UNCHANGED <<mode, ksFired, approved, queue, execVars, taskVars, entryQty>>

-----------------------------------------------------------------------------
Gate6Task ==
  \/ Gate6Watch \/ Gate6SeesClosed
  \/ Gate6AlertDeferred \/ Gate6AlertSuppressed \/ Gate6Alert \/ Gate6AlertDryRun
  \/ Gate6Cancelled \/ Gate6CloseReply

LoopTask ==
  \/ Drain \/ Discard \/ SendEntry \/ EntryMissed
  \/ EntryFilledLive \/ EntryFilledDemo \/ EntryDryRun
  \/ TakeProfitPlaced \/ StopLossPlaced \/ BracketFailed
  \/ DeferredCancelled \/ LoopCloseReply

ForceCloseTask(k) ==
  KillswitchSlippage(k) \/ ForceCloseCancelled(k) \/ ForceCloseReply(k)

PollerTask == PollSeesFill \/ PollSeesUnpricedFill \/ PollerCancelled

MonitorTask == TargetTouched \/ TargetCloseFilled \/ TargetCloseMissed

Next ==
  \/ \E s \in Signals : Approve(s) \/ ExecutionReportDone(s)
  \/ \E s \in Signals, l \in Legs : ExecutionReport(s, l) \/ LegFills(s, l)
  \/ \E k \in Kills : KillswitchFires(k) \/ KillswitchUI(k) \/ ForceCloseTask(k)
  \/ \E r \in late : LateRequest(r)
  \/ Gate6Task \/ LoopTask \/ PollerTask \/ MonitorTask

(* A task that is runnable runs, and a REST call is answered or times out. *)
(* Gate6Task is fair even in "monitor": MICRO_MAX_HOLD_MS ends the watch.  *)
(* In demo mode a market order that is repeated is not missed forever.     *)
Fairness ==
  /\ WF_vars(Gate6Task) /\ WF_vars(LoopTask)
  /\ WF_vars(PollerTask) /\ WF_vars(MonitorTask)
  /\ \A k \in Kills : WF_vars(ForceCloseTask(k))
  /\ \A s \in Signals : WF_vars(ExecutionReportDone(s))
  /\ SF_vars(TargetCloseFilled)

Spec == Init /\ [][Next]_vars /\ Fairness
-----------------------------------------------------------------------------
(* Properties                                                              *)

(* No closer is ever stale: while a task is closing the position of one    *)
(* signal, the tracked position is that one or none, so the task's final   *)
(* reset cannot wipe a newer position.  Nothing in handle_protection_wall_ *)
(* removed checks it; it holds because approval of the next signal cancels *)
(* the old Gate 6 task, because the queue is first-in first-out, and       *)
(* because force_close_all stops acceptance first.                         *)
ClosersMatchPosition ==
  /\ loop.pc \in {"failClose", "deferCancel", "deferClose"} => om.sig \in {loop.sig, None}
  /\ g6.pc \in {"cancel", "close"} => om.sig \in {g6.cap, None}
  /\ \A k \in Kills : fc[k].pc \in {"cancel", "close"} => om.sig \in {fc[k].cap, None}
  /\ w.pc # "idle" => om.sig = w.sig
  /\ m.pc # "idle" => om.sig = m.sig

(* A position whose fill was announced is forgotten only after an order    *)
(* that reduces it has executed, or once acceptance is off: the engine     *)
(* never goes on trading with a position it has lost sight of.             *)
NoSilentForget ==
  \A s \in filled : om.sig = s \/ exitQty[s] > 0 \/ ~accepting

(* position_closed_event is set only for a request one of whose exit       *)
(* orders has executed (the S2 guarantee of handle_protection_wall_removed, *)
(* for every path that sets the event).                                    *)
ClosedMeansExited == \A s \in closed : exitQty[s] > 0

(* A closed trade is charged to the budget: when the event is set the      *)
(* outcome is booked, or the execution report's task is about to book it.  *)
(* The exceptions are the poller's fill without a price, and the killswitch *)
(* path, whose reset may race the booking.                                 *)
ClosedIsBooked ==
  \A s \in closed \ unpriced :
    recorded[s] > 0 \/ er[s] = "cancel" \/ ~accepting

(* No outcome is booked twice for one exit: every outcome charged to the   *)
(* budget is backed by an exit order of its own that executed, although    *)
(* the report, the poller, Gate 6, the bracket placement and the           *)
(* killswitch may all be finishing the same position.                      *)
BookedOncePerExit == \A s \in Signals : recorded[s] <= exitQty[s]

(* While trading is on, at most one emergency close is awaited: the flags  *)
(* of the S1 and S2 fixes keep Gate 6, the bracket placement and the       *)
(* software monitor apart.                                                 *)
ClosersExclude ==
  accepting =>
    /\ ~(g6.pc = "close" /\ loop.pc \in {"failClose", "deferClose"})
    /\ ~(g6.pc = "close" /\ m.pc = "close")

(* An alert deferred during bracket placement is acted upon: the flag is   *)
(* only ever taken down by the step that begins cancel-and-close.          *)
DeferredAlertActedOn ==
  [][om.cancelOnPlacement /\ ~om'.cancelOnPlacement
       => loop'.pc \in {"deferCancel", "failClose"}]_vars

(* Every approved request leaves the queue and the loop: the order loop is *)
(* never stuck behind a position, a kill or a failed call.                 *)
EveryRequestDisposed ==
  \A s \in Signals :
    s \in approved ~> s \notin Range(queue) /\ loop.sig # s

(* In demo mode, which has no bracket on the exchange, a position is given *)
(* up in the end: a missed close releases the flag and is retried.         *)
DemoPositionGivenUp ==
  \A s \in Signals : mode = "DEMO" /\ om.sig = s ~> om.sig # s

(* The abstract specification this one implements. *)
Slot == INSTANCE PositionSlot WITH
          slot <- om.sig, taken <- filled,
          exited <- {s \in Signals : exitQty[s] > 0}, halted <- ~accepting

(* Whatever the tasks do, the signals see a single position slot that is   *)
(* emptied only on an executed exit or a halt.                             *)
ImplementsSlot == Slot!SlotSpec

-----------------------------------------------------------------------------
(* What the code's comments say and the code does not do                   *)

(* "no double-close possible" (module docstring): the exit orders of a     *)
(* signal never execute more than its entry did.                           *)
NoDoubleClose == \A s \in filled : exitQty[s] <= entryQty[s]

(* "_watch_tp_sl will retry" (handle_protection_wall_removed): when Gate 6  *)
(* ends with its close unfilled and the position still open, the software  *)
(* monitor is running, or a leg of the bracket still protects it.  Refuted *)
(* by TLC: in live mode nobody is left to try again.                       *)
UnfilledExitIsRetried ==
  [][g6.pc = "close" /\ g6'.pc = "idle" /\ om'.sig \in Signals /\ om'.sig = g6.cap
       => \/ m'.pc # "idle"
          \/ \E l \in Legs : ord'[g6.cap][l] = "open"]_vars

(* "On any exception: cancel whatever orders were placed, then             *)
(* emergency-close" (_place_oco): once the failure path is over no leg of  *)
(* the bracket is left on the exchange.  Refuted by TLC: only legs whose   *)
(* ids were recorded are cancelled.                                        *)
FailedBracketIsCancelled ==
  [][loop.pc = "failClose" /\ loop'.pc = "idle"
       => \A l \in Legs : ord'[loop.sig][l] # "open"]_vars
=============================================================================
