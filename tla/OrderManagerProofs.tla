------------------------- MODULE OrderManagerProofs -------------------------
(***************************************************************************)
(* Proofs about OrderManager.tla for any number of signals, killswitch     *)
(* calls and lots, in all three modes:                                     *)
(*   TypeCorrect     the state keeps its shape                             *)
(*   ClosersMatch    no closer is ever stale                               *)
(*   ClosedExited    position_closed_event means an executed exit          *)
(*   Refinement      the execution layer implements PositionSlot           *)
(*   NothingForgotten  no position is silently forgotten                   *)
(*   ExitsBookedOnce, ClosedBooked  each exit is charged to the budget, once *)
(*   ClosersExcluded   the closers of one position exclude each other      *)
(*   DeferredAlertKept a deferred alert is never dropped                   *)
(* All rest on one inductive invariant, IndInv; the last four add          *)
(* AccountInv and ExclusionInv to it, both inductive given IndInv.         *)
(***************************************************************************)
EXTENDS OrderManager, TLAPS

LoopClosing == loop.pc \in {"failClose", "deferCancel", "deferClose"}
LoopPlacing == loop.pc \in {"tp", "sl"}

(* The order loop against the tracked position. *)
LoopInv ==
  /\ loop.pc \notin {"idle", "drain"} => loop.sig \in approved
  /\ loop.pc = "entry" => om.sig = None /\ loop.sig \notin filled
  /\ LoopPlacing => om.sig = loop.sig /\ om.placing /\ ~om.ids
  /\ LoopPlacing \/ LoopClosing => mode = "LIVE"
  /\ LoopClosing => om.sig \in {loop.sig, None} /\ loop.sig \in filled

(* A request is submitted at most once: the queue holds approved requests, *)
(* each once, none of them submitted before.                               *)
QueueInv ==
  /\ filled \subseteq approved
  /\ \A i \in 1 .. Len(queue) :
       /\ queue[i] \in approved /\ queue[i] \notin filled
       /\ loop.pc = "entry" => queue[i] # loop.sig
       /\ \A j \in 1 .. Len(queue) : queue[i] = queue[j] => i = j

(* Gate 6 watches the request approved last, so once that one is filled no *)
(* other can be on its way.                                                *)
GateInv ==
  /\ g6.pc # "idle" => g6.sig \in approved
  /\ g6.pc \in {"monitor", "cancel", "close"} => g6.sig \in filled
  /\ g6.pc # "idle" =>
       /\ \A i \in 1 .. Len(queue) : queue[i] = g6.sig => i = Len(queue)
       /\ loop.pc = "entry" /\ loop.sig = g6.sig => queue = <<>>
       /\ g6.sig \in filled => queue = <<>> /\ loop.pc # "entry"
  /\ g6.pc \in {"cancel", "close"} =>
       /\ ~LoopPlacing
       /\ g6.cap \in filled /\ om.sig \in {g6.cap, None}

(* Every call of force_close_all that reaches its REST calls has stopped   *)
(* acceptance with a position on record, so nothing is being entered.      *)
ForceInv ==
  \A k \in Kills : fc[k].pc \in {"cancel", "close"} =>
    /\ ~accepting /\ loop.pc # "entry" /\ ~LoopPlacing
    /\ fc[k].cap \in filled /\ om.sig \in {fc[k].cap, None}

(* The two watchers live and die with the position they watch. *)
WatcherInv ==
  /\ w.pc # "idle" => w.sig \in Signals /\ om.sig = w.sig /\ om.ids
  /\ w.pc = "cancel" => exitQty[w.sig] > 0
  /\ m.pc # "idle" => m.sig \in Signals /\ om.sig = m.sig /\ mode = "DEMO"

PositionInv ==
  /\ om.sig # None => om.sig \in filled
  /\ om.ids => om.sig # None
  /\ om.placing => LoopPlacing

(* The exchange against the records of it. *)
ExchangeInv ==
  /\ \A s \in filled : entryQty[s] > 0
  /\ \A s \in Signals : \A l \in Legs :
       /\ ord[s][l] \in {"open", "filled"} => s \in filled
       /\ ord[s][l] = "filled" => exitQty[s] > 0
  /\ \A s \in Signals : er[s] = "cancel" => exitQty[s] > 0
  /\ \A r \in late : r.sig \in filled
  /\ \A s \in closed : exitQty[s] > 0

IndInv ==
  /\ TypeOK /\ LoopInv /\ QueueInv /\ GateInv
  /\ ForceInv /\ WatcherInv /\ PositionInv /\ ExchangeInv

-----------------------------------------------------------------------------
(* How a step may change the position and the exchange *)

(* The tracked position stays, or is forgotten outside a placement. *)
PositionKept == om'.sig = om.sig /\ om'.ids = om.ids /\ om'.placing = om.placing
PositionStep ==
  \/ PositionKept
  \/ ~LoopPlacing /\ om' = Flat

WatcherStep ==
  \/ PositionKept /\ w' = w /\ m' = m
  \/ w' = Idle /\ m' = Idle

(* The order loop stays where it is, or is not about to enter a position. *)
LoopStep == loop' = loop \/ loop'.pc \notin {"entry", "tp", "sl"}

ExitsGrow == \A s \in Signals : exitQty'[s] >= exitQty[s]
LegsKept ==
  \A s \in Signals : \A l \in Legs :
    ord'[s][l] \in {"open", "filled"} => ord'[s][l] = ord[s][l]

-----------------------------------------------------------------------------
(* Steps that neither submit a request nor take a position.  What a step   *)
(* must satisfy on top of Keeps for a conjunct is its own premise.         *)

Keeps ==
  /\ UNCHANGED <<mode, approved, queue, filled, accepting, entryQty>>
  /\ PositionStep /\ WatcherStep /\ LoopStep /\ ExitsGrow /\ LegsKept

(* Requests left on the wire and requests announced closed are accounted   *)
(* for.                                                                    *)
LateTracked == \A r \in late' : r.sig \in filled
ClosedStep == \A s \in closed' : s \in closed \/ exitQty'[s] > 0

LEMMA LoopFrame ==
  ASSUME LoopInv, PositionStep, UNCHANGED <<loop, approved, filled, mode>>
  PROVE  LoopInv'
BY DEF LoopInv, PositionStep, PositionKept, LoopPlacing, LoopClosing, Flat

LEMMA QueueFrame ==
  ASSUME QueueInv, UNCHANGED <<queue, approved, filled>>, LoopStep
  PROVE  QueueInv'
BY DEF QueueInv, LoopStep

LEMMA GateFrame ==
  ASSUME GateInv, PositionStep, LoopStep, UNCHANGED <<g6, queue, approved, filled>>
  PROVE  GateInv'
BY DEF GateInv, PositionStep, PositionKept, LoopStep, LoopPlacing, Flat

LEMMA ForceFrame ==
  ASSUME ForceInv, PositionStep, LoopStep, UNCHANGED <<fc, filled>>,
         accepting' = accepting
  PROVE  ForceInv'
BY DEF ForceInv, PositionStep, PositionKept, LoopStep, LoopPlacing, Flat

LEMMA WatcherFrame ==
  ASSUME TypeOK, WatcherInv, WatcherStep, UNCHANGED mode, ExitsGrow,
         exitQty' \in [Signals -> Nat]
  PROVE  WatcherInv'
<1>1. CASE PositionKept /\ w' = w /\ m' = m
  BY <1>1 DEF TypeOK, WatcherInv, PositionKept, ExitsGrow
<1>2. CASE w' = Idle /\ m' = Idle
  BY <1>2 DEF WatcherInv, Idle
<1> QED
  BY <1>1, <1>2 DEF WatcherStep

LEMMA PositionFrame ==
  ASSUME PositionInv, PositionStep, UNCHANGED filled, loop' = loop \/ ~LoopPlacing
  PROVE  PositionInv'
BY DEF PositionInv, PositionStep, PositionKept, LoopPlacing, Flat

LEMMA ExchangeFrame ==
  ASSUME TypeOK, ExchangeInv, UNCHANGED <<filled, entryQty>>,
         ExitsGrow, exitQty' \in [Signals -> Nat], LegsKept, LateTracked, ClosedStep,
         \A s \in Signals : er'[s] = "cancel" => er[s] = "cancel" \/ exitQty[s] > 0
  PROVE  ExchangeInv'
<1>1. \A s \in Signals : exitQty[s] > 0 => exitQty'[s] > 0
  BY DEF TypeOK, ExitsGrow
<1>2. \A s \in filled : entryQty'[s] > 0
  BY DEF ExchangeInv
<1>3. \A s \in Signals : \A l \in Legs :
        /\ ord'[s][l] \in {"open", "filled"} => s \in filled'
        /\ ord'[s][l] = "filled" => exitQty'[s] > 0
  BY <1>1 DEF ExchangeInv, LegsKept
<1>4. \A s \in Signals : er'[s] = "cancel" => exitQty'[s] > 0
  BY <1>1 DEF ExchangeInv
<1>5. \A s \in closed' : exitQty'[s] > 0
  BY <1>1 DEF ExchangeInv, TypeOK, ClosedStep
<1> QED
  BY <1>2, <1>3, <1>4, <1>5 DEF ExchangeInv, LateTracked

LEMMA Frames ==
  ASSUME IndInv, Keeps, exitQty' \in [Signals -> Nat]
  PROVE  /\ QueueInv' /\ WatcherInv'
         /\ loop' = loop => LoopInv' /\ PositionInv'
         /\ ~LoopPlacing => PositionInv'
         /\ g6' = g6 => GateInv'
         /\ fc' = fc => ForceInv'
         /\ LateTracked /\ ClosedStep /\ er' = er => ExchangeInv'
<1>1. TypeOK /\ LoopInv /\ QueueInv /\ GateInv /\ ForceInv /\ WatcherInv
      /\ PositionInv /\ ExchangeInv
  BY DEF IndInv
<1>2. /\ UNCHANGED mode /\ UNCHANGED approved /\ UNCHANGED queue /\ UNCHANGED filled
      /\ accepting' = accepting /\ UNCHANGED entryQty
      /\ PositionStep /\ WatcherStep /\ LoopStep /\ ExitsGrow /\ LegsKept
  BY DEF Keeps
<1>3. QueueInv'
  BY <1>1, <1>2, QueueFrame
<1>4. WatcherInv'
  BY <1>1, <1>2, WatcherFrame
<1>5. loop' = loop => LoopInv' /\ PositionInv'
  BY <1>1, <1>2, LoopFrame, PositionFrame
<1>6. ~LoopPlacing => PositionInv'
  BY <1>1, <1>2, PositionFrame
<1>7. g6' = g6 => GateInv'
  BY <1>1, <1>2, GateFrame
<1>8. fc' = fc => ForceInv'
  BY <1>1, <1>2, ForceFrame
<1>9. LateTracked /\ ClosedStep /\ er' = er => ExchangeInv'
  BY <1>1, <1>2, ExchangeFrame
<1> QED
  BY <1>3, <1>4, <1>5, <1>6, <1>7, <1>8, <1>9
-----------------------------------------------------------------------------
(* What the steps that several handlers share leave behind *)

LEMMA FlatTyped == Flat \in Fields /\ Idle \in PollerStates /\ Idle \in MonitorStates
BY DEF Flat, Idle, Fields, PollerStates, MonitorStates, SignalOrNone

(* What a cancelled watcher leaves on the wire. *)
LEMMA LeavesFacts ==
  ASSUME TypeOK, WatcherInv, PositionInv
  PROVE  /\ PollerLeaves \subseteq Requests /\ \A r \in PollerLeaves : r.sig \in filled
         /\ MonitorLeaves \subseteq Requests /\ \A r \in MonitorLeaves : r.sig \in filled
<1>1. PollerLeaves \subseteq Requests /\ \A r \in PollerLeaves : r.sig \in filled
  BY SignalsAssumption
     DEF PollerLeaves, Unawaited, Requests, SignalOrNone, WatcherInv, PositionInv
<1>2. MonitorLeaves \subseteq Requests /\ \A r \in MonitorLeaves : r.sig \in filled
  BY SignalsAssumption
     DEF MonitorLeaves, Unawaited, Requests, SignalOrNone, WatcherInv, PositionInv
<1> QED
  BY <1>1, <1>2

(* _reset_open_position leaves no position, no watcher, and on the wire at *)
(* most the request of the watcher it cancelled.                           *)
LEMMA ResetFacts ==
  ASSUME TypeOK, WatcherInv, PositionInv, ExchangeInv, ResetOpenPosition
  PROVE  /\ om' = Flat /\ om' \in Fields
         /\ w' = Idle /\ w' \in PollerStates
         /\ m' = Idle /\ m' \in MonitorStates
         /\ late' \subseteq Requests /\ \A r \in late' : r.sig \in filled
BY FlatTyped, LeavesFacts DEF ResetOpenPosition, TypeOK, ExchangeInv

LEMMA CloseFacts ==
  ASSUME TypeOK, NEW s \in Signals, NEW q, NEW seen \in BOOLEAN, NEW isClosed \in BOOLEAN,
         EmergencyClose(s, q, seen, isClosed)
  PROVE  /\ exitQty' \in [Signals -> Nat]
         /\ ExitsGrow
         /\ isClosed => exitQty'[s] > 0
<1>1. entryQty[s] \in Nat /\ q \in 0 .. entryQty[s]
  BY DEF TypeOK, EmergencyClose
<1>3. q \in Nat
  BY <1>1
<1>4. exitQty' = [exitQty EXCEPT ![s] = @ + q] /\ (isClosed => q > 0)
  BY DEF EmergencyClose
<1>2. exitQty \in [Signals -> Nat]
  BY DEF TypeOK
<1> QED
  BY <1>2, <1>3, <1>4 DEF ExitsGrow

LEMMA CancelFacts ==
  ASSUME TypeOK, NEW s, CancelLegs(s)
  PROVE  ord' \in [Signals -> [Legs -> OrderStatus]] /\ LegsKept
<1>1. PICK c \in SUBSET {l \in Legs : ord[s][l] = "open"} :
        ord' = [ord EXCEPT ![s] = [l \in Legs |-> IF l \in c THEN "cancelled" ELSE ord[s][l]]]
  BY DEF CancelLegs
<1>2. ASSUME NEW x \in Signals
      PROVE  /\ ord'[x] \in [Legs -> OrderStatus]
             /\ \A l \in Legs : ord'[x][l] \in {"open", "filled"} => ord'[x][l] = ord[x][l]
  <2>1. CASE x = s
    BY <1>1, <2>1 DEF TypeOK, OrderStatus
  <2>2. CASE x # s
    BY <1>1, <2>2 DEF TypeOK
  <2> QED
    BY <2>1, <2>2
<1>3. ord' = [x \in Signals |-> ord'[x]]
  BY <1>1 DEF TypeOK
<1>4. ord' \in [Signals -> [Legs -> OrderStatus]]
  BY <1>2, <1>3
<1> QED
  BY <1>2, <1>4 DEF LegsKept

LEMMA RecordFacts ==
  ASSUME TypeOK, NEW s \in SignalOrNone, RecordOutcome(s)
  PROVE  recorded' \in [Signals -> Nat] /\ ksFired' \in BOOLEAN
<1>1. CASE s = None
  BY <1>1 DEF TypeOK, RecordOutcome
<1>2. CASE s # None
  <2>1. s \in Signals /\ recorded' = [recorded EXCEPT ![s] = @ + 1]
    BY <1>2 DEF RecordOutcome, SignalOrNone
  <2>2. ksFired' \in BOOLEAN
    BY <1>2 DEF TypeOK, RecordOutcome
  <2> QED
    BY <2>1, <2>2 DEF TypeOK
<1> QED
  BY <1>1, <1>2

LEMMA NoExitYet ==
  ASSUME TypeOK, UNCHANGED exitQty
  PROVE  ExitsGrow /\ exitQty' \in [Signals -> Nat]
BY DEF TypeOK, ExitsGrow

LEMMA NoLegChange ==
  ASSUME UNCHANGED ord
  PROVE  LegsKept
BY DEF LegsKept

(* A flag of the tracked position changes and nothing else of it does. *)
LEMMA FlagFacts ==
  ASSUME TypeOK,
         \/ om' = om
         \/ om' = [om EXCEPT !.closing = TRUE] \/ om' = [om EXCEPT !.closing = FALSE]
         \/ om' = [om EXCEPT !.cancelOnPlacement = TRUE]
         \/ om' = [om EXCEPT !.entering = TRUE] \/ om' = [om EXCEPT !.entering = FALSE]
  PROVE  om' \in Fields /\ PositionKept
BY DEF TypeOK, Fields, PositionKept

(* The two usual ways to keep the frame: the position is left alone, or it *)
(* is forgotten together with its watchers.                                *)
LEMMA KeepsPosition ==
  ASSUME TypeOK, UNCHANGED <<mode, approved, queue, filled, accepting, entryQty>>,
         PositionKept, UNCHANGED <<w, m>>, LoopStep, ExitsGrow, LegsKept
  PROVE  Keeps
BY DEF Keeps, PositionStep, WatcherStep

LEMMA KeepsReset ==
  ASSUME UNCHANGED <<mode, approved, queue, filled, accepting, entryQty>>,
         om' = Flat, w' = Idle, m' = Idle, ~LoopPlacing, LoopStep, ExitsGrow, LegsKept
  PROVE  Keeps
BY DEF Keeps, PositionStep, WatcherStep

LEMMA LoopIdle ==
  ASSUME loop'.pc \in {"idle", "drain"}
  PROVE  LoopInv'
BY DEF LoopInv, LoopPlacing, LoopClosing

LEMMA GateIdle ==
  ASSUME g6'.pc = "idle"
  PROVE  GateInv'
BY DEF GateInv
-----------------------------------------------------------------------------
(* The Gate 6 task *)

LEMMA GateTyped ==
  ASSUME TypeOK,
         \/ Gate6Stops
         \/ \E p \in {"monitor", "cancel", "close"}, c \in {g6.cap, om.sig} :
              g6' = [g6 EXCEPT !.pc = p, !.cap = c] \/ g6' = [g6 EXCEPT !.pc = p]
  PROVE  g6' \in GateStates
<1>1. g6 \in GateStates /\ om.sig \in SignalOrNone
  BY DEF TypeOK, Fields
<1>2. CASE Gate6Stops
  BY <1>2 DEF Gate6Stops, GateStates, SignalOrNone
<1>3. ASSUME NEW p \in {"monitor", "cancel", "close"}, NEW c \in {g6.cap, om.sig},
             \/ g6' = [g6 EXCEPT !.pc = p, !.cap = c] \/ g6' = [g6 EXCEPT !.pc = p]
      PROVE  g6' \in GateStates
  BY <1>1, <1>3 DEF GateStates
<1> QED
  BY <1>2, <1>3

LEMMA Gate6Watch_Inv ==
  ASSUME IndInv, Gate6Watch
  PROVE  IndInv'
<1>0. TypeOK
  BY DEF IndInv
<1>1. g6' \in GateStates
  BY <1>0, GateTyped DEF Gate6Watch
<1>2. TypeOK'
  BY <1>0, <1>1 DEF TypeOK, Gate6Watch, execVars, exchVars
<1>3. ExitsGrow /\ LegsKept /\ exitQty' \in [Signals -> Nat]
  BY <1>0, NoExitYet, NoLegChange DEF Gate6Watch, exchVars
<1>4. Keeps
  BY <1>0, <1>3, KeepsPosition DEF Gate6Watch, execVars, exchVars, PositionKept, LoopStep
<1>5. LateTracked /\ ClosedStep
  BY DEF IndInv, ExchangeInv, Gate6Watch, execVars, exchVars, LateTracked, ClosedStep
<1>6. GateInv'
  <2>1. CASE g6.sig \in filled
    <3>1. g6'.pc = "monitor" /\ g6'.sig = g6.sig
      BY <1>0, <2>1 DEF TypeOK, GateStates, Gate6Watch
    <3> QED
      BY <2>1, <3>1 DEF IndInv, GateInv, Gate6Watch, execVars
  <2>2. CASE g6.sig \notin filled
    BY <2>2, GateIdle DEF Gate6Watch, Gate6Stops
  <2> QED
    BY <2>1, <2>2
<1> QED
  BY <1>2, <1>3, <1>4, <1>5, <1>6, Frames DEF IndInv, Gate6Watch

LEMMA Gate6SeesClosed_Inv ==
  ASSUME IndInv, Gate6SeesClosed
  PROVE  IndInv'
<1>0. TypeOK
  BY DEF IndInv
<1>1. g6' \in GateStates
  BY <1>0, GateTyped DEF Gate6SeesClosed
<1>2. TypeOK'
  BY <1>0, <1>1 DEF TypeOK, Gate6SeesClosed, execVars, exchVars
<1>3. ExitsGrow /\ LegsKept /\ exitQty' \in [Signals -> Nat]
  BY <1>0, NoExitYet, NoLegChange DEF Gate6SeesClosed, exchVars
<1>4. Keeps
  BY <1>0, <1>3, KeepsPosition DEF Gate6SeesClosed, execVars, exchVars, PositionKept, LoopStep
<1>5. LateTracked /\ ClosedStep
  BY DEF IndInv, ExchangeInv, Gate6SeesClosed, execVars, exchVars, LateTracked, ClosedStep
<1>6. GateInv'
  BY GateIdle DEF Gate6SeesClosed, Gate6Stops
<1> QED
  BY <1>2, <1>3, <1>4, <1>5, <1>6, Frames DEF IndInv, Gate6SeesClosed

(* Deferred or suppressed: at most a flag of the position changes. *)
LEMMA Gate6AlertPassed_Inv ==
  ASSUME IndInv, Gate6AlertDeferred \/ Gate6AlertSuppressed
  PROVE  IndInv'
<1>0. TypeOK
  BY DEF IndInv
<1>1. g6' \in GateStates /\ g6'.pc = "idle"
  BY <1>0, GateTyped DEF Gate6AlertDeferred, Gate6AlertSuppressed, Gate6Stops
<1>2. om' \in Fields /\ PositionKept
  BY <1>0, FlagFacts DEF Gate6AlertDeferred, Gate6AlertSuppressed, execVars
<1>3. TypeOK'
  BY <1>0, <1>1, <1>2 DEF TypeOK, Gate6AlertDeferred, Gate6AlertSuppressed, execVars, exchVars
<1>4. ExitsGrow /\ LegsKept /\ exitQty' \in [Signals -> Nat]
  BY <1>0, NoExitYet, NoLegChange DEF Gate6AlertDeferred, Gate6AlertSuppressed, exchVars
<1>5. Keeps
  BY <1>0, <1>2, <1>4, KeepsPosition
     DEF Gate6AlertDeferred, Gate6AlertSuppressed, execVars, exchVars, LoopStep
<1>6. LateTracked /\ ClosedStep
  BY DEF IndInv, ExchangeInv, Gate6AlertDeferred, Gate6AlertSuppressed, execVars, exchVars,
         LateTracked, ClosedStep
<1> QED
  BY <1>1, <1>3, <1>4, <1>5, <1>6, Frames, GateIdle
     DEF IndInv, Gate6AlertDeferred, Gate6AlertSuppressed

(* Nobody places a bracket and the watched request is filled, so the       *)
(* position captured, if there is one, is of a filled request.             *)
LEMMA Gate6Alert_Inv ==
  ASSUME IndInv, Gate6Alert
  PROVE  IndInv'
<1>0. TypeOK
  BY DEF IndInv
<1>1. g6' \in GateStates
  BY <1>0, GateTyped DEF Gate6Alert
<1>2. om' \in Fields /\ PositionKept
  BY <1>0, FlagFacts DEF Gate6Alert
<1>3. TypeOK'
  BY <1>0, <1>1, <1>2 DEF TypeOK, Gate6Alert, exchVars
<1>4. ExitsGrow /\ LegsKept /\ exitQty' \in [Signals -> Nat]
  BY <1>0, NoExitYet, NoLegChange DEF Gate6Alert, exchVars
<1>5. Keeps
  BY <1>0, <1>2, <1>4, KeepsPosition DEF Gate6Alert, exchVars, LoopStep
<1>6. LateTracked /\ ClosedStep
  BY DEF IndInv, ExchangeInv, Gate6Alert, exchVars, LateTracked, ClosedStep
<1>7. GateInv'
  <2>1. CASE g6'.pc = "idle"
    BY <2>1, GateIdle
  <2>2. CASE g6'.pc # "idle"
    <3>1. om.sig # None /\ om.sig \in filled
      BY <2>2 DEF IndInv, PositionInv, Gate6Alert, Gate6Stops
    <3>2. g6'.sig = g6.sig /\ g6'.cap = om.sig /\ om'.sig = om.sig
      <4>1. g6 \in GateStates
        BY <1>0 DEF TypeOK
      <4>2. \/ g6' = [g6 EXCEPT !.pc = "cancel", !.cap = om.sig]
            \/ g6' = [g6 EXCEPT !.pc = "close", !.cap = om.sig]
        BY <2>2 DEF Gate6Alert, Gate6Stops
      <4> QED
        BY <1>2, <4>1, <4>2 DEF GateStates, PositionKept
    <3>3. ~LoopPlacing
      BY DEF IndInv, LoopInv, Gate6Alert, NoOtherCloser
    <3> QED
      BY <3>1, <3>2, <3>3 DEF IndInv, GateInv, Gate6Alert, LoopPlacing
  <2> QED
    BY <2>1, <2>2
<1> QED
  BY <1>3, <1>4, <1>5, <1>6, <1>7, Frames DEF IndInv, Gate6Alert

LEMMA Gate6Cancelled_Inv ==
  ASSUME IndInv, Gate6Cancelled
  PROVE  IndInv'
<1>0. TypeOK
  BY DEF IndInv
<1>1. g6' \in GateStates /\ g6'.pc = "close" /\ g6'.sig = g6.sig /\ g6'.cap = g6.cap
  <2>1. g6' = [g6 EXCEPT !.pc = "close"] /\ g6 \in GateStates
    BY <1>0 DEF Gate6Cancelled, TypeOK
  <2> QED
    BY <2>1 DEF GateStates
<1>2. om' \in Fields /\ PositionKept
  BY <1>0, FlagFacts DEF Gate6Cancelled
<1>3. ord' \in [Signals -> [Legs -> OrderStatus]] /\ LegsKept
  BY <1>0, CancelFacts DEF Gate6Cancelled
<1>4. TypeOK'
  BY <1>0, <1>1, <1>2, <1>3 DEF TypeOK, Gate6Cancelled
<1>5. ExitsGrow /\ exitQty' \in [Signals -> Nat]
  BY <1>0, NoExitYet DEF Gate6Cancelled
<1>6. Keeps
  BY <1>0, <1>2, <1>3, <1>5, KeepsPosition DEF Gate6Cancelled, LoopStep
<1>7. LateTracked /\ ClosedStep
  BY DEF IndInv, ExchangeInv, Gate6Cancelled, LateTracked, ClosedStep
<1>8. GateInv'
  BY <1>1, <1>2 DEF IndInv, GateInv, Gate6Cancelled, LoopPlacing, PositionKept
<1> QED
  BY <1>4, <1>5, <1>6, <1>7, <1>8, Frames DEF IndInv, Gate6Cancelled

(* The close is answered: filled, everything is reset; unfilled, the flag  *)
(* comes down.                                                             *)
LEMMA Gate6CloseReply_Inv ==
  ASSUME IndInv, Gate6CloseReply
  PROVE  IndInv'
<1>0. TypeOK /\ ~LoopPlacing /\ g6.cap \in Signals
  BY DEF IndInv, GateInv, TypeOK, Gate6CloseReply
<1>1. PICK q \in 0 .. entryQty[g6.cap], seen \in BOOLEAN, isClosed \in BOOLEAN :
        /\ EmergencyClose(g6.cap, q, seen, isClosed)
        /\ IF isClosed
           THEN ResetOpenPosition /\ RecordOutcome(om.sig) /\ AnnounceClosed(g6.cap)
           ELSE ReleaseClose /\ UNCHANGED <<recorded, ksFired, closed, w, m, late>>
  BY DEF Gate6CloseReply
<1>2. exitQty' \in [Signals -> Nat] /\ ExitsGrow /\ (isClosed => exitQty'[g6.cap] > 0)
  BY <1>0, <1>1, CloseFacts
<1>3. g6' \in GateStates /\ g6'.pc = "idle"
  BY <1>0, GateTyped DEF Gate6CloseReply, Gate6Stops
<1>4. LegsKept
  BY NoLegChange DEF Gate6CloseReply
<1>5. CASE isClosed
  <2>1. /\ om' = Flat /\ om' \in Fields
        /\ w' = Idle /\ w' \in PollerStates /\ m' = Idle /\ m' \in MonitorStates
        /\ late' \subseteq Requests /\ LateTracked
    BY <1>0, <1>1, <1>5, ResetFacts DEF IndInv, LateTracked
  <2>2. recorded' \in [Signals -> Nat] /\ ksFired' \in BOOLEAN
    BY <1>0, <1>1, <1>5, RecordFacts DEF TypeOK, Fields
  <2>3. closed' \subseteq Signals /\ ClosedStep
    BY <1>0, <1>1, <1>2, <1>5 DEF TypeOK, AnnounceClosed, ClosedStep
  <2>4. TypeOK'
    BY <1>0, <1>2, <1>3, <2>1, <2>2, <2>3 DEF TypeOK, Gate6CloseReply
  <2>5. Keeps
    BY <1>0, <1>2, <1>4, <2>1, KeepsReset DEF Gate6CloseReply, LoopStep
  <2> QED
    BY <1>2, <1>3, <2>1, <2>3, <2>4, <2>5, Frames, GateIdle DEF IndInv, Gate6CloseReply
<1>6. CASE ~isClosed
  <2>1. om' \in Fields /\ PositionKept
    BY <1>0, <1>1, <1>6, FlagFacts DEF ReleaseClose
  <2>2. UNCHANGED <<recorded, ksFired, closed, w, m, late>>
    BY <1>1, <1>6
  <2>3. TypeOK'
    BY <1>0, <1>2, <1>3, <2>1, <2>2 DEF TypeOK, Gate6CloseReply
  <2>4. Keeps
    BY <1>0, <1>2, <1>4, <2>1, <2>2, KeepsPosition DEF Gate6CloseReply, LoopStep
  <2>5. LateTracked /\ ClosedStep
    BY <2>2 DEF IndInv, ExchangeInv, LateTracked, ClosedStep
  <2> QED
    BY <1>2, <1>3, <2>3, <2>4, <2>5, Frames, GateIdle DEF IndInv, Gate6CloseReply
<1> QED
  BY <1>5, <1>6

LEMMA Gate6AlertDryRun_Inv ==
  ASSUME IndInv, Gate6AlertDryRun
  PROVE  IndInv'
<1>0. TypeOK /\ ~LoopPlacing
  BY DEF IndInv, LoopInv, Gate6AlertDryRun
<1>1. om.sig \in SignalOrNone /\ entryQty \in [Signals -> Nat] /\ exitQty \in [Signals -> Nat]
  BY <1>0 DEF TypeOK, Fields
<1>2. /\ exitQty' \in [Signals -> Nat] /\ ExitsGrow
      /\ om.sig # None => exitQty'[om.sig] > 0
  <2>1. CASE om.sig = None
    BY <1>1, <2>1 DEF Gate6AlertDryRun, PaperClose, ExitsGrow
  <2>2. CASE om.sig # None
    <3>1. om.sig \in Signals /\ entryQty[om.sig] \in Nat /\ entryQty[om.sig] > 0
      BY <1>1, <2>2 DEF IndInv, PositionInv, ExchangeInv, SignalOrNone
    <3>2. exitQty' = [exitQty EXCEPT ![om.sig] = @ + entryQty[om.sig]]
      BY <2>2 DEF Gate6AlertDryRun, PaperClose
    <3> QED
      BY <1>1, <3>1, <3>2 DEF ExitsGrow
  <2> QED
    BY <2>1, <2>2
<1>3. g6' \in GateStates /\ g6'.pc = "idle"
  BY <1>0, GateTyped DEF Gate6AlertDryRun, Gate6Stops
<1>4. /\ om' = Flat /\ om' \in Fields
      /\ w' = Idle /\ w' \in PollerStates /\ m' = Idle /\ m' \in MonitorStates
      /\ late' \subseteq Requests /\ LateTracked
  BY <1>0, ResetFacts DEF IndInv, Gate6AlertDryRun, PaperClose, LateTracked
<1>5. recorded' \in [Signals -> Nat] /\ ksFired' \in BOOLEAN
  BY <1>0, <1>1, RecordFacts DEF Gate6AlertDryRun, PaperClose
<1>6. closed' \subseteq Signals /\ ClosedStep
  BY <1>0, <1>1, <1>2 DEF TypeOK, Gate6AlertDryRun, PaperClose, ClosedStep, SignalOrNone
<1>7. TypeOK'
  BY <1>0, <1>2, <1>3, <1>4, <1>5, <1>6 DEF TypeOK, Gate6AlertDryRun
<1>8. Keeps
  BY <1>0, <1>2, <1>4, KeepsReset, NoLegChange DEF Gate6AlertDryRun, LoopStep
<1> QED
  BY <1>2, <1>3, <1>4, <1>6, <1>7, <1>8, Frames, GateIdle DEF IndInv, Gate6AlertDryRun
-----------------------------------------------------------------------------
(* The killswitch *)

LEMMA ForceTyped ==
  ASSUME TypeOK, NEW k \in Kills,
         NEW p \in {"unused", "pending", "cancel", "close", "done"},
         \/ fc' = [fc EXCEPT ![k].pc = p]
         \/ fc' = [fc EXCEPT ![k] = [pc |-> p, cap |-> om.sig]]
  PROVE  /\ fc' \in [Kills -> ForceStates]
         /\ \A j \in Kills : j # k => fc'[j] = fc[j]
         /\ fc'[k].pc = p
         /\ fc'[k].cap = fc[k].cap \/ fc'[k].cap = om.sig
<1>1. fc \in [Kills -> ForceStates] /\ om.sig \in SignalOrNone
  BY DEF TypeOK, Fields
<1>2. fc[k] \in ForceStates
  BY <1>1
<1>3. CASE fc' = [fc EXCEPT ![k].pc = p]
  <2>1. fc'[k] = [fc[k] EXCEPT !.pc = p]
    BY <1>1, <1>3
  <2>2. fc'[k] \in ForceStates /\ fc'[k].pc = p /\ fc'[k].cap = fc[k].cap
    BY <1>2, <2>1 DEF ForceStates
  <2> QED
    BY <1>1, <1>3, <2>2
<1>4. CASE fc' = [fc EXCEPT ![k] = [pc |-> p, cap |-> om.sig]]
  <2>1. fc'[k] = [pc |-> p, cap |-> om.sig] /\ fc'[k] \in ForceStates
    BY <1>1, <1>4 DEF ForceStates
  <2> QED
    BY <1>1, <1>4, <2>1
<1> QED
  BY <1>3, <1>4

(* What force_close_all does before its first REST call, whoever calls it: *)
(* acceptance stops, and the call goes on only with a position on record   *)
(* that nobody is placing a bracket for.                                   *)
LEMMA ForceClose_Inv ==
  ASSUME IndInv, NEW k \in Kills, ForceClose(k), ksFired' \in BOOLEAN
  PROVE  IndInv'
<1>0. TypeOK
  BY DEF IndInv
<1>1. UNCHANGED <<mode, approved, queue, filled, unpriced, loop, g6, er, entryQty, ord>>
  BY DEF ForceClose
<1>2. om.sig \in SignalOrNone /\ entryQty \in [Signals -> Nat] /\ exitQty \in [Signals -> Nat]
  BY <1>0 DEF TypeOK, Fields
<1>3. LegsKept /\ LoopStep
  BY <1>1, NoLegChange DEF LoopStep
<1>4. fc' \in [Kills -> ForceStates] /\ (\A j \in Kills : j # k => fc'[j] = fc[j])
      /\ fc'[k].pc \in {"cancel", "close", "done"}
  BY <1>0, ForceTyped DEF ForceClose
<1>5. CASE om.sig # None /\ mode = "DRY_RUN"
  <2>1. /\ fc' = [fc EXCEPT ![k].pc = "done"] /\ ResetOpenPosition
        /\ recorded' = [recorded EXCEPT ![om.sig] = @ + 1]
        /\ closed' = closed \union {om.sig}
        /\ exitQty' = [exitQty EXCEPT ![om.sig] = @ + entryQty[om.sig]]
    BY <1>5 DEF ForceClose
  <2>2. om.sig \in Signals /\ entryQty[om.sig] \in Nat /\ entryQty[om.sig] > 0
    BY <1>2, <1>5 DEF IndInv, PositionInv, ExchangeInv, SignalOrNone
  <2>3. exitQty' \in [Signals -> Nat] /\ ExitsGrow /\ exitQty'[om.sig] > 0
    BY <1>2, <2>1, <2>2 DEF ExitsGrow
  <2>4. /\ om' = Flat /\ om' \in Fields
        /\ w' = Idle /\ w' \in PollerStates /\ m' = Idle /\ m' \in MonitorStates
        /\ late' \subseteq Requests /\ LateTracked
    BY <1>0, <2>1, ResetFacts DEF IndInv, LateTracked
  <2>5. recorded' \in [Signals -> Nat] /\ closed' \subseteq Signals /\ ClosedStep
    BY <1>0, <2>1, <2>2, <2>3 DEF TypeOK, ClosedStep
  <2>6. ~LoopPlacing
    BY <1>5 DEF IndInv, LoopInv
  <2>7. fc'[k].pc = "done"
    BY <1>0, <2>1, ForceTyped
  <2>8. accepting' = FALSE
    BY DEF ForceClose
  <2>9. TypeOK'
    BY <1>0, <1>1, <1>4, <2>3, <2>4, <2>5, <2>8 DEF TypeOK
  <2>10. PositionStep /\ WatcherStep
    BY <2>4, <2>6 DEF PositionStep, WatcherStep
  <2>11. ForceInv'
    <3> SUFFICES ASSUME NEW j \in Kills, fc'[j].pc \in {"cancel", "close"}
                 PROVE  /\ ~accepting' /\ loop'.pc # "entry" /\ ~LoopPlacing'
                        /\ fc'[j].cap \in filled' /\ om'.sig \in {fc'[j].cap, None}
      BY DEF ForceInv
    <3> QED
      BY <1>1, <1>4, <2>4, <2>7, <2>8 DEF IndInv, ForceInv, LoopPlacing, Flat
  <2>12. LoopInv' /\ QueueInv' /\ GateInv'
    BY <1>1, <1>3, <2>10, LoopFrame, QueueFrame, GateFrame DEF IndInv
  <2>13. WatcherInv' /\ PositionInv' /\ ExchangeInv'
    BY <1>0, <1>1, <1>3, <2>3, <2>4, <2>5, <2>10, WatcherFrame, PositionFrame, ExchangeFrame
       DEF IndInv
  <2> QED
    BY <2>9, <2>11, <2>12, <2>13 DEF IndInv
<1>6. CASE ~(om.sig # None /\ mode = "DRY_RUN")
  <2>1. UNCHANGED <<w, m, late, recorded, closed, exitQty>> /\ accepting' = FALSE
    BY <1>6 DEF ForceClose
  <2>2. om' \in Fields /\ PositionKept
    BY <1>0, <1>6, FlagFacts DEF ForceClose
  <2>3. TypeOK'
    BY <1>0, <1>1, <1>4, <2>1, <2>2 DEF TypeOK
  <2>4. PositionStep /\ WatcherStep /\ ExitsGrow /\ exitQty' \in [Signals -> Nat]
        /\ LateTracked /\ ClosedStep
    BY <1>0, <2>1, <2>2, NoExitYet
       DEF IndInv, ExchangeInv, PositionStep, WatcherStep, LateTracked, ClosedStep
  <2>5. ForceInv'
    <3> SUFFICES ASSUME NEW j \in Kills, fc'[j].pc \in {"cancel", "close"}
                 PROVE  /\ ~accepting' /\ loop'.pc # "entry" /\ ~LoopPlacing'
                        /\ fc'[j].cap \in filled' /\ om'.sig \in {fc'[j].cap, None}
      BY DEF ForceInv
    <3>1. CASE j # k
      BY <1>1, <1>4, <2>1, <2>2, <3>1 DEF IndInv, ForceInv, LoopPlacing, PositionKept
    <3>2. CASE j = k
      <4>0. fc \in [Kills -> ForceStates] /\ fc'[k].pc # "done"
        BY <1>0, <3>2 DEF TypeOK
      <4>1. /\ om.sig # None /\ ~om.placing
            /\ \/ fc' = [fc EXCEPT ![k] = [pc |-> "cancel", cap |-> om.sig]]
               \/ fc' = [fc EXCEPT ![k] = [pc |-> "close", cap |-> om.sig]]
        <5>1. fc' # [fc EXCEPT ![k].pc = "done"]
          BY <1>0, <4>0, ForceTyped
        <5> QED
          BY <1>6, <5>1 DEF ForceClose
      <4>3. fc'[k].cap = om.sig
        BY <4>0, <4>1
      <4>2. om.sig \in filled /\ ~LoopPlacing /\ loop.pc # "entry"
        BY <4>1 DEF IndInv, LoopInv, PositionInv
      <4> QED
        BY <1>1, <2>1, <2>2, <3>2, <4>2, <4>3 DEF LoopPlacing, PositionKept
    <3> QED
      BY <3>1, <3>2
  <2>6. LoopInv' /\ QueueInv' /\ GateInv'
    BY <1>1, <1>3, <2>4, LoopFrame, QueueFrame, GateFrame DEF IndInv
  <2>7. WatcherInv' /\ PositionInv' /\ ExchangeInv'
    BY <1>0, <1>1, <1>3, <2>4, WatcherFrame, PositionFrame, ExchangeFrame DEF IndInv
  <2> QED
    BY <2>3, <2>5, <2>6, <2>7 DEF IndInv
<1> QED
  BY <1>5, <1>6

LEMMA Killswitch_Inv ==
  ASSUME IndInv, NEW k \in Kills,
         KillswitchFires(k) \/ KillswitchUI(k) \/ KillswitchSlippage(k)
  PROVE  IndInv'
<1>1. ForceClose(k) /\ ksFired' \in BOOLEAN
  BY DEF IndInv, TypeOK, KillswitchFires, KillswitchUI, KillswitchSlippage
<1> QED
  BY <1>1, ForceClose_Inv

LEMMA ForceCloseCancelled_Inv ==
  ASSUME IndInv, NEW k \in Kills, ForceCloseCancelled(k)
  PROVE  IndInv'
<1>0. TypeOK
  BY DEF IndInv
<1>1. /\ fc' \in [Kills -> ForceStates]
      /\ (\A j \in Kills : j # k => fc'[j] = fc[j])
      /\ fc'[k].pc = "close" /\ fc'[k].cap = fc[k].cap
  <2>1. fc' = [fc EXCEPT ![k].pc = "close"] /\ fc \in [Kills -> ForceStates]
    BY <1>0 DEF ForceCloseCancelled, TypeOK
  <2>2. fc'[k] = [fc[k] EXCEPT !.pc = "close"] /\ fc[k] \in ForceStates
    BY <2>1
  <2> QED
    BY <1>0, <2>1, <2>2, ForceTyped DEF ForceStates
<1>2. om' \in Fields /\ PositionKept
  BY <1>0, FlagFacts DEF ForceCloseCancelled
<1>3. ord' \in [Signals -> [Legs -> OrderStatus]] /\ LegsKept
  BY <1>0, CancelFacts DEF ForceCloseCancelled
<1>4. TypeOK'
  BY <1>0, <1>1, <1>2, <1>3 DEF TypeOK, ForceCloseCancelled
<1>5. ExitsGrow /\ exitQty' \in [Signals -> Nat]
  BY <1>0, NoExitYet DEF ForceCloseCancelled
<1>6. Keeps
  BY <1>0, <1>2, <1>3, <1>5, KeepsPosition DEF ForceCloseCancelled, LoopStep
<1>7. LateTracked /\ ClosedStep
  BY DEF IndInv, ExchangeInv, ForceCloseCancelled, LateTracked, ClosedStep
<1>8. ForceInv'
  BY <1>1, <1>2 DEF IndInv, ForceInv, ForceCloseCancelled, LoopPlacing, PositionKept
<1> QED
  BY <1>4, <1>5, <1>6, <1>7, <1>8, Frames DEF IndInv, ForceCloseCancelled

LEMMA ForceCloseReply_Inv ==
  ASSUME IndInv, NEW k \in Kills, ForceCloseReply(k)
  PROVE  IndInv'
<1>0. TypeOK /\ ~LoopPlacing /\ fc[k].cap \in Signals
  BY DEF IndInv, ForceInv, TypeOK, ForceCloseReply
<1>1. PICK q \in 0 .. entryQty[fc[k].cap], seen \in BOOLEAN, isClosed \in BOOLEAN :
        /\ EmergencyClose(fc[k].cap, q, seen, isClosed)
        /\ ResetOpenPosition
        /\ IF isClosed
           THEN RecordOutcome(om.sig) /\ AnnounceClosed(fc[k].cap)
           ELSE UNCHANGED <<recorded, ksFired, closed>>
  BY DEF ForceCloseReply
<1>2. /\ exitQty' \in [Signals -> Nat] /\ ExitsGrow
      /\ isClosed => exitQty'[fc[k].cap] > 0
  BY <1>0, <1>1, CloseFacts
<1>3. /\ fc' \in [Kills -> ForceStates]
      /\ (\A j \in Kills : j # k => fc'[j] = fc[j]) /\ fc'[k].pc = "done"
  BY <1>0, ForceTyped DEF ForceCloseReply
<1>4. /\ om' = Flat /\ om' \in Fields
      /\ w' = Idle /\ w' \in PollerStates /\ m' = Idle /\ m' \in MonitorStates
      /\ late' \subseteq Requests /\ LateTracked
  BY <1>0, <1>1, ResetFacts DEF IndInv, LateTracked
<1>5. /\ recorded' \in [Signals -> Nat] /\ ksFired' \in BOOLEAN
      /\ closed' \subseteq Signals /\ ClosedStep
  <2>1. CASE isClosed
    BY <1>0, <1>1, <1>2, <2>1, RecordFacts DEF TypeOK, Fields, AnnounceClosed, ClosedStep
  <2>2. CASE ~isClosed
    BY <1>0, <1>1, <2>2 DEF TypeOK, ClosedStep
  <2> QED
    BY <2>1, <2>2
<1>6. TypeOK'
  BY <1>0, <1>2, <1>3, <1>4, <1>5 DEF TypeOK, ForceCloseReply
<1>7. Keeps
  BY <1>0, <1>2, <1>4, KeepsReset, NoLegChange DEF ForceCloseReply, LoopStep
<1>8. ForceInv'
  BY <1>3, <1>4 DEF IndInv, ForceInv, ForceCloseReply, LoopPlacing, Flat
<1> QED
  BY <1>2, <1>4, <1>5, <1>6, <1>7, <1>8, Frames DEF IndInv, ForceCloseReply
-----------------------------------------------------------------------------
(* The execution report, the poller and the software monitor *)

LEMMA ExecutionReport_Inv ==
  ASSUME IndInv, NEW s \in Signals, NEW l \in Legs, ExecutionReport(s, l)
  PROVE  IndInv'
<1>0. TypeOK /\ ~LoopPlacing
  BY DEF IndInv, LoopInv, ExecutionReport
<1>1. /\ om' = Flat /\ om' \in Fields
      /\ w' = Idle /\ w' \in PollerStates /\ m' = Idle /\ m' \in MonitorStates
      /\ late' \subseteq Requests /\ LateTracked
  BY <1>0, ResetFacts DEF IndInv, ExecutionReport, LateTracked
<1>2. /\ er' \in [Signals -> ReportStates]
      /\ \A x \in Signals : er'[x] = "cancel" => er[x] = "cancel" \/ exitQty[x] > 0
  BY <1>0 DEF IndInv, ExchangeInv, TypeOK, ExecutionReport, ReportStates
<1>3. TypeOK'
  BY <1>0, <1>1, <1>2 DEF TypeOK, ExecutionReport
<1>4. ExitsGrow /\ LegsKept /\ exitQty' \in [Signals -> Nat]
  BY <1>0, NoExitYet, NoLegChange DEF ExecutionReport
<1>5. Keeps
  BY <1>0, <1>1, <1>4, KeepsReset DEF ExecutionReport, LoopStep
<1>6. ExchangeInv'
  BY <1>0, <1>1, <1>2, <1>4, ExchangeFrame DEF IndInv, ExecutionReport, ClosedStep
<1> QED
  BY <1>3, <1>4, <1>5, <1>6, Frames DEF IndInv, ExecutionReport

LEMMA ExecutionReportDone_Inv ==
  ASSUME IndInv, NEW s \in Signals, ExecutionReportDone(s)
  PROVE  IndInv'
<1>0. TypeOK
  BY DEF IndInv
<1>1. ord' \in [Signals -> [Legs -> OrderStatus]] /\ LegsKept
  BY <1>0, CancelFacts DEF ExecutionReportDone
<1>2. recorded' \in [Signals -> Nat] /\ ksFired' \in BOOLEAN
  BY <1>0, RecordFacts DEF ExecutionReportDone, SignalOrNone
<1>3. /\ er' \in [Signals -> ReportStates]
      /\ \A x \in Signals : er'[x] = "cancel" => er[x] = "cancel"
  BY <1>0 DEF TypeOK, ExecutionReportDone, ReportStates
<1>4. closed' \subseteq Signals /\ ClosedStep /\ LateTracked
  BY <1>0 DEF IndInv, ExchangeInv, TypeOK, ExecutionReportDone, AnnounceClosed, ClosedStep, LateTracked
<1>5. TypeOK'
  BY <1>0, <1>1, <1>2, <1>3, <1>4 DEF TypeOK, ExecutionReportDone
<1>6. ExitsGrow /\ exitQty' \in [Signals -> Nat]
  BY <1>0, NoExitYet DEF ExecutionReportDone
<1>7. Keeps
  BY <1>0, <1>1, <1>6, KeepsPosition DEF ExecutionReportDone, PositionKept, LoopStep
<1>8. ExchangeInv'
  BY <1>0, <1>1, <1>3, <1>4, <1>6, ExchangeFrame DEF IndInv, ExecutionReportDone
<1> QED
  BY <1>5, <1>6, <1>7, <1>8, Frames DEF IndInv, ExecutionReportDone

LEMMA PollSeesFill_Inv ==
  ASSUME IndInv, PollSeesFill
  PROVE  IndInv'
<1>0. TypeOK /\ w.sig \in Signals /\ exitQty[w.sig] > 0
  BY DEF IndInv, WatcherInv, ExchangeInv, PollSeesFill
<1>1. w' \in PollerStates /\ w'.sig = w.sig
  <2>1. w \in PollerStates /\ w' = [w EXCEPT !.pc = "cancel"]
    BY <1>0 DEF TypeOK, PollSeesFill
  <2> QED
    BY <2>1 DEF PollerStates
<1>2. TypeOK'
  BY <1>0, <1>1 DEF TypeOK, PollSeesFill, execVars, exchVars
<1>3. PositionStep /\ LoopStep /\ ExitsGrow /\ LegsKept /\ exitQty' \in [Signals -> Nat]
  BY <1>0, NoExitYet, NoLegChange
     DEF PollSeesFill, execVars, exchVars, PositionStep, PositionKept, LoopStep
<1>4. LateTracked /\ ClosedStep
  BY DEF IndInv, ExchangeInv, PollSeesFill, execVars, exchVars, LateTracked, ClosedStep
<1>5. WatcherInv'
  BY <1>0, <1>1 DEF IndInv, WatcherInv, PollSeesFill, execVars, exchVars
<1>6. LoopInv' /\ QueueInv' /\ GateInv' /\ ForceInv'
  BY <1>3, LoopFrame, QueueFrame, GateFrame, ForceFrame DEF IndInv, PollSeesFill, execVars
<1>7. PositionInv' /\ ExchangeInv'
  BY <1>0, <1>3, <1>4, PositionFrame, ExchangeFrame DEF IndInv, PollSeesFill, execVars, exchVars
<1> QED
  BY <1>2, <1>5, <1>6, <1>7 DEF IndInv

LEMMA PollSeesUnpricedFill_Inv ==
  ASSUME IndInv, PollSeesUnpricedFill
  PROVE  IndInv'
<1>0. /\ TypeOK /\ ~LoopPlacing
      /\ om.sig = w.sig /\ w.sig \in Signals /\ exitQty[w.sig] > 0
  BY DEF IndInv, LoopInv, WatcherInv, ExchangeInv, PollSeesUnpricedFill
<1>1. /\ om' = Flat /\ om' \in Fields
      /\ w' = Idle /\ w' \in PollerStates /\ m' = Idle /\ m' \in MonitorStates
      /\ late' \subseteq Requests /\ LateTracked
  BY <1>0, ResetFacts DEF IndInv, PollSeesUnpricedFill, LateTracked
<1>2. closed' \subseteq Signals /\ ClosedStep /\ unpriced' \subseteq Signals
  BY <1>0 DEF TypeOK, PollSeesUnpricedFill, AnnounceClosed, ClosedStep
<1>3. TypeOK'
  BY <1>0, <1>1, <1>2 DEF TypeOK, PollSeesUnpricedFill
<1>4. ExitsGrow /\ LegsKept /\ exitQty' \in [Signals -> Nat]
  BY <1>0, NoExitYet, NoLegChange DEF PollSeesUnpricedFill
<1>5. Keeps
  BY <1>0, <1>1, <1>4, KeepsReset DEF PollSeesUnpricedFill, LoopStep
<1> QED
  BY <1>1, <1>2, <1>3, <1>4, <1>5, Frames DEF IndInv, PollSeesUnpricedFill

LEMMA PollerCancelled_Inv ==
  ASSUME IndInv, PollerCancelled
  PROVE  IndInv'
<1>0. /\ TypeOK /\ ~LoopPlacing
      /\ om.sig = w.sig /\ w.sig \in Signals /\ exitQty[w.sig] > 0
  BY DEF IndInv, LoopInv, WatcherInv, PollerCancelled
<1>1. /\ om' = Flat /\ om' \in Fields
      /\ w' = Idle /\ w' \in PollerStates /\ m' = Idle /\ m' \in MonitorStates
  BY <1>0, FlatTyped DEF PollerCancelled
<1>2. ord' \in [Signals -> [Legs -> OrderStatus]] /\ LegsKept
  BY <1>0, CancelFacts DEF PollerCancelled
<1>3. recorded' \in [Signals -> Nat] /\ ksFired' \in BOOLEAN
  BY <1>0, RecordFacts DEF PollerCancelled, SignalOrNone
<1>4. closed' \subseteq Signals /\ ClosedStep /\ LateTracked
  BY <1>0 DEF IndInv, ExchangeInv, TypeOK, PollerCancelled, AnnounceClosed, ClosedStep, LateTracked
<1>5. TypeOK'
  BY <1>0, <1>1, <1>2, <1>3, <1>4 DEF TypeOK, PollerCancelled
<1>6. ExitsGrow /\ exitQty' \in [Signals -> Nat]
  BY <1>0, NoExitYet DEF PollerCancelled
<1>7. Keeps
  BY <1>0, <1>1, <1>2, <1>6, KeepsReset DEF PollerCancelled, LoopStep
<1>8. ClosedStep
  BY <1>0, <1>4, <1>6 DEF ClosedStep, ExitsGrow, TypeOK
<1> QED
  BY <1>4, <1>5, <1>6, <1>7, <1>8, Frames DEF IndInv, PollerCancelled

LEMMA TargetTouched_Inv ==
  ASSUME IndInv, TargetTouched
  PROVE  IndInv'
<1>0. TypeOK /\ m \in MonitorStates
  BY DEF IndInv, TypeOK
<1>1. m' \in MonitorStates /\ m'.sig = m.sig
  <2>1. m' = [m EXCEPT !.pc = "close"]
    BY DEF TargetTouched
  <2> QED
    BY <1>0, <2>1 DEF MonitorStates
<1>2. om' \in Fields /\ PositionKept
  BY <1>0, FlagFacts DEF TargetTouched
<1>3. TypeOK'
  BY <1>0, <1>1, <1>2 DEF TypeOK, TargetTouched, exchVars
<1>4. PositionStep /\ LoopStep /\ ExitsGrow /\ LegsKept /\ exitQty' \in [Signals -> Nat]
  BY <1>0, <1>2, NoExitYet, NoLegChange DEF TargetTouched, exchVars, PositionStep, LoopStep
<1>5. LateTracked /\ ClosedStep
  BY DEF IndInv, ExchangeInv, TargetTouched, exchVars, LateTracked, ClosedStep
<1>6. WatcherInv'
  BY <1>1, <1>2 DEF IndInv, WatcherInv, TargetTouched, exchVars, PositionKept
<1>7. LoopInv' /\ QueueInv' /\ GateInv' /\ ForceInv'
  BY <1>4, LoopFrame, QueueFrame, GateFrame, ForceFrame DEF IndInv, TargetTouched
<1>8. PositionInv' /\ ExchangeInv'
  BY <1>0, <1>4, <1>5, PositionFrame, ExchangeFrame DEF IndInv, TargetTouched, exchVars
<1> QED
  BY <1>3, <1>6, <1>7, <1>8 DEF IndInv

LEMMA TargetCloseFilled_Inv ==
  ASSUME IndInv, TargetCloseFilled
  PROVE  IndInv'
<1>0. TypeOK /\ ~LoopPlacing /\ om.sig = m.sig /\ m.sig \in Signals
  BY DEF IndInv, LoopInv, WatcherInv, TargetCloseFilled
<1>1. /\ om' = Flat /\ om' \in Fields
      /\ w' = Idle /\ w' \in PollerStates /\ m' = Idle /\ m' \in MonitorStates
  BY FlatTyped DEF TargetCloseFilled
<1>2. PICK q \in 1 .. entryQty[m.sig] : EmergencyClose(m.sig, q, TRUE, TRUE)
  BY DEF TargetCloseFilled
<1>3. exitQty' \in [Signals -> Nat] /\ ExitsGrow /\ exitQty'[m.sig] > 0
  BY <1>0, <1>2, CloseFacts
<1>4. recorded' \in [Signals -> Nat] /\ ksFired' \in BOOLEAN
  BY <1>0, RecordFacts DEF TargetCloseFilled, SignalOrNone
<1>5. closed' \subseteq Signals /\ ClosedStep
  BY <1>0, <1>3 DEF TypeOK, TargetCloseFilled, AnnounceClosed, ClosedStep
<1>6. late' \subseteq Requests /\ LateTracked
  BY <1>0, LeavesFacts DEF IndInv, ExchangeInv, TypeOK, TargetCloseFilled, LateTracked
<1>7. TypeOK'
  BY <1>0, <1>1, <1>3, <1>4, <1>5, <1>6 DEF TypeOK, TargetCloseFilled
<1>8. Keeps
  BY <1>0, <1>1, <1>3, KeepsReset, NoLegChange DEF TargetCloseFilled, LoopStep
<1> QED
  BY <1>3, <1>5, <1>6, <1>7, <1>8, Frames DEF IndInv, TargetCloseFilled

LEMMA TargetCloseMissed_Inv ==
  ASSUME IndInv, TargetCloseMissed
  PROVE  IndInv'
<1>0. TypeOK /\ m \in MonitorStates /\ m.sig \in Signals
  BY DEF IndInv, TypeOK, WatcherInv, TargetCloseMissed
<1>1. m' \in MonitorStates /\ m'.sig = m.sig
  <2>1. m' = [m EXCEPT !.pc = "poll"]
    BY DEF TargetCloseMissed
  <2> QED
    BY <1>0, <2>1 DEF MonitorStates
<1>2. om' \in Fields /\ PositionKept
  BY <1>0, FlagFacts DEF TargetCloseMissed, ReleaseClose
<1>3. PICK q \in 0 .. entryQty[m.sig], seen \in BOOLEAN : EmergencyClose(m.sig, q, seen, FALSE)
  BY DEF TargetCloseMissed
<1>4. exitQty' \in [Signals -> Nat] /\ ExitsGrow
  BY <1>0, <1>3, CloseFacts
<1>5. TypeOK'
  BY <1>0, <1>1, <1>2, <1>4 DEF TypeOK, TargetCloseMissed
<1>6. PositionStep /\ LoopStep /\ LegsKept
  BY <1>2, NoLegChange DEF TargetCloseMissed, PositionStep, LoopStep
<1>7. LateTracked /\ ClosedStep
  BY DEF IndInv, ExchangeInv, TargetCloseMissed, LateTracked, ClosedStep
<1>8. WatcherInv'
  <2>1. w.pc = "cancel" => w.sig \in Signals /\ exitQty'[w.sig] > 0
    BY <1>0, <1>4 DEF IndInv, WatcherInv, TypeOK, ExitsGrow
  <2> QED
    BY <1>1, <1>2, <2>1 DEF IndInv, WatcherInv, TargetCloseMissed, PositionKept
<1>9. LoopInv' /\ QueueInv' /\ GateInv' /\ ForceInv'
  BY <1>6, LoopFrame, QueueFrame, GateFrame, ForceFrame DEF IndInv, TargetCloseMissed
<1>10. PositionInv' /\ ExchangeInv'
  BY <1>0, <1>4, <1>6, <1>7, PositionFrame, ExchangeFrame DEF IndInv, TargetCloseMissed
<1> QED
  BY <1>5, <1>8, <1>9, <1>10 DEF IndInv
-----------------------------------------------------------------------------
(* Approval and the order loop *)

LEMMA TailFacts ==
  ASSUME queue \in Seq(Signals), queue # <<>>, queue' = Tail(queue)
  PROVE  /\ queue' \in Seq(Signals) /\ Head(queue) \in Signals
         /\ Len(queue) \in Nat /\ Len(queue) > 0
         /\ Len(queue') = Len(queue) - 1
         /\ \A i \in 1 .. Len(queue') : i + 1 \in 1 .. Len(queue) /\ queue'[i] = queue[i + 1]
         /\ Head(queue) = queue[1]
OBVIOUS

LEMMA Approve_Inv ==
  ASSUME IndInv, NEW s \in Signals, Approve(s)
  PROVE  IndInv'
<1>0. TypeOK
  BY DEF IndInv
<1>1. /\ queue \in Seq(Signals) /\ queue' = Append(queue, s)
      /\ queue' \in Seq(Signals) /\ approved' = approved \union {s} /\ s \notin approved
  BY <1>0 DEF TypeOK, Approve
<1>2. /\ Len(queue) \in Nat /\ Len(queue') = Len(queue) + 1
      /\ \A i \in 1 .. Len(queue) : queue'[i] = queue[i]
      /\ queue'[Len(queue) + 1] = s
  BY <1>1
<1>3. g6' \in GateStates /\ g6'.pc = "awaitFill" /\ g6'.sig = s
  BY <1>0 DEF TypeOK, Approve, GateStates, SignalOrNone
<1>4. late' \subseteq Requests /\ LateTracked
  <2>1. Gate6Leaves \subseteq Requests /\ \A r \in Gate6Leaves : r.sig \in filled
    BY <1>0 DEF IndInv, GateInv, TypeOK, Gate6Leaves, Unawaited, Requests, SignalOrNone
  <2> QED
    BY <1>0, <2>1 DEF IndInv, ExchangeInv, TypeOK, Approve, LateTracked
<1>5. TypeOK'
  BY <1>0, <1>1, <1>3, <1>4 DEF TypeOK, Approve, execVars
<1>6. UNCHANGED <<filled, loop, om, accepting, mode, fc, closed, er, entryQty, exitQty, ord, w, m>>
  BY DEF Approve, execVars
<1>7. LoopInv'
  BY <1>1, <1>6 DEF IndInv, LoopInv, LoopPlacing, LoopClosing
<1>8. QueueInv'
  <2>1. filled' \subseteq approved'
    BY <1>1, <1>6 DEF IndInv, QueueInv
  <2>2. ASSUME NEW i \in 1 .. Len(queue')
        PROVE  /\ queue'[i] \in approved' /\ queue'[i] \notin filled'
               /\ loop'.pc = "entry" => queue'[i] # loop'.sig
    <3>1. CASE i \in 1 .. Len(queue)
      BY <1>1, <1>2, <1>6, <3>1 DEF IndInv, QueueInv
    <3>2. CASE i = Len(queue) + 1
      BY <1>1, <1>2, <1>6, <3>2 DEF IndInv, QueueInv, LoopInv
    <3> QED
      BY <1>2, <3>1, <3>2
  <2>3. ASSUME NEW i \in 1 .. Len(queue'), NEW j \in 1 .. Len(queue'), queue'[i] = queue'[j]
        PROVE  i = j
    <3>1. \A x \in 1 .. Len(queue) : queue'[x] \in approved
      BY <1>2 DEF IndInv, QueueInv
    <3>2. CASE i \in 1 .. Len(queue) /\ j \in 1 .. Len(queue)
      BY <1>2, <2>3, <3>2 DEF IndInv, QueueInv
    <3>3. CASE i = Len(queue) + 1 \/ j = Len(queue) + 1
      BY <1>1, <1>2, <2>3, <3>1, <3>3
    <3> QED
      BY <1>2, <3>2, <3>3
  <2> QED
    BY <2>1, <2>2, <2>3 DEF QueueInv
<1>9. GateInv'
  <2>1. \A i \in 1 .. Len(queue') : queue'[i] = s => i = Len(queue')
    BY <1>1, <1>2 DEF IndInv, QueueInv
  <2>2. s \notin filled' /\ (loop'.pc = "entry" => loop'.sig # s)
    BY <1>1, <1>6 DEF IndInv, QueueInv, LoopInv
  <2> QED
    BY <1>1, <1>3, <2>1, <2>2 DEF GateInv
<1>10. PositionStep /\ WatcherStep /\ LoopStep /\ ExitsGrow /\ LegsKept
       /\ exitQty' \in [Signals -> Nat] /\ ClosedStep
  BY <1>0, <1>6, NoExitYet, NoLegChange
     DEF IndInv, ExchangeInv, PositionStep, PositionKept, WatcherStep, LoopStep, ClosedStep
<1>11. ForceInv' /\ WatcherInv' /\ PositionInv'
  BY <1>0, <1>6, <1>10, ForceFrame, WatcherFrame, PositionFrame DEF IndInv
<1>12. ExchangeInv'
  BY <1>0, <1>4, <1>6, <1>10, ExchangeFrame DEF IndInv
<1> QED
  BY <1>5, <1>7, <1>8, <1>9, <1>11, <1>12 DEF IndInv

(* A request leaves the queue without an order being sent. *)
LEMMA Dequeued_Inv ==
  ASSUME IndInv, Drain \/ Discard
  PROVE  IndInv'
<1>0. TypeOK
  BY DEF IndInv
<1>1. /\ queue \in Seq(Signals) /\ queue # <<>> /\ queue' = Tail(queue)
      /\ UNCHANGED <<mode, ksFired, approved, accepting, om, filled, closed, recorded, unpriced,
                     loop, g6, fc, er, w, m, entryQty, exitQty, ord, late>>
  BY <1>0 DEF TypeOK, Drain, Discard, execVars, taskVars, exchVars
<1>2. queue' \in Seq(Signals)
  BY <1>1, TailFacts
<1>3. TypeOK'
  BY <1>0, <1>1, <1>2 DEF TypeOK
<1>4. QueueInv'
  BY <1>1, TailFacts DEF IndInv, QueueInv
<1>5. GateInv'
  <2>1. ASSUME g6.pc # "idle", NEW i \in 1 .. Len(queue'), queue'[i] = g6.sig
        PROVE  i = Len(queue')
    <3>1. /\ i + 1 \in 1 .. Len(queue) /\ queue[i + 1] = g6.sig
          /\ Len(queue') = Len(queue) - 1
      BY <1>1, <2>1, TailFacts
    <3>2. i + 1 = Len(queue)
      BY <2>1, <3>1 DEF IndInv, GateInv
    <3> QED
      <4>1. Len(queue) \in Nat
        BY <1>1
      <4> QED
        BY <3>1, <3>2, <4>1
  <2>2. g6.pc # "idle" /\ g6.sig \in filled => loop.pc # "entry" /\ queue' = <<>>
    BY <1>1 DEF IndInv, GateInv
  <2>3. g6.pc # "idle" /\ loop.pc = "entry" /\ loop.sig = g6.sig => queue' = <<>>
    BY <1>1 DEF IndInv, GateInv
  <2> QED
    BY <1>1, <2>1, <2>2, <2>3 DEF IndInv, GateInv, LoopPlacing
<1>6. PositionStep /\ WatcherStep /\ LoopStep /\ ExitsGrow /\ LegsKept
      /\ exitQty' \in [Signals -> Nat] /\ ClosedStep /\ LateTracked
  BY <1>0, <1>1, NoExitYet, NoLegChange
     DEF IndInv, ExchangeInv, PositionStep, PositionKept, WatcherStep, LoopStep, ClosedStep, LateTracked
<1>7. LoopInv' /\ ForceInv' /\ WatcherInv' /\ PositionInv'
  BY <1>0, <1>1, <1>6, LoopFrame, ForceFrame, WatcherFrame, PositionFrame DEF IndInv
<1>8. ExchangeInv'
  BY <1>0, <1>1, <1>6, ExchangeFrame DEF IndInv
<1> QED
  BY <1>3, <1>4, <1>5, <1>7, <1>8 DEF IndInv

LEMMA LoopTyped ==
  ASSUME TypeOK, NEW p \in {"idle", "entry", "tp", "sl", "failClose", "deferCancel", "deferClose"},
         loop' = [loop EXCEPT !.pc = p]
  PROVE  loop' \in LoopStates /\ loop'.pc = p /\ loop'.sig = loop.sig
<1>1. loop \in LoopStates
  BY DEF TypeOK
<1> QED
  BY <1>1 DEF LoopStates

LEMMA IdleLoop == Idle \in LoopStates /\ Idle.pc = "idle"
BY DEF Idle, LoopStates, SignalOrNone

LEMMA SendEntry_Inv ==
  ASSUME IndInv, SendEntry
  PROVE  IndInv'
<1>0. TypeOK
  BY DEF IndInv
<1>1. /\ queue \in Seq(Signals) /\ queue # <<>> /\ queue' = Tail(queue)
      /\ UNCHANGED <<mode, ksFired, approved, accepting, filled, closed, recorded, unpriced,
                     g6, fc, er, w, m, entryQty, exitQty, ord, late>>
  BY <1>0 DEF TypeOK, SendEntry, exchVars
<1>2. /\ queue' \in Seq(Signals) /\ Head(queue) = queue[1] /\ Head(queue) \in Signals
      /\ 1 \in 1 .. Len(queue)
  BY <1>1, TailFacts
<1>3. loop' \in LoopStates /\ loop'.pc = "entry" /\ loop'.sig = queue[1]
  BY <1>2 DEF SendEntry, LoopStates, SignalOrNone
<1>4. om' \in Fields /\ PositionKept
  BY <1>0, FlagFacts DEF SendEntry
<1>5. om.sig = None /\ accepting /\ loop.pc = "idle" /\ queue[1] \in approved
      /\ queue[1] \notin filled
  BY <1>2 DEF IndInv, QueueInv, SendEntry, MayEnter, Exposure
<1>6. TypeOK'
  BY <1>0, <1>1, <1>2, <1>3, <1>4 DEF TypeOK
<1>7. LoopInv'
  BY <1>1, <1>3, <1>4, <1>5 DEF LoopInv, LoopPlacing, LoopClosing, PositionKept
<1>8. QueueInv'
  <2>1. \A i \in 1 .. Len(queue') : queue'[i] # queue[1]
    BY <1>1, <1>2, TailFacts DEF IndInv, QueueInv
  <2> QED
    BY <1>1, <1>3, <2>1, TailFacts DEF IndInv, QueueInv
<1>9. GateInv'
  <2>1. ASSUME g6.pc # "idle", NEW i \in 1 .. Len(queue'), queue'[i] = g6.sig
        PROVE  i = Len(queue')
    <3>1. /\ i + 1 \in 1 .. Len(queue) /\ queue[i + 1] = g6.sig
          /\ Len(queue') = Len(queue) - 1
      BY <1>1, <2>1, TailFacts
    <3>2. i + 1 = Len(queue)
      BY <2>1, <3>1 DEF IndInv, GateInv
    <3> QED
      <4>1. Len(queue) \in Nat
        BY <1>1
      <4> QED
        BY <3>1, <3>2, <4>1
  <2>2. g6.pc # "idle" /\ queue[1] = g6.sig => queue' = <<>>
    <3>1. g6.pc # "idle" /\ queue[1] = g6.sig => Len(queue) = 1
      BY <1>2 DEF IndInv, GateInv
    <3> QED
      BY <1>1, <3>1
  <2>3. g6.pc # "idle" => g6.sig \notin filled
    BY <1>1 DEF IndInv, GateInv
  <2> QED
    BY <1>1, <1>3, <2>1, <2>2, <2>3 DEF IndInv, GateInv, LoopPlacing
<1>10. ForceInv'
  BY <1>1, <1>5 DEF IndInv, ForceInv
<1>11. PositionStep /\ WatcherStep /\ ExitsGrow /\ LegsKept
       /\ exitQty' \in [Signals -> Nat] /\ ClosedStep /\ LateTracked /\ ~LoopPlacing
  BY <1>0, <1>1, <1>4, <1>5, NoExitYet, NoLegChange
     DEF IndInv, ExchangeInv, PositionStep, WatcherStep, ClosedStep, LateTracked, LoopPlacing
<1>12. WatcherInv' /\ PositionInv'
  BY <1>0, <1>1, <1>11, WatcherFrame, PositionFrame DEF IndInv
<1>13. ExchangeInv'
  BY <1>0, <1>1, <1>11, ExchangeFrame DEF IndInv
<1> QED
  BY <1>6, <1>7, <1>8, <1>9, <1>10, <1>12, <1>13 DEF IndInv

LEMMA EntryMissed_Inv ==
  ASSUME IndInv, EntryMissed
  PROVE  IndInv'
<1>0. TypeOK /\ loop.sig \in Signals /\ loop.sig \notin filled /\ ~LoopPlacing
  BY DEF IndInv, LoopInv, QueueInv, TypeOK, EntryMissed, LoopPlacing
<1>1. PICK q \in 0 .. Lots : entryQty' = [entryQty EXCEPT ![loop.sig] = q]
  BY DEF EntryMissed
<1>2. /\ entryQty' \in [Signals -> Nat]
      /\ \A s \in Signals : s # loop.sig => entryQty'[s] = entryQty[s]
  BY <1>0, <1>1, LotsAssumption DEF TypeOK
<1>3. om' \in Fields /\ PositionKept
  BY <1>0, FlagFacts DEF EntryMissed
<1>4. loop' \in LoopStates /\ loop'.pc = "idle"
  BY IdleLoop DEF EntryMissed, LoopDone
<1>5. UNCHANGED <<mode, ksFired, approved, queue, accepting, filled, closed, recorded,
                  unpriced, g6, fc, er, w, m, exitQty, ord, late>>
  BY DEF EntryMissed
<1>6. TypeOK'
  BY <1>0, <1>2, <1>3, <1>4, <1>5 DEF TypeOK
<1>7. PositionStep /\ WatcherStep /\ LoopStep /\ ExitsGrow /\ LegsKept
      /\ exitQty' \in [Signals -> Nat]
  BY <1>0, <1>3, <1>4, <1>5, NoExitYet, NoLegChange DEF PositionStep, WatcherStep, LoopStep
<1>8. LoopInv' /\ QueueInv' /\ GateInv' /\ ForceInv'
  BY <1>4, <1>5, <1>7, LoopIdle, QueueFrame, GateFrame, ForceFrame DEF IndInv
<1>9. WatcherInv' /\ PositionInv'
  BY <1>0, <1>5, <1>7, WatcherFrame, PositionFrame DEF IndInv
<1>10. ExchangeInv'
  BY <1>0, <1>2, <1>5 DEF IndInv, ExchangeInv, TypeOK
<1> QED
  BY <1>6, <1>8, <1>9, <1>10 DEF IndInv

(* The fill of s: the position was free and s never had it. *)
LEMMA FillTyped ==
  ASSUME TypeOK, NEW s \in Signals, NEW placing \in BOOLEAN, Fill(s, placing)
  PROVE  /\ entryQty' \in [Signals -> Nat] /\ entryQty'[s] > 0
         /\ \A x \in Signals : x # s => entryQty'[x] = entryQty[x]
         /\ ksFired' \in BOOLEAN
         /\ filled' = filled \union {s}
         /\ om' \in Fields /\ om'.sig = s /\ om'.ids = om.ids /\ om'.placing = placing
         /\ fc' \in [Kills -> ForceStates]
         /\ \A k \in Kills : fc'[k] = fc[k] \/ fc'[k].pc = "pending"
<1>1. PICK q \in 1 .. Lots : entryQty' = [entryQty EXCEPT ![s] = q]
  BY DEF Fill
<1>2. /\ entryQty' \in [Signals -> Nat] /\ entryQty'[s] > 0
      /\ \A x \in Signals : x # s => entryQty'[x] = entryQty[x]
  BY <1>1, LotsAssumption DEF TypeOK
<1>3. ksFired' \in BOOLEAN /\ filled' = filled \union {s}
  BY DEF Fill, TypeOK
<1>4. om' \in Fields /\ om'.sig = s /\ om'.ids = om.ids /\ om'.placing = placing
  <2>1. om \in Fields /\ s \in SignalOrNone
    BY DEF TypeOK, SignalOrNone
  <2>2. om' = [om EXCEPT !.sig = s, !.entering = FALSE, !.placing = placing]
    BY DEF Fill
  <2> QED
    BY <2>1, <2>2 DEF Fields
<1>5. /\ fc' \in [Kills -> ForceStates]
      /\ \A k \in Kills : fc'[k] = fc[k] \/ fc'[k].pc = "pending"
  <2>1. CASE fc' = fc
    BY <2>1 DEF TypeOK
  <2>2. ASSUME NEW k \in Kills, fc' = [fc EXCEPT ![k].pc = "pending"]
        PROVE  /\ fc' \in [Kills -> ForceStates]
               /\ \A j \in Kills : fc'[j] = fc[j] \/ fc'[j].pc = "pending"
    BY <2>2, ForceTyped
  <2> QED
    BY <2>1, <2>2 DEF Fill, ScheduleForceClose
<1> QED
  BY <1>2, <1>3, <1>4, <1>5

(* What every fill preserves, whatever the mode.  The caller shows where   *)
(* the loop and the queue are afterwards, and that the position was free.  *)
LEMMA Fill_Inv ==
  ASSUME IndInv, NEW s \in Signals, NEW placing \in BOOLEAN, Fill(s, placing),
         s \in approved, s \notin filled, om.sig = None, ~LoopPlacing, ~LoopClosing,
         \/ accepting
         \/ loop.pc = "entry",
         \/ loop'.pc = "tp" /\ loop'.sig = s /\ mode = "LIVE"
         \/ loop'.pc = "idle",
         loop'.pc = "tp" \/ ~placing,
         loop'.pc = "idle" \/ placing,
         UNCHANGED <<mode, approved, accepting, g6, er, w, exitQty, ord, late, closed>>,
         queue' \in Seq(Signals),
         \A i \in 1 .. Len(queue') : \E j \in 1 .. Len(queue) :
            /\ j - i = Len(queue) - Len(queue')
            /\ queue'[i] = queue[j] /\ queue[j] # s,
         g6.pc # "idle" /\ g6.sig = s => queue' = <<>>,
         g6.pc # "idle" => g6.sig \notin filled,
         m' = m \/ (m' = [pc |-> "poll", sig |-> s] /\ mode = "DEMO")
  PROVE  /\ LoopInv' /\ QueueInv' /\ GateInv' /\ ForceInv'
         /\ WatcherInv' /\ PositionInv' /\ ExchangeInv'
<1>0. /\ TypeOK /\ LoopInv /\ QueueInv /\ GateInv /\ ForceInv
      /\ WatcherInv /\ PositionInv /\ ExchangeInv
  BY DEF IndInv
<1>1. /\ entryQty'[s] > 0 /\ filled' = filled \union {s}
      /\ \A x \in Signals : x # s => entryQty'[x] = entryQty[x]
      /\ om' \in Fields /\ om'.sig = s /\ om'.ids = om.ids /\ om'.placing = placing
      /\ \A k \in Kills : fc'[k] = fc[k] \/ fc'[k].pc = "pending"
  BY <1>0, FillTyped
<1>2. ~om.ids /\ w.pc = "idle" /\ m.pc = "idle"
  BY <1>0, SignalsAssumption DEF PositionInv, WatcherInv
<1>3. LoopInv'
  BY <1>0, <1>1, <1>2 DEF LoopInv, LoopPlacing, LoopClosing
<1>4. QueueInv'
  <2>1. Len(queue) \in Nat /\ Len(queue') \in Nat
    BY <1>0 DEF TypeOK
  <2>2. filled' \subseteq approved'
    BY <1>0, <1>1 DEF QueueInv
  <2>3. \A i \in 1 .. Len(queue') : queue'[i] \in approved' /\ queue'[i] \notin filled'
    BY <1>0, <1>1 DEF QueueInv
  <2>4. \A i, j \in 1 .. Len(queue') : queue'[i] = queue'[j] => i = j
    BY <1>0, <2>1 DEF QueueInv
  <2> QED
    BY <2>2, <2>3, <2>4 DEF QueueInv
<1>5. GateInv'
  <2>1. g6.pc # "idle" => \A i \in 1 .. Len(queue') : queue'[i] = g6.sig => i = Len(queue')
    <3> SUFFICES ASSUME g6.pc # "idle", NEW i \in 1 .. Len(queue'), queue'[i] = g6.sig
                 PROVE  i = Len(queue')
      OBVIOUS
    <3>1. PICK j \in 1 .. Len(queue) : j - i = Len(queue) - Len(queue') /\ queue'[i] = queue[j]
      OBVIOUS
    <3>2. j = Len(queue)
      BY <1>0, <3>1 DEF GateInv
    <3> QED
      BY <1>0, <3>1, <3>2 DEF TypeOK
  <2>2. g6.pc \notin {"cancel", "close"}
    BY <1>0 DEF GateInv
  <2> QED
    BY <1>0, <1>1, <2>1, <2>2 DEF GateInv
<1>6. ForceInv'
  BY <1>0, <1>1 DEF ForceInv
<1>7. WatcherInv'
  BY <1>0, <1>1, <1>2 DEF WatcherInv
<1>8. PositionInv'
  BY <1>1, <1>2 DEF PositionInv, LoopPlacing
<1>9. ExchangeInv'
  <2>1. \A x \in filled' : entryQty'[x] > 0
    BY <1>0, <1>1 DEF ExchangeInv, TypeOK
  <2> QED
    BY <1>0, <1>1, <2>1 DEF ExchangeInv
<1> QED
  BY <1>3, <1>4, <1>5, <1>6, <1>7, <1>8, <1>9

LEMMA EntryFilledLive_Inv ==
  ASSUME IndInv, EntryFilledLive
  PROVE  IndInv'
<1>0. /\ TypeOK /\ loop.sig \in Signals /\ loop.sig \in approved /\ loop.sig \notin filled
      /\ om.sig = None /\ ~LoopPlacing /\ ~LoopClosing
  BY DEF IndInv, LoopInv, TypeOK, EntryFilledLive, LoopPlacing, LoopClosing
<1>1. Fill(loop.sig, TRUE)
  BY DEF EntryFilledLive
<1>2. loop' \in LoopStates /\ loop'.pc = "tp" /\ loop'.sig = loop.sig
  BY <1>0, LoopTyped DEF EntryFilledLive
<1>3. UNCHANGED <<mode, approved, queue, accepting, closed, recorded, unpriced,
                  g6, er, w, m, exitQty, ord, late>>
  BY DEF EntryFilledLive
<1>4. TypeOK'
  <2>1. entryQty' \in [Signals -> Nat] /\ ksFired' \in BOOLEAN /\ om' \in Fields
        /\ fc' \in [Kills -> ForceStates] /\ filled' \subseteq Signals
    <3>1. filled \subseteq Signals
      BY <1>0 DEF TypeOK
    <3> QED
      BY <1>0, <1>1, <3>1, FillTyped
  <2> QED
    BY <1>0, <1>2, <1>3, <2>1 DEF TypeOK
<1>5. \A i \in 1 .. Len(queue') : queue'[i] = queue[i] /\ queue[i] # loop.sig
  BY <1>3 DEF IndInv, QueueInv, EntryFilledLive
<1>6. g6.pc # "idle" => g6.sig \notin filled /\ (g6.sig = loop.sig => queue' = <<>>)
  BY <1>3 DEF IndInv, GateInv, EntryFilledLive
<1>7. queue' \in Seq(Signals) /\ Len(queue') = Len(queue) /\ Len(queue) \in Nat
  BY <1>0, <1>3 DEF TypeOK
<1>8. \A i \in 1 .. Len(queue') : \E j \in 1 .. Len(queue) :
        /\ j - i = Len(queue) - Len(queue')
        /\ queue'[i] = queue[j] /\ queue[j] # loop.sig
  BY <1>5, <1>7
<1>9. mode = "LIVE" /\ loop.pc = "entry" /\ m' = m
  BY DEF EntryFilledLive
<1>10. /\ LoopInv' /\ QueueInv' /\ GateInv' /\ ForceInv'
       /\ WatcherInv' /\ PositionInv' /\ ExchangeInv'
  <2>1. /\ accepting \/ loop.pc = "entry"
        /\ loop'.pc = "tp" /\ loop'.sig = loop.sig /\ mode = "LIVE"
        /\ m' = m \/ (m' = [pc |-> "poll", sig |-> loop.sig] /\ mode = "DEMO")
    BY <1>2, <1>9
  <2>2. UNCHANGED <<mode, approved, accepting, g6, er, w, exitQty, ord, late, closed>>
    BY <1>3
  <2> QED
    BY <1>0, <1>1, <1>6, <1>7, <1>8, <2>1, <2>2, Fill_Inv
<1> QED
  BY <1>4, <1>10 DEF IndInv

LEMMA EntryFilledDemo_Inv ==
  ASSUME IndInv, EntryFilledDemo
  PROVE  IndInv'
<1>0. /\ TypeOK /\ loop.sig \in Signals /\ loop.sig \in approved /\ loop.sig \notin filled
      /\ om.sig = None /\ ~LoopPlacing /\ ~LoopClosing
  BY DEF IndInv, LoopInv, TypeOK, EntryFilledDemo, LoopPlacing, LoopClosing
<1>1. Fill(loop.sig, FALSE)
  BY DEF EntryFilledDemo
<1>2. loop' \in LoopStates /\ loop'.pc = "idle"
  BY IdleLoop DEF EntryFilledDemo, LoopDone
<1>3. UNCHANGED <<mode, approved, queue, accepting, closed, recorded, unpriced,
                  g6, er, w, exitQty, ord, late>>
  BY DEF EntryFilledDemo
<1>4. m' = [pc |-> "poll", sig |-> loop.sig] /\ m' \in MonitorStates
      /\ mode = "DEMO" /\ loop.pc = "entry"
  BY <1>0 DEF EntryFilledDemo, MonitorStates, SignalOrNone
<1>5. TypeOK'
  <2>1. entryQty' \in [Signals -> Nat] /\ ksFired' \in BOOLEAN /\ om' \in Fields
        /\ fc' \in [Kills -> ForceStates] /\ filled' \subseteq Signals
    <3>1. filled \subseteq Signals
      BY <1>0 DEF TypeOK
    <3> QED
      BY <1>0, <1>1, <3>1, FillTyped
  <2> QED
    BY <1>0, <1>2, <1>3, <1>4, <2>1 DEF TypeOK
<1>6. \A i \in 1 .. Len(queue') : queue'[i] = queue[i] /\ queue[i] # loop.sig
  BY <1>3, <1>4 DEF IndInv, QueueInv
<1>7. g6.pc # "idle" => g6.sig \notin filled /\ (g6.sig = loop.sig => queue' = <<>>)
  BY <1>3, <1>4 DEF IndInv, GateInv
<1>8. queue' \in Seq(Signals) /\ Len(queue') = Len(queue) /\ Len(queue) \in Nat
  BY <1>0, <1>3 DEF TypeOK
<1>9. \A i \in 1 .. Len(queue') : \E j \in 1 .. Len(queue) :
        /\ j - i = Len(queue) - Len(queue')
        /\ queue'[i] = queue[j] /\ queue[j] # loop.sig
  BY <1>6, <1>8
<1>10. /\ LoopInv' /\ QueueInv' /\ GateInv' /\ ForceInv'
       /\ WatcherInv' /\ PositionInv' /\ ExchangeInv'
  BY <1>0, <1>1, <1>2, <1>3, <1>4, <1>7, <1>8, <1>9, Fill_Inv
<1> QED
  BY <1>5, <1>10 DEF IndInv

LEMMA EntryDryRun_Inv ==
  ASSUME IndInv, EntryDryRun
  PROVE  IndInv'
<1>0. TypeOK /\ queue \in Seq(Signals) /\ queue # <<>> /\ queue' = Tail(queue)
  BY DEF IndInv, TypeOK, EntryDryRun
<1>1. /\ queue' \in Seq(Signals) /\ Head(queue) = queue[1] /\ queue[1] \in Signals /\ 1 \in 1 .. Len(queue)
      /\ Len(queue') = Len(queue) - 1 /\ Len(queue) \in Nat
  BY <1>0, TailFacts
<1>2. PICK s \in Signals : s = queue[1]
  BY <1>1
<1>3. /\ s \in approved /\ s \notin filled /\ om.sig = None /\ accepting
      /\ loop.pc = "idle" /\ ~LoopPlacing /\ ~LoopClosing
  BY <1>1, <1>2 DEF IndInv, QueueInv, EntryDryRun, MayEnter, Exposure, LoopPlacing, LoopClosing
<1>4. Fill(s, FALSE)
  BY <1>1, <1>2 DEF EntryDryRun
<1>5. UNCHANGED <<mode, approved, accepting, closed, recorded, unpriced,
                  loop, g6, er, w, m, exitQty, ord, late>>
  BY DEF EntryDryRun
<1>6. TypeOK'
  <2>1. entryQty' \in [Signals -> Nat] /\ ksFired' \in BOOLEAN /\ om' \in Fields
        /\ fc' \in [Kills -> ForceStates] /\ filled' \subseteq Signals
    <3>1. filled \subseteq Signals
      BY <1>0 DEF TypeOK
    <3> QED
      BY <1>0, <1>1, <1>4, <3>1, FillTyped
  <2> QED
    BY <1>0, <1>1, <1>5, <2>1 DEF TypeOK
<1>7. \A i \in 1 .. Len(queue') : \E j \in 1 .. Len(queue) :
        /\ j - i = Len(queue) - Len(queue')
        /\ queue'[i] = queue[j] /\ queue[j] # s
  <2> SUFFICES ASSUME NEW i \in 1 .. Len(queue')
               PROVE  /\ i + 1 \in 1 .. Len(queue)
                      /\ (i + 1) - i = Len(queue) - Len(queue')
                      /\ queue'[i] = queue[i + 1] /\ queue[i + 1] # s
    OBVIOUS
  <2>1. i + 1 \in 1 .. Len(queue) /\ queue'[i] = queue[i + 1]
    BY <1>0, TailFacts
  <2>2. queue[i + 1] # queue[1]
    BY <1>1, <2>1 DEF IndInv, QueueInv
  <2> QED
    BY <1>1, <1>2, <2>1, <2>2
<1>8. g6.pc # "idle" => g6.sig \notin filled
  BY <1>0 DEF IndInv, GateInv
<1>9. g6.pc # "idle" /\ g6.sig = s => queue' = <<>>
  <2>1. g6.pc # "idle" /\ g6.sig = s => Len(queue) = 1
    BY <1>1, <1>2 DEF IndInv, GateInv
  <2> QED
    BY <1>0, <2>1
<1>10. /\ loop'.pc = "idle" /\ m' = m
       /\ UNCHANGED <<mode, approved, accepting, g6, er, w, exitQty, ord, late, closed>>
  BY <1>3, <1>5
<1>11. /\ LoopInv' /\ QueueInv' /\ GateInv' /\ ForceInv'
      /\ WatcherInv' /\ PositionInv' /\ ExchangeInv'
  BY <1>0, <1>1, <1>3, <1>4, <1>10, <1>7, <1>8, <1>9, Fill_Inv
<1> QED
  BY <1>6, <1>11 DEF IndInv

(* At most a leg of s is opened. *)
OnlyOpens(s) ==
  \A x \in Signals : \A y \in Legs :
    ord'[x][y] = ord[x][y] \/ (x = s /\ ord'[x][y] = "open")

LEMMA PlaceLegFacts ==
  ASSUME TypeOK, NEW s \in Signals, NEW l \in Legs, PlaceLeg(s, l)
  PROVE  ord' \in [Signals -> [Legs -> OrderStatus]] /\ OnlyOpens(s)
<1>1. /\ ord \in [Signals -> [Legs -> OrderStatus]]
      /\ ord' = [ord EXCEPT ![s] = [ord[s] EXCEPT ![l] = "open"]]
  BY DEF TypeOK, PlaceLeg
<1>2. /\ [ord[s] EXCEPT ![l] = "open"] \in [Legs -> OrderStatus]
      /\ \A y \in Legs : [ord[s] EXCEPT ![l] = "open"][y] = IF y = l THEN "open" ELSE ord[s][y]
  BY <1>1 DEF OrderStatus
<1>3. ord' \in [Signals -> [Legs -> OrderStatus]]
  BY <1>1, <1>2
<1>4. OnlyOpens(s)
  BY <1>1, <1>2 DEF OnlyOpens
<1> QED
  BY <1>3, <1>4

LEMMA TakeProfitPlaced_Inv ==
  ASSUME IndInv, TakeProfitPlaced
  PROVE  IndInv'
<1>0. TypeOK /\ loop.sig \in Signals /\ loop.sig \in filled /\ LoopPlacing
  BY SignalsAssumption DEF IndInv, LoopInv, PositionInv, TypeOK, TakeProfitPlaced, LoopPlacing
<1>1. loop' \in LoopStates /\ loop'.pc = "sl" /\ loop'.sig = loop.sig
  BY <1>0, LoopTyped DEF TakeProfitPlaced
<1>2. ord' \in [Signals -> [Legs -> OrderStatus]] /\ OnlyOpens(loop.sig)
  <2>1. PlaceLeg(loop.sig, "TP") /\ "TP" \in Legs
    BY DEF TakeProfitPlaced, Legs
  <2> QED
    BY <1>0, <2>1, PlaceLegFacts
<1>3. UNCHANGED <<mode, ksFired, approved, queue, accepting, om, filled, closed, recorded,
                  unpriced, g6, fc, er, w, m, entryQty, exitQty, late>>
  BY DEF TakeProfitPlaced, execVars
<1>4. TypeOK'
  BY <1>0, <1>1, <1>2, <1>3 DEF TypeOK
<1>5. LoopInv' /\ QueueInv' /\ GateInv' /\ ForceInv'
  BY <1>0, <1>1, <1>3 DEF IndInv, LoopInv, QueueInv, GateInv, ForceInv, LoopPlacing, LoopClosing
<1>6. WatcherInv' /\ PositionInv'
  BY <1>1, <1>3 DEF IndInv, WatcherInv, PositionInv, LoopPlacing
<1>7. ExchangeInv'
  BY <1>0, <1>2, <1>3 DEF IndInv, ExchangeInv, OnlyOpens
<1> QED
  BY <1>4, <1>5, <1>6, <1>7 DEF IndInv

(* The bracket is complete: the poller starts, or the deferred alert is    *)
(* acted upon.                                                             *)
LEMMA StopLossPlaced_Inv ==
  ASSUME IndInv, StopLossPlaced
  PROVE  IndInv'
<1>0. /\ TypeOK /\ loop.sig \in Signals /\ loop.sig \in filled /\ loop.sig \in approved
      /\ LoopPlacing /\ om.sig = loop.sig /\ mode = "LIVE" /\ ~om.ids
  BY SignalsAssumption DEF IndInv, LoopInv, PositionInv, TypeOK, StopLossPlaced, LoopPlacing
<1>1. om' \in Fields /\ om'.sig = om.sig /\ om'.ids /\ ~om'.placing
  <2>1. /\ om \in Fields
        /\ om' = [om EXCEPT !.ids = TRUE, !.placing = FALSE, !.cancelOnPlacement = FALSE]
    BY <1>0 DEF TypeOK, StopLossPlaced
  <2> QED
    BY <2>1 DEF Fields
<1>2. ord' \in [Signals -> [Legs -> OrderStatus]] /\ OnlyOpens(loop.sig)
  <2>1. PlaceLeg(loop.sig, "SL") /\ "SL" \in Legs
    BY DEF StopLossPlaced, Legs
  <2> QED
    BY <1>0, <2>1, PlaceLegFacts
<1>3. UNCHANGED <<mode, ksFired, approved, queue, accepting, filled, closed, recorded,
                  unpriced, g6, fc, er, m, entryQty, exitQty, late>>
  BY DEF StopLossPlaced
<1>4. /\ loop' \in LoopStates /\ w' \in PollerStates
      /\ \/ loop'.pc = "deferCancel" /\ loop'.sig = loop.sig /\ w' = w
         \/ loop'.pc = "idle" /\ w'.pc = "poll" /\ w'.sig = loop.sig
  <2>1. CASE loop' = [loop EXCEPT !.pc = "deferCancel"] /\ w' = w
    BY <1>0, <2>1, LoopTyped DEF TypeOK
  <2>2. CASE LoopDone /\ w' = [pc |-> "poll", sig |-> loop.sig]
    BY <1>0, <2>2, IdleLoop DEF LoopDone, PollerStates, SignalOrNone
  <2> QED
    BY <2>1, <2>2 DEF StopLossPlaced, AfterPlacement
<1>5. TypeOK'
  BY <1>0, <1>1, <1>2, <1>3, <1>4 DEF TypeOK
<1>6. LoopInv'
  BY <1>0, <1>1, <1>3, <1>4 DEF LoopInv, LoopPlacing, LoopClosing
<1>7. QueueInv' /\ ForceInv'
  BY <1>0, <1>3, <1>4 DEF IndInv, QueueInv, ForceInv
<1>8. GateInv'
  BY <1>0, <1>3, <1>4 DEF IndInv, GateInv
<1>9. WatcherInv' /\ PositionInv'
  BY <1>0, <1>1, <1>3, <1>4, SignalsAssumption DEF IndInv, WatcherInv, PositionInv
<1>10. ExchangeInv'
  BY <1>0, <1>2, <1>3 DEF IndInv, ExchangeInv, OnlyOpens
<1> QED
  BY <1>5, <1>6, <1>7, <1>8, <1>9, <1>10 DEF IndInv

LEMMA BracketFailed_Inv ==
  ASSUME IndInv, BracketFailed
  PROVE  IndInv'
<1>0. /\ TypeOK /\ loop.sig \in Signals /\ loop.sig \in filled /\ loop.sig \in approved
      /\ LoopPlacing /\ om.sig = loop.sig /\ mode = "LIVE"
  BY SignalsAssumption DEF IndInv, LoopInv, PositionInv, TypeOK, BracketFailed, LoopPlacing
<1>1. om' \in Fields /\ om'.sig = om.sig /\ om'.ids = om.ids /\ ~om'.placing
  <2>1. /\ om \in Fields
        /\ om' = [om EXCEPT !.placing = FALSE, !.cancelOnPlacement = FALSE, !.closing = TRUE]
    BY <1>0 DEF TypeOK, BracketFailed
  <2> QED
    BY <2>1 DEF Fields
<1>2. ord' \in [Signals -> [Legs -> OrderStatus]] /\ OnlyOpens(loop.sig)
  <2>1. CASE UNCHANGED ord
    <3>1. ord' = ord /\ ord \in [Signals -> [Legs -> OrderStatus]]
      BY <1>0, <2>1 DEF TypeOK
    <3> QED
      BY <3>1 DEF OnlyOpens
  <2>2. ASSUME NEW l \in Legs, PlaceLeg(loop.sig, l)
        PROVE  ord' \in [Signals -> [Legs -> OrderStatus]] /\ OnlyOpens(loop.sig)
    BY <1>0, <2>2, PlaceLegFacts
  <2> QED
    BY <2>1, <2>2 DEF BracketFailed, Legs
<1>3. UNCHANGED <<mode, ksFired, approved, queue, accepting, filled, closed, recorded,
                  unpriced, g6, fc, er, w, m, entryQty, exitQty, late>>
  BY DEF BracketFailed
<1>4. loop' \in LoopStates /\ loop'.pc = "failClose" /\ loop'.sig = loop.sig
  BY <1>0, LoopTyped DEF BracketFailed
<1>5. TypeOK'
  BY <1>0, <1>1, <1>2, <1>3, <1>4 DEF TypeOK
<1>6. LoopInv' /\ QueueInv' /\ ForceInv'
  BY <1>0, <1>1, <1>3, <1>4 DEF IndInv, LoopInv, QueueInv, ForceInv, LoopPlacing, LoopClosing
<1>7. GateInv'
  BY <1>0, <1>1, <1>3, <1>4 DEF IndInv, GateInv
<1>8. WatcherInv' /\ PositionInv'
  BY <1>0, <1>1, <1>3, <1>4, SignalsAssumption DEF IndInv, WatcherInv, PositionInv
<1>9. ExchangeInv'
  BY <1>0, <1>2, <1>3 DEF IndInv, ExchangeInv, OnlyOpens
<1> QED
  BY <1>5, <1>6, <1>7, <1>8, <1>9 DEF IndInv

LEMMA DeferredCancelled_Inv ==
  ASSUME IndInv, DeferredCancelled
  PROVE  IndInv'
<1>0. TypeOK /\ ~LoopPlacing
  BY DEF IndInv, DeferredCancelled, LoopPlacing
<1>1. loop' \in LoopStates /\ loop'.pc = "deferClose" /\ loop'.sig = loop.sig
  BY <1>0, LoopTyped DEF DeferredCancelled
<1>2. ord' \in [Signals -> [Legs -> OrderStatus]] /\ LegsKept
  BY <1>0, CancelFacts DEF DeferredCancelled
<1>3. TypeOK'
  BY <1>0, <1>1, <1>2 DEF TypeOK, DeferredCancelled, execVars
<1>4. ExitsGrow /\ exitQty' \in [Signals -> Nat]
  BY <1>0, NoExitYet DEF DeferredCancelled
<1>5. Keeps
  BY <1>0, <1>1, <1>2, <1>4, KeepsPosition
     DEF DeferredCancelled, execVars, PositionKept, LoopStep
<1>6. LateTracked /\ ClosedStep
  BY DEF IndInv, ExchangeInv, DeferredCancelled, execVars, LateTracked, ClosedStep
<1>7. LoopInv'
  BY <1>1 DEF IndInv, LoopInv, DeferredCancelled, execVars, LoopPlacing, LoopClosing
<1> QED
  BY <1>0, <1>3, <1>4, <1>5, <1>6, <1>7, Frames DEF IndInv, DeferredCancelled

LEMMA LoopCloseReply_Inv ==
  ASSUME IndInv, LoopCloseReply
  PROVE  IndInv'
<1>0. TypeOK /\ ~LoopPlacing /\ loop.sig \in Signals
  BY DEF IndInv, LoopInv, TypeOK, LoopCloseReply, LoopPlacing, LoopClosing
<1>1. PICK q \in 0 .. entryQty[loop.sig], seen \in BOOLEAN, isClosed \in BOOLEAN :
        /\ EmergencyClose(loop.sig, q, seen, isClosed)
        /\ IF isClosed
           THEN ResetOpenPosition /\ RecordOutcome(loop.sig) /\ AnnounceClosed(loop.sig)
           ELSE /\ IF loop.pc = "failClose" THEN om' = om ELSE ReleaseClose
                /\ UNCHANGED <<recorded, ksFired, closed, w, m, late>>
  BY DEF LoopCloseReply
<1>2. exitQty' \in [Signals -> Nat] /\ ExitsGrow /\ (isClosed => exitQty'[loop.sig] > 0)
  BY <1>0, <1>1, CloseFacts
<1>3. loop' \in LoopStates /\ loop'.pc = "idle"
  BY IdleLoop DEF LoopCloseReply, LoopDone
<1>4. LegsKept /\ LoopStep
  BY <1>3, NoLegChange DEF LoopCloseReply, LoopStep
<1>5. CASE isClosed
  <2>1. /\ om' = Flat /\ om' \in Fields
        /\ w' = Idle /\ w' \in PollerStates /\ m' = Idle /\ m' \in MonitorStates
        /\ late' \subseteq Requests /\ LateTracked
    BY <1>0, <1>1, <1>5, ResetFacts DEF IndInv, LateTracked
  <2>2. recorded' \in [Signals -> Nat] /\ ksFired' \in BOOLEAN
    BY <1>0, <1>1, <1>5, RecordFacts DEF SignalOrNone
  <2>3. closed' \subseteq Signals /\ ClosedStep
    BY <1>0, <1>1, <1>2, <1>5 DEF TypeOK, AnnounceClosed, ClosedStep
  <2>4. TypeOK'
    BY <1>0, <1>2, <1>3, <2>1, <2>2, <2>3 DEF TypeOK, LoopCloseReply
  <2>5. Keeps
    BY <1>0, <1>2, <1>4, <2>1, KeepsReset DEF LoopCloseReply
  <2> QED
    BY <1>0, <1>2, <1>3, <2>1, <2>3, <2>4, <2>5, Frames, LoopIdle DEF IndInv, LoopCloseReply
<1>6. CASE ~isClosed
  <2>1. om' \in Fields /\ PositionKept
    BY <1>0, <1>1, <1>6, FlagFacts DEF ReleaseClose
  <2>2. UNCHANGED <<recorded, ksFired, closed, w, m, late>>
    BY <1>1, <1>6
  <2>3. TypeOK'
    BY <1>0, <1>2, <1>3, <2>1, <2>2 DEF TypeOK, LoopCloseReply
  <2>4. Keeps
    BY <1>0, <1>2, <1>4, <2>1, <2>2, KeepsPosition DEF LoopCloseReply
  <2>5. LateTracked /\ ClosedStep
    BY <2>2 DEF IndInv, ExchangeInv, LateTracked, ClosedStep
  <2> QED
    BY <1>0, <1>2, <1>3, <2>3, <2>4, <2>5, Frames, LoopIdle DEF IndInv, LoopCloseReply
<1> QED
  BY <1>5, <1>6

-----------------------------------------------------------------------------
(* The exchange *)

LEMMA LegFills_Inv ==
  ASSUME IndInv, NEW s \in Signals, NEW l \in Legs, LegFills(s, l)
  PROVE  IndInv'
<1>0. TypeOK
  BY DEF IndInv
<1>1. PICK q \in 1 .. entryQty[s] : exitQty' = [exitQty EXCEPT ![s] = @ + q]
  BY DEF LegFills
<1>2. exitQty' \in [Signals -> Nat] /\ ExitsGrow /\ exitQty'[s] > 0
  <2>1. entryQty[s] \in Nat /\ q \in Nat /\ q > 0 /\ exitQty \in [Signals -> Nat]
    BY <1>0 DEF TypeOK
  <2> QED
    BY <1>1, <2>1 DEF ExitsGrow
<1>3. /\ ord' \in [Signals -> [Legs -> OrderStatus]]
      /\ \A x \in Signals : \A y \in Legs :
           ord'[x][y] = ord[x][y] \/ (x = s /\ y = l /\ ord'[x][y] = "filled")
  <2>1. /\ ord \in [Signals -> [Legs -> OrderStatus]]
        /\ ord' = [ord EXCEPT ![s] = [ord[s] EXCEPT ![l] = "filled"]]
    BY <1>0 DEF TypeOK, LegFills
  <2>2. /\ [ord[s] EXCEPT ![l] = "filled"] \in [Legs -> OrderStatus]
        /\ \A y \in Legs : [ord[s] EXCEPT ![l] = "filled"][y] = IF y = l THEN "filled" ELSE ord[s][y]
    BY <2>1 DEF OrderStatus
  <2> QED
    BY <2>1, <2>2
<1>4. UNCHANGED <<mode, ksFired, approved, queue, accepting, om, filled, closed, recorded,
                  unpriced, loop, g6, fc, er, w, m, entryQty, late>>
  BY DEF LegFills, execVars, taskVars
<1>5. TypeOK'
  BY <1>0, <1>2, <1>3, <1>4 DEF TypeOK
<1>6. PositionStep /\ WatcherStep /\ LoopStep
  BY <1>4 DEF PositionStep, PositionKept, WatcherStep, LoopStep
<1>7. LoopInv' /\ QueueInv' /\ GateInv' /\ ForceInv' /\ WatcherInv' /\ PositionInv'
  BY <1>0, <1>2, <1>4, <1>6, LoopFrame, QueueFrame, GateFrame, ForceFrame, WatcherFrame,
     PositionFrame DEF IndInv
<1>8. ExchangeInv'
  <2>1. \A x \in Signals : exitQty[x] > 0 => exitQty'[x] > 0
    BY <1>0, <1>2 DEF TypeOK, ExitsGrow
  <2>2. s \in filled
    BY DEF IndInv, ExchangeInv, LegFills
  <2>3. \A x \in Signals : \A y \in Legs :
          /\ ord'[x][y] \in {"open", "filled"} => x \in filled
          /\ ord'[x][y] = "filled" => exitQty'[x] > 0
    BY <1>2, <1>3, <2>1, <2>2 DEF IndInv, ExchangeInv
  <2>4. \A x \in closed : exitQty'[x] > 0
    BY <1>0, <2>1 DEF IndInv, ExchangeInv, TypeOK
  <2> QED
    BY <1>4, <2>1, <2>3, <2>4 DEF IndInv, ExchangeInv
<1> QED
  BY <1>5, <1>7, <1>8 DEF IndInv

LEMMA LateRequest_Inv ==
  ASSUME IndInv, NEW r \in late, LateRequest(r)
  PROVE  IndInv'
<1>0. TypeOK /\ r.sig \in Signals /\ late' \subseteq late
  BY DEF IndInv, ExchangeInv, TypeOK, LateRequest
<1>1. /\ ord' \in [Signals -> [Legs -> OrderStatus]] /\ LegsKept
      /\ exitQty' \in [Signals -> Nat] /\ ExitsGrow
  <2>1. CASE r.kind = "cancel"
    BY <1>0, <2>1, CancelFacts, NoExitYet DEF LateRequest
  <2>2. CASE r.kind # "cancel"
    <3>1. PICK q \in 1 .. entryQty[r.sig] : exitQty' = [exitQty EXCEPT ![r.sig] = @ + q]
      BY <2>2 DEF LateRequest
    <3>2. entryQty[r.sig] \in Nat /\ q \in Nat /\ exitQty \in [Signals -> Nat]
      BY <1>0 DEF TypeOK
    <3>3. exitQty' \in [Signals -> Nat] /\ ExitsGrow
      BY <1>0, <3>1, <3>2 DEF ExitsGrow
    <3>4. ord' = ord
      BY <2>2 DEF LateRequest
    <3> QED
      BY <1>0, <3>3, <3>4, NoLegChange DEF TypeOK
  <2> QED
    BY <2>1, <2>2
<1>2. UNCHANGED <<mode, ksFired, approved, queue, accepting, om, filled, closed, recorded,
                  unpriced, loop, g6, fc, er, w, m, entryQty>>
  BY DEF LateRequest, execVars, taskVars
<1>3. TypeOK'
  BY <1>0, <1>1, <1>2 DEF TypeOK
<1>4. Keeps
  BY <1>0, <1>1, <1>2, KeepsPosition DEF PositionKept, LoopStep
<1>5. LateTracked /\ ClosedStep
  BY <1>0, <1>2 DEF IndInv, ExchangeInv, LateTracked, ClosedStep
<1> QED
  BY <1>1, <1>2, <1>3, <1>4, <1>5, Frames DEF IndInv

-----------------------------------------------------------------------------
(* The invariant *)

LEMMA InitInv == Init => IndInv
<1> SUFFICES ASSUME Init PROVE IndInv
  OBVIOUS
<1>1. /\ mode \in Modes /\ ksFired = FALSE /\ accepting = TRUE /\ approved = {} /\ queue = <<>>
      /\ om = Flat /\ filled = {} /\ closed = {} /\ unpriced = {}
      /\ recorded = [s \in Signals |-> 0]
      /\ loop = Idle \/ loop = [pc |-> "drain", sig |-> None]
      /\ g6 = [pc |-> "idle", sig |-> None, cap |-> None]
      /\ fc = [k \in Kills |-> [pc |-> "unused", cap |-> None]]
      /\ er = [s \in Signals |-> "idle"] /\ w = Idle /\ m = Idle
      /\ entryQty = [s \in Signals |-> 0] /\ exitQty = [s \in Signals |-> 0]
      /\ ord = [s \in Signals |-> [l \in Legs |-> "none"]] /\ late = {}
  BY DEF Init
<1>2. queue \in Seq(Signals) /\ Len(queue) = 0
  BY <1>1
<1>3. om \in Fields /\ w \in PollerStates /\ m \in MonitorStates
  BY <1>1, FlatTyped
<1>4. loop \in LoopStates /\ loop.pc \in {"idle", "drain"}
  BY <1>1 DEF Idle, LoopStates, SignalOrNone
<1>5. g6 \in GateStates /\ g6.pc = "idle"
  BY <1>1 DEF GateStates, SignalOrNone
<1>6. fc \in [Kills -> ForceStates] /\ \A k \in Kills : fc[k].pc = "unused"
  BY <1>1 DEF ForceStates, SignalOrNone
<1>7. er \in [Signals -> ReportStates] /\ \A s \in Signals : er[s] = "idle"
  BY <1>1 DEF ReportStates
<1>8. /\ recorded \in [Signals -> Nat] /\ entryQty \in [Signals -> Nat]
      /\ exitQty \in [Signals -> Nat]
  BY <1>1
<1>9. /\ ord \in [Signals -> [Legs -> OrderStatus]]
      /\ \A s \in Signals : \A l \in Legs : ord[s][l] = "none"
  BY <1>1 DEF OrderStatus
<1>10. TypeOK
  BY <1>1, <1>2, <1>3, <1>4, <1>5, <1>6, <1>7, <1>8, <1>9 DEF TypeOK
<1>11. LoopInv /\ QueueInv /\ GateInv /\ ForceInv
  BY <1>1, <1>2, <1>4, <1>5, <1>6
     DEF LoopInv, QueueInv, GateInv, ForceInv, LoopPlacing, LoopClosing
<1>12. WatcherInv /\ PositionInv /\ ExchangeInv
  BY <1>1, <1>7, <1>9 DEF WatcherInv, PositionInv, ExchangeInv, Idle, Flat
<1> QED
  BY <1>10, <1>11, <1>12 DEF IndInv

LEMMA StutterInv ==
  ASSUME IndInv, UNCHANGED vars
  PROVE  IndInv'
<1>1. /\ UNCHANGED <<mode, ksFired, approved, queue, accepting, om, filled, closed, recorded,
                     unpriced>>
      /\ UNCHANGED <<loop, g6, fc, er, w, m, entryQty, exitQty, ord, late>>
  BY DEF vars, execVars, taskVars, exchVars
<1>2. TypeOK /\ TypeOK'
  BY <1>1 DEF IndInv, TypeOK
<1>3. LoopInv' /\ QueueInv' /\ GateInv' /\ ForceInv'
  BY <1>1 DEF IndInv, LoopInv, QueueInv, GateInv, ForceInv, LoopPlacing, LoopClosing
<1>4. WatcherInv' /\ PositionInv' /\ ExchangeInv'
  BY <1>1 DEF IndInv, WatcherInv, PositionInv, ExchangeInv, LoopPlacing
<1> QED
  BY <1>2, <1>3, <1>4 DEF IndInv

LEMMA NextInv ==
  ASSUME IndInv, Next
  PROVE  IndInv'
<1>1. CASE \E s \in Signals : Approve(s) \/ ExecutionReportDone(s)
  BY <1>1, Approve_Inv, ExecutionReportDone_Inv
<1>2. CASE \E s \in Signals, l \in Legs : ExecutionReport(s, l) \/ LegFills(s, l)
  BY <1>2, ExecutionReport_Inv, LegFills_Inv
<1>3. CASE \E k \in Kills : KillswitchFires(k) \/ KillswitchUI(k) \/ ForceCloseTask(k)
  BY <1>3, Killswitch_Inv, ForceCloseCancelled_Inv, ForceCloseReply_Inv DEF ForceCloseTask
<1>4. CASE \E r \in late : LateRequest(r)
  BY <1>4, LateRequest_Inv
<1>5. CASE Gate6Task
  BY <1>5, Gate6Watch_Inv, Gate6SeesClosed_Inv, Gate6AlertPassed_Inv, Gate6Alert_Inv,
     Gate6AlertDryRun_Inv, Gate6Cancelled_Inv, Gate6CloseReply_Inv DEF Gate6Task
<1>6. CASE LoopTask
  BY <1>6, Dequeued_Inv, SendEntry_Inv, EntryMissed_Inv, EntryFilledLive_Inv,
     EntryFilledDemo_Inv, EntryDryRun_Inv, TakeProfitPlaced_Inv, StopLossPlaced_Inv,
     BracketFailed_Inv, DeferredCancelled_Inv, LoopCloseReply_Inv DEF LoopTask
<1>7. CASE PollerTask
  BY <1>7, PollSeesFill_Inv, PollSeesUnpricedFill_Inv, PollerCancelled_Inv DEF PollerTask
<1>8. CASE MonitorTask
  BY <1>8, TargetTouched_Inv, TargetCloseFilled_Inv, TargetCloseMissed_Inv DEF MonitorTask
<1> QED
  BY <1>1, <1>2, <1>3, <1>4, <1>5, <1>6, <1>7, <1>8 DEF Next

THEOREM Inductive == Spec => []IndInv
<1>1. Init => IndInv
  BY InitInv
<1>2. IndInv /\ [Next]_vars => IndInv'
  BY NextInv, StutterInv
<1> QED
  BY <1>1, <1>2, PTL DEF Spec

(* The state keeps its shape under every interleaving of the tasks: queue, *)
(* task states, order statuses and the records of _position_lock.          *)
THEOREM TypeCorrect == Spec => []TypeOK
<1>1. IndInv => TypeOK
  BY DEF IndInv
<1> QED
  BY <1>1, Inductive, PTL

(* No closer is ever stale: Gate 6, the bracket placement, force_close_all *)
(* and both watchers only ever reset the position they set out to close.   *)
THEOREM ClosersMatch == Spec => []ClosersMatchPosition
<1>1. IndInv => ClosersMatchPosition
  BY DEF IndInv, LoopInv, GateInv, ForceInv, WatcherInv, LoopClosing, ClosersMatchPosition
<1> QED
  BY <1>1, Inductive, PTL

(* position_closed_event is set only after an exit order executed.         *)
THEOREM ClosedExited == Spec => []ClosedMeansExited
<1>1. IndInv => ClosedMeansExited
  BY DEF IndInv, ExchangeInv, ClosedMeansExited
<1> QED
  BY <1>1, Inductive, PTL

-----------------------------------------------------------------------------
(* Refinement: what a step is in terms of the slot *)

Exited == {s \in Signals : exitQty[s] > 0}

SlotStep == [Slot!Next]_(Slot!slotVars)

LEMMA SlotQuiet ==
  ASSUME om'.sig = om.sig, UNCHANGED <<filled, accepting, exitQty>>
  PROVE  SlotStep
BY DEF SlotStep, Slot!slotVars

(* Exits of one signal that had the slot, which is left alone. *)
LEMMA SlotExit ==
  ASSUME NEW s \in Signals, s \in filled, om'.sig = om.sig, UNCHANGED <<filled, accepting>>,
         Exited' = Exited \/ Exited' = Exited \union {s}
  PROVE  SlotStep
<1>1. CASE Exited' = Exited
  BY <1>1 DEF SlotStep, Slot!slotVars, Exited
<1>2. CASE Exited' = Exited \union {s}
  BY <1>2 DEF SlotStep, Slot!Next, Slot!Exit, Exited
<1> QED
  BY <1>1, <1>2

(* The position of s is forgotten, if it was still tracked. *)
LEMMA SlotReset ==
  ASSUME NEW s \in Signals, s \in filled, om.sig \in {s, None}, om' = Flat,
         UNCHANGED <<filled, accepting>>,
         Exited' = Exited \/ Exited' = Exited \union {s},
         s \in Exited' \/ ~accepting
  PROVE  SlotStep
<1>1. om'.sig = None
  BY DEF Flat
<1>2. CASE om.sig = None
  BY <1>1, <1>2, SlotExit
<1>3. CASE om.sig # None
  BY <1>1, <1>3 DEF SlotStep, Slot!Next, Slot!Leave, Exited
<1> QED
  BY <1>2, <1>3

LEMMA SlotTake ==
  ASSUME NEW s \in Signals, s \notin filled, om.sig = None, om'.sig = s,
         filled' = filled \union {s}, UNCHANGED <<accepting, exitQty>>
  PROVE  SlotStep
BY DEF SlotStep, Slot!Next, Slot!Take

LEMMA CloseExits ==
  ASSUME TypeOK, NEW s \in Signals, NEW q, NEW seen, NEW isClosed,
         EmergencyClose(s, q, seen, isClosed)
  PROVE  Exited' = Exited \/ Exited' = Exited \union {s}
<1>1. /\ exitQty \in [Signals -> Nat] /\ entryQty[s] \in Nat
      /\ q \in 0 .. entryQty[s] /\ exitQty' = [exitQty EXCEPT ![s] = @ + q]
  BY DEF TypeOK, EmergencyClose
<1>2. \A x \in Signals : x # s => exitQty'[x] = exitQty[x]
  BY <1>1
<1>3. exitQty'[s] >= exitQty[s] /\ exitQty[s] \in Nat /\ exitQty'[s] \in Nat
  BY <1>1
<1> QED
  BY <1>2, <1>3 DEF Exited

LEMMA GateSlot ==
  ASSUME IndInv, Gate6Task
  PROVE  SlotStep
<1>0. TypeOK
  BY DEF IndInv
<1>1. CASE Gate6Watch \/ Gate6SeesClosed
  BY <1>1, SlotQuiet DEF Gate6Watch, Gate6SeesClosed, execVars, exchVars
<1>2. CASE Gate6AlertDeferred \/ Gate6AlertSuppressed \/ Gate6Alert
  <2>1. om'.sig = om.sig
    BY <1>0, <1>2, FlagFacts
       DEF Gate6AlertDeferred, Gate6AlertSuppressed, Gate6Alert, execVars, PositionKept
  <2> QED
    BY <1>2, <2>1, SlotQuiet
       DEF Gate6AlertDeferred, Gate6AlertSuppressed, Gate6Alert, execVars, exchVars
<1>3. CASE Gate6Cancelled
  <2>1. om'.sig = om.sig
    BY <1>0, <1>3, FlagFacts DEF Gate6Cancelled, PositionKept
  <2> QED
    BY <1>3, <2>1, SlotQuiet DEF Gate6Cancelled
<1>4. CASE Gate6AlertDryRun
  <2>1. ResetOpenPosition /\ UNCHANGED <<filled, accepting>>
    BY <1>4 DEF Gate6AlertDryRun, PaperClose
  <2>2. om' = Flat
    BY <2>1 DEF ResetOpenPosition
  <2>3. CASE om.sig = None
    <3>1. UNCHANGED exitQty
      BY <1>4, <2>3 DEF Gate6AlertDryRun, PaperClose
    <3> QED
      BY <2>1, <2>2, <2>3, <3>1, SlotQuiet DEF Flat
  <2>4. CASE om.sig # None
    <3>1. om.sig \in filled /\ om.sig \in Signals
      BY <1>0, <2>4 DEF IndInv, PositionInv, TypeOK
    <3>2. entryQty[om.sig] \in Nat /\ entryQty[om.sig] > 0 /\ exitQty \in [Signals -> Nat]
      BY <1>0, <3>1 DEF IndInv, ExchangeInv, TypeOK
    <3>3. exitQty' = [exitQty EXCEPT ![om.sig] = @ + entryQty[om.sig]]
      BY <1>4, <2>4 DEF Gate6AlertDryRun, PaperClose
    <3>4. Exited' = Exited \union {om.sig}
      BY <3>1, <3>2, <3>3 DEF Exited
    <3> QED
      BY <2>1, <2>2, <3>1, <3>4, SlotReset
  <2> QED
    BY <2>3, <2>4
<1>5. CASE Gate6CloseReply
  <2>0. /\ g6.cap \in Signals /\ g6.cap \in filled /\ om.sig \in {g6.cap, None}
        /\ UNCHANGED <<filled, accepting>>
    BY <1>0, <1>5 DEF IndInv, GateInv, TypeOK, Gate6CloseReply
  <2>1. PICK q \in 0 .. entryQty[g6.cap], seen \in BOOLEAN, isClosed \in BOOLEAN :
          /\ EmergencyClose(g6.cap, q, seen, isClosed)
          /\ IF isClosed THEN ResetOpenPosition ELSE ReleaseClose
    BY <1>5 DEF Gate6CloseReply
  <2>2. Exited' = Exited \/ Exited' = Exited \union {g6.cap}
    BY <1>0, <2>0, <2>1, CloseExits
  <2>3. CASE isClosed
    <3>1. exitQty'[g6.cap] > 0
      BY <1>0, <2>0, <2>1, <2>3, CloseFacts
    <3>2. om' = Flat
      BY <2>1, <2>3 DEF ResetOpenPosition
    <3> QED
      BY <2>0, <2>2, <3>1, <3>2, SlotReset DEF Exited
  <2>4. CASE ~isClosed
    <3>1. om'.sig = om.sig
      BY <1>0, <2>1, <2>4, FlagFacts DEF ReleaseClose, PositionKept
    <3> QED
      BY <2>0, <2>2, <3>1, SlotExit
  <2> QED
    BY <2>3, <2>4
<1> QED
  BY <1>1, <1>2, <1>3, <1>4, <1>5 DEF Gate6Task

(* force_close_all halts; what it resets was exited or is halted. *)
LEMMA ForceSlot ==
  ASSUME IndInv, NEW k \in Kills,
         KillswitchFires(k) \/ KillswitchUI(k) \/ ForceCloseTask(k)
  PROVE  SlotStep
<1>0. TypeOK
  BY DEF IndInv
<1>1. CASE ForceClose(k)
  <2>1. accepting' = FALSE /\ UNCHANGED filled
    BY <1>1 DEF ForceClose
  <2>2. CASE om.sig # None /\ mode = "DRY_RUN"
    <3>1. om.sig \in filled /\ om.sig \in Signals
      BY <1>0, <2>2 DEF IndInv, PositionInv, TypeOK
    <3>2. entryQty[om.sig] \in Nat /\ entryQty[om.sig] > 0 /\ exitQty \in [Signals -> Nat]
      BY <1>0, <3>1 DEF IndInv, ExchangeInv, TypeOK
    <3>3. om'.sig = None /\ exitQty' = [exitQty EXCEPT ![om.sig] = @ + entryQty[om.sig]]
      BY <1>1, <2>2 DEF ForceClose, ResetOpenPosition, Flat
    <3>4. Exited' = Exited \union {om.sig}
      BY <3>1, <3>2, <3>3 DEF Exited
    <3> QED
      BY <2>1, <2>2, <3>3, <3>4 DEF SlotStep, Slot!Next, Slot!Leave, Exited
  <2>3. CASE ~(om.sig # None /\ mode = "DRY_RUN")
    <3>1. UNCHANGED exitQty
      BY <1>1, <2>3 DEF ForceClose
    <3>2. om'.sig = om.sig
      BY <1>0, <1>1, <2>3, FlagFacts DEF ForceClose, PositionKept
    <3> QED
      BY <2>1, <3>1, <3>2 DEF SlotStep, Slot!Next, Slot!Halt
  <2> QED
    BY <2>2, <2>3
<1>2. CASE ForceCloseCancelled(k)
  <2>1. om'.sig = om.sig
    BY <1>0, <1>2, FlagFacts DEF ForceCloseCancelled, PositionKept
  <2> QED
    BY <1>2, <2>1, SlotQuiet DEF ForceCloseCancelled
<1>3. CASE ForceCloseReply(k)
  <2>0. /\ fc[k].cap \in Signals /\ fc[k].cap \in filled /\ om.sig \in {fc[k].cap, None}
        /\ ~accepting /\ UNCHANGED <<filled, accepting>>
    BY <1>0, <1>3 DEF IndInv, ForceInv, TypeOK, ForceCloseReply
  <2>1. PICK q \in 0 .. entryQty[fc[k].cap], seen \in BOOLEAN, isClosed \in BOOLEAN :
          EmergencyClose(fc[k].cap, q, seen, isClosed) /\ ResetOpenPosition
    BY <1>3 DEF ForceCloseReply
  <2>2. Exited' = Exited \/ Exited' = Exited \union {fc[k].cap}
    BY <1>0, <2>0, <2>1, CloseExits
  <2> QED
    BY <2>0, <2>1, <2>2, SlotReset DEF ResetOpenPosition
<1> QED
  BY <1>1, <1>2, <1>3 DEF ForceCloseTask, KillswitchFires, KillswitchUI, KillswitchSlippage

LEMMA LoopSlot ==
  ASSUME IndInv, LoopTask
  PROVE  SlotStep
<1>0. TypeOK
  BY DEF IndInv
<1>1. CASE Drain \/ Discard \/ TakeProfitPlaced \/ DeferredCancelled
  BY <1>1, SlotQuiet DEF Drain, Discard, TakeProfitPlaced, DeferredCancelled, execVars, exchVars
<1>2. CASE SendEntry \/ EntryMissed
  <2>1. om'.sig = om.sig
    BY <1>0, <1>2, FlagFacts DEF SendEntry, EntryMissed, PositionKept
  <2> QED
    BY <1>2, <2>1, SlotQuiet DEF SendEntry, EntryMissed, exchVars
<1>3. CASE EntryFilledLive \/ EntryFilledDemo
  <2>1. /\ loop.sig \in Signals /\ loop.sig \notin filled /\ om.sig = None
        /\ Fill(loop.sig, TRUE) \/ Fill(loop.sig, FALSE)
        /\ UNCHANGED <<accepting, exitQty>>
    BY <1>0, <1>3 DEF IndInv, LoopInv, TypeOK, EntryFilledLive, EntryFilledDemo
  <2>2. om'.sig = loop.sig /\ filled' = filled \union {loop.sig}
    BY <1>0, <2>1, FillTyped
  <2> QED
    BY <2>1, <2>2, SlotTake
<1>4. CASE EntryDryRun
  <2>1. PICK s \in Signals : s = Head(queue) /\ s = queue[1] /\ 1 \in 1 .. Len(queue)
    BY <1>0, <1>4, TailFacts DEF TypeOK, EntryDryRun
  <2>2. /\ s \notin filled /\ om.sig = None /\ Fill(s, FALSE)
        /\ UNCHANGED <<accepting, exitQty>>
    BY <1>4, <2>1 DEF IndInv, QueueInv, EntryDryRun, MayEnter, Exposure
  <2>3. om'.sig = s /\ filled' = filled \union {s}
    BY <1>0, <2>2, FillTyped
  <2> QED
    BY <2>2, <2>3, SlotTake
<1>5. CASE StopLossPlaced \/ BracketFailed
  <2>1. om \in Fields
    BY <1>0 DEF TypeOK
  <2>2. om'.sig = om.sig
    BY <1>5, <2>1 DEF StopLossPlaced, BracketFailed, Fields
  <2> QED
    BY <1>5, <2>2, SlotQuiet DEF StopLossPlaced, BracketFailed
<1>6. CASE LoopCloseReply
  <2>0. /\ loop.sig \in Signals /\ loop.sig \in filled /\ om.sig \in {loop.sig, None}
        /\ UNCHANGED <<filled, accepting>>
    BY <1>0, <1>6 DEF IndInv, LoopInv, LoopClosing, TypeOK, LoopCloseReply
  <2>1. PICK q \in 0 .. entryQty[loop.sig], seen \in BOOLEAN, isClosed \in BOOLEAN :
          /\ EmergencyClose(loop.sig, q, seen, isClosed)
          /\ IF isClosed THEN ResetOpenPosition ELSE om' = om \/ ReleaseClose
    BY <1>6 DEF LoopCloseReply
  <2>2. Exited' = Exited \/ Exited' = Exited \union {loop.sig}
    BY <1>0, <2>0, <2>1, CloseExits
  <2>3. CASE isClosed
    <3>1. exitQty'[loop.sig] > 0
      BY <1>0, <2>0, <2>1, <2>3, CloseFacts
    <3>2. om' = Flat
      BY <2>1, <2>3 DEF ResetOpenPosition
    <3> QED
      BY <2>0, <2>2, <3>1, <3>2, SlotReset DEF Exited
  <2>4. CASE ~isClosed
    <3>1. om'.sig = om.sig
      BY <1>0, <2>1, <2>4, FlagFacts DEF ReleaseClose, PositionKept
    <3> QED
      BY <2>0, <2>2, <3>1, SlotExit
  <2> QED
    BY <2>3, <2>4
<1> QED
  BY <1>1, <1>2, <1>3, <1>4, <1>5, <1>6 DEF LoopTask

(* The watchers and the report reset only after a fill of their signal. *)
LEMMA WatcherSlot ==
  ASSUME IndInv,
         \/ PollerTask \/ MonitorTask
         \/ \E s \in Signals : ExecutionReportDone(s)
         \/ \E s \in Signals, l \in Legs : ExecutionReport(s, l)
  PROVE  SlotStep
<1>0. TypeOK
  BY DEF IndInv
<1>1. CASE PollSeesFill \/ \E s \in Signals : ExecutionReportDone(s)
  BY <1>1, SlotQuiet DEF PollSeesFill, ExecutionReportDone, execVars, exchVars
<1>2. CASE PollSeesUnpricedFill \/ PollerCancelled
  <2>1. /\ om.sig = w.sig /\ w.sig \in Signals /\ w.sig \in filled /\ exitQty[w.sig] > 0
        /\ UNCHANGED <<filled, accepting, exitQty>>
    BY <1>2, SignalsAssumption
       DEF IndInv, WatcherInv, PositionInv, ExchangeInv, PollSeesUnpricedFill, PollerCancelled
  <2>2. om' = Flat
    BY <1>2, <2>1 DEF PollSeesUnpricedFill, PollerCancelled, ResetOpenPosition
  <2>3. Exited' = Exited /\ w.sig \in Exited'
    BY <2>1 DEF Exited
  <2> QED
    BY <2>1, <2>2, <2>3, SlotReset
<1>3. ASSUME NEW s \in Signals, NEW l \in Legs, ExecutionReport(s, l)
      PROVE  SlotStep
  <2>1. /\ om.sig = s /\ s \in filled /\ exitQty[s] > 0 /\ om' = Flat
        /\ UNCHANGED <<filled, accepting, exitQty>>
    BY <1>3 DEF IndInv, ExchangeInv, ExecutionReport, ResetOpenPosition
  <2>2. Exited' = Exited /\ s \in Exited'
    BY <2>1 DEF Exited
  <2> QED
    BY <2>1, <2>2, SlotReset
<1>4. CASE TargetTouched
  <2>1. om'.sig = om.sig
    BY <1>0, <1>4, FlagFacts DEF TargetTouched, PositionKept
  <2> QED
    BY <1>4, <2>1, SlotQuiet DEF TargetTouched, exchVars
<1>5. CASE TargetCloseFilled
  <2>1. /\ om.sig = m.sig /\ m.sig \in Signals /\ m.sig \in filled
        /\ UNCHANGED <<filled, accepting>> /\ om' = Flat
    BY <1>5, SignalsAssumption DEF IndInv, WatcherInv, PositionInv, TargetCloseFilled
  <2>2. PICK q \in 1 .. entryQty[m.sig] : EmergencyClose(m.sig, q, TRUE, TRUE)
    BY <1>5 DEF TargetCloseFilled
  <2>3. exitQty'[m.sig] > 0
    BY <1>0, <2>1, <2>2, CloseFacts
  <2>4. Exited' = Exited \/ Exited' = Exited \union {m.sig}
    BY <1>0, <2>1, <2>2, CloseExits
  <2> QED
    BY <2>1, <2>3, <2>4, SlotReset DEF Exited
<1>6. CASE TargetCloseMissed
  <2>1. /\ m.sig \in Signals /\ m.sig \in filled /\ UNCHANGED <<filled, accepting>>
    BY <1>6, SignalsAssumption DEF IndInv, WatcherInv, PositionInv, TargetCloseMissed
  <2>2. PICK q \in 0 .. entryQty[m.sig], seen \in BOOLEAN : EmergencyClose(m.sig, q, seen, FALSE)
    BY <1>6 DEF TargetCloseMissed
  <2>3. om'.sig = om.sig
    BY <1>0, <1>6, FlagFacts DEF TargetCloseMissed, ReleaseClose, PositionKept
  <2>4. Exited' = Exited \/ Exited' = Exited \union {m.sig}
    BY <1>0, <2>1, <2>2, CloseExits
  <2> QED
    BY <2>1, <2>3, <2>4, SlotExit
<1> QED
  BY <1>1, <1>2, <1>3, <1>4, <1>5, <1>6 DEF PollerTask, MonitorTask

LEMMA ExchangeSlot ==
  ASSUME IndInv,
         \/ \E s \in Signals, l \in Legs : LegFills(s, l)
         \/ \E r \in late : LateRequest(r)
  PROVE  SlotStep
<1>0. TypeOK
  BY DEF IndInv
<1>1. ASSUME NEW s \in Signals, s \in filled, NEW q \in 1 .. entryQty[s],
             exitQty' = [exitQty EXCEPT ![s] = @ + q],
             UNCHANGED <<om, filled, accepting>>
      PROVE  SlotStep
  <2>1. exitQty \in [Signals -> Nat] /\ entryQty[s] \in Nat
    BY <1>0 DEF TypeOK
  <2>2. Exited' = Exited \union {s}
    BY <1>1, <2>1 DEF Exited
  <2> QED
    BY <1>1, <2>2, SlotExit
<1>2. ASSUME NEW s \in Signals, NEW l \in Legs, LegFills(s, l)
      PROVE  SlotStep
  <2>1. s \in filled /\ UNCHANGED <<om, filled, accepting>>
    BY <1>2 DEF IndInv, ExchangeInv, LegFills, execVars
  <2>2. PICK q \in 1 .. entryQty[s] : exitQty' = [exitQty EXCEPT ![s] = @ + q]
    BY <1>2 DEF LegFills
  <2> QED
    BY <1>1, <2>1, <2>2
<1>3. ASSUME NEW r \in late, LateRequest(r)
      PROVE  SlotStep
  <2>1. r.sig \in filled /\ r.sig \in Signals /\ UNCHANGED <<om, filled, accepting>>
    BY <1>0, <1>3 DEF IndInv, ExchangeInv, TypeOK, LateRequest, execVars
  <2>2. CASE r.kind = "cancel"
    BY <1>3, <2>1, <2>2, SlotQuiet DEF LateRequest
  <2>3. CASE r.kind # "cancel"
    <3>1. PICK q \in 1 .. entryQty[r.sig] : exitQty' = [exitQty EXCEPT ![r.sig] = @ + q]
      BY <1>3, <2>3 DEF LateRequest
    <3> QED
      BY <1>1, <2>1, <3>1
  <2> QED
    BY <2>2, <2>3
<1> QED
  BY <1>2, <1>3

LEMMA NextSlot ==
  ASSUME IndInv, [Next]_vars
  PROVE  SlotStep
<1>1. CASE UNCHANGED vars
  BY <1>1, SlotQuiet DEF vars, execVars, exchVars
<1>2. CASE \E s \in Signals : Approve(s)
  BY <1>2, SlotQuiet DEF Approve, execVars
<1>3. CASE Next /\ ~(\E s \in Signals : Approve(s))
  BY <1>3, GateSlot, ForceSlot, LoopSlot, WatcherSlot, ExchangeSlot DEF Next
<1> QED
  BY <1>1, <1>2, <1>3

(* The execution layer implements the position slot: whatever the tasks    *)
(* do, a step gives the free slot to a filled request, records an executed *)
(* exit, frees the slot after an exit or a halt, or halts.                 *)
THEOREM Refinement == Spec => ImplementsSlot
<1>1. Init => Slot!Init
  <2> SUFFICES ASSUME Init PROVE Slot!Init
    OBVIOUS
  <2>1. om.sig = None /\ filled = {} /\ ~accepting = FALSE
    BY DEF Init, Flat
  <2>2. {s \in Signals : exitQty[s] > 0} = {}
    BY DEF Init
  <2> QED
    BY <2>1, <2>2 DEF Slot!Init
<1>2. IndInv /\ [Next]_vars => [Slot!Next]_(Slot!slotVars)
  BY NextSlot DEF SlotStep
<1> QED
  BY <1>1, <1>2, Inductive, PTL DEF Spec, ImplementsSlot, Slot!SlotSpec

LEMMA SlotRemembers ==
  ASSUME TypeOK, NoSilentForget, SlotStep
  PROVE  NoSilentForget'
<1>0. /\ filled \subseteq Signals
      /\ \A s \in filled : om.sig = s \/ s \in Exited \/ ~accepting
  BY DEF TypeOK, NoSilentForget, Exited
<1>1. \A s \in filled' : om'.sig = s \/ s \in Exited' \/ ~accepting'
  <2>1. CASE \E s \in Signals : Slot!Take(s)
    BY <1>0, <2>1, SignalsAssumption DEF Slot!Take, Exited
  <2>2. CASE \E s \in Signals : Slot!Exit(s)
    BY <1>0, <2>2 DEF Slot!Exit, Exited
  <2>3. CASE Slot!Leave
    BY <1>0, <2>3 DEF Slot!Leave, Exited
  <2>4. CASE Slot!Halt
    BY <1>0, <2>4 DEF Slot!Halt, Exited
  <2>5. CASE UNCHANGED Slot!slotVars
    BY <1>0, <2>5 DEF Slot!slotVars, Exited
  <2> QED
    BY <2>1, <2>2, <2>3, <2>4, <2>5 DEF SlotStep, Slot!Next
<1> QED
  BY <1>1 DEF NoSilentForget, Exited

(* No position is silently forgotten: while trading is on, a filled        *)
(* request is still tracked or one of its exit orders has executed.        *)
THEOREM NothingForgotten == Spec => []NoSilentForget
<1>1. Init => NoSilentForget
  BY DEF Init, NoSilentForget
<1>2. IndInv /\ NoSilentForget /\ [Next]_vars => NoSilentForget'
  BY NextSlot, SlotRemembers DEF IndInv
<1> QED
  BY <1>1, <1>2, Inductive, PTL DEF Spec

-----------------------------------------------------------------------------
(* Accounting: what the booked outcomes are backed by *)

(* The books against the position and the exchange.  A request with an     *)
(* outcome is no longer tracked; the report's task that owes an outcome    *)
(* has an unbooked exit in hand; and a request that is no longer tracked   *)
(* is booked, about to be, unpriced, or was given up after a halt.         *)
AccountInv ==
  /\ \A s \in Signals : recorded[s] <= exitQty[s]
  /\ \A s \in Signals : recorded[s] > 0 => s \in filled /\ om.sig # s
  /\ \A s \in Signals : er[s] = "cancel" =>
       s \in filled /\ om.sig # s /\ recorded[s] < exitQty[s]
  /\ \A s \in closed : s \in filled /\ om.sig # s
  /\ \A s \in filled :
       om.sig = s \/ recorded[s] > 0 \/ er[s] = "cancel" \/ s \in unpriced \/ ~accepting

(* One outcome of s is booked, and what entitles the step to book it: an   *)
(* exit that executes in the step, the report that owed the outcome, or    *)
(* the fill by which the position leaves the slot.                         *)
Books(s) ==
  /\ recorded'[s] = recorded[s] + 1
  /\ s \in filled /\ om'.sig # s
  /\ \/ exitQty'[s] > exitQty[s] /\ er'[s] = er[s]
     \/ er[s] = "cancel" /\ er'[s] # "cancel"
     \/ om.sig = s /\ exitQty[s] > 0 /\ er'[s] = er[s]

(* The ways a step may change what the books say of s. *)
AccountStepOf(s) ==
  /\ s \in filled => s \in filled'
  /\ s \in filled' => s \in filled \/ om'.sig = s
  /\ om'.sig = s => om.sig = s \/ s \notin filled
  /\ exitQty'[s] >= exitQty[s]
  /\ recorded'[s] = recorded[s] \/ Books(s)
  /\ er'[s] = "cancel" =>
       \/ er[s] = "cancel"
       \/ om.sig = s /\ om'.sig # s /\ s \in filled /\ exitQty[s] > 0
          /\ recorded'[s] = recorded[s]
  /\ er[s] = "cancel" /\ er'[s] # "cancel" => Books(s)
  /\ s \in closed' => s \in closed \/ (s \in filled /\ om'.sig # s)
  /\ s \in unpriced => s \in unpriced'
  /\ om.sig = s /\ om'.sig # s =>
       Books(s) \/ er'[s] = "cancel" \/ s \in unpriced' \/ ~accepting'

AccountStep == (accepting' => accepting) /\ \A s \in Signals : AccountStepOf(s)

LEMMA AccountKept ==
  ASSUME TypeOK, TypeOK', AccountInv, AccountStep
  PROVE  AccountInv'
<1>0. filled' \subseteq Signals /\ closed' \subseteq Signals
  BY DEF TypeOK
<1>1. ASSUME NEW s \in Signals
      PROVE  /\ recorded'[s] <= exitQty'[s]
             /\ recorded'[s] > 0 => s \in filled' /\ om'.sig # s
             /\ er'[s] = "cancel" => s \in filled' /\ om'.sig # s /\ recorded'[s] < exitQty'[s]
             /\ s \in closed' => s \in filled' /\ om'.sig # s
             /\ s \in filled' => \/ om'.sig = s \/ recorded'[s] > 0 \/ er'[s] = "cancel"
                                 \/ s \in unpriced' \/ ~accepting'
  <2>1. /\ recorded[s] \in Nat /\ recorded'[s] \in Nat
        /\ exitQty[s] \in Nat /\ exitQty'[s] \in Nat
    BY DEF TypeOK
  <2>2. AccountStepOf(s) /\ (accepting' => accepting)
    BY DEF AccountStep
  <2>3. /\ recorded[s] <= exitQty[s]
        /\ recorded[s] > 0 => s \in filled /\ om.sig # s
        /\ er[s] = "cancel" => s \in filled /\ om.sig # s /\ recorded[s] < exitQty[s]
        /\ s \in closed => s \in filled /\ om.sig # s
        /\ s \in filled => \/ om.sig = s \/ recorded[s] > 0 \/ er[s] = "cancel"
                           \/ s \in unpriced \/ ~accepting
    BY DEF AccountInv
  <2>4. recorded'[s] <= exitQty'[s]
    BY <2>1, <2>2, <2>3 DEF AccountStepOf, Books
  <2>5. recorded'[s] > 0 => s \in filled' /\ om'.sig # s
    BY <2>1, <2>2, <2>3 DEF AccountStepOf, Books
  <2>6. er'[s] = "cancel" => s \in filled' /\ om'.sig # s /\ recorded'[s] < exitQty'[s]
    BY <2>1, <2>2, <2>3 DEF AccountStepOf, Books
  <2>7. s \in closed' => s \in filled' /\ om'.sig # s
    BY <2>2, <2>3 DEF AccountStepOf
  <2>8. s \in filled' => \/ om'.sig = s \/ recorded'[s] > 0 \/ er'[s] = "cancel"
                         \/ s \in unpriced' \/ ~accepting'
    BY <2>1, <2>2, <2>3 DEF AccountStepOf, Books
  <2> QED
    BY <2>4, <2>5, <2>6, <2>7, <2>8
<1> QED
  BY <1>0, <1>1 DEF AccountInv

(* Nothing the books are about changes but, perhaps, exits. *)
LEMMA AccountQuiet ==
  ASSUME om'.sig = om.sig, UNCHANGED <<filled, recorded, er, closed, unpriced>>,
         accepting' => accepting, ExitsGrow
  PROVE  AccountStep
BY DEF AccountStep, AccountStepOf, ExitsGrow

LEMMA CloseGrows ==
  ASSUME TypeOK, NEW s \in Signals, NEW q, NEW seen, NEW isClosed,
         EmergencyClose(s, q, seen, isClosed)
  PROVE  ExitsGrow /\ (isClosed => exitQty'[s] > exitQty[s])
<1>1. /\ exitQty \in [Signals -> Nat] /\ q \in Nat /\ (isClosed => q > 0)
      /\ exitQty' = [exitQty EXCEPT ![s] = @ + q]
  BY DEF TypeOK, EmergencyClose
<1> QED
  BY <1>1 DEF ExitsGrow

(* The position of s is closed by an exit that executes, and the outcome   *)
(* is booked unless the slot was already empty.                            *)
LEMMA AccountClose ==
  ASSUME TypeOK, NEW s \in Signals, s \in filled, om.sig \in {s, None}, om'.sig = None,
         ExitsGrow, exitQty'[s] > exitQty[s], closed' = closed \union {s},
         \/ recorded' = [recorded EXCEPT ![s] = @ + 1]
         \/ om.sig = None /\ recorded' = recorded,
         UNCHANGED <<filled, er, unpriced>>, accepting' => accepting
  PROVE  AccountStep
<1>1. recorded \in [Signals -> Nat] /\ None \notin Signals
  BY SignalsAssumption DEF TypeOK
<1>2. ASSUME NEW x \in Signals
      PROVE  AccountStepOf(x)
  <2>1. exitQty'[x] >= exitQty[x] /\ om'.sig # x
    BY <1>1 DEF ExitsGrow
  <2>2. CASE x = s /\ recorded' = [recorded EXCEPT ![s] = @ + 1]
    <3>1. Books(s)
      BY <1>1, <2>1, <2>2 DEF Books
    <3> QED
      BY <2>1, <2>2, <3>1 DEF AccountStepOf
  <2>3. CASE x # s \/ (om.sig = None /\ recorded' = recorded)
    <3>1. recorded'[x] = recorded[x] /\ om.sig # x
      BY <1>1, <2>3
    <3> QED
      BY <2>1, <2>3, <3>1 DEF AccountStepOf
  <2> QED
    BY <2>2, <2>3
<1> QED
  BY <1>2 DEF AccountStep

LEMMA AccountTake ==
  ASSUME NEW s \in Signals, s \notin filled, om.sig = None, om'.sig = s,
         filled' = filled \union {s}, UNCHANGED <<recorded, er, closed, unpriced, accepting, exitQty>>,
         TypeOK
  PROVE  AccountStep
<1>1. \A x \in Signals : exitQty[x] \in Nat /\ x # None
  BY SignalsAssumption DEF TypeOK
<1> QED
  BY <1>1 DEF AccountStep, AccountStepOf

LEMMA GateAccount ==
  ASSUME IndInv, Gate6Task
  PROVE  AccountStep
<1>0. TypeOK
  BY DEF IndInv
<1>1. CASE Gate6Watch \/ Gate6SeesClosed
  BY <1>0, <1>1, AccountQuiet, NoExitYet DEF Gate6Watch, Gate6SeesClosed, execVars, exchVars
<1>2. CASE Gate6AlertDeferred \/ Gate6AlertSuppressed \/ Gate6Alert
  <2>1. om'.sig = om.sig
    BY <1>0, <1>2, FlagFacts
       DEF Gate6AlertDeferred, Gate6AlertSuppressed, Gate6Alert, execVars, PositionKept
  <2> QED
    BY <1>0, <1>2, <2>1, AccountQuiet, NoExitYet
       DEF Gate6AlertDeferred, Gate6AlertSuppressed, Gate6Alert, execVars, exchVars
<1>3. CASE Gate6Cancelled
  <2>1. om'.sig = om.sig
    BY <1>0, <1>3, FlagFacts DEF Gate6Cancelled, PositionKept
  <2> QED
    BY <1>0, <1>3, <2>1, AccountQuiet, NoExitYet DEF Gate6Cancelled
<1>4. CASE Gate6AlertDryRun
  <2>1. ResetOpenPosition /\ UNCHANGED <<filled, accepting, er, unpriced>>
    BY <1>4 DEF Gate6AlertDryRun, PaperClose
  <2>2. om'.sig = None
    BY <2>1 DEF ResetOpenPosition, Flat
  <2>3. CASE om.sig = None
    <3>1. UNCHANGED <<exitQty, recorded, closed>>
      BY <1>4, <2>3 DEF Gate6AlertDryRun, PaperClose, RecordOutcome
    <3> QED
      BY <1>0, <2>1, <2>2, <2>3, <3>1, AccountQuiet, NoExitYet
  <2>4. CASE om.sig # None
    <3>1. om.sig \in filled /\ om.sig \in Signals
      BY <1>0, <2>4 DEF IndInv, PositionInv, TypeOK
    <3>2. entryQty[om.sig] \in Nat /\ entryQty[om.sig] > 0 /\ exitQty \in [Signals -> Nat]
      BY <1>0, <3>1 DEF IndInv, ExchangeInv, TypeOK
    <3>3. /\ exitQty' = [exitQty EXCEPT ![om.sig] = @ + entryQty[om.sig]]
          /\ recorded' = [recorded EXCEPT ![om.sig] = @ + 1]
          /\ closed' = closed \union {om.sig}
      BY <1>4, <2>4 DEF Gate6AlertDryRun, PaperClose, RecordOutcome
    <3>4. ExitsGrow /\ exitQty'[om.sig] > exitQty[om.sig]
      BY <3>1, <3>2, <3>3 DEF ExitsGrow
    <3> QED
      BY <1>0, <2>1, <2>2, <3>1, <3>3, <3>4, AccountClose
  <2> QED
    BY <2>3, <2>4
<1>5. CASE Gate6CloseReply
  <2>0. /\ g6.cap \in Signals /\ g6.cap \in filled /\ om.sig \in {g6.cap, None}
        /\ UNCHANGED <<filled, accepting, er, unpriced>>
    BY <1>0, <1>5 DEF IndInv, GateInv, TypeOK, Gate6CloseReply
  <2>1. PICK q \in 0 .. entryQty[g6.cap], seen \in BOOLEAN, isClosed \in BOOLEAN :
          /\ EmergencyClose(g6.cap, q, seen, isClosed)
          /\ IF isClosed
             THEN ResetOpenPosition /\ RecordOutcome(om.sig) /\ AnnounceClosed(g6.cap)
             ELSE ReleaseClose /\ UNCHANGED <<recorded, closed>>
    BY <1>5 DEF Gate6CloseReply
  <2>2. ExitsGrow /\ (isClosed => exitQty'[g6.cap] > exitQty[g6.cap])
    BY <1>0, <2>0, <2>1, CloseGrows
  <2>3. CASE isClosed
    <3>1. om'.sig = None /\ closed' = closed \union {g6.cap}
      BY <2>1, <2>3 DEF ResetOpenPosition, Flat, AnnounceClosed
    <3>2. \/ recorded' = [recorded EXCEPT ![g6.cap] = @ + 1]
          \/ om.sig = None /\ recorded' = recorded
      BY <2>0, <2>1, <2>3 DEF RecordOutcome
    <3> QED
      BY <1>0, <2>0, <2>2, <2>3, <3>1, <3>2, AccountClose
  <2>4. CASE ~isClosed
    <3>1. om'.sig = om.sig
      BY <1>0, <2>1, <2>4, FlagFacts DEF ReleaseClose, PositionKept
    <3> QED
      BY <2>0, <2>1, <2>2, <2>4, <3>1, AccountQuiet
  <2> QED
    BY <2>3, <2>4
<1> QED
  BY <1>1, <1>2, <1>3, <1>4, <1>5 DEF Gate6Task

LEMMA ForceAccount ==
  ASSUME IndInv, NEW k \in Kills,
         KillswitchFires(k) \/ KillswitchUI(k) \/ ForceCloseTask(k)
  PROVE  AccountStep
<1>0. TypeOK
  BY DEF IndInv
<1>1. CASE ForceClose(k)
  <2>1. accepting' = FALSE /\ UNCHANGED <<filled, er, unpriced>>
    BY <1>1 DEF ForceClose
  <2>2. CASE om.sig # None /\ mode = "DRY_RUN"
    <3>1. om.sig \in filled /\ om.sig \in Signals
      BY <1>0, <2>2 DEF IndInv, PositionInv, TypeOK
    <3>2. entryQty[om.sig] \in Nat /\ entryQty[om.sig] > 0 /\ exitQty \in [Signals -> Nat]
      BY <1>0, <3>1 DEF IndInv, ExchangeInv, TypeOK
    <3>3. /\ om'.sig = None
          /\ exitQty' = [exitQty EXCEPT ![om.sig] = @ + entryQty[om.sig]]
          /\ recorded' = [recorded EXCEPT ![om.sig] = @ + 1]
          /\ closed' = closed \union {om.sig}
      BY <1>1, <2>2 DEF ForceClose, ResetOpenPosition, Flat
    <3>4. ExitsGrow /\ exitQty'[om.sig] > exitQty[om.sig]
      BY <3>1, <3>2, <3>3 DEF ExitsGrow
    <3> QED
      BY <1>0, <2>1, <3>1, <3>3, <3>4, AccountClose
  <2>3. CASE ~(om.sig # None /\ mode = "DRY_RUN")
    <3>1. UNCHANGED <<exitQty, recorded, closed>>
      BY <1>1, <2>3 DEF ForceClose
    <3>2. om'.sig = om.sig
      BY <1>0, <1>1, <2>3, FlagFacts DEF ForceClose, PositionKept
    <3> QED
      BY <1>0, <2>1, <3>1, <3>2, AccountQuiet, NoExitYet
  <2> QED
    BY <2>2, <2>3
<1>2. CASE ForceCloseCancelled(k)
  <2>1. om'.sig = om.sig
    BY <1>0, <1>2, FlagFacts DEF ForceCloseCancelled, PositionKept
  <2> QED
    BY <1>0, <1>2, <2>1, AccountQuiet, NoExitYet DEF ForceCloseCancelled
<1>3. CASE ForceCloseReply(k)
  <2>0. /\ fc[k].cap \in Signals /\ fc[k].cap \in filled /\ om.sig \in {fc[k].cap, None}
        /\ ~accepting /\ UNCHANGED <<filled, accepting, er, unpriced>>
    BY <1>0, <1>3 DEF IndInv, ForceInv, TypeOK, ForceCloseReply
  <2>1. PICK q \in 0 .. entryQty[fc[k].cap], seen \in BOOLEAN, isClosed \in BOOLEAN :
          /\ EmergencyClose(fc[k].cap, q, seen, isClosed)
          /\ ResetOpenPosition
          /\ IF isClosed
             THEN RecordOutcome(om.sig) /\ AnnounceClosed(fc[k].cap)
             ELSE UNCHANGED <<recorded, closed>>
    BY <1>3 DEF ForceCloseReply
  <2>2. ExitsGrow /\ (isClosed => exitQty'[fc[k].cap] > exitQty[fc[k].cap])
    BY <1>0, <2>0, <2>1, CloseGrows
  <2>3. om'.sig = None /\ None \notin Signals
    BY <2>1, SignalsAssumption DEF ResetOpenPosition, Flat
  <2>4. CASE isClosed
    <3>1. closed' = closed \union {fc[k].cap}
      BY <2>1, <2>4 DEF AnnounceClosed
    <3>2. \/ recorded' = [recorded EXCEPT ![fc[k].cap] = @ + 1]
          \/ om.sig = None /\ recorded' = recorded
      BY <2>0, <2>1, <2>4 DEF RecordOutcome
    <3> QED
      BY <1>0, <2>0, <2>2, <2>3, <2>4, <3>1, <3>2, AccountClose
  <2>5. CASE ~isClosed
    BY <2>0, <2>1, <2>2, <2>3, <2>5 DEF AccountStep, AccountStepOf, ExitsGrow
  <2> QED
    BY <2>4, <2>5
<1> QED
  BY <1>1, <1>2, <1>3 DEF ForceCloseTask, KillswitchFires, KillswitchUI, KillswitchSlippage

LEMMA LoopAccount ==
  ASSUME IndInv, LoopTask
  PROVE  AccountStep
<1>0. TypeOK
  BY DEF IndInv
<1>1. CASE Drain \/ Discard \/ TakeProfitPlaced \/ DeferredCancelled
  BY <1>0, <1>1, AccountQuiet, NoExitYet
     DEF Drain, Discard, TakeProfitPlaced, DeferredCancelled, execVars, exchVars, taskVars
<1>2. CASE SendEntry \/ EntryMissed
  <2>1. om'.sig = om.sig
    BY <1>0, <1>2, FlagFacts DEF SendEntry, EntryMissed, PositionKept
  <2> QED
    BY <1>0, <1>2, <2>1, AccountQuiet, NoExitYet DEF SendEntry, EntryMissed, exchVars
<1>3. CASE EntryFilledLive \/ EntryFilledDemo
  <2>1. /\ loop.sig \in Signals /\ loop.sig \notin filled /\ om.sig = None
        /\ Fill(loop.sig, TRUE) \/ Fill(loop.sig, FALSE)
        /\ UNCHANGED <<recorded, er, closed, unpriced, accepting, exitQty>>
    BY <1>0, <1>3 DEF IndInv, LoopInv, TypeOK, EntryFilledLive, EntryFilledDemo
  <2>2. om'.sig = loop.sig /\ filled' = filled \union {loop.sig}
    BY <1>0, <2>1, FillTyped
  <2> QED
    BY <1>0, <2>1, <2>2, AccountTake
<1>4. CASE EntryDryRun
  <2>1. PICK s \in Signals : s = Head(queue) /\ s = queue[1] /\ 1 \in 1 .. Len(queue)
    BY <1>0, <1>4, TailFacts DEF TypeOK, EntryDryRun
  <2>2. /\ s \notin filled /\ om.sig = None /\ Fill(s, FALSE)
        /\ UNCHANGED <<recorded, er, closed, unpriced, accepting, exitQty>>
    BY <1>4, <2>1 DEF IndInv, QueueInv, EntryDryRun, MayEnter, Exposure
  <2>3. om'.sig = s /\ filled' = filled \union {s}
    BY <1>0, <2>2, FillTyped
  <2> QED
    BY <1>0, <2>2, <2>3, AccountTake
<1>5. CASE StopLossPlaced \/ BracketFailed
  <2>1. om \in Fields
    BY <1>0 DEF TypeOK
  <2>2. om'.sig = om.sig
    BY <1>5, <2>1 DEF StopLossPlaced, BracketFailed, Fields
  <2> QED
    BY <1>0, <1>5, <2>2, AccountQuiet, NoExitYet DEF StopLossPlaced, BracketFailed
<1>6. CASE LoopCloseReply
  <2>0. /\ loop.sig \in Signals /\ loop.sig \in filled /\ om.sig \in {loop.sig, None}
        /\ UNCHANGED <<filled, accepting, er, unpriced>>
    BY <1>0, <1>6 DEF IndInv, LoopInv, LoopClosing, TypeOK, LoopCloseReply
  <2>1. PICK q \in 0 .. entryQty[loop.sig], seen \in BOOLEAN, isClosed \in BOOLEAN :
          /\ EmergencyClose(loop.sig, q, seen, isClosed)
          /\ IF isClosed
             THEN ResetOpenPosition /\ RecordOutcome(loop.sig) /\ AnnounceClosed(loop.sig)
             ELSE (om' = om \/ ReleaseClose) /\ UNCHANGED <<recorded, closed>>
    BY <1>6 DEF LoopCloseReply
  <2>2. ExitsGrow /\ (isClosed => exitQty'[loop.sig] > exitQty[loop.sig])
    BY <1>0, <2>0, <2>1, CloseGrows
  <2>3. CASE isClosed
    <3>1. om'.sig = None /\ closed' = closed \union {loop.sig}
      BY <2>1, <2>3 DEF ResetOpenPosition, Flat, AnnounceClosed
    <3>2. recorded' = [recorded EXCEPT ![loop.sig] = @ + 1]
      BY <2>0, <2>1, <2>3, SignalsAssumption DEF RecordOutcome
    <3> QED
      BY <1>0, <2>0, <2>2, <2>3, <3>1, <3>2, AccountClose
  <2>4. CASE ~isClosed
    <3>1. om'.sig = om.sig
      BY <1>0, <2>1, <2>4, FlagFacts DEF ReleaseClose, PositionKept
    <3> QED
      BY <2>0, <2>1, <2>2, <2>4, <3>1, AccountQuiet
  <2> QED
    BY <2>3, <2>4
<1> QED
  BY <1>1, <1>2, <1>3, <1>4, <1>5, <1>6 DEF LoopTask

(* The report and the poller book a fill that executed earlier: it is the  *)
(* fill by which the position left the slot.                               *)
LEMMA WatcherAccount ==
  ASSUME IndInv, AccountInv,
         \/ PollerTask \/ MonitorTask
         \/ \E s \in Signals : ExecutionReportDone(s)
         \/ \E s \in Signals, l \in Legs : ExecutionReport(s, l)
  PROVE  AccountStep
<1>0. TypeOK /\ None \notin Signals
  BY SignalsAssumption DEF IndInv
<1>1. CASE PollSeesFill
  BY <1>0, <1>1, AccountQuiet, NoExitYet DEF PollSeesFill, execVars, exchVars
<1>2. ASSUME NEW s \in Signals, ExecutionReportDone(s)
      PROVE  AccountStep
  <2>1. /\ recorded' = [recorded EXCEPT ![s] = @ + 1] /\ closed' = closed \union {s}
        /\ er[s] = "cancel" /\ er' = [er EXCEPT ![s] = "idle"]
        /\ UNCHANGED <<accepting, om, filled, unpriced, exitQty>>
    BY <1>0, <1>2 DEF ExecutionReportDone, RecordOutcome, AnnounceClosed
  <2>2. s \in filled /\ om.sig # s
    BY <2>1 DEF AccountInv
  <2>3. /\ recorded \in [Signals -> Nat] /\ er \in [Signals -> ReportStates]
        /\ \A x \in Signals : exitQty'[x] >= exitQty[x]
    BY <1>0, <2>1 DEF TypeOK
  <2>4. Books(s) /\ er'[s] = "idle" /\ \A x \in Signals : x # s =>
          recorded'[x] = recorded[x] /\ er'[x] = er[x]
    BY <2>1, <2>2, <2>3 DEF Books
  <2> QED
    BY <2>1, <2>2, <2>3, <2>4 DEF AccountStep, AccountStepOf
<1>3. CASE PollSeesUnpricedFill \/ PollerCancelled
  <2>1. /\ om.sig = w.sig /\ w.sig \in Signals /\ w.sig \in filled /\ exitQty[w.sig] > 0
        /\ UNCHANGED <<filled, accepting, exitQty, er>>
    BY <1>0, <1>3
       DEF IndInv, WatcherInv, PositionInv, ExchangeInv, PollSeesUnpricedFill, PollerCancelled
  <2>2. om'.sig = None /\ closed' = closed \union {w.sig}
    BY <1>3, <2>1
       DEF PollSeesUnpricedFill, PollerCancelled, ResetOpenPosition, AnnounceClosed, Flat
  <2>3. \A x \in Signals : exitQty'[x] >= exitQty[x]
    BY <1>0, <2>1 DEF TypeOK
  <2>4. CASE PollSeesUnpricedFill
    <3>1. UNCHANGED recorded /\ unpriced' = unpriced \union {w.sig}
      BY <2>4 DEF PollSeesUnpricedFill
    <3> QED
      BY <1>0, <2>1, <2>2, <2>3, <3>1 DEF AccountStep, AccountStepOf
  <2>5. CASE PollerCancelled
    <3>1. recorded' = [recorded EXCEPT ![w.sig] = @ + 1] /\ unpriced' = unpriced
      BY <1>0, <2>1, <2>5 DEF PollerCancelled, RecordOutcome
    <3>2. /\ Books(w.sig)
          /\ \A x \in Signals : x # w.sig => recorded'[x] = recorded[x]
      BY <1>0, <2>1, <2>2, <3>1 DEF TypeOK, Books
    <3> QED
      BY <1>0, <2>1, <2>2, <2>3, <3>1, <3>2 DEF AccountStep, AccountStepOf
  <2> QED
    BY <1>3, <2>4, <2>5
<1>4. ASSUME NEW s \in Signals, NEW l \in Legs, ExecutionReport(s, l)
      PROVE  AccountStep
  <2>1. /\ om.sig = s /\ s \in filled /\ exitQty[s] > 0 /\ om'.sig = None
        /\ UNCHANGED <<filled, accepting, exitQty, recorded, closed, unpriced>>
        /\ er' = [er EXCEPT ![s] = "cancel"]
    BY <1>4 DEF IndInv, ExchangeInv, ExecutionReport, ResetOpenPosition, Flat
  <2>2. er'[s] = "cancel" /\ \A x \in Signals : x # s => er'[x] = er[x]
    BY <1>0, <2>1 DEF TypeOK
  <2>3. \A x \in Signals : exitQty'[x] >= exitQty[x]
    BY <1>0, <2>1 DEF TypeOK
  <2> QED
    BY <1>0, <2>1, <2>2, <2>3 DEF AccountStep, AccountStepOf
<1>5. CASE TargetTouched
  <2>1. om'.sig = om.sig
    BY <1>0, <1>5, FlagFacts DEF TargetTouched, PositionKept
  <2> QED
    BY <1>0, <1>5, <2>1, AccountQuiet, NoExitYet DEF TargetTouched, exchVars
<1>6. CASE TargetCloseFilled
  <2>1. /\ om.sig = m.sig /\ m.sig \in Signals /\ m.sig \in filled
        /\ UNCHANGED <<filled, accepting, er, unpriced>> /\ om'.sig = None
        /\ closed' = closed \union {m.sig} /\ recorded' = [recorded EXCEPT ![m.sig] = @ + 1]
    BY <1>0, <1>6
       DEF IndInv, WatcherInv, PositionInv, TargetCloseFilled, Flat, AnnounceClosed, RecordOutcome
  <2>2. PICK q \in 1 .. entryQty[m.sig] : EmergencyClose(m.sig, q, TRUE, TRUE)
    BY <1>6 DEF TargetCloseFilled
  <2>3. ExitsGrow /\ exitQty'[m.sig] > exitQty[m.sig]
    BY <1>0, <2>1, <2>2, CloseGrows
  <2> QED
    BY <1>0, <2>1, <2>3, AccountClose
<1>7. CASE TargetCloseMissed
  <2>1. m.sig \in Signals /\ UNCHANGED <<filled, accepting, recorded, er, closed, unpriced>>
    BY <1>7 DEF IndInv, WatcherInv, TargetCloseMissed
  <2>2. PICK q \in 0 .. entryQty[m.sig], seen \in BOOLEAN : EmergencyClose(m.sig, q, seen, FALSE)
    BY <1>7 DEF TargetCloseMissed
  <2>3. om'.sig = om.sig
    BY <1>0, <1>7, FlagFacts DEF TargetCloseMissed, ReleaseClose, PositionKept
  <2>4. ExitsGrow
    BY <1>0, <2>1, <2>2, CloseGrows
  <2> QED
    BY <2>1, <2>3, <2>4, AccountQuiet
<1> QED
  BY <1>1, <1>2, <1>3, <1>4, <1>5, <1>6, <1>7 DEF PollerTask, MonitorTask

LEMMA ExchangeAccount ==
  ASSUME IndInv,
         \/ \E s \in Signals, l \in Legs : LegFills(s, l)
         \/ \E r \in late : LateRequest(r)
  PROVE  AccountStep
<1>0. TypeOK
  BY DEF IndInv
<1>1. ASSUME NEW s \in Signals, NEW q \in 1 .. entryQty[s],
             exitQty' = [exitQty EXCEPT ![s] = @ + q]
      PROVE  ExitsGrow
  BY <1>0, <1>1 DEF TypeOK, ExitsGrow
<1>2. ASSUME NEW s \in Signals, NEW l \in Legs, LegFills(s, l)
      PROVE  AccountStep
  <2>1. PICK q \in 1 .. entryQty[s] : exitQty' = [exitQty EXCEPT ![s] = @ + q]
    BY <1>2 DEF LegFills
  <2> QED
    BY <1>1, <1>2, <2>1, AccountQuiet DEF LegFills, execVars, taskVars
<1>3. ASSUME NEW r \in late, LateRequest(r)
      PROVE  AccountStep
  <2>1. /\ r.sig \in Signals
        /\ UNCHANGED <<om, filled, accepting, recorded, er, closed, unpriced>>
    BY <1>0, <1>3 DEF IndInv, ExchangeInv, TypeOK, LateRequest, execVars, taskVars
  <2>2. ExitsGrow
    <3>1. CASE r.kind = "cancel"
      BY <1>0, <1>3, <3>1, NoExitYet DEF LateRequest
    <3>2. CASE r.kind # "cancel"
      BY <1>1, <1>3, <2>1, <3>2 DEF LateRequest
    <3> QED
      BY <3>1, <3>2
  <2> QED
    BY <2>1, <2>2, AccountQuiet
<1> QED
  BY <1>2, <1>3

LEMMA NextAccount ==
  ASSUME IndInv, AccountInv, [Next]_vars
  PROVE  AccountStep
<1>0. TypeOK
  BY DEF IndInv
<1>1. CASE UNCHANGED vars
  BY <1>0, <1>1, AccountQuiet, NoExitYet DEF vars, execVars, exchVars, taskVars
<1>2. CASE \E s \in Signals : Approve(s)
  BY <1>0, <1>2, AccountQuiet, NoExitYet DEF Approve, execVars
<1>3. CASE Next /\ ~(\E s \in Signals : Approve(s))
  BY <1>3, GateAccount, ForceAccount, LoopAccount, WatcherAccount, ExchangeAccount DEF Next
<1> QED
  BY <1>1, <1>2, <1>3

(* The books agree with the position and the exchange under every          *)
(* interleaving.                                                           *)
THEOREM BooksKept == Spec => []AccountInv
<1>1. Init => AccountInv
  <2> SUFFICES ASSUME Init PROVE AccountInv
    OBVIOUS
  <2>1. /\ recorded = [s \in Signals |-> 0] /\ exitQty = [s \in Signals |-> 0]
        /\ er = [s \in Signals |-> "idle"] /\ closed = {} /\ filled = {}
    BY DEF Init
  <2> QED
    BY <2>1 DEF AccountInv
<1>2. IndInv /\ IndInv' /\ AccountInv /\ [Next]_vars => AccountInv'
  BY NextAccount, AccountKept DEF IndInv
<1> QED
  BY <1>1, <1>2, Inductive, PTL DEF Spec

(* No exit is booked twice: the report, the poller, Gate 6, the bracket    *)
(* placement and the killswitch each need an execution of their own.       *)
THEOREM ExitsBookedOnce == Spec => []BookedOncePerExit
<1>1. AccountInv => BookedOncePerExit
  BY DEF AccountInv, BookedOncePerExit
<1> QED
  BY <1>1, BooksKept, PTL

(* A closed trade is charged to the budget: whichever closer announced it, *)
(* the outcome is booked or about to be, but for a fill without a price    *)
(* and for what a halt interrupts.                                         *)
THEOREM ClosedBooked == Spec => []ClosedIsBooked
<1>1. AccountInv => ClosedIsBooked
  BY DEF AccountInv, ClosedIsBooked
<1> QED
  BY <1>1, BooksKept, PTL

-----------------------------------------------------------------------------
(* Exclusion of the closers, and the deferred alert *)

(* Who may be closing, and what keeps the others off.  An alert deferred   *)
(* during a placement was Gate 6's only one, or comes from a halt; while   *)
(* the failure path closes, the position is still tracked and flagged, and *)
(* while the deferred path closes, Gate 6 has nothing filled to watch.     *)
DeferredInv ==
  om.cancelOnPlacement => LoopPlacing /\ (accepting => g6.pc = "idle")
BracketInv ==
  (om.ids => mode = "LIVE") /\ (g6.pc = "cancel" => mode = "LIVE")
LoopAlone ==
  accepting /\ LoopClosing =>
    /\ g6.pc \notin {"cancel", "close"}
    /\ loop.pc = "failClose" => om.closing /\ om.sig = loop.sig /\ ~om.ids
    /\ loop.pc # "failClose" =>
         g6.pc = "idle" \/ (g6.pc = "awaitFill" /\ g6.sig \notin filled)
DemoAlone ==
  accepting /\ mode = "DEMO" =>
    /\ g6.pc = "close" \/ m.pc = "close" => om.closing
    /\ ~(g6.pc = "close" /\ m.pc = "close")
ExclusionInv == DeferredInv /\ BracketInv /\ LoopAlone /\ DemoAlone

(* The flags after the ways om changes. *)
LEMMA FlagValues ==
  ASSUME om \in Fields
  PROVE  /\ om' = [om EXCEPT !.closing = TRUE] =>
              om'.closing /\ om'.cancelOnPlacement = om.cancelOnPlacement /\ om'.ids = om.ids
              /\ om'.sig = om.sig /\ om'.placing = om.placing
         /\ om' = [om EXCEPT !.closing = FALSE] =>
              ~om'.closing /\ om'.cancelOnPlacement = om.cancelOnPlacement /\ om'.ids = om.ids
              /\ om'.sig = om.sig /\ om'.placing = om.placing
         /\ om' = [om EXCEPT !.cancelOnPlacement = TRUE] =>
              om'.closing = om.closing /\ om'.cancelOnPlacement /\ om'.ids = om.ids
              /\ om'.sig = om.sig /\ om'.placing = om.placing
         /\ om' = [om EXCEPT !.entering = TRUE] \/ om' = [om EXCEPT !.entering = FALSE] =>
              om'.closing = om.closing /\ om'.cancelOnPlacement = om.cancelOnPlacement
              /\ om'.ids = om.ids /\ om'.sig = om.sig /\ om'.placing = om.placing
BY DEF Fields

LEMMA BracketFlags ==
  ASSUME om \in Fields
  PROVE  /\ om' = [om EXCEPT !.ids = TRUE, !.placing = FALSE, !.cancelOnPlacement = FALSE] =>
              om'.ids /\ ~om'.cancelOnPlacement
         /\ om' = [om EXCEPT !.placing = FALSE, !.cancelOnPlacement = FALSE, !.closing = TRUE] =>
              om'.closing /\ ~om'.cancelOnPlacement /\ om'.ids = om.ids /\ om'.sig = om.sig
BY DEF Fields

LEMMA FlatFlags == ~Flat.closing /\ ~Flat.cancelOnPlacement /\ ~Flat.ids /\ Flat.sig = None
BY DEF Flat

OmKept ==
  /\ om'.closing = om.closing /\ om'.cancelOnPlacement = om.cancelOnPlacement
  /\ om'.ids = om.ids /\ om'.sig = om.sig

(* Steps that leave the flags, Gate 6, the loop and the monitor alone. *)
LEMMA ExclusionFrame ==
  ASSUME ExclusionInv, OmKept, UNCHANGED <<mode, filled, g6, loop>>,
         m' = m \/ m'.pc # "close", accepting' => accepting
  PROVE  ExclusionInv'
<1>1. DeferredInv' /\ BracketInv'
  BY DEF ExclusionInv, DeferredInv, BracketInv, OmKept, LoopPlacing
<1>2. LoopAlone'
  BY DEF ExclusionInv, LoopAlone, OmKept, LoopClosing
<1>3. DemoAlone'
  BY DEF ExclusionInv, DemoAlone, OmKept
<1> QED
  BY <1>1, <1>2, <1>3 DEF ExclusionInv

(* Steps that end with nothing tracked: the loop is then not in its        *)
(* failure path, and nobody who still closes is left.                      *)
LEMMA ExclusionReset ==
  ASSUME ExclusionInv, om' = Flat, UNCHANGED <<mode, filled>>,
         accepting' => accepting,
         g6' = g6 \/ g6'.pc = "idle", loop' = loop \/ loop'.pc = "idle",
         m'.pc = "idle",
         accepting' => loop'.pc # "failClose",
         accepting' /\ mode = "DEMO" => g6'.pc # "close"
  PROVE  ExclusionInv'
<1>1. ~om'.closing /\ ~om'.cancelOnPlacement /\ ~om'.ids /\ om'.sig = None
  BY FlatFlags
<1>2. DeferredInv' /\ BracketInv'
  BY <1>1 DEF ExclusionInv, DeferredInv, BracketInv
<1>3. LoopAlone'
  BY <1>1 DEF ExclusionInv, LoopAlone, LoopClosing
<1>4. DemoAlone'
  BY <1>1 DEF ExclusionInv, DemoAlone
<1> QED
  BY <1>2, <1>3, <1>4 DEF ExclusionInv

LEMMA GateExclusion ==
  ASSUME IndInv, ExclusionInv, Gate6Task
  PROVE  ExclusionInv'
<1>0. TypeOK /\ om \in Fields /\ g6 \in GateStates
  BY DEF IndInv, TypeOK
<1>1. CASE Gate6Watch
  <2>1. /\ UNCHANGED <<mode, accepting, filled, om, loop, m>> /\ g6.pc = "awaitFill"
        /\ IF g6.sig \in filled THEN g6' = [g6 EXCEPT !.pc = "monitor"] ELSE Gate6Stops
    BY <1>1 DEF Gate6Watch, execVars
  <2>2. g6'.pc = "idle" \/ (g6'.pc = "monitor" /\ g6.sig \in filled)
    BY <1>0, <2>1 DEF Gate6Stops, GateStates
  <2> QED
    BY <2>1, <2>2 DEF ExclusionInv, DeferredInv, BracketInv, LoopAlone, DemoAlone,
                      LoopPlacing, LoopClosing
<1>2. CASE Gate6SeesClosed \/ Gate6AlertSuppressed
  <2>1. UNCHANGED <<mode, accepting, filled, om, loop, m>> /\ g6'.pc = "idle"
    BY <1>2 DEF Gate6SeesClosed, Gate6AlertSuppressed, execVars, Gate6Stops
  <2> QED
    BY <2>1 DEF ExclusionInv, DeferredInv, BracketInv, LoopAlone, DemoAlone,
                LoopPlacing, LoopClosing
<1>3. CASE Gate6AlertDeferred
  <2>1. /\ UNCHANGED <<mode, accepting, filled, loop, m>> /\ g6'.pc = "idle"
        /\ om' = [om EXCEPT !.cancelOnPlacement = TRUE] /\ om.placing
    BY <1>3 DEF Gate6AlertDeferred, Gate6Stops
  <2>2. om'.closing = om.closing /\ om'.ids = om.ids /\ om'.sig = om.sig
    BY <1>0, <2>1, FlagValues
  <2>3. LoopPlacing
    BY <2>1 DEF IndInv, PositionInv
  <2> QED
    BY <2>1, <2>2, <2>3 DEF ExclusionInv, DeferredInv, BracketInv, LoopAlone, DemoAlone,
                            LoopPlacing, LoopClosing
<1>4. CASE Gate6Alert
  <2>1. /\ UNCHANGED <<mode, accepting, filled, loop, m>>
        /\ g6.pc = "monitor" /\ ~om.closing
    BY <1>4 DEF Gate6Alert, NoOtherCloser
  <2>2. accepting => ~om.cancelOnPlacement /\ ~LoopClosing
    BY <2>1 DEF ExclusionInv, DeferredInv, LoopAlone, LoopClosing
  <2>3. accepting /\ mode = "DEMO" => m.pc # "close"
    BY <2>1 DEF ExclusionInv, DemoAlone
  <2>4. CASE om.ids
    <3>1. g6'.pc = "cancel" /\ om' = om
      BY <1>0, <1>4, <2>4 DEF Gate6Alert, GateStates
    <3> QED
      BY <2>1, <2>2, <2>3, <2>4, <3>1
         DEF ExclusionInv, DeferredInv, BracketInv, LoopAlone, DemoAlone,
             LoopPlacing, LoopClosing
  <2>5. CASE ~om.ids /\ om.sig # None
    <3>1. g6'.pc = "close" /\ om' = [om EXCEPT !.closing = TRUE]
      BY <1>0, <1>4, <2>5 DEF Gate6Alert, GateStates
    <3>2. om'.closing /\ om'.cancelOnPlacement = om.cancelOnPlacement /\ om'.ids = om.ids
      BY <1>0, <3>1, FlagValues
    <3> QED
      BY <2>1, <2>2, <2>3, <2>5, <3>1, <3>2
         DEF ExclusionInv, DeferredInv, BracketInv, LoopAlone, DemoAlone,
             LoopPlacing, LoopClosing
  <2>6. CASE ~om.ids /\ om.sig = None
    <3>1. g6'.pc = "idle" /\ om' = om
      BY <1>4, <2>6 DEF Gate6Alert, Gate6Stops
    <3> QED
      BY <2>1, <2>2, <2>3, <3>1
         DEF ExclusionInv, DeferredInv, BracketInv, LoopAlone, DemoAlone,
             LoopPlacing, LoopClosing
  <2> QED
    BY <2>4, <2>5, <2>6
<1>5. CASE Gate6AlertDryRun
  <2>1. /\ UNCHANGED <<mode, accepting, filled, loop>> /\ g6'.pc = "idle"
        /\ om' = Flat /\ m' = Idle /\ mode = "DRY_RUN"
    BY <1>5 DEF Gate6AlertDryRun, PaperClose, ResetOpenPosition, Gate6Stops
  <2>2. loop.pc # "failClose"
    BY <2>1 DEF IndInv, LoopInv, LoopClosing
  <2> QED
    BY <2>1, <2>2, ExclusionReset DEF Idle
<1>6. CASE Gate6Cancelled
  <2>1. /\ UNCHANGED <<mode, accepting, filled, loop, m>>
        /\ g6.pc = "cancel" /\ g6' = [g6 EXCEPT !.pc = "close"]
        /\ om' = [om EXCEPT !.closing = TRUE]
    BY <1>6 DEF Gate6Cancelled
  <2>2. om'.closing /\ om'.cancelOnPlacement = om.cancelOnPlacement /\ om'.ids = om.ids
    BY <1>0, <2>1, FlagValues
  <2>3. mode = "LIVE" /\ (accepting => ~om.cancelOnPlacement /\ ~LoopClosing)
    BY <2>1 DEF ExclusionInv, DeferredInv, BracketInv, LoopAlone
  <2>4. g6'.pc = "close"
    BY <1>0, <2>1 DEF GateStates
  <2> QED
    BY <2>1, <2>2, <2>3, <2>4
       DEF ExclusionInv, DeferredInv, BracketInv, LoopAlone, DemoAlone,
           LoopPlacing, LoopClosing
<1>7. CASE Gate6CloseReply
  <2>1. /\ UNCHANGED <<mode, accepting, filled, loop>> /\ g6.pc = "close" /\ g6'.pc = "idle"
        /\ \/ om' = Flat /\ m' = Idle
           \/ om' = [om EXCEPT !.closing = FALSE] /\ m' = m
    BY <1>7 DEF Gate6CloseReply, ResetOpenPosition, ReleaseClose, Gate6Stops
  <2>2. accepting => ~LoopClosing
    BY <2>1 DEF ExclusionInv, LoopAlone
  <2>3. CASE om' = Flat /\ m' = Idle
    BY <2>1, <2>2, <2>3, ExclusionReset DEF Idle, LoopClosing
  <2>4. CASE om' = [om EXCEPT !.closing = FALSE] /\ m' = m
    <3>1. om'.cancelOnPlacement = om.cancelOnPlacement /\ om'.ids = om.ids
      BY <1>0, <2>4, FlagValues
    <3> QED
      BY <2>1, <2>2, <2>4, <3>1
         DEF ExclusionInv, DeferredInv, BracketInv, LoopAlone, DemoAlone,
             LoopPlacing, LoopClosing
  <2> QED
    BY <2>1, <2>3, <2>4
<1> QED
  BY <1>1, <1>2, <1>3, <1>4, <1>5, <1>6, <1>7 DEF Gate6Task

LEMMA ForceExclusion ==
  ASSUME IndInv, ExclusionInv, NEW k \in Kills,
         KillswitchFires(k) \/ KillswitchUI(k) \/ ForceCloseTask(k)
  PROVE  ExclusionInv'
<1>0. om \in Fields
  BY DEF IndInv, TypeOK
<1>1. CASE ForceClose(k)
  <2>1. accepting' = FALSE /\ UNCHANGED <<mode, filled, g6, loop>>
    BY <1>1 DEF ForceClose
  <2>2. \/ om' = om \/ om' = Flat \/ om' = [om EXCEPT !.closing = TRUE]
        \/ om' = [om EXCEPT !.cancelOnPlacement = TRUE] /\ om.placing
    BY <1>1 DEF ForceClose, ResetOpenPosition
  <2>3. om'.cancelOnPlacement => om.cancelOnPlacement \/ LoopPlacing
    BY <1>0, <2>2, FlagValues, FlatFlags DEF IndInv, PositionInv
  <2>4. om'.ids => om.ids
    BY <1>0, <2>2, FlagValues, FlatFlags
  <2> QED
    BY <2>1, <2>3, <2>4
       DEF ExclusionInv, DeferredInv, BracketInv, LoopAlone, DemoAlone, LoopPlacing
<1>2. CASE ForceCloseCancelled(k)
  <2>1. /\ ~accepting' /\ UNCHANGED <<mode, filled, g6, loop>>
        /\ om' = [om EXCEPT !.closing = TRUE]
    BY <1>2 DEF ForceCloseCancelled, IndInv, ForceInv
  <2>2. om'.cancelOnPlacement = om.cancelOnPlacement /\ om'.ids = om.ids
    BY <1>0, <2>1, FlagValues
  <2> QED
    BY <2>1, <2>2
       DEF ExclusionInv, DeferredInv, BracketInv, LoopAlone, DemoAlone, LoopPlacing
<1>3. CASE ForceCloseReply(k)
  <2>1. /\ ~accepting /\ UNCHANGED <<mode, filled, accepting, g6, loop>>
        /\ om' = Flat /\ m' = Idle
    BY <1>3 DEF ForceCloseReply, IndInv, ForceInv, ResetOpenPosition
  <2> QED
    BY <2>1, ExclusionReset DEF Idle
<1> QED
  BY <1>1, <1>2, <1>3 DEF ForceCloseTask, KillswitchFires, KillswitchUI, KillswitchSlippage

(* A fill leaves the flags alone. *)
LEMMA FillFlags ==
  ASSUME om \in Fields, NEW s, NEW placing, Fill(s, placing)
  PROVE  /\ om'.closing = om.closing /\ om'.cancelOnPlacement = om.cancelOnPlacement
         /\ om'.ids = om.ids
BY DEF Fill, Fields

LEMMA LoopExclusion ==
  ASSUME IndInv, ExclusionInv, LoopTask
  PROVE  ExclusionInv'
<1>0. TypeOK /\ om \in Fields /\ loop \in LoopStates
  BY DEF IndInv, TypeOK
<1>1. CASE Drain \/ Discard
  BY <1>1, ExclusionFrame DEF Drain, Discard, execVars, taskVars, OmKept
<1>2. CASE SendEntry \/ EntryMissed
  <2>1. /\ om' = [om EXCEPT !.entering = TRUE] \/ om' = [om EXCEPT !.entering = FALSE]
        /\ UNCHANGED <<mode, accepting, filled, g6, m>>
        /\ loop.pc \in {"idle", "entry"} /\ loop'.pc \in {"idle", "entry"}
    BY <1>2 DEF SendEntry, EntryMissed, LoopDone, Idle
  <2>2. OmKept
    BY <1>0, <2>1, FlagValues DEF OmKept
  <2> QED
    BY <2>1, <2>2 DEF OmKept, ExclusionInv, DeferredInv, BracketInv, LoopAlone, DemoAlone,
                      LoopPlacing, LoopClosing
<1>3. CASE EntryFilledLive \/ EntryFilledDemo \/ EntryDryRun
  <2>1. /\ om'.closing = om.closing /\ om'.cancelOnPlacement = om.cancelOnPlacement
        /\ om'.ids = om.ids
    BY <1>0, <1>3, FillFlags DEF EntryFilledLive, EntryFilledDemo, EntryDryRun
  <2>2. UNCHANGED <<mode, accepting, g6>> /\ loop.pc \in {"idle", "entry"}
    BY <1>3 DEF EntryFilledLive, EntryFilledDemo, EntryDryRun
  <2>3. /\ loop'.pc \in {"idle", "tp"}
        /\ m' = m \/ m'.pc = "poll"
    <3>1. CASE EntryFilledLive
      BY <1>0, <3>1 DEF EntryFilledLive, LoopStates
    <3>2. CASE EntryFilledDemo
      BY <3>2 DEF EntryFilledDemo, LoopDone, Idle
    <3>3. CASE EntryDryRun
      BY <3>3 DEF EntryDryRun
    <3> QED
      BY <1>3, <3>1, <3>2, <3>3
  <2> QED
    BY <2>1, <2>2, <2>3
       DEF ExclusionInv, DeferredInv, BracketInv, LoopAlone, DemoAlone, LoopPlacing, LoopClosing
<1>4. CASE TakeProfitPlaced
  <2>1. UNCHANGED <<mode, accepting, filled, om, g6, m>> /\ loop.pc = "tp" /\ loop'.pc = "sl"
    BY <1>0, <1>4 DEF TakeProfitPlaced, execVars, LoopStates
  <2> QED
    BY <2>1
       DEF ExclusionInv, DeferredInv, BracketInv, LoopAlone, DemoAlone, LoopPlacing, LoopClosing
<1>5. CASE StopLossPlaced
  <2>1. /\ mode = "LIVE" /\ UNCHANGED <<mode, accepting, filled, g6, m>>
    BY <1>5 DEF StopLossPlaced, IndInv, LoopInv, LoopPlacing
  <2>2. om'.ids /\ ~om'.cancelOnPlacement
    BY <1>0, <1>5, BracketFlags DEF StopLossPlaced
  <2>3. \/ om.cancelOnPlacement /\ loop'.pc = "deferCancel"
        \/ loop'.pc = "idle"
    BY <1>0, <1>5 DEF StopLossPlaced, AfterPlacement, LoopDone, Idle, LoopStates
  <2> QED
    BY <2>1, <2>2, <2>3
       DEF ExclusionInv, DeferredInv, BracketInv, LoopAlone, DemoAlone, LoopPlacing, LoopClosing
<1>6. CASE BracketFailed
  <2>1. /\ mode = "LIVE" /\ UNCHANGED <<mode, accepting, filled, g6, m>>
        /\ om.sig = loop.sig /\ ~om.ids /\ g6.pc \notin {"cancel", "close"}
    BY <1>6 DEF BracketFailed, IndInv, LoopInv, LoopPlacing, GateInv
  <2>2. om'.closing /\ ~om'.cancelOnPlacement /\ om'.ids = om.ids /\ om'.sig = om.sig
    BY <1>0, <1>6, BracketFlags DEF BracketFailed
  <2>3. loop'.pc = "failClose" /\ loop'.sig = loop.sig
    BY <1>0, <1>6 DEF BracketFailed, LoopStates
  <2> QED
    BY <2>1, <2>2, <2>3
       DEF ExclusionInv, DeferredInv, BracketInv, LoopAlone, DemoAlone, LoopPlacing, LoopClosing
<1>7. CASE DeferredCancelled
  <2>1. /\ UNCHANGED <<mode, accepting, filled, om, g6, m>>
        /\ loop.pc = "deferCancel" /\ loop'.pc = "deferClose"
    BY <1>0, <1>7 DEF DeferredCancelled, execVars, LoopStates
  <2> QED
    BY <2>1
       DEF ExclusionInv, DeferredInv, BracketInv, LoopAlone, DemoAlone, LoopPlacing, LoopClosing
<1>8. CASE LoopCloseReply
  <2>1. /\ mode = "LIVE" /\ UNCHANGED <<mode, accepting, g6>> /\ LoopClosing
        /\ loop'.pc = "idle"
        /\ om' = Flat \/ om' = om \/ om' = [om EXCEPT !.closing = FALSE]
    BY <1>8 DEF LoopCloseReply, LoopDone, Idle, IndInv, LoopInv, LoopClosing,
                ResetOpenPosition, ReleaseClose
  <2>2. (om'.cancelOnPlacement => om.cancelOnPlacement) /\ (om'.ids => om.ids)
    BY <1>0, <2>1, FlagValues, FlatFlags
  <2> QED
    BY <2>1, <2>2
       DEF ExclusionInv, DeferredInv, BracketInv, LoopAlone, DemoAlone, LoopPlacing, LoopClosing
<1> QED
  BY <1>1, <1>2, <1>3, <1>4, <1>5, <1>6, <1>7, <1>8 DEF LoopTask

LEMMA WatcherExclusion ==
  ASSUME IndInv, ExclusionInv,
         \/ PollerTask \/ MonitorTask
         \/ \E s \in Signals : ExecutionReportDone(s)
         \/ \E s \in Signals, l \in Legs : ExecutionReport(s, l)
  PROVE  ExclusionInv'
<1>0. om \in Fields /\ m \in MonitorStates
  BY DEF IndInv, TypeOK
<1>1. CASE PollSeesFill \/ \E s \in Signals : ExecutionReportDone(s)
  BY <1>1, ExclusionFrame DEF PollSeesFill, ExecutionReportDone, execVars, OmKept
<1>2. CASE \/ PollSeesUnpricedFill \/ PollerCancelled
           \/ \E s \in Signals, l \in Legs : ExecutionReport(s, l)
  <2>1. om.ids
    BY <1>2 DEF PollSeesUnpricedFill, PollerCancelled, ExecutionReport, IndInv, WatcherInv
  <2>2. /\ UNCHANGED <<mode, accepting, filled, g6, loop>> /\ om' = Flat /\ m' = Idle
    BY <1>2 DEF PollSeesUnpricedFill, PollerCancelled, ExecutionReport, IndInv, WatcherInv,
                ResetOpenPosition
  <2>3. mode = "LIVE" /\ (accepting => loop.pc # "failClose")
    BY <2>1 DEF ExclusionInv, BracketInv, LoopAlone, LoopClosing
  <2> QED
    BY <2>2, <2>3, ExclusionReset DEF Idle
<1>3. CASE TargetTouched
  <2>1. /\ mode = "DEMO" /\ ~om.closing /\ UNCHANGED <<mode, accepting, filled, g6, loop>>
        /\ om' = [om EXCEPT !.closing = TRUE]
    BY <1>3 DEF TargetTouched, NoOtherCloser, IndInv, WatcherInv
  <2>2. om'.closing /\ om'.cancelOnPlacement = om.cancelOnPlacement /\ om'.ids = om.ids
    BY <1>0, <2>1, FlagValues
  <2>3. ~LoopClosing
    BY <2>1 DEF IndInv, LoopInv
  <2> QED
    BY <2>1, <2>2, <2>3
       DEF ExclusionInv, DeferredInv, BracketInv, LoopAlone, DemoAlone, LoopPlacing, LoopClosing
<1>4. CASE TargetCloseFilled \/ TargetCloseMissed
  <2>1. /\ mode = "DEMO" /\ m.pc = "close" /\ UNCHANGED <<mode, accepting, filled, g6, loop>>
    BY <1>4 DEF TargetCloseFilled, TargetCloseMissed, IndInv, WatcherInv
  <2>2. ~LoopClosing /\ (accepting => g6.pc # "close")
    BY <2>1 DEF IndInv, LoopInv, ExclusionInv, DemoAlone
  <2>3. CASE TargetCloseFilled
    BY <2>1, <2>2, <2>3, ExclusionReset DEF TargetCloseFilled, Idle, LoopClosing
  <2>4. CASE TargetCloseMissed
    <3>1. om' = [om EXCEPT !.closing = FALSE] /\ m'.pc = "poll"
      BY <1>0, <2>4 DEF TargetCloseMissed, ReleaseClose, MonitorStates
    <3>2. om'.cancelOnPlacement = om.cancelOnPlacement /\ om'.ids = om.ids
      BY <1>0, <3>1, FlagValues
    <3> QED
      BY <2>1, <2>2, <3>1, <3>2
         DEF ExclusionInv, DeferredInv, BracketInv, LoopAlone, DemoAlone, LoopPlacing, LoopClosing
  <2> QED
    BY <1>4, <2>3, <2>4
<1> QED
  BY <1>1, <1>2, <1>3, <1>4 DEF PollerTask, MonitorTask

(* Approval needs the slot and every flag free, and the new request is not *)
(* filled yet.                                                             *)
LEMMA ApproveExclusion ==
  ASSUME IndInv, ExclusionInv, NEW s \in Signals, Approve(s)
  PROVE  ExclusionInv'
<1>1. /\ UNCHANGED <<mode, accepting, filled, om, loop, m>>
      /\ g6'.pc = "awaitFill" /\ g6'.sig = s
      /\ s \notin approved /\ ~om.placing /\ ~om.closing
  BY DEF Approve, execVars, Exposure
<1>2. s \notin filled /\ ~LoopPlacing
  BY <1>1 DEF IndInv, QueueInv, LoopInv
<1> QED
  BY <1>1, <1>2
     DEF ExclusionInv, DeferredInv, BracketInv, LoopAlone, DemoAlone, LoopPlacing, LoopClosing

LEMMA NextExclusion ==
  ASSUME IndInv, ExclusionInv, [Next]_vars
  PROVE  ExclusionInv'
<1>1. CASE UNCHANGED vars
  BY <1>1, ExclusionFrame DEF vars, execVars, taskVars, OmKept
<1>2. CASE \/ \E s \in Signals, l \in Legs : LegFills(s, l)
           \/ \E r \in late : LateRequest(r)
  BY <1>2, ExclusionFrame DEF LegFills, LateRequest, execVars, taskVars, OmKept
<1>3. CASE Next /\ ~(\/ \E s \in Signals, l \in Legs : LegFills(s, l)
                     \/ \E r \in late : LateRequest(r))
  BY <1>3, ApproveExclusion, GateExclusion, ForceExclusion, LoopExclusion, WatcherExclusion
     DEF Next
<1> QED
  BY <1>1, <1>2, <1>3

LEMMA ClosersApart == Spec => []ExclusionInv
<1>1. Init => ExclusionInv
  <2> SUFFICES ASSUME Init PROVE ExclusionInv
    OBVIOUS
  <2>1. om = Flat /\ g6.pc = "idle" /\ m.pc = "idle" /\ loop.pc \in {"idle", "drain"}
    BY DEF Init, Idle
  <2> QED
    BY <2>1, FlatFlags
       DEF ExclusionInv, DeferredInv, BracketInv, LoopAlone, DemoAlone, LoopClosing
<1>2. IndInv /\ ExclusionInv /\ [Next]_vars => ExclusionInv'
  BY NextExclusion
<1> QED
  BY <1>1, <1>2, Inductive, PTL DEF Spec

(* While trading is on, the flags of the S1 and S2 fixes keep Gate 6 apart *)
(* from the bracket placement's closes and from the software monitor's.    *)
THEOREM ClosersExcluded == Spec => []ClosersExclude
<1>1. IndInv /\ ExclusionInv => ClosersExclude
  <2> SUFFICES ASSUME IndInv, ExclusionInv, accepting, g6.pc = "close"
               PROVE  loop.pc \notin {"failClose", "deferClose"} /\ m.pc # "close"
    BY DEF ClosersExclude
  <2>1. loop.pc \notin {"failClose", "deferClose"}
    BY DEF ExclusionInv, LoopAlone, LoopClosing
  <2>2. m.pc # "close"
    BY DEF IndInv, WatcherInv, ExclusionInv, DemoAlone
  <2> QED
    BY <2>1, <2>2
<1> QED
  BY <1>1, Inductive, ClosersApart, PTL

(* While an alert is deferred, only the end of the placement takes the     *)
(* flag down.                                                              *)
LEMMA AlertKept ==
  ASSUME IndInv, ExclusionInv, Next, om.cancelOnPlacement
  PROVE  om'.cancelOnPlacement \/ loop'.pc \in {"deferCancel", "failClose"}
<1>0. TypeOK /\ om \in Fields /\ loop \in LoopStates
  BY DEF IndInv, TypeOK
<1>1. /\ LoopPlacing /\ mode = "LIVE" /\ om.placing /\ ~om.ids
      /\ w.pc = "idle" /\ m.pc = "idle"
  BY DEF IndInv, LoopInv, WatcherInv, ExclusionInv, DeferredInv
<1>2. CASE Gate6Task
  <2>1. g6.pc \notin {"cancel", "close"}
    BY <1>1 DEF IndInv, GateInv
  <2> QED
    BY <1>0, <1>1, <1>2, <2>1, FlagValues
       DEF Gate6Task, Gate6Watch, Gate6SeesClosed, Gate6AlertDeferred, Gate6AlertSuppressed,
           Gate6Alert, Gate6AlertDryRun, Gate6Cancelled, Gate6CloseReply, NoOtherCloser, execVars
<1>3. CASE LoopTask
  BY <1>0, <1>1, <1>3
     DEF LoopTask, Drain, Discard, SendEntry, EntryMissed, EntryFilledLive, EntryFilledDemo,
         EntryDryRun, TakeProfitPlaced, StopLossPlaced, BracketFailed, DeferredCancelled,
         LoopCloseReply, AfterPlacement, LoopPlacing, LoopStates, execVars
<1>4. ASSUME NEW k \in Kills, KillswitchFires(k) \/ KillswitchUI(k) \/ ForceCloseTask(k)
      PROVE  om'.cancelOnPlacement
  <2>1. fc[k].pc \notin {"cancel", "close"}
    BY <1>1 DEF IndInv, ForceInv
  <2>2. ForceClose(k)
    BY <1>4, <2>1 DEF KillswitchFires, KillswitchUI, ForceCloseTask, KillswitchSlippage,
                      ForceCloseCancelled, ForceCloseReply
  <2> QED
    BY <1>0, <1>1, <2>2, FlagValues DEF ForceClose
<1>5. CASE PollerTask \/ MonitorTask
  BY <1>1, <1>5 DEF PollerTask, MonitorTask, PollSeesFill, PollSeesUnpricedFill,
                    PollerCancelled, TargetTouched, TargetCloseFilled, TargetCloseMissed
<1>6. CASE \E s \in Signals : Approve(s) \/ ExecutionReportDone(s)
  BY <1>6 DEF Approve, ExecutionReportDone, execVars
<1>7. CASE \E s \in Signals, l \in Legs : ExecutionReport(s, l) \/ LegFills(s, l)
  BY <1>1, <1>7 DEF ExecutionReport, LegFills, execVars
<1>8. CASE \E r \in late : LateRequest(r)
  BY <1>8 DEF LateRequest, execVars
<1> QED
  BY <1>2, <1>3, <1>4, <1>5, <1>6, <1>7, <1>8 DEF Next

(* An alert deferred during bracket placement is acted upon: no other      *)
(* task's reset, and no other step of the loop, ever drops it.             *)
THEOREM DeferredAlertKept == Spec => DeferredAlertActedOn
<1>1. IndInv /\ ExclusionInv /\ [Next]_vars =>
        (om.cancelOnPlacement /\ ~om'.cancelOnPlacement
           => loop'.pc \in {"deferCancel", "failClose"})
  BY AlertKept DEF vars, execVars
<1> QED
  BY <1>1, Inductive, ClosersApart, PTL DEF Spec, DeferredAlertActedOn
====
