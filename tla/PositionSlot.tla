---------------------------- MODULE PositionSlot ----------------------------
(***************************************************************************)
(* What the execution layer promises about its single position slot, free  *)
(* of tasks, REST calls and flags: the engine tracks at most one position, *)
(* a signal is given the slot at most once, and the slot is emptied only   *)
(* once an order that reduces that signal's position has executed, or      *)
(* trading has been halted for good.                                       *)
(*                                                                         *)
(* OrderManager.tla refines this module (OrderManager!SlotSpec).           *)
(***************************************************************************)
CONSTANTS Signals, None

VARIABLES
  slot,     \* the signal whose position is tracked, or None
  taken,    \* the signals that have ever been given the slot
  exited,   \* the signals for which an exit order has executed
  halted    \* trading is stopped: nothing is accepted any more

slotVars == <<slot, taken, exited, halted>>

Init ==
  /\ slot = None
  /\ taken = {}
  /\ exited = {}
  /\ halted = FALSE

(* An entry fill gives the free slot to a signal that never had it.        *)
Take(s) ==
  /\ slot = None
  /\ s \notin taken
  /\ slot' = s
  /\ taken' = taken \union {s}
  /\ UNCHANGED <<exited, halted>>

(* An exit order of a signal that had the slot executes.                   *)
Exit(s) ==
  /\ s \in taken
  /\ exited' = exited \union {s}
  /\ UNCHANGED <<slot, taken, halted>>

(* The slot is freed, by a step that may itself see the exit execute or    *)
(* halt trading.                                                           *)
Leave ==
  /\ slot # None
  /\ slot' = None
  /\ exited' \in {exited, exited \union {slot}}
  /\ halted' \in {halted, TRUE}
  /\ slot \in exited' \/ halted'
  /\ UNCHANGED taken

Halt ==
  /\ halted' = TRUE
  /\ UNCHANGED <<slot, taken, exited>>

Next ==
  \/ \E s \in Signals : Take(s) \/ Exit(s)
  \/ Leave
  \/ Halt

SlotSpec == Init /\ [][Next]_slotVars
=============================================================================
