----------------------------- MODULE MCTickReplay -----------------------------
EXTENDS TickReplay

(* Depth rows must be two for the span of a walk-forward.                  *)
MCRows == [depth |-> 2, trade |-> 2]
=============================================================================
