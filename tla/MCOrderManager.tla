--------------------------- MODULE MCOrderManager ---------------------------
(***************************************************************************)
(* Instances of OrderManager for TLC: the second of two signals is a short, *)
(* so that orders left behind by one position can meet the other.          *)
(***************************************************************************)
EXTENDS OrderManager

CONSTANTS s1, s2

TwoSignals == {s1, s2}
SecondIsShort == {s2}
LiveMode == {"LIVE"}
OtherModes == {"DEMO", "DRY_RUN"}
=============================================================================
