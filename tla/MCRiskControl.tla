---------------------------- MODULE MCRiskControl ----------------------------
(* An instance of RiskControl for TLC: its constants are numbers. *)
EXTENDS RiskControl
=============================================================================
