----------------------------- MODULE MCRegistry -----------------------------
EXTENDS Registry, TLC

(* A backtest below every bound of the gate to PAPER but the trades, one   *)
(* that fails the Sharpe ratio alone, one that passes.                     *)
ThreeBacktests ==
  {[trades |-> 9, sharpe |-> NaN, drawdown |-> 20, profit |-> 1],
   [trades |-> 50, sharpe |-> 9, drawdown |-> 15, profit |-> 13],
   [trades |-> 50, sharpe |-> 10, drawdown |-> 15, profit |-> 13]}
PaperTrading == {[weeks |-> 2, trades |-> 20, sharpe |-> 6],
                 [weeks |-> 2, trades |-> 20, sharpe |-> 7]}
NameSymmetry == Permutations(Names)
OwnFiles == [n \in Names |-> n]
OneFile == [n \in Names |-> CHOOSE m \in Names : TRUE]
=============================================================================
