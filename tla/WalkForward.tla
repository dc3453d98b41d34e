------------------------------ MODULE WalkForward ------------------------------
(***************************************************************************)
(* backtesting/walk_forward.py: which candles a strategy is tested on      *)
(* after it was trained on those before, which windows count, and what the *)
(* strategy is compared to.                                                *)
(* A candle is its index; lengths are in candles.                          *)
(***************************************************************************)
EXTENDS Integers

CONSTANTS
  N,                   \* candles of the series
  Train, Test, Step,   \* train_len, test_len, step_len
  MinTrades            \* MIN_OOS_TRADES

(* With a step of 0 generate_windows never ends.                           *)
WindowAssumption == {N, MinTrades} \subseteq Nat /\ {Train, Test, Step} \subseteq Nat \ {0}

-----------------------------------------------------------------------------
(* generate_windows                                                        *)

Start(k) == k * Step
Boundary(k) == Start(k) + Train   \* train_end, which is test_start
End(k) == Boundary(k) + Test

Windows == {k \in 0..N : End(k) <= N}

Tested(k) == Boundary(k)..(End(k) - 1)

(* run_walk_forward, of one strategy: trades[k] is the number of trades    *)
(* that the full mode made in window k.  The raw mode counts them all.     *)
Counted(full, trades) == IF full THEN {k \in Windows : trades[k] >= MinTrades} ELSE Windows
Period(full, trades) == UNION {Tested(k) : k \in Counted(full, trades)}
OnTheLeaderboard(trades) == Counted(TRUE, trades) # {}

(* The buy-and-hold row: from the first test_start to the last test_end.   *)
Benchmark == {b \in 0..(N - 1) : \E j, k \in Windows : Boundary(j) <= b /\ b < End(k)}

-----------------------------------------------------------------------------
(* Properties                                                              *)

(* walk_forward.py:463, "Windows are non-overlapping by construction": no  *)
(* candle is tested twice.                                                 *)
TestedOnce == \A j, k \in Windows : j # k => Tested(j) \intersect Tested(k) = {}

(* The windows leave no candle out, from the first tested to the last.     *)
TestsThePeriod == Period(FALSE, <<>>) = Benchmark

(* walk_forward.py:479, "Computed over the same OOS slice as the           *)
(* strategies so the comparison is fair".  Refuted by TLC: a window with   *)
(* few trades is left out of the full mode's figures, not of the           *)
(* benchmark's nor of the raw mode's.                                      *)
ComparesAlike(trades) == OnTheLeaderboard(trades) => Period(TRUE, trades) = Benchmark
=============================================================================
