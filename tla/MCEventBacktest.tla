---------------------------- MODULE MCEventBacktest ----------------------------
(***************************************************************************)
(* An instance of EventBacktest, and, on small series, what it rests on:   *)
(* Patterns, out of which the signals come, and the windows of WalkForward.*)
(***************************************************************************)
EXTENDS EventBacktest

(* A long and a short signal around the middle price.                      *)
MCSignals == {NoSignal, [sl |-> 2, tp |-> 4], [sl |-> 4, tp |-> 2]}

Gen == INSTANCE Patterns WITH
  SwingWindow <- 1, Lookback <- 6, AtrPeriod <- 2, VolPeriod <- 2, TrendPeriod <- 3,
  MinR2 <- 75, VolMult <- 100, AtrSL <- 150, AtrTP <- 300, Touch <- 100

(* Three candles that a strategy's patterns can be made of.                *)
Bar3(high, low, close) == [high |-> high, low |-> low, close |-> close, vol |-> 1]
Shapes(strategy) ==
  IF strategy \in {"Falling Wedge", "Rising Wedge"}
  THEN {Bar3(8, 4, 8), Bar3(6, 5, 5), Bar3(7, 0, 1)}
  ELSE IF strategy = "Symmetrical Triangle"
  THEN {Bar3(9, 0, 9), Bar3(5, 4, 4), Bar3(7, 2, 2)}
  ELSE IF strategy = "Trendline Bounce"
  THEN {Bar3(2, 0, 1), Bar3(3, 1, 2), Bar3(4, 2, 3)}
  ELSE {Bar3(9, 8, 9), Bar3(5, 4, 4), Bar3(1, 0, 0)}

Sides(strategy) ==
  {Gen!Signal(strategy, df, 6).side : df \in [0..6 -> Shapes(strategy)]}

ASSUME ParametersAreLegal == Gen!PatternAssumption

(* Each strategy finds its pattern, in both directions where it has two.   *)
ASSUME StrategiesFire == \A strategy \in Gen!Strategies :
  Sides(strategy) = CASE strategy = "Falling Wedge" -> {"none", "LONG"}
                      [] strategy = "Rising Wedge" -> {"none", "SHORT"}
                      [] OTHER -> {"none", "LONG", "SHORT"}

(* A signal is known when its candle has closed: the next changes nothing. *)
ASSUME SignalsAreKnown == \A strategy \in Gen!Strategies :
  \A df \in [0..7 -> Shapes(strategy)] :
    Gen!Signal(strategy, df, 6) = Gen!Signal(strategy, [j \in 0..6 |-> df[j]], 6)

Walk(n, train, test, step) == INSTANCE WalkForward WITH
  N <- n, Train <- train, Test <- test, Step <- step, MinTrades <- 1

(* Windows of all small lengths: where there are two, none is tested twice *)
(* just when the step is no shorter than the test, and nothing is left out *)
(* just when it is no longer.                                              *)
ASSUME WindowsTile ==
  \A n \in 0..9, train, test, step \in 1..3 :
    LET several == Walk(n, train, test, step)!Windows \notin SUBSET {0}
    IN /\ Walk(n, train, test, step)!TestedOnce <=> (several => step >= test)
       /\ Walk(n, train, test, step)!TestsThePeriod <=> (several => step <= test)
=============================================================================
