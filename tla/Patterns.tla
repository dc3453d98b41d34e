-------------------------------- MODULE Patterns --------------------------------
(***************************************************************************)
(* backtesting/signals.py: the signal of each candle of a series, out of   *)
(* which the event engine and the optimiser trade.  A series is a function *)
(* on the indices of its candles; its signals are computed at once, before *)
(* the first of them is traded.                                            *)
(*                                                                         *)
(* Ratios are parameters in hundredths.  Means and regressions are kept as *)
(* sums, so that what the code compares is compared between integers.      *)
(***************************************************************************)
EXTENDS Integers, FiniteSets, Functions

CONSTANTS
  SwingWindow, \* swing_window
  Lookback,    \* pattern_lookback
  AtrPeriod,   \* atr_period
  VolPeriod,   \* 20
  TrendPeriod, \* trend_period, 20
  MinR2, VolMult, AtrSL, AtrTP, Touch   \* in hundredths

(* The parameters a strategy is run with.                                  *)
PatternAssumption ==
  /\ {SwingWindow, TrendPeriod} \subseteq Nat
  /\ {Lookback, AtrPeriod, VolPeriod} \subseteq Nat \ {0}

Strategies == {"Falling Wedge", "Rising Wedge", "Symmetrical Triangle",
               "Support / Resistance Breakout", "Trendline Bounce"}

Abs(a) == IF a >= 0 THEN a ELSE -a
Larger(a, b) == IF a >= b THEN a ELSE b

(* Sums of AtrPeriod true ranges and of VolPeriod volumes.  The first      *)
(* candle has no close before it.                                          *)
TrueRange(df, j) ==
  LET span == df[j].high - df[j].low
      before == df[j - 1].close
  IN IF j = 0 THEN span
     ELSE Larger(span, Larger(Abs(df[j].high - before), Abs(df[j].low - before)))

AtrSum(df, i) == SumFunction([j \in i - AtrPeriod + 1 .. i |-> TrueRange(df, j)])
VolSum(df, i) == SumFunction([j \in i - VolPeriod + 1 .. i |-> df[j].vol])

HasAtr(i) == i >= AtrPeriod - 1

Surge(df, i) ==
  /\ i >= VolPeriod - 1 /\ VolSum(df, i) # 0
  /\ 100 * VolPeriod * df[i].vol >= VolMult * VolSum(df, i)

(* _precompute_swing_highs and _lows: of the whole series.                 *)
Around(k) == k - SwingWindow .. k + SwingWindow
SwingHighs(df) == {k \in DOMAIN df :
  Around(k) \subseteq DOMAIN df /\ \A j \in Around(k) : df[j].high <= df[k].high}
SwingLows(df) == {k \in DOMAIN df :
  Around(k) \subseteq DOMAIN df /\ \A j \in Around(k) : df[k].low <= df[j].low}

(* Of them, those a window that ends before i has confirmed.               *)
Confirmed(pivots, i) == {k \in pivots : i - Lookback <= k /\ k < i - SwingWindow}
LastThree(S) == {k \in S : Cardinality({j \in S : k < j}) < 3}

(* linregress of f over its indices: the slope is b / d, its r squared     *)
(* b * b / (d * c).                                                        *)
Fit(f) ==
  LET n == Cardinality(DOMAIN f)
      sx == SumFunction([k \in DOMAIN f |-> k])
      sy == SumFunction(f)
  IN [n |-> n, sx |-> sx, sy |-> sy,
      d |-> n * SumFunction([k \in DOMAIN f |-> k * k]) - sx * sx,
      b |-> n * SumFunction([k \in DOMAIN f |-> k * f[k]]) - sx * sy,
      c |-> n * SumFunction([k \in DOMAIN f |-> f[k] * f[k]]) - sy * sy]

Reliable(l) == l.c > 0 /\ 100 * l.b * l.b >= MinR2 * l.d * l.c

(* How far y is over the line at x, times n * d.                           *)
Over(l, x, y) == y * l.n * l.d - (l.sy * l.d + l.b * (l.n * x - l.sx))

(* The trend lines of the last three highs and lows.                       *)
Upper(df, i) == Fit([k \in LastThree(Confirmed(SwingHighs(df), i)) |-> df[k].high])
Lower(df, i) == Fit([k \in LastThree(Confirmed(SwingLows(df), i)) |-> df[k].low])

HasLines(df, i) ==
  /\ HasAtr(i) /\ Surge(df, i)
  /\ Upper(df, i).n = 3 /\ Lower(df, i).n = 3
  /\ Reliable(Upper(df, i)) /\ Reliable(Lower(df, i))

(* _gen_wedge: the lower line the steeper.                                 *)
FallingWedge(df, i) ==
  LET u == Upper(df, i)
      l == Lower(df, i)
  IN /\ HasLines(df, i)
     /\ u.b < 0 /\ l.b < 0 /\ l.b * u.d < u.b * l.d
     /\ Over(l, i, df[i].close) > 0

RisingWedge(df, i) ==
  LET u == Upper(df, i)
      l == Lower(df, i)
  IN /\ HasLines(df, i)
     /\ u.b > 0 /\ l.b > 0 /\ l.b * u.d > u.b * l.d
     /\ Over(l, i, df[i].close) < 0

(* _gen_triangle_symmetrical                                               *)
Triangle(df, i) == HasLines(df, i) /\ Upper(df, i).b < 0 /\ Lower(df, i).b > 0
Rose(df, i) == df[i].close > df[Larger(0, i - TrendPeriod)].close

(* A hundred times the linear quantile of f.                               *)
Ranked(f, k) == CHOOSE v \in Range(f) :
  /\ Cardinality({j \in DOMAIN f : f[j] < v}) <= k
  /\ k < Cardinality({j \in DOMAIN f : f[j] <= v})
Quantile(f, percent) ==
  LET at == percent * (Cardinality(DOMAIN f) - 1)
      low == Ranked(f, at \div 100)
      next == IF at % 100 = 0 THEN low ELSE Ranked(f, at \div 100 + 1)
  IN 100 * low + (at % 100) * (next - low)

(* _gen_sr_breakout: the window of the levels ends with i itself.          *)
Level(df, i, percent) ==
  AtrPeriod * Quantile([j \in i - Lookback + 1 .. i |-> df[j].close], percent)
Breaks(df, i, sign, percent) ==
  /\ HasAtr(i) /\ Surge(df, i)
  /\ sign * (100 * AtrPeriod * df[i].close - Level(df, i, percent)) > 30 * AtrSum(df, i)

(* _gen_trendline_bounce: a line through the closes before i, at i - 1.    *)
Trend(df, i) == Fit([j \in i - Lookback .. i - 1 |-> df[j].close])
Bounces(df, i, sign) ==
  LET l == Trend(df, i)
      over == Over(l, i - 1, df[i].close)
  IN /\ HasAtr(i) /\ Reliable(l)
     /\ 100 * AtrPeriod * Abs(over) <= Touch * AtrSum(df, i) * l.n * l.d
     /\ sign * l.b > 0 /\ sign * over >= 0

Long(strategy, df, i) ==
  \/ strategy = "Falling Wedge" /\ FallingWedge(df, i)
  \/ /\ strategy = "Symmetrical Triangle" /\ Triangle(df, i)
     /\ Rose(df, i) /\ Over(Upper(df, i), i, df[i].close) > 0
  \/ strategy = "Support / Resistance Breakout" /\ Breaks(df, i, 1, 95)
  \/ strategy = "Trendline Bounce" /\ Bounces(df, i, 1)

Short(strategy, df, i) ==
  \/ strategy = "Rising Wedge" /\ RisingWedge(df, i)
  \/ /\ strategy = "Symmetrical Triangle" /\ Triangle(df, i)
     /\ ~Rose(df, i) /\ Over(Lower(df, i), i, df[i].close) < 0
  \/ strategy = "Support / Resistance Breakout" /\ Breaks(df, i, -1, 5)
  \/ strategy = "Trendline Bounce" /\ Bounces(df, i, -1)

(* Stop and target, in hundredths of 1 / AtrPeriod.                        *)
NoSignal == [side |-> "none"]
Stops(df, i, side, sign) ==
  LET close == 100 * AtrPeriod * df[i].close IN
  [side |-> side, sl |-> close - sign * AtrSL * AtrSum(df, i),
   tp |-> close + sign * AtrTP * AtrSum(df, i)]

(* generate_signals, at one index of its arrays.                           *)
Signal(strategy, df, i) ==
  IF i < Lookback THEN NoSignal
  ELSE IF Long(strategy, df, i) THEN Stops(df, i, "LONG", 1)
  ELSE IF Short(strategy, df, i) THEN Stops(df, i, "SHORT", -1)
  ELSE NoSignal

=============================================================================
