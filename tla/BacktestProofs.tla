----------------------------- MODULE BacktestProofs -----------------------------
(***************************************************************************)
(* Proofs about the backtests.                                             *)
(*                                                                         *)
(* EventBacktest.tla: what is entered at a candle's open does not depend   *)
(* on what the candle does afterwards, for any candles, signals, costs and *)
(* thresholds.  Patterns.tla (G): the signal of a candle is a function of  *)
(* the candles up to it, for series of any length and any parameters,      *)
(* which is what EventBacktest takes for granted when it makes the signal  *)
(* a part of its candle.  WalkForward.tla: which candles the windows test, *)
(* for every length of series, training, test and step.                    *)
(***************************************************************************)
EXTENDS EventBacktest, WalkForward, TLAPS

CONSTANTS SwingWindow, AtrPeriod, VolPeriod, TrendPeriod, MinR2, VolMult, AtrSL, AtrTP, Touch

G == INSTANCE Patterns

-----------------------------------------------------------------------------
(* No look ahead in the engine                                             *)

Fields == {"trade", "equity", "loss", "dayOpen", "losses", "cooldown", "exited", "curve"}

(* What run carries has always the same parts.                             *)
Carried(s) == s = [f \in Fields |-> s[f]]

(* After a candle, the engine and its twin either agree on the trade they  *)
(* have entered at its open, or one of them had an exit within it.         *)
PastInv ==
  /\ i \in Nat \ {0} /\ Carried(state)
  /\ KnowsOnlyThePast

LEMMA MorningCarries ==
  ASSUME NEW s, Carried(s), NEW b
  PROVE  Carried(Morning(s, b))
BY DEF Carried, Morning, Fields

LEMMA BookedCarries ==
  ASSUME NEW s, Carried(s), NEW net, NEW bar
  PROVE  Carried(Booked(s, net, bar)) /\ Booked(s, net, bar).exited = bar
<1>1. Booked(s, net, bar).exited = bar
  BY DEF Carried, Booked, Fields
<1>2. Carried(Booked(s, net, bar))
  BY DEF Carried, Booked, Fields
<1>. QED BY <1>1, <1>2

(* _check_exit: without an exit nothing changes, with one it is recorded.  *)
LEMMA ExitShows ==
  ASSUME NEW s, Carried(s), NEW b, NEW bar
  PROVE  /\ Carried(AfterExit(s, b, bar))
         /\ AfterExit(s, b, bar) = s \/ AfterExit(s, b, bar).exited = bar
BY BookedCarries DEF AfterExit

(* What is booked at an entry leaves the exits alone.                      *)
LEMMA EntryCarries ==
  ASSUME NEW s, Carried(s), NEW before, NEW b, NEW bar
  PROVE  /\ Carried(AfterEntry(s, before, b, bar))
         /\ AfterEntry(s, before, b, bar).exited = s.exited
<1>. DEFINE t == AfterEntry(s, before, b, bar)
            signal == SignalBar(before, b)
            qty == Quantity(s, b.open, signal.sl, bar)
            trade == [side |-> IF signal.tp > b.open THEN "LONG" ELSE "SHORT", entry |-> b.open,
                      sl |-> signal.sl, tp |-> signal.tp, qty |-> qty, bar |-> bar]
            equity == s.equity - Cost(qty)
<1>1. t = s \/ t = [s EXCEPT !.equity = equity, !.trade = trade] BY DEF AfterEntry
<1>. HIDE DEF t, trade, equity
<1>2. Carried(t) /\ t.exited = s.exited BY <1>1 DEF Carried, Fields
<1>. QED BY <1>2 DEF t

LEMMA CurveCarries ==
  ASSUME NEW t, Carried(t), NEW v
  PROVE  /\ Carried([t EXCEPT !.curve = v])
         /\ [t EXCEPT !.curve = v].exited = t.exited
         /\ [t EXCEPT !.curve = v].trade = t.trade
BY DEF Carried, Fields

(* A candle without an exit: the new state is a function of its open.      *)
AtTheOpen(s, before, b, bar) ==
  LET t == AfterEntry(Morning(s, b), before, b, bar)
  IN [t EXCEPT !.curve = t.equity]

LEMMA BarShows ==
  ASSUME NEW s, Carried(s), NEW before, NEW b, NEW bar
  PROVE  /\ Carried(Bar(s, before, b, bar))
         /\ Bar(s, before, b, bar).exited = bar
              \/ Bar(s, before, b, bar) = AtTheOpen(s, before, b, bar)
<1>. DEFINE m == Morning(s, b)
            x == AfterExit(m, b, bar)
            t == AfterEntry(x, before, b, bar)
<1>1. Carried(m) BY MorningCarries
<1>2. Carried(x) /\ (x = m \/ x.exited = bar) BY <1>1, ExitShows
<1>3. Carried(t) /\ t.exited = x.exited BY <1>2, EntryCarries
<1>4. Bar(s, before, b, bar) = [t EXCEPT !.curve = t.equity] BY DEF Bar
<1>5. AtTheOpen(s, before, b, bar)
        = [AfterEntry(m, before, b, bar) EXCEPT !.curve = AfterEntry(m, before, b, bar).equity]
  BY DEF AtTheOpen
<1>. HIDE DEF m, x, t
<1>6. CASE x = m
  <2>1. t = AfterEntry(m, before, b, bar) BY <1>6 DEF t
  <2>. QED BY <2>1, <1>3, <1>4, <1>5, CurveCarries
<1>7. CASE x.exited = bar BY <1>7, <1>3, <1>4, CurveCarries
<1>. QED BY <1>2, <1>6, <1>7

(* Candles that open alike are alike at the open.                          *)
LEMMA OpensAlike ==
  ASSUME NEW s, NEW before, NEW bar, NEW b, NEW other,
         other.open = b.open, other.newday = b.newday
  PROVE  AtTheOpen(s, before, b, bar) = AtTheOpen(s, before, other, bar)
BY DEF AtTheOpen, Morning, AfterEntry, SignalBar, Quantity

(* event_engine.py:20, "Lookahead Bias Guarantee": whatever the candle     *)
(* does after its open, the engine enters the same trade at the open - if  *)
(* it was flat before.                                                     *)
THEOREM NoLookahead == Spec => []KnowsOnlyThePast
<1>1. Init => PastInv
  <2>. SUFFICES ASSUME Init PROVE PastInv OBVIOUS
  <2>1. Carried(state) BY DEF Init, Carried, Fields
  <2>. QED BY <2>1 DEF Init, PastInv, KnowsOnlyThePast, Exited, Entered
<1>2. PastInv /\ [Next]_vars => PastInv'
  <2>. SUFFICES ASSUME PastInv, [Next]_vars PROVE PastInv' OBVIOUS
  <2>1. CASE Candle
    <3>1. PICK b \in Candles, other \in Candles :
            /\ other.open = b.open /\ other.newday = b.newday
            /\ state' = Bar(state, last, b, i)
            /\ twin' = Bar(state, last, other, i)
            /\ i' = i + 1
      BY <2>1 DEF Candle
    <3>2. Carried(state') BY <3>1, BarShows DEF PastInv
    <3>3. i' \in Nat \ {0} /\ i' > 1 /\ i' - 1 = i BY <3>1 DEF PastInv
    <3>4. KnowsOnlyThePast'
      <4>1. SUFFICES ASSUME ~Exited(state)', ~Exited(twin)' PROVE state' = twin'
        BY DEF KnowsOnlyThePast, Entered
      <4>2. state'.exited # i /\ twin'.exited # i BY <4>1, <3>3 DEF Exited
      <4>3. /\ state' = AtTheOpen(state, last, b, i)
            /\ twin' = AtTheOpen(state, last, other, i)
        BY <4>2, <3>1, BarShows DEF PastInv
      <4>. QED BY <4>3, <3>1, OpensAlike
    <3>. QED BY <3>2, <3>3, <3>4 DEF PastInv, Carried
  <2>2. CASE Finish
    BY <2>2 DEF Finish, PastInv, KnowsOnlyThePast, Carried, Fields
  <2>3. CASE UNCHANGED vars
    BY <2>3 DEF vars, PastInv, KnowsOnlyThePast, Entered, Exited, Carried
  <2>. QED BY <2>1, <2>2, <2>3 DEF Next
<1>3. PastInv => KnowsOnlyThePast BY DEF PastInv
<1>. QED BY <1>1, <1>2, <1>3, PTL DEF Spec

-----------------------------------------------------------------------------
(* The signals: series of candles                                          *)

IsSeries(df) == \E n \in Nat : DOMAIN df = 0..n - 1

(* Two series that are alike up to i, and may go on as they like.          *)
Alike(df, other, c) ==
  /\ IsSeries(df) /\ IsSeries(other)
  /\ c \in DOMAIN df /\ c \in DOMAIN other
  /\ \A j \in 0..c : df[j] = other[j]

-----------------------------------------------------------------------------
(* Windows that end with i, or before                                      *)

(* An index of both series has all of its past in both.                    *)
LEMMA PastThere ==
  ASSUME G!PatternAssumption, NEW df, NEW other, NEW c, Alike(df, other, c)
  PROVE  c \in Nat /\ 0..c \subseteq DOMAIN df /\ 0..c \subseteq DOMAIN other
BY DEF Alike, IsSeries

(* _compute_atr looks back only.                                           *)
LEMMA AtrKnown ==
  ASSUME G!PatternAssumption, NEW df, NEW other, NEW c, Alike(df, other, c), G!HasAtr(c)
  PROVE  G!AtrSum(df, c) = G!AtrSum(other, c)
<1>1. c \in Nat BY PastThere
<1>2. ASSUME NEW j \in 0..c PROVE G!TrueRange(df, j) = G!TrueRange(other, j)
  <2>1. df[j] = other[j] BY <1>2 DEF Alike
  <2>2. j # 0 => df[j - 1] = other[j - 1]
    <3>1. j # 0 => j - 1 \in 0..c BY <1>1, <1>2
    <3>. QED BY <3>1 DEF Alike
  <2>. QED BY <2>1, <2>2 DEF G!TrueRange
<1>3. c - AtrPeriod + 1 .. c \subseteq 0..c BY <1>1 DEF G!HasAtr, G!PatternAssumption
<1>4. [j \in c - AtrPeriod + 1 .. c |-> G!TrueRange(df, j)]
        = [j \in c - AtrPeriod + 1 .. c |-> G!TrueRange(other, j)]
  BY <1>2, <1>3
<1>. QED BY <1>4 DEF G!AtrSum

(* So does the mean of the volumes.                                        *)
LEMMA SurgeKnown ==
  ASSUME G!PatternAssumption, NEW df, NEW other, NEW c, Alike(df, other, c)
  PROVE  G!Surge(df, c) <=> G!Surge(other, c)
<1>1. c \in Nat BY PastThere
<1>2. CASE c >= VolPeriod - 1
  <2>1. c - VolPeriod + 1 .. c \subseteq 0..c BY <1>1, <1>2 DEF G!PatternAssumption
  <2>2. [j \in c - VolPeriod + 1 .. c |-> df[j].vol]
          = [j \in c - VolPeriod + 1 .. c |-> other[j].vol]
    BY <2>1 DEF Alike
  <2>3. G!VolSum(df, c) = G!VolSum(other, c) BY <2>2 DEF G!VolSum
  <2>4. df[c] = other[c] BY <1>1 DEF Alike
  <2>. QED BY <2>3, <2>4 DEF G!Surge
<1>3. CASE ~(c >= VolPeriod - 1) BY <1>3 DEF G!Surge
<1>. QED BY <1>2, <1>3

(* A window of closes that ends with i, or just before.                    *)
LEMMA ClosesKnown ==
  ASSUME G!PatternAssumption, NEW df, NEW other, NEW c, Alike(df, other, c),
         NEW lo \in Nat, NEW hi \in Int, hi <= c
  PROVE  [j \in lo..hi |-> df[j].close] = [j \in lo..hi |-> other[j].close]
<1>1. c \in Nat BY PastThere
<1>2. lo..hi \subseteq 0..c BY <1>1
<1>. QED BY <1>2 DEF Alike

-----------------------------------------------------------------------------
(* Pivots                                                                  *)

(* A confirmed pivot has its whole neighbourhood in the past of i.         *)
LEMMA AroundKnown ==
  ASSUME G!PatternAssumption, NEW df, NEW other, NEW c, Alike(df, other, c),
         NEW k \in DOMAIN df, k < c - SwingWindow, G!Around(k) \subseteq DOMAIN df
  PROVE  /\ G!Around(k) \subseteq 0..c /\ k \in 0..c
         /\ k \in DOMAIN other /\ G!Around(k) \subseteq DOMAIN other
<1>1. c \in Nat /\ 0..c \subseteq DOMAIN other BY PastThere
<1>2. PICK n \in Nat : DOMAIN df = 0..n - 1 BY DEF Alike, IsSeries
<1>3. SwingWindow \in Nat BY DEF G!PatternAssumption
<1>4. k \in Nat BY <1>2
<1>5. G!Around(k) \subseteq 0..n - 1 BY <1>2
<1>6. G!Around(k) \subseteq 0..c
  <2>1. SUFFICES ASSUME NEW j \in G!Around(k) PROVE j \in 0..c OBVIOUS
  <2>2. j \in k - SwingWindow .. k + SwingWindow BY DEF G!Around
  <2>3. j \in 0..n - 1 BY <1>5
  <2>4. j <= c BY <2>2, <2>3, <1>1, <1>3, <1>4
  <2>. QED BY <2>3, <2>4, <1>1
<1>7. k \in 0..c BY <1>1, <1>3, <1>4
<1>. QED BY <1>1, <1>6, <1>7

(* Pivots are computed of the whole series, those a window uses are not.   *)
LEMMA HighsIncluded ==
  ASSUME G!PatternAssumption, NEW df, NEW other, NEW c, Alike(df, other, c)
  PROVE  G!Confirmed(G!SwingHighs(df), c) \subseteq G!Confirmed(G!SwingHighs(other), c)
<1>1. SUFFICES ASSUME NEW k \in G!Confirmed(G!SwingHighs(df), c)
               PROVE  k \in G!Confirmed(G!SwingHighs(other), c)
  OBVIOUS
<1>2. /\ k \in DOMAIN df /\ c - Lookback <= k /\ k < c - SwingWindow
      /\ G!Around(k) \subseteq DOMAIN df /\ \A j \in G!Around(k) : df[j].high <= df[k].high
  BY DEF G!Confirmed, G!SwingHighs
<1>3. /\ G!Around(k) \subseteq 0..c /\ k \in 0..c
      /\ k \in DOMAIN other /\ G!Around(k) \subseteq DOMAIN other
  BY <1>2, AroundKnown
<1>4. \A j \in G!Around(k) : df[j] = other[j] BY <1>3 DEF Alike
<1>5. df[k] = other[k] BY <1>3 DEF Alike
<1>. QED BY <1>2, <1>3, <1>4, <1>5 DEF G!Confirmed, G!SwingHighs

LEMMA LowsIncluded ==
  ASSUME G!PatternAssumption, NEW df, NEW other, NEW c, Alike(df, other, c)
  PROVE  G!Confirmed(G!SwingLows(df), c) \subseteq G!Confirmed(G!SwingLows(other), c)
<1>1. SUFFICES ASSUME NEW k \in G!Confirmed(G!SwingLows(df), c)
               PROVE  k \in G!Confirmed(G!SwingLows(other), c)
  OBVIOUS
<1>2. /\ k \in DOMAIN df /\ c - Lookback <= k /\ k < c - SwingWindow
      /\ G!Around(k) \subseteq DOMAIN df /\ \A j \in G!Around(k) : df[k].low <= df[j].low
  BY DEF G!Confirmed, G!SwingLows
<1>3. /\ G!Around(k) \subseteq 0..c /\ k \in 0..c
      /\ k \in DOMAIN other /\ G!Around(k) \subseteq DOMAIN other
  BY <1>2, AroundKnown
<1>4. \A j \in G!Around(k) : df[j] = other[j] BY <1>3 DEF Alike
<1>5. df[k] = other[k] BY <1>3 DEF Alike
<1>. QED BY <1>2, <1>3, <1>4, <1>5 DEF G!Confirmed, G!SwingLows

LEMMA AlikeBothWays ==
  ASSUME G!PatternAssumption, NEW df, NEW other, NEW c, Alike(df, other, c)
  PROVE  Alike(other, df, c)
BY DEF Alike

(* The trend lines are drawn through confirmed pivots.                     *)
LEMMA LinesKnown ==
  ASSUME G!PatternAssumption, NEW df, NEW other, NEW c, Alike(df, other, c)
  PROVE  /\ G!Upper(df, c) = G!Upper(other, c)
         /\ G!Lower(df, c) = G!Lower(other, c)
<1>. DEFINE highs == G!Confirmed(G!SwingHighs(df), c)
            lows == G!Confirmed(G!SwingLows(df), c)
<1>1. highs = G!Confirmed(G!SwingHighs(other), c) BY HighsIncluded, AlikeBothWays
<1>2. lows = G!Confirmed(G!SwingLows(other), c) BY LowsIncluded, AlikeBothWays
<1>3. \A k \in G!LastThree(highs) : df[k] = other[k]
  <2>1. SUFFICES ASSUME NEW k \in G!LastThree(highs) PROVE df[k] = other[k] OBVIOUS
  <2>2. k \in DOMAIN df /\ k < c - SwingWindow /\ G!Around(k) \subseteq DOMAIN df
    BY DEF G!LastThree, G!Confirmed, G!SwingHighs
  <2>. QED BY <2>2, AroundKnown DEF Alike
<1>4. \A k \in G!LastThree(lows) : df[k] = other[k]
  <2>1. SUFFICES ASSUME NEW k \in G!LastThree(lows) PROVE df[k] = other[k] OBVIOUS
  <2>2. k \in DOMAIN df /\ k < c - SwingWindow /\ G!Around(k) \subseteq DOMAIN df
    BY DEF G!LastThree, G!Confirmed, G!SwingLows
  <2>. QED BY <2>2, AroundKnown DEF Alike
<1>5. [k \in G!LastThree(highs) |-> df[k].high] = [k \in G!LastThree(highs) |-> other[k].high]
  BY <1>3
<1>6. [k \in G!LastThree(lows) |-> df[k].low] = [k \in G!LastThree(lows) |-> other[k].low]
  BY <1>4
<1>. QED BY <1>1, <1>2, <1>5, <1>6 DEF G!Upper, G!Lower

-----------------------------------------------------------------------------
(* The generators                                                          *)

(* Wedges and triangles: lines, volume, range and close are all known.     *)
LEMMA HasLinesKnown ==
  ASSUME G!PatternAssumption, NEW df, NEW other, NEW c, Alike(df, other, c)
  PROVE  G!HasLines(df, c) <=> G!HasLines(other, c)
BY LinesKnown, SurgeKnown DEF G!HasLines

LEMMA WedgesKnown ==
  ASSUME G!PatternAssumption, NEW df, NEW other, NEW c, Alike(df, other, c)
  PROVE  /\ G!FallingWedge(df, c) <=> G!FallingWedge(other, c)
         /\ G!RisingWedge(df, c) <=> G!RisingWedge(other, c)
<1>1. c \in 0..c BY PastThere
<1>2. df[c] = other[c] BY <1>1 DEF Alike
<1>. QED BY <1>2, LinesKnown, HasLinesKnown DEF G!FallingWedge, G!RisingWedge

LEMMA TriangleKnown ==
  ASSUME G!PatternAssumption, NEW df, NEW other, NEW c, Alike(df, other, c)
  PROVE  /\ G!Triangle(df, c) <=> G!Triangle(other, c)
         /\ G!Rose(df, c) <=> G!Rose(other, c)
<1>1. c \in Nat BY PastThere
<1>2. c \in 0..c /\ G!Larger(0, c - TrendPeriod) \in 0..c
  BY <1>1 DEF G!Larger, G!PatternAssumption
<1>3. /\ df[c] = other[c]
      /\ df[G!Larger(0, c - TrendPeriod)] = other[G!Larger(0, c - TrendPeriod)]
  BY <1>2 DEF Alike
<1>. QED BY <1>3, LinesKnown, HasLinesKnown DEF G!Triangle, G!Rose

(* The rolling quantiles.                                                  *)
LEMMA BreaksKnown ==
  ASSUME G!PatternAssumption, NEW df, NEW other, NEW c, Alike(df, other, c), c >= Lookback,
         NEW sign, NEW percent
  PROVE  G!Breaks(df, c, sign, percent) <=> G!Breaks(other, c, sign, percent)
<1>1. c \in Nat BY PastThere
<1>2. c - Lookback + 1 \in Nat /\ c \in Int BY <1>1 DEF G!PatternAssumption
<1>3. G!Level(df, c, percent) = G!Level(other, c, percent)
  <2>1. [j \in c - Lookback + 1 .. c |-> df[j].close]
          = [j \in c - Lookback + 1 .. c |-> other[j].close]
    BY <1>1, <1>2, ClosesKnown
  <2>. QED BY <2>1 DEF G!Level
<1>4. c \in 0..c BY <1>1
<1>5. df[c] = other[c] BY <1>4 DEF Alike
<1>. QED BY <1>3, <1>5, SurgeKnown, AtrKnown DEF G!Breaks

(* The regression through the closes.                                      *)
LEMMA BouncesKnown ==
  ASSUME G!PatternAssumption, NEW df, NEW other, NEW c, Alike(df, other, c), c >= Lookback, NEW sign
  PROVE  G!Bounces(df, c, sign) <=> G!Bounces(other, c, sign)
<1>1. c \in Nat BY PastThere
<1>2. c - Lookback \in Nat /\ c - 1 \in Int /\ c - 1 <= c BY <1>1 DEF G!PatternAssumption
<1>3. G!Trend(df, c) = G!Trend(other, c)
  <2>1. [j \in c - Lookback .. c - 1 |-> df[j].close]
          = [j \in c - Lookback .. c - 1 |-> other[j].close]
    BY <1>2, ClosesKnown
  <2>. QED BY <2>1 DEF G!Trend
<1>4. c \in 0..c BY <1>1
<1>5. df[c] = other[c] BY <1>4 DEF Alike
<1>. QED BY <1>3, <1>5, AtrKnown DEF G!Bounces

(* Stops are computed where there is a signal, and so where there is a     *)
(* range.                                                                  *)
LEMMA StopsKnown ==
  ASSUME G!PatternAssumption, NEW df, NEW other, NEW c, Alike(df, other, c), G!HasAtr(c),
         NEW side, NEW sign
  PROVE  G!Stops(df, c, side, sign) = G!Stops(other, c, side, sign)
<1>1. c \in 0..c BY PastThere
<1>2. df[c] = other[c] BY <1>1 DEF Alike
<1>. QED BY <1>2, AtrKnown DEF G!Stops

-----------------------------------------------------------------------------
(* signals.py:35-44, "Lookahead Bias in VectorBT": although the arrays are *)
(* computed of the whole series, the signal of a candle, its stop and its  *)
(* target are the same for all series that are alike up to this candle.    *)
THEOREM NoFutureDataIsAccessed ==
  ASSUME G!PatternAssumption, NEW df, NEW other, NEW c, Alike(df, other, c), NEW strategy
  PROVE  G!Signal(strategy, df, c) = G!Signal(strategy, other, c)
<1>1. CASE c < Lookback BY <1>1 DEF G!Signal
<1>2. CASE ~(c < Lookback)
  <2>1. c \in Nat /\ c >= Lookback BY <1>2, PastThere DEF G!PatternAssumption
  <2>2. c \in 0..c BY <2>1
  <2>3. df[c] = other[c] BY <2>2 DEF Alike
  <2>4. /\ G!FallingWedge(df, c) <=> G!FallingWedge(other, c)
        /\ G!RisingWedge(df, c) <=> G!RisingWedge(other, c)
    BY WedgesKnown
  <2>5. /\ G!Triangle(df, c) <=> G!Triangle(other, c)
        /\ G!Rose(df, c) <=> G!Rose(other, c)
        /\ G!Upper(df, c) = G!Upper(other, c) /\ G!Lower(df, c) = G!Lower(other, c)
    BY TriangleKnown, LinesKnown
  <2>6. /\ G!Breaks(df, c, 1, 95) <=> G!Breaks(other, c, 1, 95)
        /\ G!Breaks(df, c, -1, 5) <=> G!Breaks(other, c, -1, 5)
    BY <2>1, BreaksKnown
  <2>7. /\ G!Bounces(df, c, 1) <=> G!Bounces(other, c, 1)
        /\ G!Bounces(df, c, -1) <=> G!Bounces(other, c, -1)
    BY <2>1, BouncesKnown
  <2>8. /\ G!Long(strategy, df, c) <=> G!Long(strategy, other, c)
        /\ G!Short(strategy, df, c) <=> G!Short(strategy, other, c)
    BY <2>3, <2>4, <2>5, <2>6, <2>7 DEF G!Long, G!Short
  <2>9. G!Long(strategy, df, c) \/ G!Short(strategy, df, c) => G!HasAtr(c)
    BY DEF G!Long, G!Short, G!FallingWedge, G!RisingWedge, G!Triangle, G!HasLines, G!Breaks,
           G!Bounces
  <2>. QED BY <2>8, <2>9, StopsKnown DEF G!Signal
<1>. QED BY <1>1, <1>2

-----------------------------------------------------------------------------
(* The windows of the walk-forward test                                    *)

(* A later window starts at least one step later.                          *)
LEMMA StartsApart ==
  ASSUME NEW s \in Nat, NEW j \in Nat, NEW k \in Nat, j < k
  PROVE  j * s + s <= k * s
<1>1. PICK d \in Nat : k = j + 1 + d
  <2>1. k - j - 1 \in Nat /\ k = j + 1 + (k - j - 1)  OBVIOUS
  <2> QED  BY <2>1
<1>2. k * s = j * s + s + d * s  BY <1>1
<1>3. d * s \in Nat  OBVIOUS
<1>4. j * s \in Nat  OBVIOUS
<1> QED  BY <1>2, <1>3, <1>4

(* The quotient of a candle's distance by the step.                        *)
LEMMA StepOf ==
  ASSUME NEW s \in Nat \ {0}, NEW a \in Nat
  PROVE  \E q \in Nat : q * s <= a /\ a < q * s + s
<1> DEFINE q == a \div s
          r == a % s
<1>1. q \in Nat /\ r \in 0..(s - 1) /\ a = (s * q) + r  OBVIOUS
<1>2. q * s = s * q /\ s * q \in Nat  BY <1>1
<1> HIDE DEF q, r
<1>3. q * s <= a /\ a < q * s + s  BY <1>1, <1>2
<1> QED  BY <1>1, <1>3

LEMMA StartIsNat ==
  ASSUME WindowAssumption, NEW k \in Nat
  PROVE  Start(k) \in Nat
BY DEF WindowAssumption, Start

(* Windows overlap only if the step is shorter than the test: with         *)
(* step_days >= test_days no candle is counted twice.                      *)
THEOREM NoCandleTestedTwice ==
  ASSUME WindowAssumption, Step >= Test
  PROVE  TestedOnce
<1>1. ASSUME NEW j \in Windows, NEW k \in Windows, j < k
      PROVE  Tested(j) \intersect Tested(k) = {}
  <2>1. Start(j) + Step <= Start(k)
    BY <1>1, StartsApart DEF Start, Windows, WindowAssumption
  <2>2. Start(j) \in Nat /\ Start(k) \in Nat  BY StartIsNat DEF Windows
  <2> QED  BY <2>1, <2>2 DEF Tested, End, Boundary, WindowAssumption
<1> QED  BY <1>1 DEF TestedOnce, Windows

(* With step_days <= test_days the raw mode and the benchmark see the same *)
(* candles: the strategies' period has no holes.                           *)
THEOREM NoCandleLeftOut ==
  ASSUME WindowAssumption, Step <= Test
  PROVE  TestsThePeriod
<1>1. ASSUME NEW b, b \in Period(FALSE, <<>>)  PROVE b \in Benchmark
  <2>1. PICK k \in Windows : b \in Tested(k)  BY <1>1 DEF Period, Counted
  <2>2. Start(k) \in Nat  BY StartIsNat DEF Windows
  <2> QED  BY <2>1, <2>2 DEF Benchmark, Tested, End, Boundary, Windows, WindowAssumption
<1>2. ASSUME NEW b \in Benchmark  PROVE b \in Period(FALSE, <<>>)
  <2>1. PICK j \in Windows, k \in Windows : Boundary(j) <= b /\ b < End(k)
    BY DEF Benchmark
  <2>2. b \in Nat /\ Start(j) \in Nat /\ Start(k) \in Nat
    BY StartIsNat DEF Windows, Benchmark
  <2>3. b - Train \in Nat  BY <2>1, <2>2 DEF Boundary, WindowAssumption
  <2>4. PICK q \in Nat : Start(q) <= b - Train /\ b - Train < Start(q) + Step
    BY <2>3, StepOf DEF Start, WindowAssumption
  <2>5. Start(q) \in Nat  BY StartIsNat
  <2>6. CASE q <= k
    <3>1. Start(q) <= Start(k)
      <4>1. CASE q = k  BY <4>1, <2>2
      <4>2. CASE q < k
        <5>1. Start(q) + Step <= Start(k)
          BY <4>2, StartsApart DEF Start, Windows, WindowAssumption
        <5> QED  BY <5>1, <2>2, <2>5 DEF WindowAssumption
      <4> QED  BY <2>6, <4>1, <4>2 DEF Windows
    <3>2. q \in Windows
      BY <2>6, <3>1, <2>2, <2>5 DEF Windows, End, Boundary, WindowAssumption
    <3>3. b \in Tested(q)
      BY <2>2, <2>4, <2>5 DEF Tested, End, Boundary, WindowAssumption
    <3> QED  BY <3>2, <3>3 DEF Period, Counted
  <2>7. CASE q > k
    \* Then b lies behind the start of q, and within the test of k.
    <3>1. Start(k) + Step <= Start(q)
      BY <2>7, StartsApart DEF Start, Windows, WindowAssumption
    <3>2. b \in Tested(k)
      BY <3>1, <2>1, <2>2, <2>4, <2>5 DEF Tested, End, Boundary, WindowAssumption
    <3> QED  BY <3>2 DEF Period, Counted
  <2>8. q <= k \/ q > k  BY DEF Windows
  <2> QED  BY <2>6, <2>7, <2>8
<1>3. Benchmark = Period(FALSE, <<>>)  BY <1>1, <1>2
<1> QED  BY <1>3 DEF TestsThePeriod
=============================================================================
