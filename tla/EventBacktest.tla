----------------------------- MODULE EventBacktest -----------------------------
(***************************************************************************)
(* backtesting/event_engine.py: the backtest that walks candle by candle   *)
(* and is to know nothing of a candle but its open when it enters at it.   *)
(*                                                                         *)
(* The signal of a candle, out of generate_signals (Patterns), is left     *)
(* open; it is part of the candle here, known when it has closed, as       *)
(* BacktestProofs shows it is.  With each candle a twin is processed from  *)
(* the same state: one that opens alike and then goes its own way.         *)
(***************************************************************************)
EXTENDS Integers

CONSTANTS
  Bars,       \* candles that are looked at
  Lookback,   \* pattern_lookback
  Opens, Lows, Highs,
  Signals,    \* stop and target of the signals, NoSignal among them
  Streak, CoolBars,   \* 3 losses in a row suspend for 20 bars
  Fee,        \* of one unit bought or sold
  Equity0     \* starting_equity

ASSUME BacktestAssumption ==
  /\ {Bars, Lookback, Streak, CoolBars, Fee, Equity0} \subseteq Nat
  /\ Opens \union Lows \union Highs \subseteq Int
  /\ \A s \in Signals : {s.sl, s.tp} \subseteq Int

VARIABLES
  full,   \* not raw_mode
  i,      \* the index of the next candle
  last,   \* the candle before it
  state,  \* what run carries from candle to candle
  twin,   \* what it would carry, had the last candle been its twin
  over    \* the open trade of the end is closed

vars == <<full, i, last, state, twin, over>>

NoSignal == [sl |-> 0, tp |-> 0]
Flat == [side |-> "flat"]

Candles == {b \in [open : Opens, low : Lows, high : Highs, signal : Signals, newday : BOOLEAN] :
              b.low <= b.open /\ b.open <= b.high}

Init ==
  /\ full \in BOOLEAN /\ i = 1 /\ over = FALSE
  /\ last \in {b \in Candles : ~b.newday}
  /\ state = [trade |-> Flat, equity |-> Equity0, loss |-> 0, dayOpen |-> Equity0,
              losses |-> 0, cooldown |-> -1, exited |-> 0, curve |-> Equity0]
  /\ twin = state

-----------------------------------------------------------------------------
(* One candle                                                              *)

Least(a, b) == IF a <= b THEN a ELSE b
Most(a, b) == IF a >= b THEN a ELSE b
Direction(trade) == IF trade.side = "LONG" THEN 1 ELSE -1

(* The daily reset, of the full mode.                                      *)
Morning(s, b) ==
  IF full /\ b.newday THEN [s EXCEPT !.dayOpen = s.equity, !.loss = 0, !.losses = 0] ELSE s

(* _check_exit: the stop first, at the open if that is beyond.             *)
StopHit(t, b) == IF t.side = "LONG" THEN b.low <= t.sl ELSE b.high >= t.sl
TargetHit(t, b) == IF t.side = "LONG" THEN b.high >= t.tp ELSE b.low <= t.tp
StopFill(t, b) == IF t.side = "LONG" THEN Least(b.open, t.sl) ELSE Most(b.open, t.sl)
TargetFill(t, b) == IF t.side = "LONG" THEN Most(b.open, t.tp) ELSE Least(b.open, t.tp)

(* Fee and slippage of one side: they grow with the quantity, and with the *)
(* price, which is left out.                                               *)
Cost(qty) == Fee * qty

(* Gross pnl less the cost of the exit.  The entry's was taken before.     *)
NetPnl(t, price) == Direction(t) * (price - t.entry) * t.qty - Cost(t.qty)

(* The third loss in a row suspends, and the next streak begins anew.      *)
Booked(s, net, bar) ==
  LET lost == net < 0
      streak == lost /\ s.losses + 1 >= Streak
  IN [s EXCEPT
       !.trade = Flat, !.exited = bar, !.equity = @ + net, !.loss = Least(0, @ + net),
       !.losses = IF ~full THEN @ ELSE IF lost /\ ~streak THEN @ + 1 ELSE 0,
       !.cooldown = IF full /\ streak THEN bar + CoolBars ELSE @]

AfterExit(s, b, bar) ==
  LET t == s.trade IN
  IF t = Flat THEN s
  ELSE IF StopHit(t, b) THEN Booked(s, NetPnl(t, StopFill(t, b)), bar)
  ELSE IF TargetHit(t, b) THEN Booked(s, NetPnl(t, TargetFill(t, b)), bar)
  ELSE s

(* _tier_scalar in quarters, of a limit of 1 % of the day's opening equity.*)
Tier(loss, limit) ==
  IF 10 * loss >= 9 * limit THEN 0 ELSE IF 4 * loss >= 3 * limit THEN 1
  ELSE IF 2 * loss >= limit THEN 2 ELSE 4

(* _risk_check.  Its fourth gate, a worst case beyond the remaining budget,*)
(* cannot bind on a risk of three fifths of it.                            *)
Distance(entry, sl) == IF entry >= sl THEN entry - sl ELSE sl - entry
Quantity(s, entry, sl, bar) ==
  LET limit == s.dayOpen \div 100
      risk == Least(s.equity \div 100, (6 * (limit + s.loss)) \div 10)
      dist == Distance(entry, sl)
  IN IF dist = 0 THEN 0
     ELSE IF ~full THEN (s.equity \div 100) \div dist
     ELSE IF -s.loss >= limit \/ bar <= s.cooldown THEN 0
     ELSE ((risk * Tier(-s.loss, limit)) \div 16) \div dist

SameBar(before, b) == b.signal   \* mutant: arrays.entries[i]

SignalBar(before, b) == before.signal

(* An entry at the open on the signal of the candle before.  The side is   *)
(* taken from the target's.                                                *)
AfterEntry(s, before, b, bar) ==
  LET signal == SignalBar(before, b)
      qty == Quantity(s, b.open, signal.sl, bar)
  IN IF s.trade # Flat \/ bar < Lookback \/ signal = NoSignal \/ qty <= 0 THEN s
     ELSE [s EXCEPT
       !.equity = @ - Cost(qty),
       !.trade = [side |-> IF signal.tp > b.open THEN "LONG" ELSE "SHORT", entry |-> b.open,
                  sl |-> signal.sl, tp |-> signal.tp, qty |-> qty, bar |-> bar]]

(* The body of run's loop.                                                 *)
Bar(s, before, b, bar) ==
  LET t == AfterEntry(AfterExit(Morning(s, b), b, bar), before, b, bar)
  IN [t EXCEPT !.curve = t.equity]

Candle == \E b, other \in Candles :
  /\ i < Bars /\ ~over
  /\ other.open = b.open /\ other.newday = b.newday
  /\ state' = Bar(state, last, b, i)
  /\ twin' = Bar(state, last, other, i)
  /\ i' = i + 1 /\ last' = b
  /\ UNCHANGED <<full, over>>

(* After the last candle; the curve has its last point already.            *)
Finish == \E close \in last.low..last.high :
  /\ i = Bars /\ ~over
  /\ over' = TRUE
  /\ state' = IF state.trade = Flat THEN state
              ELSE [state EXCEPT !.trade = Flat, !.equity = @ + NetPnl(state.trade, close)]
  /\ UNCHANGED <<full, i, last, twin>>

Next == Candle \/ Finish

Spec == Init /\ [][Next]_vars

-----------------------------------------------------------------------------
(* Properties                                                              *)

Entered(s) == IF s.trade # Flat /\ s.trade.bar = i - 1 THEN s.trade ELSE Flat
Exited(s) == i > 1 /\ s.exited = i - 1

(* event_engine.py:20, "Lookahead Bias Guarantee": whether a position is   *)
(* entered at a candle's open, and which, does not depend on what the      *)
(* candle does after its open - if the engine was flat before.             *)
KnowsOnlyThePast ==
  ~over /\ ~Exited(state) /\ ~Exited(twin) => Entered(state) = Entered(twin)

(* Without the exception it is refuted by TLC: an exit inside a candle     *)
(* makes room for an entry at the same candle's open, before it.           *)
EntersBeforeItExits == ~over => Entered(state) = Entered(twin)

(* event_engine.py:51, "On each candle, we check if the candle's HIGH or   *)
(* LOW has breached the stop-loss or take-profit price".  Refuted by TLC:  *)
(* not on the candle of the entry.                                         *)
EntryCandleIsChecked ==
  ~over /\ Entered(state) # Flat => ~StopHit(state.trade, last) /\ ~TargetHit(state.trade, last)

(* A trade goes the way of its signal.  Refuted by TLC: when the open is   *)
(* beyond the target, the trade is turned around.                          *)
SideOfTheSignal ==
  state.trade # Flat => (state.trade.side = "LONG" <=> state.trade.sl < state.trade.tp)

(* event_engine.py:181, "equity_curve: ... portfolio value per bar".       *)
(* Refuted by TLC: the trade closed at the end is not on the curve.        *)
CurveEndsAtTheEquity == over => state.curve = state.equity
=============================================================================
