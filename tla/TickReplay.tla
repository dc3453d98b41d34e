------------------------------ MODULE TickReplay ------------------------------
(***************************************************************************)
(* backtesting/tick_replay.py, and the two programs that drive it:         *)
(* run_tick_walk_forward (backtesting/walk_forward.py) and                 *)
(* StrategyBuilder.walk_forward_metrics (strategy/builder.py).             *)
(*                                                                         *)
(* A pass replays the rows of a window out of lob_tick.db, page by page    *)
(* out of two tables, while the recorder may add more.  What a row holds   *)
(* is left open: a mid and the walls that identify_walls finds in it, or a *)
(* price and whether the detectors fire on it; so is the size of a         *)
(* position, which is one unit.  Features are left out.                    *)
(***************************************************************************)
EXTENDS Integers, Sequences, SequencesExt, FiniteSets

CONSTANTS
  MaxTs,      \* rows are from 0..MaxTs
  Rows,       \* per table, its rows at the start
  Late,       \* rows that the recorder adds at most
  PageSize,   \* batch_size
  Train, Test, StepLen,   \* of run_tick_walk_forward
  Folds,      \* n_folds of walk_forward_metrics
  MinTrades,  \* MIN_OOS_TRADES
  Mids, Levels, Prices,   \* of depth rows, of walls, of trades
  Fresh, Stale,           \* LOB_FRESH_WALL_MS, _STALE_WALL_MS
  DayLen,     \* 86_400_000
  Fee,        \* entry_cost, exit_cost
  RewardRisk, \* ATR_MULTIPLIER_TP
  Equity0     \* starting_equity

ASSUME ReplayAssumption ==
  /\ {MaxTs, Late, Train, Test, MinTrades, Fresh, Stale, Fee} \subseteq Nat
  /\ {PageSize, StepLen, Folds, DayLen, RewardRisk, Equity0} \subseteq Nat \ {0}
  /\ \A p \in Mids \union Levels \union Prices : p \in Nat \ {0}
  /\ Rows \in [{"depth", "trade"} -> Nat]

VARIABLES
  db,         \* per table, the ts_event of its rows; the index is the id
  passes,     \* the calls that are left, the current one first
  stream,     \* the two generators: cursor, page, whether they have ended
  yielded,    \* the rows that the merge has yielded in this pass
  walls,      \* _wall_states
  prices,     \* _prev_mid, _last_trade_price
  cvd,        \* the trades in the CVD calculator, and _last_day
  account,    \* _open_position, _equity, _trades, and _equity_curve without its times
  curves      \* first and last point of each curve to be chained

vars == <<db, passes, stream, yielded, walls, prices, cvd, account, curves>>

Kinds == {"depth", "trade"}
Flat == [side |-> "flat"]
NoWall == [side |-> "none"]
NewAccount == [position |-> Flat, equity |-> Equity0, trades |-> <<>>, curve |-> <<Equity0>>]

-----------------------------------------------------------------------------
(* Windows                                                                 *)

(* _generate_ts_windows, a replay_window and a replay_window_oos for each. *)
WalkForward(from, to) ==
  LET n == IF to - from < Train + Test THEN 0 ELSE (to - from - Train - Test) \div StepLen + 1
      is(i) == from + ((i - 1) \div 2) * StepLen
  IN IF n < 2 THEN <<>>
     ELSE [i \in 1..2 * n |->
            IF i % 2 = 1
            THEN [keep |-> FALSE, start |-> is(i), end |-> is(i) + Train]
            ELSE [keep |-> TRUE, start |-> is(i) + Train, end |-> is(i) + Train + Test]]

(* walk_forward_metrics: equal folds, a remainder is not replayed.  What   *)
(* it makes of their results is left out.                                  *)
BuilderFolds(from, to) ==
  LET len == (to - from) \div Folds IN
  [i \in 1..Folds |-> [keep |-> FALSE, start |-> from + (i - 1) * len,
                       end |-> from + i * len]]

-----------------------------------------------------------------------------
(* A pass                                                                  *)

Before(a, b) ==
  \/ a.ts < b.ts
  \/ a.ts = b.ts /\ a.kind = "depth" /\ b.kind = "trade"
  \/ a.ts = b.ts /\ a.kind = b.kind /\ a.id < b.id

Generator(start) == [last |-> [ts |-> start - 1, id |-> -1], page |-> {}, ended |-> FALSE]

Size(tables) == [k \in Kinds |-> Len(tables[k])]

(* _reset and _reset_for_oos: neither touches the CVD calculator.          *)
Begins(todo) ==
  /\ passes' = todo
  /\ stream' = IF todo = <<>> THEN stream ELSE [k \in Kinds |-> Generator(Head(todo).start)]
  /\ yielded' = [rows |-> <<>>, known |-> Size(db)]
  /\ walls' = [p \in Levels |-> NoWall]
  /\ prices' = [mid |-> 0, last |-> 0]
  /\ cvd' = [cvd EXCEPT !.day = -1]
  /\ account' = NewAccount

Times == 0..MaxTs

Init ==
  /\ db \in [depth : [1..Rows["depth"] -> Times], trade : [1..Rows["trade"] -> Times]]
  /\ \/ passes = BuilderFolds(0, MaxTs)
     \/ \E first, last \in Range(db["depth"]) :
          /\ \A ts \in Range(db["depth"]) : first <= ts /\ ts <= last
          /\ passes = WalkForward(first, last)
  /\ passes # <<>>
  /\ stream = [k \in Kinds |-> Generator(Head(passes).start)]
  /\ yielded = [rows |-> <<>>, known |-> Size(db)]
  /\ walls = [p \in Levels |-> NoWall]
  /\ prices = [mid |-> 0, last |-> 0]
  /\ cvd = [has |-> {}, day |-> -1]
  /\ account = NewAccount /\ curves = <<>>

(* The recorder commits a row, which may be older than others it committed.*)
Record(k) == \E ts \in Times :
  /\ passes # <<>>
  /\ Len(db["depth"]) + Len(db["trade"]) < Rows["depth"] + Rows["trade"] + Late
  /\ db' = [db EXCEPT ![k] = Append(@, ts)]
  /\ UNCHANGED <<passes, stream, yielded, walls, prices, cvd, account, curves>>

LaterMs(row, last) == row.ts > last.ts   \* mutant: the id is no part of the cursor

(* The WHERE clause of a page.                                             *)
After(row, last) == row.ts > last.ts \/ (row.ts = last.ts /\ row.id > last.id)

RowsOf(k) == {[ts |-> db[k][i], kind |-> k, id |-> i] : i \in 1..Len(db[k])}

(* The first rows of those found, in the order of the index.               *)
FirstPage(found) == {page \in SUBSET found :
  /\ Cardinality(page) <= PageSize
  /\ Cardinality(page) < PageSize => page = found
  /\ \A r \in page, s \in found \ page : Before(r, s)}

(* _batch_gen, when the merge asks for a row beyond its page.              *)
Fetch(k) ==
  LET g == stream[k]
      found == {r \in RowsOf(k) : After(r, g.last) /\ r.ts <= Head(passes).end}
  IN
  /\ passes # <<>> /\ g.page = {} /\ ~g.ended
  /\ \E page \in FirstPage(found) :
       /\ \/ page = {} /\ stream' = [stream EXCEPT ![k].ended = TRUE]
          \/ \E row \in page :
               /\ \A r \in page \ {row} : Before(r, row)
               /\ stream' = [stream EXCEPT ![k] =
                    [last |-> [ts |-> row.ts, id |-> row.id], page |-> page,
                     ended |-> Cardinality(page) < PageSize]]
  /\ UNCHANGED <<db, passes, yielded, walls, prices, cvd, account, curves>>

(* heapq.merge: the smallest of the rows at hand.                          *)
Ready == passes # <<>> /\ \A k \in Kinds : stream[k].page # {} \/ stream[k].ended
Exhausted == Ready /\ \A k \in Kinds : stream[k].page = {}
Yield(k, row) ==
  /\ Ready /\ row \in stream[k].page
  /\ \A j \in Kinds : \A r \in stream[j].page \ {row} : Before(row, r)
  /\ stream' = [stream EXCEPT ![k].page = @ \ {row}]
  /\ yielded' = [yielded EXCEPT !.rows = Append(@, row)]

-----------------------------------------------------------------------------
(* What a row does                                                         *)

SideOf(p, mid) == IF p < mid THEN "bid" ELSE "ask"

(* _process_depth: found are walls, there are tracked ones that are levels *)
(* still.  A wall absent for longer than Stale is forgotten.               *)
Seen(found, there, mid, now) == [p \in Levels |->
  IF p \in found /\ walls[p] = NoWall THEN [side |-> SideOf(p, mid), first |-> now, seen |-> now]
  ELSE IF walls[p] = NoWall THEN NoWall
  ELSE IF p \in found \union there THEN [walls[p] EXCEPT !.seen = now]
  ELSE IF now - walls[p].seen > Stale THEN NoWall ELSE walls[p]]

Depth == \E row \in stream["depth"].page, mid \in Mids, found, there \in SUBSET Levels :
  /\ Yield("depth", row)
  /\ found \intersect there = {} /\ mid \notin found \union there
  /\ \A p \in there : walls[p] # NoWall /\ walls[p].side = SideOf(p, mid)
  /\ walls' = Seen(found, there, mid, row.ts)
  /\ prices' = [prices EXCEPT !.mid = mid]
  /\ UNCHANGED <<db, passes, cvd, account, curves>>

(* The midnight handler follows the update.                                *)
Counted(ts) ==
  LET day == ts \div DayLen IN
  [has |-> IF cvd.day >= 0 /\ day > cvd.day THEN {} ELSE cvd.has \union {ts},
   day |-> IF day > cvd.day THEN day ELSE cvd.day]

Direction(p) == IF walls[p].side = "ask" THEN "LONG" ELSE "SHORT"
Sign(side) == IF side = "LONG" THEN 1 ELSE -1

(* valid_protection_walls, with the age that detect_sweep_with_protection  *)
(* has from the row.  Which of them is nearest is left open.               *)
Sweeps(p, q, price, now) ==
  LET s == Sign(Direction(p)) IN
  /\ walls[p] # NoWall /\ walls[q] # NoWall
  /\ walls[q].side # walls[p].side /\ now - walls[q].first <= Fresh
  /\ s * (price - prices.mid) > 0
  /\ s * (prices.mid - q) > 0 /\ s * (p - q) > 0

(* _simulate_trade: no position without a stop on the losing side, nor one *)
(* whose target does not pay for the round trip.                           *)
Opened(a, side, price, sl, now) ==
  LET risk == Sign(side) * (price - sl)
      pos == [side |-> side, entry |-> price, sl |-> sl, at |-> now,
              tp |-> price + Sign(side) * RewardRisk * risk]
  IN IF a.equity <= 0 \/ risk <= 0 \/ RewardRisk * risk < 2 * Fee THEN a
     ELSE [a EXCEPT !.position = pos, !.equity = @ - Fee, !.curve = Append(@, a.equity - Fee)]

Gross(pos, price) == Sign(pos.side) * (price - pos.entry)

ExitCostOnly(pos, price) == Gross(pos, price) - Fee   \* mutant: the entry's cost is left out

(* pnl_usd, net of both costs.                                             *)
NetPnl(pos, price) == Gross(pos, price) - Fee - Fee

(* _close_position                                                         *)
Closed(a, price, now, reason) ==
  LET pos == a.position
      equity == a.equity + Gross(pos, price) - Fee
      trade == [opened |-> pos.at, closed |-> now, reason |-> reason, pnl |-> NetPnl(pos, price)]
  IN [position |-> Flat, equity |-> equity, trades |-> Append(a.trades, trade),
      curve |-> Append(a.curve, equity)]

(* _check_open_position: a stop fills at the trade, a target at its price. *)
Exited(a, price, now) ==
  LET pos == a.position IN
  IF pos = Flat THEN a
  ELSE IF Sign(pos.side) * (price - pos.sl) <= 0 THEN Closed(a, price, now, "SL")
  ELSE IF Sign(pos.side) * (price - pos.tp) >= 0 THEN Closed(a, pos.tp, now, "TP")
  ELSE a

(* _process_trade.  A sweep uses its wall up, whether it opens a position  *)
(* or not.                                                                 *)
Trade == \E row \in stream["trade"].page, price \in Prices :
  LET a == Exited(account, price, row.ts) IN
  /\ Yield("trade", row)
  /\ prices' = [prices EXCEPT !.last = price]
  /\ cvd' = Counted(row.ts)
  /\ \/ account' = a /\ UNCHANGED walls
     \/ /\ a.position = Flat
        /\ \E p, q \in Levels :
             /\ Sweeps(p, q, price, row.ts)
             /\ walls' = [walls EXCEPT ![p] = NoWall]
             /\ account' = Opened(a, Direction(p), price, q, row.ts)
  /\ UNCHANGED <<db, passes, curves>>

(* The end of replay_window: an open position is closed, at the mid if     *)
(* there was no trade.  The next call begins with a reset.                 *)
EndPrice == IF prices.last > 0 THEN prices.last ELSE prices.mid
Final == IF account.position = Flat THEN account
         ELSE Closed(account, EndPrice, Head(passes).end, "EOD")

EndPass ==
  /\ Exhausted
  /\ curves' = IF Head(passes).keep /\ Len(Final.trades) >= MinTrades
               THEN Append(curves, [first |-> Head(Final.curve), last |-> Final.equity])
               ELSE curves
  /\ Begins(Tail(passes))
  /\ UNCHANGED db

Next ==
  \/ \E k \in Kinds : Record(k) \/ Fetch(k)
  \/ Depth \/ Trade \/ EndPass

Spec == Init /\ [][Next]_vars

-----------------------------------------------------------------------------
(* Properties                                                              *)

(* Whatever the recorder adds meanwhile, a pass sees its rows in order and *)
(* each once, across all pages of both tables, and by its end each row of  *)
(* its window that was there when it began.                                *)
RowsReplayed ==
  LET rows == yielded.rows IN
  /\ \A i \in 1..Len(rows) - 1 : Before(rows[i], rows[i + 1])
  /\ Exhausted => \A k \in Kinds : \A id \in 1..yielded.known[k] :
       db[k][id] \in Head(passes).start..Head(passes).end =>
         \E i \in 1..Len(rows) : rows[i].kind = k /\ rows[i].id = id

(* test_bt_tick_replay.py:141, "start <= e.ts_ms <= end".  Refuted by TLC: *)
(* the cursor begins at start - 1 with an id that every row has passed.    *)
RowsInWindow == \A i \in 1..Len(yielded.rows) :
  yielded.rows[i].ts \in Head(passes).start..Head(passes).end

(* The trades explain the equity: between a trade's entry and its exit the *)
(* curve goes by just its result, and an open position has cost its entry  *)
(* so far.  No two positions of a pass overlap in time.                    *)
BooksBalance ==
  LET trades == account.trades
      curve == account.curve
      n == Len(trades)
  IN
  /\ curve[1] = Equity0 /\ curve[Len(curve)] = account.equity
  /\ \A i \in 1..n : curve[2 * i + 1] = curve[2 * i - 1] + trades[i].pnl
  /\ IF account.position = Flat
     THEN Len(curve) = 2 * n + 1
     ELSE Len(curve) = 2 * n + 2 /\ curve[2 * n + 2] = curve[2 * n + 1] - Fee
  /\ \A i \in 1..n - 1 : trades[i].closed <= trades[i + 1].opened
  /\ account.position # Flat /\ n > 0 => trades[n].closed <= account.position.at

(* An open position has a trade to be valued at: the branch of the end     *)
(* without a price, which names a logger the module has not, is dead.      *)
PricedAtTheEnd == account.position # Flat => prices.last > 0

(* tick_replay.py:66, "state is reset at the start of each replay_window   *)
(* call".  Refuted by TLC: the training of the next window begins with a   *)
(* CVD of trades that are in its future.                                   *)
CvdIsOfThePast ==
  \A t \in cvd.has : yielded.rows # <<>> => t <= Last(yielded.rows).ts

(* _chain_equity_curves, as fractions: scales, and the first and last of   *)
(* each scaled curve.                                                      *)
Scale(i) == IF i = 1 THEN <<1, 1>> ELSE <<curves[i - 1].last, curves[i].first>>
Scaled(i, value) == <<value * Scale(i)[1], Scale(i)[2]>>

(* walk_forward.py:442, "each subsequent curve ... begins where the        *)
(* previous one ended".  Refuted by TLC with three curves: the scale is    *)
(* taken from the previous curve as it was before it was scaled.           *)
ChainIsContinuous == \A i \in 1..Len(curves) - 1 :
  LET a == Scaled(i, curves[i].last)
      b == Scaled(i + 1, curves[i + 1].first)
  IN a[1] * b[2] = b[1] * a[2]
=============================================================================
