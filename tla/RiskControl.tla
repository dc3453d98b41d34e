----------------------------- MODULE RiskControl -----------------------------
(***************************************************************************)
(* The risk side of the engine: risk/engine.py, risk/budget.py,            *)
(* risk/killswitch.py and risk/sizing.py, with everything that reads or    *)
(* writes them on the one asyncio loop: the executor's Gate 3, the order   *)
(* loop's checks, the booking of exits, the 1 Hz mark-to-market loop, the  *)
(* heartbeat callback, the operator's button, the midnight reset, and a    *)
(* restart with the startup reconciliation.                                *)
(*                                                                         *)
(* Money is an integer and percentages are compared in basis points, as    *)
(* loss * 10000 >= bp * dov.  hard_limit is always 1 % of an equity, so    *)
(* only that equity is kept: budget.dov and ks.dov.  How orders and exits  *)
(* come about is OrderManager's subject; here a position is the money it   *)
(* risks, and a close any pnl between its stop and its target.             *)
(***************************************************************************)
EXTENDS Integers, Sequences

CONSTANTS
  StartingEquity,  \* settings.STARTING_EQUITY
  FullRisk,        \* money one order risks at tier FULL
  Gain,            \* profit at the target
  Slippage,        \* how far beyond its stop a position may close
  ReducedBp, MinimalBp, PassiveBp, HaltedBp, DailyLossBp, DrawdownBp,
  MaxLosses,       \* settings.MAX_CONSECUTIVE_LOSSES
  CriticalLimit,   \* settings.HEARTBEAT_CONSEC_LIMIT
  MaxApprovals, MaxDays, MaxRestarts   \* bounds of a behaviour

ASSUME MoneyAssumption ==
  /\ StartingEquity \in Nat \ {0} /\ FullRisk \in Nat /\ Gain \in Nat /\ Slippage \in Nat

(* The assertions of config.py.                                            *)
ASSUME LadderAssumption ==
  /\ {ReducedBp, MinimalBp, PassiveBp, HaltedBp, DailyLossBp, DrawdownBp} \subseteq Nat \ {0}
  /\ ReducedBp < MinimalBp /\ MinimalBp < PassiveBp /\ PassiveBp < HaltedBp
  /\ HaltedBp <= DailyLossBp /\ DailyLossBp <= DrawdownBp

ASSUME CountAssumption ==
  {MaxLosses, CriticalLimit, MaxApprovals, MaxDays, MaxRestarts} \subseteq Nat

Tiers == {"FULL", "REDUCED", "MINIMAL", "PASSIVE", "HALTED"}
Breakers == {"ACTIVE", "PAUSED", "HALTED"}
Cooldowns == {"none", "running", "over"}
Triggers == {"none", "KS-1", "KS-2", "KS-3"}
Callers == {"KS-1", "KS-2", "KS-3", "UI"}

VARIABLES
  pf,         \* PortfolioState: equity, peak, starting, daily (pnl), losses in a row
  budget,     \* DailyBudget: dov, realised, unrealised
  ks,         \* GlobalKillswitch: trigger, the equity its limit is 1 % of, criticals
  risk,       \* RiskEngine: tier, circuit breaker, cooldown
  execTier,   \* the executor's copy of the tier
  mtm,        \* the mark-to-market loop: "start" before its first tick, "tick", "stopped"
  accepting,  \* OrderManager.accepting_new_signals
  queue,      \* approved requests on their way, each the money it risks
  position,   \* the position slot, with the money at risk: "flat", "entering",
              \* "placing" while the order loop places the bracket, "open" after
  unbooked,   \* the pnl of an exit whose report has reset the position but not booked
  closeAll,   \* per caller, emergency_close_all: "none", "due", "closing" or "done"
  db,         \* the two databases: the day's booked pnl, and the last engine_health row
  wallet,     \* the balance on the exchange, external
  used        \* how much of the bounds is used up

vars == <<pf, budget, ks, risk, execTier, mtm, accepting, queue, position,
          unbooked, closeAll, db, wallet, used>>

Flat == [pc |-> "flat", risk |-> 0]

TypeOK ==
  /\ pf \in [equity : Int, peak : Int, starting : Int, daily : Int, losses : Nat]
  /\ budget \in [dov : Int, realised : Int, unrealised : Int]
  /\ ks \in [trigger : Triggers, dov : Int, criticals : Nat]
  /\ risk \in [tier : Tiers, breaker : Breakers, cooldown : Cooldowns]
  /\ execTier \in Tiers
  /\ mtm \in {"start", "tick", "stopped"}
  /\ accepting \in BOOLEAN
  /\ queue \in Seq(Nat)
  /\ position \in [pc : {"flat", "entering", "placing", "open"}, risk : Nat]
  /\ unbooked \subseteq Int
  /\ closeAll \in [Callers -> {"none", "due", "closing", "done"}]
  /\ db \in [pnl : Int, losses : Nat, cooldown : Cooldowns]
  /\ wallet \in Int
  /\ used \in [approvals : Nat, days : Nat, restarts : Nat]

Init ==
  /\ pf = [equity |-> StartingEquity, peak |-> StartingEquity,
           starting |-> StartingEquity, daily |-> 0, losses |-> 0]
  /\ budget = [dov |-> StartingEquity, realised |-> 0, unrealised |-> 0]
  /\ ks = [trigger |-> "none", dov |-> StartingEquity, criticals |-> 0]
  /\ risk = [tier |-> "FULL", breaker |-> "ACTIVE", cooldown |-> "none"]
  /\ execTier = "FULL" /\ mtm = "start" /\ accepting = TRUE
  /\ queue = <<>> /\ position = Flat /\ unbooked = {}
  /\ closeAll = [c \in Callers |-> "none"]
  /\ db = [pnl |-> 0, losses |-> 0, cooldown |-> "none"]
  /\ wallet = StartingEquity
  /\ used = [approvals |-> 0, days |-> 0, restarts |-> 0]

-----------------------------------------------------------------------------
(* Budget, killswitch, circuit breakers                                    *)

Larger(a, b) == IF a >= b THEN a ELSE b
Smaller(a, b) == IF a <= b THEN a ELSE b

Total(b) == b.realised + b.unrealised

(* A loss is at least bp basis points of base. *)
LossReaches(total, bp, base) == base > 0 /\ Larger(-total, 0) * 10000 >= bp * base

(* DailyBudget.remaining, rounded down to whole units of money. *)
Remaining(b) == (b.dov + 100 * Total(b)) \div 100

Fired == ks.trigger # "none"

(* GlobalKillswitch.check_budget would fire: strictly beyond the limit. *)
BreachesKS1(total, dov) == 100 * total < -dov

FireKS1(k, total) ==
  IF k.trigger = "none" /\ BreachesKS1(total, k.dov)
  THEN [k EXCEPT !.trigger = "KS-1"]
  ELSE k

Drawdown == LossReaches(pf.equity - pf.peak, DrawdownBp, pf.peak)
DailyLoss == LossReaches(pf.daily, DailyLossBp, pf.starting)

LadderTier(b) ==
  LET at(bp) == LossReaches(Total(b), bp, b.dov) IN
  CASE at(PassiveBp) -> "PASSIVE"
    [] at(MinimalBp) /\ ~at(PassiveBp) -> "MINIMAL"
    [] at(ReducedBp) /\ ~at(MinimalBp) -> "REDUCED"
    [] ~at(ReducedBp) -> "FULL"

PausedAtMinimal == [tier |-> "MINIMAL", breaker |-> "PAUSED", cooldown |-> "running"]   \* mutant

(* The pause of a losing streak: its cooldown runs, or begins (again).     *)
Paused == [tier |-> "PASSIVE", breaker |-> "PAUSED", cooldown |-> "running"]

(* _check_circuit_breakers, evaluated for budget b.  Its one caller, the   *)
(* mark-to-market loop, never runs it with the killswitch fired.           *)
CircuitBreakers(b) ==
  IF Fired \/ Drawdown \/ LossReaches(Total(b), HaltedBp, b.dov) \/ DailyLoss
  THEN [risk EXCEPT !.tier = "HALTED", !.breaker = "HALTED"]
  ELSE IF risk.cooldown = "running" \/ pf.losses >= MaxLosses
  THEN Paused
  ELSE [risk EXCEPT !.tier = LadderTier(b),
                    !.breaker = IF LadderTier(b) = "PASSIVE" THEN "PAUSED" ELSE "ACTIVE"]

(* TIER_SCALARS, in per cent. *)
Scalar == [FULL |-> 100, REDUCED |-> 50, MINIMAL |-> 25, PASSIVE |-> 0, HALTED |-> 0]

(* notional_hint times equity, clamped by cap_risk_fraction. *)
CappedRisk == Smaller((FullRisk * Scalar[execTier]) \div 100, Larger(Remaining(budget), 0))

-----------------------------------------------------------------------------
(* Booking an exit                                                         *)

StreakDecays(n, pnl) == IF pnl < 0 THEN n + 1 ELSE n - 1   \* mutant: a win ends one loss only

StreakAfter(n, pnl) == IF pnl < 0 THEN n + 1 ELSE 0

(* RiskEngine.record_trade_result, and the outcome's row in the registry   *)
(* database, whose update may find no row, fail, or be cut off by a crash. *)
RecordTradeResult(pnl) ==
  /\ pf' = [pf EXCEPT !.equity = @ + pnl, !.daily = @ + pnl,
                      !.peak = Larger(@, pf.equity + pnl),
                      !.losses = StreakAfter(@, pnl)]
  /\ budget' = [budget EXCEPT !.realised = @ + pnl, !.unrealised = 0]
  /\ ks' = FireKS1(ks, budget.realised + pnl)
  /\ \/ db' = [db EXCEPT !.pnl = @ + pnl]
     \/ UNCHANGED db

(* What a position that risks r may yield, or be marked at: its stop, with *)
(* or without slippage, or its target.                                     *)
Outcomes(r) == {-r, -(r + Slippage), Gain}

Held == position.pc \in {"placing", "open"}
LoopBusy == position.pc \in {"entering", "placing"}

(* Every way out but two resets the position and books it in one step.     *)
(* While the bracket is being placed only the order loop itself closes.    *)
CloseAndBook ==
  /\ Held
  /\ position' = Flat
  /\ \E pnl \in Outcomes(position.risk) :
       RecordTradeResult(pnl) /\ wallet' = wallet + pnl
  /\ UNCHANGED <<risk, execTier, mtm, accepting, queue, unbooked, closeAll, used>>

(* on_execution_report resets the position, then awaits the cancel of the  *)
(* other leg, then books.                                                  *)
ReportResets ==
  /\ position.pc = "open" /\ unbooked = {}      \* bound: one report at a time
  /\ position' = Flat
  /\ \E pnl \in Outcomes(position.risk) :
       unbooked' = {pnl} /\ wallet' = wallet + pnl
  /\ UNCHANGED <<pf, budget, ks, risk, execTier, mtm, accepting, queue, closeAll, db, used>>

ReportBooks ==
  /\ \E pnl \in unbooked : RecordTradeResult(pnl) /\ unbooked' = unbooked \ {pnl}
  /\ UNCHANGED <<risk, execTier, mtm, accepting, queue, position, closeAll, wallet, used>>

(* The REST poller saw a fill without a price: nothing is booked.          *)
CloseUnpriced ==
  /\ position.pc = "open"
  /\ position' = Flat
  /\ \E pnl \in Outcomes(position.risk) : wallet' = wallet + pnl
  /\ UNCHANGED <<pf, budget, ks, risk, execTier, mtm, accepting, queue,
                 unbooked, closeAll, db, used>>

-----------------------------------------------------------------------------
(* From approval to a position                                             *)

GateClosed == {"PASSIVE", "HALTED"}

(* The executor approves a signal.  Gate 3 reads the executor's own copy   *)
(* of the tier, the budget and the position slot, all live; requests that  *)
(* are queued do not count as exposure.                                    *)
Approve ==
  /\ used.approvals < MaxApprovals /\ Len(queue) < 2      \* bounds
  /\ position = Flat
  /\ execTier \notin GateClosed
  /\ budget.dov + 100 * Total(budget) > 0
  /\ queue' = Append(queue, CappedRisk)
  /\ used' = [used EXCEPT !.approvals = @ + 1]
  /\ UNCHANGED <<pf, budget, ks, risk, execTier, mtm, accepting, position,
                 unbooked, closeAll, db, wallet>>

(* The order loop takes a request and sends nothing, for whatever reason.  *)
Discard ==
  /\ queue # <<>> /\ ~LoopBusy
  /\ queue' = Tail(queue)
  /\ UNCHANGED <<pf, budget, ks, risk, execTier, mtm, accepting, position,
                 unbooked, closeAll, db, wallet, used>>

MayEnterUnfired == accepting   \* mutant: the loop does not look at the killswitch

MayEnter == accepting /\ ~Fired

SendEntry ==
  /\ queue # <<>> /\ position = Flat
  /\ MayEnter
  /\ Head(queue) > 0
  /\ position' = [pc |-> "entering", risk |-> Head(queue)]
  /\ queue' = Tail(queue)
  /\ UNCHANGED <<pf, budget, ks, risk, execTier, mtm, accepting,
                 unbooked, closeAll, db, wallet, used>>

EntryMissed ==
  /\ position.pc = "entering"
  /\ position' = Flat
  /\ UNCHANGED <<pf, budget, ks, risk, execTier, mtm, accepting, queue,
                 unbooked, closeAll, db, wallet, used>>

(* KS-3: with this fill the average of the window may be beyond its limit. *)
RecordSlippage ==
  \/ UNCHANGED ks
  \/ ~Fired /\ ks' = [ks EXCEPT !.trigger = "KS-3"]

(* record_slippage is true when KS-3 fires and when the killswitch was     *)
(* fired already; either way emergency_close_all is scheduled.             *)
EntryFilled ==
  /\ position.pc = "entering"
  /\ position' = [position EXCEPT !.pc = "placing"]
  /\ RecordSlippage
  /\ closeAll' = IF ks'.trigger # "none" THEN [closeAll EXCEPT !["KS-3"] = "due"] ELSE closeAll
  /\ UNCHANGED <<pf, budget, risk, execTier, mtm, accepting, queue,
                 unbooked, db, wallet, used>>

(* The bracket is in place.  Before it suspends again the order loop takes *)
(* every request that waits, and discards it: there is a position.         *)
BracketPlaced ==
  /\ position.pc = "placing"
  /\ position' = [position EXCEPT !.pc = "open"]
  /\ queue' = <<>>
  /\ UNCHANGED <<pf, budget, ks, risk, execTier, mtm, accepting,
                 unbooked, closeAll, db, wallet, used>>

-----------------------------------------------------------------------------
(* The hard stop                                                           *)

(* emergency_close_all up to its first suspension: it is over at once when *)
(* there is no position, or when the bracket placement is told to close it. *)
BeginCloseAll(c) ==
  /\ accepting' = FALSE
  /\ closeAll' = [closeAll EXCEPT ![c] = IF position.pc = "open" THEN "closing" ELSE "done"]

(* The close is answered.  The position is reset even when it is unfilled, *)
(* and is booked when it is filled and nobody reset it in between.         *)
FinishCloseAll(c) ==
  /\ closeAll[c] = "closing"
  /\ closeAll' = [closeAll EXCEPT ![c] = "done"]
  /\ position' = IF position.pc = "open" THEN Flat ELSE position
  /\ \/ /\ position.pc = "open"
        /\ \E pnl \in Outcomes(position.risk) :
             RecordTradeResult(pnl) /\ wallet' = wallet + pnl
     \/ UNCHANGED <<pf, budget, ks, db, wallet>>
  /\ UNCHANGED <<risk, execTier, mtm, accepting, queue, unbooked, used>>

(* A scheduled call begins: KS-3's task, or the operator's.                *)
ScheduledCloseAll(c) ==
  /\ closeAll[c] = "due"
  /\ BeginCloseAll(c)
  /\ UNCHANGED <<pf, budget, ks, risk, execTier, mtm, queue, position,
                 unbooked, db, wallet, used>>

(* The operator's button does not fire the killswitch. *)
KillswitchUI ==
  /\ ~Fired /\ closeAll["UI"] = "none"
  /\ closeAll' = [closeAll EXCEPT !["UI"] = "due"]
  /\ UNCHANGED <<pf, budget, ks, risk, execTier, mtm, accepting, queue, position,
                 unbooked, db, wallet, used>>

AfterCriticalUnlatched ==   \* mutant: heartbeat_cb does not ask is_active first
  /\ ks.criticals + 1 >= CriticalLimit \/ Fired
  /\ ks' = [ks EXCEPT !.trigger = IF Fired THEN @ ELSE "KS-2", !.criticals = @ + 1]
  /\ BeginCloseAll("KS-2")

(* KS-2 fires at the limit, and heartbeat_cb returns early once it is fired. *)
AfterCritical ==
  /\ ~Fired /\ ks.criticals + 1 >= CriticalLimit
  /\ ks' = [ks EXCEPT !.trigger = "KS-2", !.criticals = @ + 1]
  /\ BeginCloseAll("KS-2")

(* A message of the price stream is classified CRITICAL, or is not.        *)
HeartbeatCritical ==
  /\ \/ AfterCritical
     \/ /\ ~Fired /\ ks.criticals + 1 < CriticalLimit
        /\ ks' = [ks EXCEPT !.criticals = @ + 1]
        /\ UNCHANGED <<accepting, closeAll>>
  /\ UNCHANGED <<pf, budget, risk, execTier, mtm, queue, position, unbooked, db, wallet, used>>

HeartbeatFine ==
  /\ ~Fired /\ ks.criticals > 0
  /\ ks' = [ks EXCEPT !.criticals = 0]
  /\ UNCHANGED <<pf, budget, risk, execTier, mtm, accepting, queue, position,
                 unbooked, closeAll, db, wallet, used>>

-----------------------------------------------------------------------------
(* The mark-to-market loop                                                 *)

(* get_unrealised_pnl: 0 without a position or a book.                     *)
Marks == IF Held THEN Outcomes(position.risk) \union {0} ELSE {0}

PublishNoTier(t) == execTier' = execTier   \* mutant: set_risk_tier is not called

PublishTier(t) == execTier' = t

(* One tick with the killswitch not fired: mark, then KS-1, then the tier. *)
MtmTick ==
  /\ mtm # "stopped" /\ ~Fired
  /\ \E mark \in Marks :
       LET b == [budget EXCEPT !.unrealised = mark] IN
       /\ budget' = b
       /\ IF BreachesKS1(Total(b), ks.dov)
          THEN /\ ks' = FireKS1(ks, Total(b))
               /\ BeginCloseAll("KS-1")
               /\ mtm' = "stopped"
               /\ UNCHANGED <<risk, execTier>>
          ELSE /\ risk' = CircuitBreakers(b)
               /\ PublishTier(risk'.tier)
               /\ mtm' = "tick"
               /\ UNCHANGED <<ks, accepting, closeAll>>
  /\ UNCHANGED <<pf, queue, position, unbooked, db, wallet, used>>

(* The loop ends at the first tick that finds the killswitch fired.        *)
MtmReturns ==
  /\ mtm # "stopped" /\ Fired
  /\ mtm' = "stopped"
  /\ UNCHANGED <<pf, budget, ks, risk, execTier, accepting, queue, position,
                 unbooked, closeAll, db, wallet, used>>

CooldownExpires ==
  /\ risk.cooldown = "running"
  /\ risk' = [risk EXCEPT !.cooldown = "over"]
  /\ db' = [db EXCEPT !.cooldown = IF @ = "running" THEN "over" ELSE @]
  /\ UNCHANGED <<pf, budget, ks, execTier, mtm, accepting, queue, position,
                 unbooked, closeAll, wallet, used>>

-----------------------------------------------------------------------------
(* Days and restarts                                                       *)

NewSessionKeepingPnl == [pf EXCEPT !.losses = 0]   \* mutant: daily_pnl is not reset

NewSession == [pf EXCEPT !.daily = 0, !.losses = 0]

ResetRisk == [tier |-> "FULL", breaker |-> "ACTIVE", cooldown |-> "none"]

(* reset_for_new_session, five seconds after midnight: neither the         *)
(* killswitch's limit nor portfolio.starting_equity is rebased.            *)
MidnightReset ==
  /\ used.days < MaxDays
  /\ pf' = NewSession
  /\ budget' = [dov |-> pf.equity, realised |-> 0, unrealised |-> 0]
  /\ risk' = ResetRisk
  /\ db' = [db EXCEPT !.pnl = 0]
  /\ used' = [used EXCEPT !.days = @ + 1]
  /\ UNCHANGED <<ks, execTier, mtm, accepting, queue, position, unbooked, closeAll, wallet>>

(* _health_writer, every five seconds; only a restart reads the row. *)
WriteHealth ==
  /\ used.restarts < MaxRestarts      \* bound
  /\ db' = [db EXCEPT !.losses = pf.losses, !.cooldown = risk.cooldown]
  /\ db' # db
  /\ UNCHANGED <<pf, budget, ks, risk, execTier, mtm, accepting, queue, position,
                 unbooked, closeAll, wallet, used>>

RestartUnchecked(realised, equity) == "none"   \* mutant: KS-1 is not checked at startup

(* main: update_dov to the equity just read, then check_budget. *)
RestartTrigger(realised, equity) ==
  IF BreachesKS1(realised, equity) THEN "KS-1" ELSE "none"

(* The process stops or crashes and starts again, on the same day or on a  *)
(* later one, which has no booked pnl.  Each query of reconcile_on_startup *)
(* may fail: the balance (known), the day's pnl (realised), the health row. *)
(* A position left on the exchange, when the reconciliation sees it, ends  *)
(* acceptance: close_orphan_position runs before the order manager has its *)
(* client.                                                                 *)
Restart ==
  /\ used.restarts < MaxRestarts
  /\ \E known \in BOOLEAN, pnl \in {db.pnl, 0} :
       \E realised \in {pnl, 0}, health \in {<<db.losses, db.cooldown>>, <<0, "none">>} :
         LET equity == IF known THEN wallet ELSE StartingEquity
             starting == IF known THEN wallet - realised ELSE StartingEquity
         IN
         /\ equity > 0
         /\ pf' = [equity |-> equity, starting |-> starting, daily |-> realised,
                   peak |-> Larger(equity, starting), losses |-> health[1]]
         /\ budget' = [dov |-> equity, realised |-> realised, unrealised |-> 0]
         /\ ks' = [trigger |-> RestartTrigger(realised, equity), dov |-> equity,
                   criticals |-> 0]
         /\ risk' = [tier |-> "FULL", breaker |-> "ACTIVE", cooldown |-> health[2]]
         /\ db' = [db EXCEPT !.pnl = pnl]
  /\ accepting' \in IF position = Flat THEN {TRUE} ELSE BOOLEAN
  /\ used' = [used EXCEPT !.restarts = @ + 1]
  /\ execTier' = "FULL" /\ mtm' = "start"
  /\ queue' = <<>> /\ position' = Flat /\ unbooked' = {}
  /\ closeAll' = [c \in Callers |-> "none"]
  /\ UNCHANGED wallet

-----------------------------------------------------------------------------
Closing == CloseAndBook \/ ReportResets \/ ReportBooks \/ CloseUnpriced
Entering == Approve \/ Discard \/ SendEntry \/ EntryMissed \/ EntryFilled \/ BracketPlaced
MtmLoop == MtmTick \/ MtmReturns

Next ==
  \/ Closing \/ Entering
  \/ \E c \in Callers : ScheduledCloseAll(c) \/ FinishCloseAll(c)
  \/ KillswitchUI \/ HeartbeatCritical \/ HeartbeatFine
  \/ MtmLoop \/ CooldownExpires
  \/ MidnightReset \/ WriteHealth \/ Restart

(* The 1 Hz loop ticks, time passes, and a report that began is finished.  *)
Fairness ==
  WF_vars(MtmLoop) /\ WF_vars(CooldownExpires) /\ WF_vars(ReportBooks)

Spec == Init /\ [][Next]_vars /\ Fairness

-----------------------------------------------------------------------------
(* Properties                                                              *)

(* The budget and the portfolio, written by the booking, the midnight      *)
(* reset and the reconciliation, agree on what the day has realised.       *)
LedgerAgrees == budget.realised = pf.daily

(* A day whose realised loss is beyond the limit is a killed day: however  *)
(* the loss came about, and also after a restart (KS-1 "re-fired at        *)
(* startup"), the killswitch is fired.                                     *)
BlownDayIsKilled == BreachesKS1(budget.realised, ks.dov) => Fired

(* The executor, which keeps a copy of the tier, never sizes by a looser   *)
(* one than the risk engine holds.                                         *)
ExecutorNeverLooser == Scalar[execTier] <= Scalar[risk.tier]

(* During a cooldown no new trade is approved, from the tick on that began *)
(* it, or that is the first after a restart.                               *)
CooldownHonoured == mtm = "tick" /\ risk.cooldown = "running" => execTier \in GateClosed

(* Rule 12: once the killswitch is fired, or trading was stopped, no order *)
(* opens a position, whatever was approved and queued before.              *)
NothingOpensOnceStopped ==
  [][(Fired \/ ~accepting) /\ position = Flat => position' = Flat]_vars

(* KS-1 and KS-2 stop trading once: of the loop that marks and the callback *)
(* of the stream, only the one that fired the killswitch closes everything. *)
OneHardStop == closeAll["KS-1"] = "none" \/ closeAll["KS-2"] = "none"

(* A breach only the tier can act on (a drawdown, a daily loss, a losing   *)
(* streak) closes Gate 3 in the end, unless it is over before.             *)
Breached == Drawdown \/ DailyLoss \/ pf.losses >= MaxLosses
BreachClosesGate == Breached ~> (execTier \in GateClosed \/ Fired \/ ~Breached)

-----------------------------------------------------------------------------
(* What the documentation says and the code does not do                    *)

(* "3 consecutive losses -> PAUSED (5 min cooldown)": the pause ends.      *)
(* Refuted by TLC: the streak that began it begins it again.               *)
PausedByStreak == risk.breaker = "PAUSED" /\ LadderTier(budget) # "PASSIVE"
CooldownEnds == PausedByStreak ~> ~PausedByStreak \/ Fired

(* "never exceeds the remaining daily-loss budget" (cap_risk_fraction): a  *)
(* position that closes at its stop cannot take the day beyond its limit.  *)
(* Refuted by TLC: two requests are sized by the same allowance.           *)
RiskWithinAllowance ==
  Held => ~BreachesKS1(budget.realised - position.risk, budget.dov)
=============================================================================
