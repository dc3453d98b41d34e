--------------------------- MODULE RiskControlProofs ---------------------------
(***************************************************************************)
(* The safety properties of RiskControl, for any equity, any ladder of     *)
(* tiers that config.py accepts, any limits, and any number of approvals,  *)
(* days and restarts.                                                      *)
(*                                                                         *)
(* Why they hold: every booking goes through RecordTradeResult, which asks *)
(* the killswitch with the sum it has just written; only the tick loosens  *)
(* the executor's tier, and to that of the engine; and the two callers     *)
(* that stop trading by themselves ask before whether the other did.       *)
(***************************************************************************)
EXTENDS RiskControl, SequenceTheorems, TLAPS

(* The equity that the limit is 1 % of is positive: a day without a loss   *)
(* is never blown.                                                         *)
LimitInv == ks.dov > 0

(* Who stops trading by itself has fired the killswitch, and is never due: *)
(* it begins in the step that fires.                                       *)
StopInv ==
  /\ \A c \in {"KS-1", "KS-2"} :
       /\ closeAll[c] # "due"
       /\ closeAll[c] # "none" => Fired
  /\ OneHardStop

Money == LedgerAgrees /\ BlownDayIsKilled /\ LimitInv
Tier == ExecutorNeverLooser /\ CooldownHonoured

(* TypeOK, with names for the records.                                     *)
Portfolios == [equity : Int, peak : Int, starting : Int, daily : Int, losses : Nat]
Budgets == [dov : Int, realised : Int, unrealised : Int]
Killswitches == [trigger : Triggers, dov : Int, criticals : Nat]
Risks == [tier : Tiers, breaker : Breakers, cooldown : Cooldowns]
Positions == [pc : {"flat", "entering", "placing", "open"}, risk : Nat]
Calls == [Callers -> {"none", "due", "closing", "done"}]
Databases == [pnl : Int, losses : Nat, cooldown : Cooldowns]
Bounds == [approvals : Nat, days : Nat, restarts : Nat]

Books == pf \in Portfolios /\ budget \in Budgets /\ ks \in Killswitches /\ db \in Databases
Tasks ==
  /\ risk \in Risks /\ execTier \in Tiers
  /\ mtm \in {"start", "tick", "stopped"} /\ accepting \in BOOLEAN
  /\ closeAll \in Calls /\ used \in Bounds
Trade == queue \in Seq(Nat) /\ position \in Positions /\ unbooked \subseteq Int /\ wallet \in Int

IInv == Books /\ Tasks /\ Trade /\ Money /\ Tier /\ StopInv

LEMMA Typed == TypeOK <=> Books /\ Tasks /\ Trade
BY DEF TypeOK, Books, Tasks, Trade, Portfolios, Budgets, Killswitches, Risks, Positions, Calls,
       Databases, Bounds

-----------------------------------------------------------------------------
(* Values                                                                  *)

LEMMA ScalarType ==
  /\ \A t \in Tiers : Scalar[t] \in {0, 25, 50, 100}
  /\ Scalar["FULL"] = 100 /\ "FULL" \in Tiers
BY DEF Tiers, Scalar

LEMMA CappedRiskType ==
  ASSUME budget \in Budgets, execTier \in Tiers
  PROVE  CappedRisk \in Nat
<1> DEFINE hint == (FullRisk * Scalar[execTier]) \div 100
           rest == Larger(Remaining(budget), 0)
<1>1. Scalar[execTier] \in {0, 25, 50, 100}  BY ScalarType
<1>2. FullRisk * Scalar[execTier] \in Nat
  <2>1. FullRisk * 0 \in Nat /\ FullRisk * 25 \in Nat /\ FullRisk * 50 \in Nat /\ FullRisk * 100 \in Nat
    BY MoneyAssumption
  <2> QED  BY <1>1, <2>1
<1>3. hint \in Nat
  <2> DEFINE m == FullRisk * Scalar[execTier]
  <2>1. m \in Nat  BY <1>2
  <2> HIDE DEF m
  <2>2. m \div 100 \in Nat  BY <2>1
  <2> QED  BY <2>2 DEF m
<1>4. rest \in Nat  BY DEF Larger, Remaining, Total, Budgets
<1> HIDE DEF hint, rest
<1>5. Smaller(hint, rest) \in Nat  BY <1>3, <1>4 DEF Smaller
<1> QED  BY <1>5 DEF CappedRisk, hint, rest

LEMMA OutcomeType ==
  ASSUME NEW r \in Nat
  PROVE  Outcomes(r) \subseteq Int
BY MoneyAssumption DEF Outcomes

LEMMA CircuitBreakersType ==
  ASSUME risk \in Risks, NEW b
  PROVE  /\ CircuitBreakers(b) \in Risks
         /\ CircuitBreakers(b).cooldown = "running" => CircuitBreakers(b).tier \in GateClosed
<1>1. LadderTier(b) \in Tiers  BY DEF LadderTier, Tiers
<1>2. CASE Fired \/ Drawdown \/ LossReaches(Total(b), HaltedBp, b.dov) \/ DailyLoss
  <2>1. CircuitBreakers(b) = [risk EXCEPT !.tier = "HALTED", !.breaker = "HALTED"]
    BY <1>2 DEF CircuitBreakers
  <2> QED  BY <2>1 DEF Risks, Tiers, Breakers, GateClosed
<1>3. CASE /\ ~(Fired \/ Drawdown \/ LossReaches(Total(b), HaltedBp, b.dov) \/ DailyLoss)
           /\ risk.cooldown = "running" \/ pf.losses >= MaxLosses
  <2>1. CircuitBreakers(b) = Paused  BY <1>3 DEF CircuitBreakers
  <2> QED  BY <2>1 DEF Paused, Risks, Tiers, Breakers, Cooldowns, GateClosed
<1>4. CASE /\ ~(Fired \/ Drawdown \/ LossReaches(Total(b), HaltedBp, b.dov) \/ DailyLoss)
           /\ ~(risk.cooldown = "running" \/ pf.losses >= MaxLosses)
  <2> DEFINE t == LadderTier(b)
             k == IF t = "PASSIVE" THEN "PAUSED" ELSE "ACTIVE"
  <2>1. CircuitBreakers(b) = [risk EXCEPT !.tier = t, !.breaker = k]
    BY <1>4 DEF CircuitBreakers
  <2>2. k \in Breakers /\ t \in Tiers  BY <1>1 DEF Breakers
  <2> HIDE DEF t, k
  <2> QED  BY <1>4, <2>1, <2>2 DEF Risks
<1> QED  BY <1>2, <1>3, <1>4

-----------------------------------------------------------------------------
(* Booking                                                                 *)

(* A booking writes both ledgers alike, and fires the killswitch if the    *)
(* day is blown by it.                                                     *)
LEMMA BookingKeeps ==
  ASSUME Books, Money, NEW pnl \in Int, RecordTradeResult(pnl)
  PROVE  Books' /\ Money' /\ (Fired => Fired')
<1>1. pf' \in Portfolios /\ pf'.daily = pf.daily + pnl
  <2> DEFINE e == pf.equity + pnl
             d == pf.daily + pnl
             k == Larger(pf.peak, e)
             n == StreakAfter(pf.losses, pnl)
  <2>1. pf' = [pf EXCEPT !.equity = e, !.daily = d, !.peak = k, !.losses = n]
    BY DEF RecordTradeResult
  <2>2. pf \in Portfolios  BY DEF Books
  <2>3. pf.losses \in Nat /\ pf.peak \in Int /\ pf.equity \in Int /\ pf.daily \in Int
    BY <2>2 DEF Portfolios
  <2>4. e \in Int /\ d \in Int  BY <2>3
  <2>5. n \in Nat  BY <2>3 DEF StreakAfter
  <2>6. k \in Int
    <3> HIDE DEF e
    <3> QED  BY <2>3, <2>4 DEF Larger
  <2>7. d = pf.daily + pnl  OBVIOUS
  <2> HIDE DEF e, d, k, n
  <2>8. pf' \in Portfolios /\ pf'.daily = d  BY <2>1, <2>2, <2>4, <2>5, <2>6 DEF Portfolios
  <2> QED  BY <2>7, <2>8
<1>2. budget' \in Budgets /\ budget'.realised = budget.realised + pnl
  <2> DEFINE r == budget.realised + pnl
             zero == 0
  <2>1. budget' = [budget EXCEPT !.realised = r, !.unrealised = zero]
    BY DEF RecordTradeResult
  <2>2. budget \in Budgets  BY DEF Books
  <2>3. budget.realised \in Int  BY <2>2 DEF Budgets
  <2>4. r \in Int /\ zero \in Int  BY <2>3
  <2>5. r = budget.realised + pnl  OBVIOUS
  <2> HIDE DEF r, zero
  <2>6. budget' \in Budgets /\ budget'.realised = r  BY <2>1, <2>2, <2>4 DEF Budgets
  <2> QED  BY <2>5, <2>6
<1>3. /\ ks' \in Killswitches /\ ks'.dov = ks.dov
      /\ Fired => Fired'
      /\ BreachesKS1(budget.realised + pnl, ks.dov) => Fired'
  BY DEF RecordTradeResult, Books, FireKS1, Killswitches, Triggers, Fired
<1>4. db' \in Databases
  <2>1. db' = db \/ db' = [db EXCEPT !.pnl = db.pnl + pnl]  BY DEF RecordTradeResult
  <2> QED  BY <2>1 DEF Books, Databases
<1>5. Money'
  BY <1>1, <1>2, <1>3 DEF Money, LedgerAgrees, BlownDayIsKilled, LimitInv
<1> QED  BY <1>1, <1>2, <1>3, <1>4, <1>5 DEF Books

-----------------------------------------------------------------------------
(* Frames                                                                  *)

LEMMA BooksKept ==
  ASSUME Books, Money, UNCHANGED <<pf, budget, ks, db>>
  PROVE  Books' /\ Money' /\ Fired' = Fired
BY DEF Books, Money, LedgerAgrees, BlownDayIsKilled, LimitInv, Fired

LEMMA TierKept ==
  ASSUME Tier, UNCHANGED <<risk, execTier, mtm>>
  PROVE  Tier'
BY DEF Tier, ExecutorNeverLooser, CooldownHonoured

(* The killswitch stays fired until a restart.                             *)
LEMMA StopKept ==
  ASSUME StopInv, Fired => Fired',
         \A c \in {"KS-1", "KS-2"} : closeAll'[c] = closeAll[c]
  PROVE  StopInv'
BY DEF StopInv, OneHardStop

-----------------------------------------------------------------------------
(* Closing                                                                 *)

LEMMA Results ==
  ASSUME Trade, NEW pnl \in Outcomes(position.risk)
  PROVE  pnl \in Int /\ wallet + pnl \in Int
BY OutcomeType DEF Trade, Positions

LEMMA FlatType == Flat \in Positions
BY DEF Flat, Positions

LEMMA ClosingKeeps ==
  ASSUME IInv, Closing
  PROVE  IInv'
<1>1. /\ UNCHANGED <<risk, execTier, mtm, accepting, queue, closeAll, used>>
      /\ position' \in {position, Flat}
  BY DEF Closing, CloseAndBook, ReportResets, ReportBooks, CloseUnpriced
<1>2. unbooked' \subseteq Int /\ wallet' \in Int
  BY Results DEF Closing, CloseAndBook, ReportResets, ReportBooks, CloseUnpriced, IInv, Trade
<1>3. Trade'  BY <1>1, <1>2, FlatType DEF IInv, Trade
<1>4. Books' /\ Money' /\ (Fired => Fired')
  <2>1. CASE CloseAndBook \/ ReportBooks
    <3>1. PICK pnl \in Int : RecordTradeResult(pnl)
      BY <2>1, Results DEF CloseAndBook, ReportBooks, IInv, Trade
    <3> QED  BY <3>1, BookingKeeps DEF IInv
  <2>2. CASE ReportResets \/ CloseUnpriced
    BY <2>2, BooksKept DEF ReportResets, CloseUnpriced, IInv
  <2> QED  BY <2>1, <2>2 DEF Closing
<1>5. Tier' /\ StopInv'  BY <1>1, <1>4, TierKept, StopKept DEF IInv
<1>6. Tasks'  BY <1>1 DEF IInv, Tasks
<1> QED  BY <1>3, <1>4, <1>5, <1>6 DEF IInv

-----------------------------------------------------------------------------
(* Entering                                                                *)

LEMMA QueueType ==
  ASSUME IInv, Entering
  PROVE  queue' \in Seq(Nat) /\ (SendEntry => Head(queue) \in Nat)
<1> USE DEF IInv, Trade
<1>1. CASE Approve
  <2>1. CappedRisk \in Nat  BY CappedRiskType DEF Books, Tasks
  <2>2. queue' = Append(queue, CappedRisk) /\ ~SendEntry
    BY <1>1 DEF Approve, SendEntry
  <2> QED  BY <2>1, <2>2, AppendProperties
<1>2. CASE Discard \/ SendEntry
  BY <1>2, HeadTailProperties DEF Discard, SendEntry
<1>3. CASE ~(Approve \/ Discard \/ SendEntry)
  BY <1>3, EmptySeq DEF Entering, EntryMissed, EntryFilled, BracketPlaced
<1> QED  BY <1>1, <1>2, <1>3

LEMMA EnteringKeeps ==
  ASSUME IInv, Entering
  PROVE  IInv'
<1>1. UNCHANGED <<pf, budget, risk, execTier, mtm, accepting, unbooked, db, wallet>>
  BY DEF Entering, Approve, Discard, SendEntry, EntryMissed, EntryFilled, BracketPlaced
<1>2. position' \in Positions
  <2>1. position \in Positions  BY DEF IInv, Trade
  <2>2. CASE SendEntry  BY <2>2, QueueType DEF SendEntry, Positions
  <2>3. CASE EntryMissed  BY <2>3, FlatType DEF EntryMissed
  <2>4. CASE EntryFilled \/ BracketPlaced
    BY <2>1, <2>4 DEF EntryFilled, BracketPlaced, Positions
  <2>5. CASE Approve \/ Discard  BY <2>1, <2>5 DEF Approve, Discard
  <2> QED  BY <2>2, <2>3, <2>4, <2>5 DEF Entering
<1>3. used' \in Bounds
  <2>1. used \in Bounds  BY DEF IInv, Tasks
  <2>2. CASE Approve  BY <2>1, <2>2 DEF Approve, Bounds
  <2>3. CASE ~Approve
    BY <2>1, <2>3 DEF Entering, Discard, SendEntry, EntryMissed, EntryFilled, BracketPlaced
  <2> QED  BY <2>2, <2>3
<1>4. /\ ks' \in Killswitches /\ ks'.dov = ks.dov /\ (Fired => Fired')
      /\ closeAll' \in Calls
      /\ \A c \in {"KS-1", "KS-2"} : closeAll'[c] = closeAll[c]
  <2>1. ks \in Killswitches /\ closeAll \in Calls  BY DEF IInv, Books, Tasks
  <2>2. CASE EntryFilled
    <3>1. ks' = ks \/ (~Fired /\ ks' = [ks EXCEPT !.trigger = "KS-3"])
      BY <2>2 DEF EntryFilled, RecordSlippage
    <3>2. closeAll' = closeAll \/ closeAll' = [closeAll EXCEPT !["KS-3"] = "due"]
      BY <2>2 DEF EntryFilled
    <3>3. ks' \in Killswitches /\ ks'.dov = ks.dov /\ (Fired => Fired')
      BY <2>1, <3>1 DEF Killswitches, Triggers, Fired
    <3> QED  BY <2>1, <3>2, <3>3 DEF Calls, Callers
  <2>3. CASE ~EntryFilled
    BY <2>1, <2>3 DEF Entering, Approve, Discard, SendEntry, EntryMissed, BracketPlaced, Fired
  <2> QED  BY <2>2, <2>3
<1>5. Books' /\ Tasks' /\ Trade'
  BY <1>1, <1>2, <1>3, <1>4, QueueType DEF IInv, Books, Tasks, Trade
<1>6. Money'
  BY <1>1, <1>4 DEF IInv, Money, LedgerAgrees, BlownDayIsKilled, LimitInv
<1> QED  BY <1>1, <1>4, <1>5, <1>6, TierKept, StopKept DEF IInv

-----------------------------------------------------------------------------
(* The hard stop                                                           *)

LEMMA BeginType ==
  ASSUME closeAll \in Calls, NEW c \in Callers, BeginCloseAll(c)
  PROVE  /\ closeAll' \in Calls /\ accepting' \in BOOLEAN
         /\ closeAll'[c] \in {"closing", "done"}
         /\ \A d \in Callers \ {c} : closeAll'[d] = closeAll[d]
BY DEF BeginCloseAll, Calls

LEMMA CallersKeep ==
  ASSUME IInv, NEW c \in Callers, ScheduledCloseAll(c) \/ FinishCloseAll(c)
  PROVE  IInv'
<1>1. CASE ScheduledCloseAll(c)
  <2>1. /\ closeAll[c] = "due" /\ BeginCloseAll(c)
        /\ UNCHANGED <<pf, budget, ks, risk, execTier, mtm, queue, position, unbooked, db,
                       wallet, used>>
    BY <1>1 DEF ScheduledCloseAll
  <2>2. c \notin {"KS-1", "KS-2"}  BY <2>1 DEF IInv, StopInv
  <2>3. \A d \in {"KS-1", "KS-2"} : closeAll'[d] = closeAll[d]
    BY <2>1, <2>2, BeginType DEF IInv, Tasks, Callers
  <2>4. Tasks' /\ Trade'  BY <2>1, BeginType DEF IInv, Tasks, Trade
  <2> QED  BY <2>1, <2>3, <2>4, BooksKept, TierKept, StopKept DEF IInv
<1>2. CASE FinishCloseAll(c)
  <2>1. /\ closeAll[c] = "closing" /\ closeAll' = [closeAll EXCEPT ![c] = "done"]
        /\ UNCHANGED <<risk, execTier, mtm, accepting, queue, unbooked, used>>
        /\ position' \in {position, Flat}
    BY <1>2 DEF FinishCloseAll
  <2>2. Books' /\ Money' /\ (Fired => Fired') /\ wallet' \in Int
    <3>1. CASE UNCHANGED <<pf, budget, ks, db, wallet>>
      BY <3>1, BooksKept DEF IInv, Trade
    <3>2. ASSUME NEW pnl \in Outcomes(position.risk), RecordTradeResult(pnl), wallet' = wallet + pnl
          PROVE  Books' /\ Money' /\ (Fired => Fired') /\ wallet' \in Int
      BY <3>2, Results, BookingKeeps DEF IInv
    <3> QED  BY <1>2, <3>1, <3>2 DEF FinishCloseAll
  <2>3. closeAll \in Calls /\ closeAll' \in Calls
    BY <2>1 DEF IInv, Tasks, Calls
  <2>4. StopInv'
    <3>1. \A d \in {"KS-1", "KS-2"} :
            closeAll'[d] = closeAll[d] \/ (closeAll'[d] = "done" /\ closeAll[d] = "closing")
      <4> TAKE d \in {"KS-1", "KS-2"}
      <4>1. d \in Callers  BY DEF Callers
      <4>2. CASE d = c
        <5>1. closeAll[c] = "closing" /\ closeAll' = [closeAll EXCEPT ![c] = "done"]  BY <2>1
        <5>2. c \in DOMAIN closeAll  BY <2>3 DEF Calls
        <5> QED  BY <4>2, <5>1, <5>2
      <4>3. CASE d # c  BY <2>1, <4>3
      <4> QED  BY <4>2, <4>3
    <3> QED  BY <2>2, <3>1 DEF IInv, StopInv, OneHardStop
  <2>5. Tasks' /\ Trade'  BY <2>1, <2>2, <2>3, FlatType DEF IInv, Tasks, Trade
  <2> QED  BY <2>1, <2>2, <2>4, <2>5, TierKept DEF IInv
<1> QED  BY <1>1, <1>2

(* Who fires the killswitch begins alone: nobody has fired it before.      *)
LEMMA FiresAlone ==
  ASSUME IInv, ~Fired, NEW c \in {"KS-1", "KS-2"}, BeginCloseAll(c), Fired'
  PROVE  StopInv'
<1>1. c \in Callers /\ \A d \in {"KS-1", "KS-2"} : d \in Callers /\ closeAll[d] = "none"
  BY DEF IInv, StopInv, Callers
<1>2. /\ closeAll'[c] \in {"closing", "done"}
      /\ \A d \in {"KS-1", "KS-2"} \ {c} : closeAll'[d] = "none"
  BY <1>1, BeginType DEF IInv, Tasks
<1> QED  BY <1>2 DEF StopInv, OneHardStop

LEMMA ButtonKeeps ==
  ASSUME IInv, KillswitchUI
  PROVE  IInv'
<1>1. /\ closeAll' = [closeAll EXCEPT !["UI"] = "due"]
      /\ UNCHANGED <<pf, budget, ks, risk, execTier, mtm, accepting, queue, position, unbooked,
                     db, wallet, used>>
  BY DEF KillswitchUI
<1>2. closeAll' \in Calls /\ \A c \in {"KS-1", "KS-2"} : closeAll'[c] = closeAll[c]
  BY <1>1 DEF IInv, Tasks, Calls, Callers
<1>3. Tasks' /\ Trade'  BY <1>1, <1>2 DEF IInv, Tasks, Trade
<1> QED  BY <1>1, <1>2, <1>3, BooksKept, TierKept, StopKept DEF IInv

LEMMA HeartbeatKeeps ==
  ASSUME IInv, HeartbeatCritical \/ HeartbeatFine
  PROVE  IInv'
<1>1. UNCHANGED <<pf, budget, risk, execTier, mtm, queue, position, unbooked, db, wallet, used>>
      /\ ~Fired
  BY DEF HeartbeatCritical, HeartbeatFine, AfterCritical
<1>2. ks \in Killswitches /\ closeAll \in Calls  BY DEF IInv, Books, Tasks
<1>3. ks' \in Killswitches /\ ks'.dov = ks.dov
  <2> DEFINE n == ks.criticals + 1
             zero == 0
  <2>1. \/ ks' = [ks EXCEPT !.trigger = "KS-2", !.criticals = n]
        \/ ks' = [ks EXCEPT !.criticals = n]
        \/ ks' = [ks EXCEPT !.criticals = zero]
    BY DEF HeartbeatCritical, HeartbeatFine, AfterCritical
  <2>2. ks.criticals \in Nat  BY <1>2 DEF Killswitches
  <2>3. n \in Nat /\ zero \in Nat  BY <2>2
  <2>4. "KS-2" \in Triggers  BY DEF Triggers
  <2> HIDE DEF n, zero
  <2> QED  BY <1>2, <2>1, <2>3, <2>4 DEF Killswitches
<1>4. closeAll' \in Calls /\ accepting' \in BOOLEAN /\ StopInv'
  <2>1. CASE AfterCritical
    <3>1. BeginCloseAll("KS-2") /\ Fired' /\ "KS-2" \in Callers
      BY <1>2, <2>1 DEF AfterCritical, Fired, Killswitches, Callers
    <3> QED  BY <1>1, <1>2, <3>1, BeginType, FiresAlone
  <2>2. CASE ~AfterCritical
    <3>1. UNCHANGED <<accepting, closeAll>>  BY <2>2 DEF HeartbeatCritical, HeartbeatFine
    <3> QED  BY <1>1, <1>2, <3>1, StopKept DEF IInv, Tasks
  <2> QED  BY <2>1, <2>2
<1>5. Money'
  BY <1>1, <1>3 DEF IInv, Money, LedgerAgrees, BlownDayIsKilled, LimitInv
<1>6. Books' /\ Tasks' /\ Trade'
  BY <1>1, <1>3, <1>4 DEF IInv, Books, Tasks, Trade
<1> QED  BY <1>1, <1>4, <1>5, <1>6, TierKept DEF IInv

-----------------------------------------------------------------------------
(* The mark-to-market loop                                                 *)

(* The tick books nothing; it fires, or hands the engine's tier over.      *)
LEMMA TickKeeps ==
  ASSUME IInv, MtmTick
  PROVE  IInv'
<1>1. /\ ~Fired
      /\ UNCHANGED <<pf, queue, position, unbooked, db, wallet, used>>
  BY DEF MtmTick
<1>2. PICK mark \in Marks :
        LET b == [budget EXCEPT !.unrealised = mark] IN
        /\ budget' = b
        /\ IF BreachesKS1(Total(b), ks.dov)
           THEN /\ ks' = FireKS1(ks, Total(b))
                /\ BeginCloseAll("KS-1")
                /\ mtm' = "stopped"
                /\ UNCHANGED <<risk, execTier>>
           ELSE /\ risk' = CircuitBreakers(b)
                /\ PublishTier(risk'.tier)
                /\ mtm' = "tick"
                /\ UNCHANGED <<ks, accepting, closeAll>>
  BY DEF MtmTick
<1> DEFINE b == [budget EXCEPT !.unrealised = mark]
<1>3. mark \in Int
  BY OutcomeType DEF Marks, IInv, Trade, Positions
<1>4. budget' = b /\ b \in Budgets /\ b.realised = budget.realised
  BY <1>2, <1>3 DEF IInv, Books, Budgets
<1> HIDE DEF b
<1>5. CASE BreachesKS1(Total(b), ks.dov)
  <2>1. /\ ks' = FireKS1(ks, Total(b)) /\ BeginCloseAll("KS-1") /\ mtm' = "stopped"
        /\ UNCHANGED <<risk, execTier>>
    BY <1>2, <1>5 DEF b
  <2>2. ks' \in Killswitches /\ ks'.dov = ks.dov /\ Fired'
    BY <1>1, <1>5, <2>1 DEF IInv, Books, FireKS1, Fired, Killswitches, Triggers
  <2>3. closeAll' \in Calls /\ accepting' \in BOOLEAN
    BY <2>1, BeginType DEF IInv, Tasks, Callers
  <2>4. StopInv'  BY <1>1, <2>1, <2>2, FiresAlone
  <2>5. Money'
    BY <1>1, <1>4, <2>2 DEF IInv, Money, LedgerAgrees, BlownDayIsKilled, LimitInv
  <2>6. Tier'  BY <2>1 DEF IInv, Tier, ExecutorNeverLooser, CooldownHonoured
  <2>7. Books' /\ Tasks' /\ Trade'
    BY <1>1, <1>4, <2>1, <2>2, <2>3 DEF IInv, Books, Tasks, Trade
  <2> QED  BY <2>4, <2>5, <2>6, <2>7 DEF IInv
<1>6. CASE ~BreachesKS1(Total(b), ks.dov)
  <2>1. /\ risk' = CircuitBreakers(b) /\ execTier' = risk'.tier /\ mtm' = "tick"
        /\ UNCHANGED <<ks, accepting, closeAll>>
    BY <1>2, <1>6 DEF b, PublishTier
  <2>2. risk' \in Risks /\ (risk'.cooldown = "running" => execTier' \in GateClosed)
    BY <2>1, CircuitBreakersType DEF IInv, Tasks
  <2>3. risk'.tier \in Tiers  BY <2>2 DEF Risks
  <2>4. Tier'
    BY <2>1, <2>2, <2>3, ScalarType DEF Tier, ExecutorNeverLooser, CooldownHonoured
  <2>5. Money' /\ Fired' = Fired
    BY <1>1, <1>4, <2>1 DEF IInv, Money, LedgerAgrees, BlownDayIsKilled, LimitInv, Fired
  <2>6. StopInv'  BY <2>1, <2>5, StopKept DEF IInv
  <2>7. Books' /\ Tasks' /\ Trade'
    BY <1>1, <1>4, <2>1, <2>2, <2>3 DEF IInv, Books, Tasks, Trade
  <2> QED  BY <2>4, <2>5, <2>6, <2>7 DEF IInv
<1> QED  BY <1>5, <1>6

LEMMA TimeKeeps ==
  ASSUME IInv, MtmReturns \/ CooldownExpires
  PROVE  IInv'
<1>1. CASE MtmReturns
  <2>1. /\ mtm' = "stopped"
        /\ UNCHANGED <<pf, budget, ks, risk, execTier, accepting, queue, position, unbooked,
                       closeAll, db, wallet, used>>
    BY <1>1 DEF MtmReturns
  <2>2. Tier'  BY <2>1 DEF IInv, Tier, ExecutorNeverLooser, CooldownHonoured
  <2>3. Tasks' /\ Trade'  BY <2>1 DEF IInv, Tasks, Trade
  <2> QED  BY <2>1, <2>2, <2>3, BooksKept, StopKept DEF IInv
<1>2. CASE CooldownExpires
  <2>1. /\ risk' = [risk EXCEPT !.cooldown = "over"]
        /\ db' = [db EXCEPT !.cooldown = IF db.cooldown = "running" THEN "over" ELSE db.cooldown]
        /\ UNCHANGED <<pf, budget, ks, execTier, mtm, accepting, queue, position, unbooked,
                       closeAll, wallet, used>>
    BY <1>2 DEF CooldownExpires
  <2>2. risk' \in Risks /\ risk'.tier = risk.tier /\ risk'.cooldown = "over"
    BY <2>1 DEF IInv, Tasks, Risks, Cooldowns
  <2>3. db' \in Databases
    <3>1. db \in Databases  BY DEF IInv, Books
    <3> QED  BY <2>1, <3>1 DEF Databases, Cooldowns
  <2>4. Tier'  BY <2>1, <2>2 DEF IInv, Tier, ExecutorNeverLooser, CooldownHonoured
  <2>5. Money' /\ Fired' = Fired
    BY <2>1 DEF IInv, Money, LedgerAgrees, BlownDayIsKilled, LimitInv, Fired
  <2>6. Books' /\ Tasks' /\ Trade'  BY <2>1, <2>2, <2>3 DEF IInv, Books, Tasks, Trade
  <2> QED  BY <2>1, <2>4, <2>5, <2>6, StopKept DEF IInv
<1> QED  BY <1>1, <1>2

-----------------------------------------------------------------------------
(* Days and restarts                                                       *)

LEMMA MidnightKeeps ==
  ASSUME IInv, MidnightReset
  PROVE  IInv'
<1>1. /\ pf' = NewSession
      /\ budget' = [dov |-> pf.equity, realised |-> 0, unrealised |-> 0]
      /\ risk' = ResetRisk /\ db' = [db EXCEPT !.pnl = 0]
      /\ used' = [used EXCEPT !.days = @ + 1]
      /\ UNCHANGED <<ks, execTier, mtm, accepting, queue, position, unbooked, closeAll, wallet>>
  BY DEF MidnightReset
<1>2. pf' \in Portfolios /\ pf'.daily = 0
  <2> DEFINE zero == 0
  <2>1. pf' = [pf EXCEPT !.daily = zero, !.losses = zero] /\ pf \in Portfolios
    BY <1>1 DEF NewSession, IInv, Books
  <2>2. zero \in Nat /\ zero \in Int /\ zero = 0  OBVIOUS
  <2> HIDE DEF zero
  <2>3. pf' \in Portfolios /\ pf'.daily = zero  BY <2>1, <2>2 DEF Portfolios
  <2> QED  BY <2>2, <2>3
<1>3. budget' \in Budgets /\ budget'.realised = 0
  BY <1>1 DEF IInv, Books, Portfolios, Budgets
<1>4. risk' \in Risks /\ risk'.tier = "FULL" /\ risk'.cooldown = "none"
  BY <1>1 DEF ResetRisk, Risks, Tiers, Breakers, Cooldowns
<1>5. db' \in Databases  BY <1>1 DEF IInv, Books, Databases
<1>6. used' \in Bounds  BY <1>1 DEF IInv, Tasks, Bounds
<1>7. ks.dov \in Int  BY DEF IInv, Books, Killswitches
<1>8. Money'
  BY <1>1, <1>2, <1>3, <1>7
  DEF IInv, Money, LedgerAgrees, BlownDayIsKilled, LimitInv, BreachesKS1
<1>9. Tier'
  BY <1>1, <1>4, ScalarType DEF IInv, Tasks, Tier, ExecutorNeverLooser, CooldownHonoured
<1>10. Books' /\ Tasks' /\ Trade'
  BY <1>1, <1>2, <1>3, <1>4, <1>5, <1>6 DEF IInv, Books, Tasks, Trade
<1>11. StopInv'  BY <1>1, StopKept DEF IInv, Fired
<1> QED  BY <1>8, <1>9, <1>10, <1>11 DEF IInv

LEMMA HealthKeeps ==
  ASSUME IInv, WriteHealth
  PROVE  IInv'
<1>1. /\ db' = [db EXCEPT !.losses = pf.losses, !.cooldown = risk.cooldown]
      /\ UNCHANGED <<pf, budget, ks, risk, execTier, mtm, accepting, queue, position, unbooked,
                     closeAll, wallet, used>>
  BY DEF WriteHealth
<1>2. db' \in Databases
  <2>1. db \in Databases /\ pf.losses \in Nat /\ risk.cooldown \in Cooldowns
    BY DEF IInv, Books, Tasks, Portfolios, Risks
  <2> QED  BY <1>1, <2>1 DEF Databases
<1>3. Money' /\ Fired' = Fired
  BY <1>1 DEF IInv, Money, LedgerAgrees, BlownDayIsKilled, LimitInv, Fired
<1>4. Books' /\ Tasks' /\ Trade'  BY <1>1, <1>2 DEF IInv, Books, Tasks, Trade
<1> QED  BY <1>1, <1>3, <1>4, TierKept, StopKept DEF IInv

(* The reconciliation checks the budget it has restored, against the       *)
(* equity it has read.                                                     *)
LEMMA RestartKeeps ==
  ASSUME IInv, Restart
  PROVE  IInv'
<1>1. PICK known \in BOOLEAN, pnl \in {db.pnl, 0} :
        \E realised \in {pnl, 0}, health \in {<<db.losses, db.cooldown>>, <<0, "none">>} :
          LET equity == IF known THEN wallet ELSE StartingEquity
              starting == IF known THEN wallet - realised ELSE StartingEquity
          IN
          /\ equity > 0
          /\ pf' = [equity |-> equity, starting |-> starting, daily |-> realised,
                    peak |-> Larger(equity, starting), losses |-> health[1]]
          /\ budget' = [dov |-> equity, realised |-> realised, unrealised |-> 0]
          /\ ks' = [trigger |-> RestartTrigger(realised, equity), dov |-> equity, criticals |-> 0]
          /\ risk' = [tier |-> "FULL", breaker |-> "ACTIVE", cooldown |-> health[2]]
          /\ db' = [db EXCEPT !.pnl = pnl]
  BY DEF Restart
<1>2. PICK realised \in {pnl, 0}, health \in {<<db.losses, db.cooldown>>, <<0, "none">>},
           equity \in {wallet, StartingEquity} :
        /\ equity > 0
        /\ \E starting \in {wallet - realised, StartingEquity} :
             pf' = [equity |-> equity, starting |-> starting, daily |-> realised,
                    peak |-> Larger(equity, starting), losses |-> health[1]]
        /\ budget' = [dov |-> equity, realised |-> realised, unrealised |-> 0]
        /\ ks' = [trigger |-> RestartTrigger(realised, equity), dov |-> equity, criticals |-> 0]
        /\ risk' = [tier |-> "FULL", breaker |-> "ACTIVE", cooldown |-> health[2]]
        /\ db' = [db EXCEPT !.pnl = pnl]
  BY <1>1
<1>3. db \in Databases /\ wallet \in Int /\ used \in Bounds  BY DEF IInv, Books, Trade, Tasks
<1>4. /\ pnl \in Int /\ realised \in Int /\ equity \in Int
      /\ health[1] \in Nat /\ health[2] \in Cooldowns
      /\ {wallet - realised, StartingEquity} \subseteq Int
  BY <1>3, MoneyAssumption DEF Databases, Cooldowns
<1>5. pf' \in Portfolios /\ pf'.daily = realised  BY <1>2, <1>4 DEF Portfolios, Larger
<1>6. budget' \in Budgets /\ budget'.realised = realised  BY <1>2, <1>4 DEF Budgets
<1>7. ks' \in Killswitches /\ ks'.dov = equity
      /\ (BreachesKS1(realised, equity) => Fired')
  BY <1>2, <1>4 DEF Killswitches, Triggers, RestartTrigger, Fired
<1>8. db' \in Databases  BY <1>2, <1>3, <1>4 DEF Databases
<1>9. risk' \in Risks /\ risk'.tier = "FULL"
  BY <1>2, <1>4 DEF Risks, Tiers, Breakers
<1>10. /\ execTier' = "FULL" /\ mtm' = "start" /\ queue' = <<>> /\ position' = Flat
       /\ unbooked' = {} /\ wallet' = wallet /\ accepting' \in BOOLEAN
       /\ closeAll' = [c \in Callers |-> "none"] /\ used' = [used EXCEPT !.restarts = @ + 1]
  BY DEF Restart
<1>11. used' \in Bounds /\ closeAll' \in Calls  BY <1>3, <1>10 DEF Bounds, Calls
<1>12. Books' /\ Tasks' /\ Trade'
  BY <1>3, <1>5, <1>6, <1>7, <1>8, <1>9, <1>10, <1>11, FlatType, ScalarType, EmptySeq
  DEF Books, Tasks, Trade
<1>13. Money'
  BY <1>2, <1>5, <1>6, <1>7 DEF Money, LedgerAgrees, BlownDayIsKilled, LimitInv
<1>14. Tier'  BY <1>9, <1>10, ScalarType DEF Tier, ExecutorNeverLooser, CooldownHonoured
<1>15. StopInv'  BY <1>10 DEF StopInv, OneHardStop, Callers
<1> QED  BY <1>12, <1>13, <1>14, <1>15 DEF IInv

-----------------------------------------------------------------------------
(* The invariant                                                           *)

LEMMA InitInv == ASSUME Init PROVE IInv
<1>1. Books
  BY MoneyAssumption
  DEF Init, Books, Portfolios, Budgets, Killswitches, Triggers, Databases, Cooldowns
<1>2. Tasks /\ Trade
  BY MoneyAssumption, EmptySeq, FlatType
  DEF Init, Tasks, Trade, Risks, Tiers, Breakers, Cooldowns, Calls, Bounds
<1>3. Money
  BY MoneyAssumption DEF Init, Money, LedgerAgrees, BlownDayIsKilled, LimitInv, BreachesKS1
<1>4. Tier /\ StopInv
  BY ScalarType
  DEF Init, Tier, ExecutorNeverLooser, CooldownHonoured, StopInv, OneHardStop, Callers
<1> QED  BY <1>1, <1>2, <1>3, <1>4 DEF IInv

LEMMA NextKeeps ==
  ASSUME IInv, [Next]_vars
  PROVE  IInv'
<1>1. CASE UNCHANGED vars
  BY <1>1, BooksKept, TierKept, StopKept DEF vars, IInv, Tasks, Trade
<1>2. CASE Next
  BY <1>2, ClosingKeeps, EnteringKeeps, CallersKeep, ButtonKeeps, HeartbeatKeeps, TickKeeps,
     TimeKeeps, MidnightKeeps, HealthKeeps, RestartKeeps
  DEF Next, MtmLoop
<1> QED  BY <1>1, <1>2

LEMMA Invariant == Spec => []IInv
<1>1. Init => IInv  BY InitInv
<1>2. IInv /\ [Next]_vars => IInv'  BY NextKeeps
<1> QED  BY <1>1, <1>2, PTL DEF Spec

-----------------------------------------------------------------------------
(* The theorems                                                            *)

(* The records of risk/ and of main.py's loops keep their shape: money is  *)
(* whole, streaks and counts are natural, tiers are rungs of the ladder.   *)
THEOREM TypeCorrect == Spec => []TypeOK
<1>1. IInv => TypeOK  BY Typed DEF IInv
<1> QED  BY <1>1, Invariant, PTL

(* risk/budget.py and risk/engine.py keep the day's pnl each for itself;   *)
(* booking, midnight and reconciliation write both alike.                  *)
THEOREM LedgersAgree == Spec => []LedgerAgrees
<1>1. IInv => LedgerAgrees  BY DEF IInv, Money
<1> QED  BY <1>1, Invariant, PTL

(* risk/killswitch.py: a day whose realised loss is beyond the limit is a  *)
(* killed day, by whatever order of bookings, midnights and restarts.      *)
THEOREM BlownDaysAreKilled == Spec => []BlownDayIsKilled
<1>1. IInv => BlownDayIsKilled  BY DEF IInv, Money
<1> QED  BY <1>1, Invariant, PTL

(* The executor's copy of the tier lags behind the engine's only towards   *)
(* caution.                                                                *)
THEOREM NeverLooser == Spec => []ExecutorNeverLooser
<1>1. IInv => ExecutorNeverLooser  BY DEF IInv, Tier
<1> QED  BY <1>1, Invariant, PTL

(* While a cooldown runs, the gate is closed from the first tick on.       *)
THEOREM CooldownsHonoured == Spec => []CooldownHonoured
<1>1. IInv => CooldownHonoured  BY DEF IInv, Tier
<1> QED  BY <1>1, Invariant, PTL

(* Of the loop that marks and the heartbeat's callback, only the one that  *)
(* fired the killswitch closes everything.                                 *)
THEOREM StopsOnce == Spec => []OneHardStop
<1>1. IInv => OneHardStop  BY DEF IInv, StopInv
<1> QED  BY <1>1, Invariant, PTL

(* Rule 12: no order opens a position once the killswitch is fired or      *)
(* acceptance has ended, whatever was queued before.                       *)
THEOREM NothingOpens == Spec => NothingOpensOnceStopped
<1>1. ASSUME Next, Fired \/ ~accepting, position = Flat
      PROVE  position' = Flat
  <2>1. ~SendEntry  BY <1>1 DEF SendEntry, MayEnter
  <2>2. position.pc = "flat"  BY <1>1 DEF Flat
  <2>3. CASE Closing
    BY <1>1, <2>3 DEF Closing, CloseAndBook, ReportResets, ReportBooks, CloseUnpriced
  <2>4. CASE Entering
    BY <1>1, <2>1, <2>2, <2>4
    DEF Entering, Approve, Discard, EntryMissed, EntryFilled, BracketPlaced
  <2>5. CASE \E c \in Callers : ScheduledCloseAll(c) \/ FinishCloseAll(c)
    BY <1>1, <2>5 DEF ScheduledCloseAll, FinishCloseAll
  <2>6. CASE KillswitchUI \/ HeartbeatCritical \/ HeartbeatFine \/ MtmLoop \/ CooldownExpires
    BY <1>1, <2>6
    DEF KillswitchUI, HeartbeatCritical, HeartbeatFine, MtmLoop, MtmTick, MtmReturns,
        CooldownExpires
  <2>7. CASE MidnightReset \/ WriteHealth \/ Restart
    BY <1>1, <2>7 DEF MidnightReset, WriteHealth, Restart
  <2> QED  BY <1>1, <2>3, <2>4, <2>5, <2>6, <2>7 DEF Next
<1>2. [Next]_vars => [(Fired \/ ~accepting) /\ position = Flat => position' = Flat]_vars
  BY <1>1
<1> QED  BY <1>2, PTL DEF Spec, NothingOpensOnceStopped
=============================================================================
