------------------------------ MODULE SignalPath ------------------------------
(***************************************************************************)
(* From the order book to an order request: strategy/microstructure.py     *)
(* with core/cvd.py, and the gates of strategy/executor.py.                *)
(*                                                                         *)
(* The quantity of a wall is "consumed" below 15 % of its rolling peak,    *)
(* "reloaded" from 70 % on and "eroded" between; a wall just found is its  *)
(* own peak.  Time passes in steps, and a timestamp is kept as its age,    *)
(* which stops one past the limit it is compared with.                     *)
(***************************************************************************)
EXTENDS Integers, Sequences, FiniteSetsExt

CONSTANTS
  Prices,            \* where walls may stand
  Mids,              \* mid prices, none of them in Prices
  Floor,             \* price_move_floor_pct
  Thresholds,        \* what rolling_abs_move_threshold may return
  MinDistance, MaxDistance,   \* settings.PROTECTION_MIN_ and _MAX_DISTANCE_BPS
  Persist,           \* age of a persistent wall: 500 ms
  Fresh,             \* settings.LOB_FRESH_WALL_MS
  ArmTtl,            \* _ABSORPTION_ARM_TTL_MS
  Stale,             \* _IOC_STALE_MS
  Interval,          \* settings.MIN_SIGNAL_INTERVAL_MS
  MaxDelta,          \* bound: net trades between two snapshots
  MicroSize, OmSize  \* sizes of micro_signal_queue and om_queue

ASSUME SignalAssumption ==
  /\ Prices \union Mids \subseteq Nat \ {0} /\ Prices \intersect Mids = {}
  /\ {Floor, Persist, Fresh, ArmTtl, MaxDelta, MicroSize, OmSize} \subseteq Nat \ {0}
  /\ {MinDistance, MaxDistance, Stale, Interval} \subseteq Nat
  /\ \A t \in Thresholds : t \in Nat /\ t >= Floor

Sides == {"bid", "ask"}
Classes == {"consumed", "eroded", "reloaded"}
None == [side |-> "none", age |-> 0]      \* no wall is tracked
Unarmed == -1
Walls == {None} \union [side : Sides, age : 0..Fresh + 1]
Signals == [dir : {"LONG", "SHORT"}, wall : Prices, cover : Prices, coverAge : 0..Fresh,
            prior : BOOLEAN, age : 0..Stale + 1]

VARIABLES
  mid,     \* _prev_mid, 0 before the first snapshot
  walls,   \* _wall_states
  armed,   \* _absorption_armed with the age of _absorption_armed_ts
  delta,   \* raw CVD less _prev_snapshot_raw_cvd
  det,     \* where _process_snapshot waits, with the mid and signal at hand
  microQ,  \* micro_signal_queue
  exec,    \* the executor: waiting in put or not, and the age of _last_approved_ms
  omQ      \* om_queue

vars == <<mid, walls, armed, delta, det, microQ, exec, omQ>>
detector == <<mid, walls, armed, delta, det>>

Tracked == {p \in Prices : walls[p] # None}

TypeOK ==
  /\ mid \in Mids \union {0}
  /\ walls \in [Prices -> Walls]
  /\ armed \in [Prices -> Unarmed..ArmTtl + 1]
  /\ delta \in -MaxDelta..MaxDelta
  /\ det.pc \in {"idle", "putting", "announcing"}
  /\ det.pc # "idle" => det.mid \in Mids /\ det.sig \in Signals /\ det.covered \in BOOLEAN
  /\ microQ \in Seq(Signals) /\ Len(microQ) <= MicroSize
  /\ exec.last \in 0..Interval
  /\ exec.pc = "idle" \/ (exec.pc = "putting" /\ exec.req \in Signals)
  /\ omQ \in Seq(Signals) /\ Len(omQ) <= OmSize

Idle == [pc |-> "idle"]

Init ==
  /\ mid = 0
  /\ walls = [p \in Prices |-> None]
  /\ armed = [p \in Prices |-> Unarmed]
  /\ delta = 0
  /\ det = Idle
  /\ microQ = <<>> /\ omQ = <<>>
  /\ exec = [pc |-> "idle", last |-> Interval]

-----------------------------------------------------------------------------
(* Time and trades                                                         *)

Older(age, limit) == IF age <= limit THEN age + 1 ELSE age

Aged(s) == [s EXCEPT !.age = Older(@, Stale)]

(* A request at hand keeps the age at which Gate 5 let it pass.            *)
Tick ==
  /\ walls' = [p \in Prices |-> IF walls[p] = None THEN None
                                ELSE [walls[p] EXCEPT !.age = Older(@, Fresh)]]
  /\ armed' = [p \in Prices |-> IF armed[p] = Unarmed THEN Unarmed
                                ELSE Older(armed[p], ArmTtl)]
  /\ det' = IF det.pc = "idle" THEN det ELSE [det EXCEPT !.sig = Aged(@)]
  /\ microQ' = [i \in DOMAIN microQ |-> Aged(microQ[i])]
  /\ exec' = [exec EXCEPT !.last = IF @ < Interval THEN @ + 1 ELSE @]
  /\ UNCHANGED <<mid, delta, omQ>>

(* CVDCalculator.update: a buyer or a seller was the aggressor. *)
Trade ==
  /\ \E signed \in {-1, 1} : delta' = delta + signed
  /\ delta' \in -MaxDelta..MaxDelta
  /\ UNCHANGED <<mid, walls, armed, det, microQ, exec, omQ>>

-----------------------------------------------------------------------------
(* MicrostructureDetector._process_snapshot                                *)

Abs(n) == IF n < 0 THEN -n ELSE n
Distance(p, m) == Abs(p - m)
SideOf(p, m) == IF p < m THEN "bid" ELSE "ask"
Move(m) == IF mid = 0 THEN 0 ELSE m - mid

(* The walls of this snapshot that were not tracked yet join those that    *)
(* are.  A wall once tracked keeps its side and first_seen_ts; last_seen_ts *)
(* is now for each of them, also for one that is gone from the book, so    *)
(* that none is ever pruned as stale.                                      *)
Seen(found, m) ==
  [p \in Prices |-> IF p \in found THEN [side |-> SideOf(p, m), age |-> 0] ELSE walls[p]]

(* detect_absorption *)
Absorbs(w, class, m) ==
  /\ w.age >= Persist
  /\ IF w.side = "bid" THEN delta < 0 ELSE delta > 0
  /\ Abs(Move(m)) < Floor
  /\ class = "reloaded"

Armed(class, m) ==
  [p \in Prices |-> IF p \in Tracked /\ Absorbs(walls[p], class[p], m) THEN 0 ELSE armed[p]]

DirectionOf(side) == IF side = "ask" THEN "LONG" ELSE "SHORT"

Behind(q, p, side, m) ==
  IF side = "ask" THEN q < m /\ q < p ELSE q > m /\ q > p

(* valid_protection_walls; that the wall still stands is not asked.        *)
Protection(seen, p, m) ==
  {q \in Prices : /\ seen[q].side = (IF seen[p].side = "ask" THEN "bid" ELSE "ask")
                  /\ seen[q].age <= Fresh
                  /\ Distance(q, m) \in MinDistance..MaxDistance
                  /\ Behind(q, p, seen[p].side, m)}

Moved(side, m, threshold) ==
  IF side = "ask" THEN Move(m) >= threshold ELSE Move(m) <= -threshold

(* detect_sweep_with_protection: the tracked walls that were swept.        *)
Swept(seen, class, m, threshold) ==
  {p \in Tracked : /\ class[p] = "consumed"
                   /\ Moved(walls[p].side, m, threshold)
                   /\ Protection(seen, p, m) # {}}

Nearest(set, m) == CHOOSE q \in set : \A r \in set : Distance(q, m) <= Distance(r, m)

(* prior_absorption is read when the sweep fires, and then has its TTL.    *)
SignalOf(seen, flags, p, m) ==
  LET q == Nearest(Protection(seen, p, m), m) IN
  [dir |-> DirectionOf(seen[p].side), wall |-> p, cover |-> q, coverAge |-> seen[q].age,
   prior |-> flags[p] # Unarmed /\ flags[p] <= ArmTtl, age |-> 0]

MicroUnbounded == TRUE   \* mutant: the queue has no maxsize

MicroRoom == Len(microQ) < MicroSize

Stands(q, class) == q \in Tracked => class[q] # "consumed"

Snapshot ==
  /\ det.pc = "idle"
  /\ \E m \in Mids, found \in SUBSET (Prices \ Tracked), threshold \in Thresholds,
        class \in [Tracked -> Classes] :
       LET seen == Seen(found, m)
           flags == Armed(class, m)
           swept == Swept(seen, class, m, threshold)
       IN
       /\ walls' = seen
       /\ armed' = flags
       /\ \/ /\ swept = {}
             /\ mid' = m /\ delta' = 0
             /\ UNCHANGED <<det, microQ>>
          \/ \E p \in swept :     \* one signal for each snapshot
               LET sig == SignalOf(seen, flags, p, m)
                   room == MicroRoom
               IN
               /\ microQ' = IF room THEN Append(microQ, sig) ELSE microQ
               /\ det' = [pc |-> IF room THEN "announcing" ELSE "putting", mid |-> m,
                          sig |-> sig, covered |-> Stands(sig.cover, class)]
               /\ UNCHANGED <<mid, delta>>
  /\ UNCHANGED <<exec, omQ>>

(* signal_queue.put has found room. *)
PutSignal ==
  /\ det.pc = "putting" /\ MicroRoom
  /\ microQ' = Append(microQ, det.sig)
  /\ det' = [det EXCEPT !.pc = "announcing"]
  /\ UNCHANGED <<mid, walls, armed, delta, exec, omQ>>

KeepFlag(p) == UNCHANGED armed   \* mutant: _absorption_armed.pop is missing

DropFlag(p) == armed' = [armed EXCEPT ![p] = Unarmed]

(* hub.broadcast has returned: the wall is forgotten, and the CVD is read  *)
(* once more, so what was traded since is in no snapshot's delta.          *)
Announced ==
  /\ det.pc = "announcing"
  /\ walls' = [walls EXCEPT ![det.sig.wall] = None]
  /\ DropFlag(det.sig.wall)
  /\ mid' = det.mid /\ delta' = 0
  /\ det' = Idle
  /\ UNCHANGED <<microQ, exec, omQ>>

-----------------------------------------------------------------------------
(* StrategyExecutor                                                        *)

(* What the gates read when they are evaluated, apart from the signal: at  *)
(* most one thing is not as it should be, since the first that is not ends *)
(* the evaluation.  A score is "low" below MIN_CONFIDENCE, "fair" below    *)
(* the tier's TIER_MIN_CONFIDENCE, "high" otherwise; a spread is "wide"    *)
(* above twice the p95 of the spreads before, "capped" above the hard cap. *)
AllGood ==
  [lob |-> "SYNCED", heartbeat |-> "HEALTHY", lobHeartbeat |-> "HEALTHY",
   features |-> TRUE, score |-> "high", tier |-> "FULL", exposure |-> FALSE,
   budgetLeft |-> TRUE, sizeFits |-> TRUE, spread |-> "normal", latency |-> "fast"]

Readings ==
  {AllGood} \union
  {[AllGood EXCEPT !.lob = s] : s \in {"UNINITIALISED", "GAP_DETECTED", "DISCONNECTED"}} \union
  {[AllGood EXCEPT !.heartbeat = s] : s \in {"DEGRADED", "CRITICAL", "SUSTAINED_DEGRADED"}} \union
  {[AllGood EXCEPT !.lobHeartbeat = s] : s \in {"DEGRADED", "CRITICAL", "SUSTAINED_DEGRADED"}} \union
  {[AllGood EXCEPT !.score = s, !.tier = t] :
     s \in {"low", "fair", "high"},
     t \in {"FULL", "REDUCED", "MINIMAL", "PASSIVE", "HALTED"}} \union
  {[AllGood EXCEPT !.spread = s] : s \in {"wide", "capped"}} \union
  {[AllGood EXCEPT !.features = FALSE], [AllGood EXCEPT !.exposure = TRUE],
   [AllGood EXCEPT !.budgetLeft = FALSE], [AllGood EXCEPT !.sizeFits = FALSE],
   [AllGood EXCEPT !.latency = "critical"]}

Gate0(r) ==
  /\ r.lob = "SYNCED"
  /\ {r.heartbeat, r.lobHeartbeat} \intersect {"CRITICAL", "SUSTAINED_DEGRADED"} = {}

(* The detector's signals have a consumed and a protection wall.           *)
Gate1(s) == s.prior

Gate2(r) ==
  /\ r.features
  /\ r.score # "low"
  /\ r.tier \in {"REDUCED", "MINIMAL"} => r.score = "high"

Gate3(r) ==
  /\ ~r.exposure
  /\ r.tier \notin {"HALTED", "PASSIVE"}
  /\ r.budgetLeft
  /\ r.sizeFits

Gate4(r) == r.spread = "normal"

Gate5Ageless(s, r) == r.latency # "critical"   \* mutant: the signal's age is not checked

Gate5(s, r) == s.age <= Stale /\ r.latency # "critical"

RateLimited == exec.last < Interval

Approved(s, r) ==
  Gate0(r) /\ Gate1(s) /\ Gate2(r) /\ Gate3(r) /\ Gate4(r) /\ Gate5(s, r) /\ ~RateLimited

PeekedSignal == IF Head(microQ).prior THEN Tail(microQ) ELSE microQ   \* mutant: peeks, not gets

TakenSignal == Tail(microQ)

(* One turn of run: _evaluate up to signal_q.put, where it may have to     *)
(* wait.  No other task runs in between.                                   *)
Evaluate ==
  /\ exec.pc = "idle" /\ microQ # <<>>
  /\ microQ' = TakenSignal
  /\ LET s == Head(microQ) IN
     \E r \in Readings :
       \/ /\ ~Approved(s, r)
          /\ UNCHANGED <<exec, omQ>>
       \/ /\ Approved(s, r)
          /\ IF Len(omQ) < OmSize
             THEN /\ omQ' = Append(omQ, s)
                  /\ exec' = [exec EXCEPT !.last = 0]
             ELSE /\ exec' = [pc |-> "putting", req |-> s, last |-> exec.last]
                  /\ UNCHANGED omQ
  /\ UNCHANGED detector

PutRequest ==
  /\ exec.pc = "putting" /\ Len(omQ) < OmSize
  /\ omQ' = Append(omQ, exec.req)
  /\ exec' = [pc |-> "idle", last |-> 0]
  /\ UNCHANGED <<detector, microQ>>

(* OrderManager._order_loop takes the next request. *)
TakeRequest ==
  /\ omQ # <<>>
  /\ omQ' = Tail(omQ)
  /\ UNCHANGED <<detector, microQ, exec>>

-----------------------------------------------------------------------------
Next ==
  \/ Tick \/ Trade
  \/ Snapshot \/ PutSignal \/ Announced
  \/ Evaluate \/ PutRequest \/ TakeRequest

(* Each task of the TaskGroup goes on when it can.                         *)
Fairness ==
  /\ WF_vars(PutSignal \/ Announced)
  /\ WF_vars(Evaluate \/ PutRequest)
  /\ WF_vars(TakeRequest)

Spec == Init /\ [][Next]_vars /\ Fairness

-----------------------------------------------------------------------------
(* Properties                                                              *)

(* The absorption flags are kept in dictionaries of their own, by price;   *)
(* each belongs to the wall tracked there now, and was set after that wall *)
(* had persisted: a new wall never inherits what its predecessor absorbed. *)
ArmedWallsOnly ==
  \A p \in Prices : armed[p] # Unarmed =>
    /\ p \in Tracked
    /\ walls[p].age <= Fresh => armed[p] + Persist <= walls[p].age

(* A request rests on a wall that stood up to aggression and on protection *)
(* first seen no longer ago than the fresh window and the gates' deadline, *)
(* however long the signal had to wait behind a blocked executor.          *)
RequestIsSound ==
  \A s \in {omQ[i] : i \in DOMAIN omQ} :
    /\ s.prior
    /\ s.coverAge + s.age <= Fresh + Stale
    /\ IF s.dir = "LONG" THEN s.cover < s.wall ELSE s.cover > s.wall

(* The detector does not wait for ever to hand over a signal, though the   *)
(* queue it writes to is full and the executor behind it is blocked, too.  *)
DetectorResumes == det.pc # "idle" ~> det.pc = "idle"

-----------------------------------------------------------------------------
(* What the documentation says and the code does not do                    *)

(* A "fresh protective wall" is behind the breakout, to "avoid chasing a   *)
(* sweep into empty liquidity": it still stands when the signal is made.   *)
(* Refuted by TLC: a wall is fresh after its first sight, gone or not.     *)
ProtectionStands == det.pc # "idle" => det.covered
=============================================================================
