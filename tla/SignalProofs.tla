----------------------------- MODULE SignalProofs -----------------------------
(***************************************************************************)
(* Proofs about SignalPath.tla, a signal's way from the wall to the order  *)
(* request, and SignalTelemetry.tla, the records that are kept of it.      *)
(*                                                                         *)
(* In the first, for any price levels, mids, limits of time and sizes of   *)
(* the queues, signals are typed by what they must have been checked for   *)
(* where they are: the detector makes Covered ones only, and the gates let *)
(* only Checked ones through.  As a queue of Checked signals is one,       *)
(* whatever waits in it, RequestIsSound is a matter of types; the flags of *)
(* the walls need an argument of their own.                                *)
(*                                                                         *)
(* In the second, for any signals, any sizes of queue, batch and buffer,   *)
(* and any number of shutdowns, crashes and restarts, a record is in the   *)
(* queue, on its way to the hub, in the buffer or in the table; each step  *)
(* that takes it from one of them puts it into another or gives it up.     *)
(* What is in the open transaction does not count: whoever has the         *)
(* connection next may roll it back.                                       *)
(***************************************************************************)
EXTENDS SignalPath, SignalTelemetry, SequenceTheorems, WellFoundedInduction, TLAPS

(* Protected on the side the price would come back from.                   *)
Covered == {s \in Signals : IF s.dir = "LONG" THEN s.cover < s.wall ELSE s.cover > s.wall}

(* ... and let through by gates 1 and 5.                                   *)
Checked == {s \in Covered : s.prior /\ s.age <= Stale}

Pending == [pc : {"putting", "announcing"}, mid : Mids, sig : Covered, covered : BOOLEAN]
Waiting == [pc : {"putting"}, req : Checked, last : 0..Interval]
Ready == [pc : {"idle"}, last : 0..Interval]

(* The shape of the state.                                                 *)
WallsInv ==
  /\ walls \in [Prices -> Walls]
  /\ armed \in [Prices -> Unarmed..ArmTtl + 1]

TradesInv ==
  /\ mid \in Mids \union {0}
  /\ delta \in -MaxDelta..MaxDelta

DetInv == det = Idle \/ det \in Pending
MicroInv == microQ \in Seq(Covered) /\ Len(microQ) <= MicroSize
ExecInv == exec \in Ready \union Waiting
OmInv == omQ \in Seq(Checked) /\ Len(omQ) <= OmSize

SignalInv ==
  WallsInv /\ TradesInv /\ DetInv /\ MicroInv /\ ExecInv /\ OmInv /\ ArmedWallsOnly

-----------------------------------------------------------------------------
(* Constants, ages and queues                                              *)

LEMMA Limits ==
  /\ Prices \subseteq Nat \ {0} /\ Mids \subseteq Nat \ {0}
  /\ Floor \in Nat \ {0} /\ Persist \in Nat \ {0} /\ Fresh \in Nat \ {0}
  /\ ArmTtl \in Nat \ {0} /\ MaxDelta \in Nat \ {0}
  /\ MicroSize \in Nat \ {0} /\ OmSize \in Nat \ {0}
  /\ Stale \in Nat /\ Interval \in Nat
BY SignalAssumption DEF SignalAssumption

LEMMA OlderByOne ==
  ASSUME NEW limit \in Nat, NEW age \in 0..limit + 1
  PROVE  /\ Older(age, limit) \in 0..limit + 1
         /\ Older(age, limit) <= age + 1
         /\ age <= Older(age, limit)
         /\ Older(age, limit) <= limit => Older(age, limit) = age + 1
BY DEF Older

(* A wait changes the age of a signal and nothing else.                    *)
LEMMA AgedStays ==
  ASSUME NEW s \in Covered
  PROVE  Aged(s) \in Covered
<1>. DEFINE a == Older(s.age, Stale)
<1>1. s \in Signals /\ (IF s.dir = "LONG" THEN s.cover < s.wall ELSE s.cover > s.wall)
  BY DEF Covered
<1>2. a \in 0..Stale + 1 BY <1>1, Limits, OlderByOne DEF Signals
<1>3. Aged(s) = [s EXCEPT !.age = a] BY DEF Aged
<1>. HIDE DEF a
<1>4. /\ Aged(s) \in Signals
      /\ Aged(s).dir = s.dir /\ Aged(s).cover = s.cover /\ Aged(s).wall = s.wall
  BY <1>1, <1>2, <1>3 DEF Signals
<1>. QED BY <1>1, <1>4 DEF Covered

LEMMA Appended ==
  ASSUME NEW S, NEW q \in Seq(S), NEW e \in S, NEW n \in Nat, Len(q) < n
  PROVE  Append(q, e) \in Seq(S) /\ Len(Append(q, e)) <= n
<1>. DEFINE l == Len(q)
<1>1. l \in Nat /\ Append(q, e) \in Seq(S) /\ Len(Append(q, e)) = l + 1
  BY AppendProperties, LenProperties
<1>2. l < n OBVIOUS
<1>. HIDE DEF l
<1>. QED BY <1>1, <1>2

LEMMA Shortened ==
  ASSUME NEW S, NEW q \in Seq(S), q # <<>>, NEW n \in Nat, Len(q) <= n
  PROVE  Head(q) \in S /\ Tail(q) \in Seq(S) /\ Len(Tail(q)) <= n
<1>. DEFINE l == Len(q)
<1>1. l \in Nat /\ Head(q) \in S /\ Tail(q) \in Seq(S) /\ Len(Tail(q)) = l - 1
  BY HeadTailProperties, LenProperties
<1>2. l <= n OBVIOUS
<1>. HIDE DEF l
<1>. QED BY <1>1, <1>2

-----------------------------------------------------------------------------
(* The choice of the protection wall                                       *)

(* A set of numbers has a least element.                                   *)
LEMMA Least ==
  ASSUME NEW T, T \subseteq Nat, T # {}
  PROVE  \E x \in T : \A y \in T : x <= y
<1>. DEFINE R == OpToRel(<, Nat)
<1>1. IsWellFoundedOn(R, Nat) BY NatLessThanWellFounded
<1>2. R = {ss \in Nat \X Nat : ss[1] < ss[2]} BY DEF OpToRel
<1>. HIDE DEF R
<1>3. PICK x \in T : \A y \in T : ~(<<y, x>> \in R) BY <1>1, WFMin
<1>4. \A y \in T : ~(y < x) BY <1>2, <1>3
<1>. QED BY <1>4

(* valid_protection_walls has a nearest wall to put first, if any.         *)
LEMMA NearestIsOne ==
  ASSUME NEW S, S \subseteq Prices, S # {}, NEW m \in Mids
  PROVE  Nearest(S, m) \in S
<1>. DEFINE T == {Distance(q, m) : q \in S}
<1>1. \A q \in S : Distance(q, m) \in Nat
  <2>1. \A q \in S : q \in Int /\ m \in Int BY Limits
  <2>. QED BY <2>1 DEF Distance, Abs
<1>2. PICK x \in T : \A y \in T : x <= y
  <2>1. T \subseteq Nat /\ T # {} BY <1>1
  <2>. QED BY <2>1, Least
<1>3. \E q \in S : \A r \in S : Distance(q, m) <= Distance(r, m) BY <1>2
<1>. QED BY <1>3 DEF Nearest

(* What a snapshot finds is tracked from now on, and nothing else changes. *)
LEMMA SeenWalls ==
  ASSUME WallsInv, NEW m \in Mids, NEW found, found \subseteq Prices \ Tracked
  PROVE  /\ Seen(found, m) \in [Prices -> Walls]
         /\ \A p \in Tracked : Seen(found, m)[p] = walls[p]
         /\ \A p \in Prices : Seen(found, m)[p].side \in Sides
                                => Seen(found, m)[p].age \in 0..Fresh + 1
<1>1. Seen(found, m) \in [Prices -> Walls]
  <2>1. \A p \in Prices : [side |-> SideOf(p, m), age |-> 0] \in Walls
    BY Limits DEF Walls, SideOf, Sides
  <2>. QED BY <2>1 DEF Seen, WallsInv
<1>2. \A p \in Tracked : Seen(found, m)[p] = walls[p] BY DEF Seen, Tracked
<1>3. \A w \in Walls : w.side \in Sides => w.age \in 0..Fresh + 1
  BY DEF Walls, None, Sides
<1>. QED BY <1>1, <1>2, <1>3

(* A tracked wall has a side.                                              *)
LEMMA TrackedWall ==
  ASSUME WallsInv, NEW p \in Tracked
  PROVE  p \in Prices /\ walls[p].side \in Sides /\ walls[p].age \in 0..Fresh + 1
BY DEF WallsInv, Tracked, Walls

(* detect_sweep_with_protection: the signal of a swept wall is covered.    *)
LEMMA SweptIsCovered ==
  ASSUME WallsInv, NEW m \in Mids, NEW found, found \subseteq Prices \ Tracked,
         NEW flags, NEW class, NEW threshold,
         NEW p \in Swept(Seen(found, m), class, m, threshold)
  PROVE  SignalOf(Seen(found, m), flags, p, m) \in Covered
<1>. DEFINE seen == Seen(found, m)
            q == Nearest(Protection(seen, p, m), m)
            prior == flags[p] # Unarmed /\ flags[p] <= ArmTtl
            dir == DirectionOf(seen[p].side)
            age == seen[q].age
            s == [dir |-> dir, wall |-> p, cover |-> q, coverAge |-> age,
                  prior |-> prior, age |-> 0]
<1>1. p \in Tracked /\ Protection(seen, p, m) # {} BY DEF Swept
<1>2. p \in Prices /\ seen[p].side \in Sides
  BY <1>1, TrackedWall, SeenWalls
<1>3. q \in Protection(seen, p, m)
  BY <1>1, NearestIsOne DEF Protection
<1>4. /\ q \in Prices /\ seen[q].side \in Sides
      /\ seen[q].age <= Fresh /\ Behind(q, p, seen[p].side, m)
  BY <1>3 DEF Protection, Sides
<1>5. age \in 0..Fresh
  <2>1. age \in 0..Fresh + 1 BY <1>4, SeenWalls
  <2>. QED BY <2>1, <1>4, Limits
<1>6. /\ dir \in {"LONG", "SHORT"}
      /\ IF dir = "LONG" THEN q < p ELSE q > p
  BY <1>2, <1>4 DEF DirectionOf, Behind, Sides
<1>7. prior \in BOOLEAN OBVIOUS
<1>8. 0 \in 0..Stale + 1 BY Limits
<1>9. SignalOf(seen, flags, p, m) = s BY DEF SignalOf
<1>. HIDE DEF dir, age, prior, q, seen
<1>10. s \in Signals BY <1>2, <1>4, <1>5, <1>6, <1>7, <1>8 DEF Signals
<1>11. s \in Covered BY <1>6, <1>10 DEF Covered
<1>. QED BY <1>9, <1>11 DEF seen

-----------------------------------------------------------------------------
(* The steps                                                               *)

(* Time passes: the flags age with their walls, or stop where a wall is    *)
(* too old to be compared.                                                 *)
LEMMA TickFlags ==
  ASSUME SignalInv, Tick
  PROVE  WallsInv' /\ ArmedWallsOnly'
<1>1. ASSUME NEW p \in Prices, walls[p] # None
      PROVE  /\ walls[p].age \in 0..Fresh + 1
             /\ walls'[p] \in [side : Sides, age : 0..Fresh + 1]
             /\ walls'[p].age = Older(walls[p].age, Fresh)
  <2>. DEFINE w == walls[p]
              a == Older(w.age, Fresh)
  <2>1. w \in [side : Sides, age : 0..Fresh + 1]
    BY <1>1 DEF SignalInv, WallsInv, Walls
  <2>2. walls'[p] = [w EXCEPT !.age = a] BY <1>1 DEF Tick
  <2>3. a \in 0..Fresh + 1 BY <2>1, Limits, OlderByOne
  <2>. HIDE DEF a, w
  <2>4. walls'[p] \in [side : Sides, age : 0..Fresh + 1] /\ walls'[p].age = a
    BY <2>1, <2>2, <2>3
  <2>. QED BY <2>1, <2>4 DEF w, a
<1>2. ASSUME NEW p \in Prices, walls[p] = None
      PROVE  walls'[p] = None /\ armed[p] = Unarmed /\ armed'[p] = Unarmed
  BY <1>2 DEF SignalInv, ArmedWallsOnly, Tracked, Tick
<1>3. walls' \in [Prices -> Walls]
  <2>1. \A p \in Prices : walls[p] # None => walls'[p] \in Walls BY <1>1 DEF Walls
  <2>2. \A p \in Prices : walls'[p] \in Walls BY <1>2, <2>1 DEF Walls
  <2>3. walls' = [p \in Prices |-> walls'[p]] BY DEF Tick
  <2>. QED BY <2>2, <2>3
<1>4. ASSUME NEW p \in Prices, armed[p] # Unarmed
      PROVE  /\ armed[p] \in 0..ArmTtl + 1 /\ armed'[p] \in 0..ArmTtl + 1
             /\ armed'[p] <= armed[p] + 1
  <2>1. armed[p] \in 0..ArmTtl + 1
    BY <1>4, Limits DEF SignalInv, WallsInv, Unarmed
  <2>2. armed'[p] = Older(armed[p], ArmTtl) BY <1>4 DEF Tick
  <2>3. ArmTtl \in Nat BY Limits
  <2>. QED BY <2>1, <2>2, <2>3, OlderByOne
<1>5. armed' \in [Prices -> Unarmed..ArmTtl + 1]
  <2>1. \A p \in Prices : armed[p] = Unarmed => armed'[p] = Unarmed BY DEF Tick
  <2>2. \A p \in Prices : armed'[p] \in Unarmed..ArmTtl + 1
    BY <1>4, <2>1, Limits DEF Unarmed
  <2>3. armed' = [p \in Prices |-> armed'[p]] BY DEF Tick
  <2>. QED BY <2>2, <2>3
<1>6. ASSUME NEW p \in Prices, armed'[p] # Unarmed
      PROVE  /\ walls'[p] # None
             /\ walls'[p].age <= Fresh => armed'[p] + Persist <= walls'[p].age
  <2>1. armed[p] # Unarmed BY <1>6 DEF Tick
  <2>2. walls[p] # None BY <2>1 DEF SignalInv, ArmedWallsOnly, Tracked
  <2>3. walls'[p] # None BY <1>1, <2>2 DEF Sides, None
  <2>4. ASSUME walls'[p].age <= Fresh
        PROVE  armed'[p] + Persist <= walls'[p].age
    <3>1. /\ walls[p].age \in 0..Fresh + 1 /\ walls'[p].age = Older(walls[p].age, Fresh)
      BY <1>1, <2>2
    <3>2. walls'[p].age = walls[p].age + 1 /\ walls[p].age <= Fresh
      BY <2>4, <3>1, Limits DEF Older
    <3>3. armed[p] + Persist <= walls[p].age
      BY <2>1, <3>2 DEF SignalInv, ArmedWallsOnly
    <3>. QED BY <1>4, <2>1, <3>1, <3>2, <3>3, Limits
  <2>. QED BY <2>3, <2>4
<1>. QED BY <1>3, <1>5, <1>6 DEF WallsInv, ArmedWallsOnly, Tracked

LEMMA TickSignals ==
  ASSUME SignalInv, Tick
  PROVE  DetInv' /\ MicroInv' /\ ExecInv'
<1>1. DetInv'
  <2>1. CASE det = Idle BY <2>1 DEF Tick, DetInv, Idle
  <2>2. CASE det \in Pending
    <3>1. det' = [det EXCEPT !.sig = Aged(det.sig)] BY <2>2 DEF Tick, Pending
    <3>2. Aged(det.sig) \in Covered BY <2>2, AgedStays DEF Pending
    <3>. QED BY <2>2, <3>1, <3>2 DEF DetInv, Pending
  <2>. QED BY <2>1, <2>2 DEF SignalInv, DetInv
<1>2. MicroInv'
  <2>. DEFINE n == Len(microQ)
  <2>1. n \in Nat /\ microQ \in [1..n -> Covered] /\ DOMAIN microQ = 1..n /\ n <= MicroSize
    BY LenProperties DEF SignalInv, MicroInv
  <2>2. microQ' = [j \in 1..n |-> Aged(microQ[j])] BY <2>1 DEF Tick
  <2>3. \A j \in 1..n : Aged(microQ[j]) \in Covered BY <2>1, AgedStays
  <2>. HIDE DEF n
  <2>4. microQ' \in [1..n -> Covered] BY <2>2, <2>3
  <2>5. microQ' \in Seq(Covered) BY <2>1, <2>4, SeqDef
  <2>6. Len(microQ') = n BY <2>1, <2>2, <2>5, LenProperties
  <2>. QED BY <2>1, <2>5, <2>6 DEF MicroInv
<1>3. ExecInv'
  <2>. DEFINE last == IF exec.last < Interval THEN exec.last + 1 ELSE exec.last
  <2>1. exec' = [exec EXCEPT !.last = last] BY DEF Tick
  <2>2. last \in 0..Interval BY Limits DEF SignalInv, ExecInv, Ready, Waiting
  <2>. HIDE DEF last
  <2>. QED BY <2>1, <2>2 DEF SignalInv, ExecInv, Ready, Waiting
<1>. QED BY <1>1, <1>2, <1>3

LEMMA TickStep ==
  ASSUME SignalInv, Tick
  PROVE  SignalInv'
<1>1. TradesInv' /\ OmInv' BY DEF Tick, SignalInv, TradesInv, OmInv
<1>. QED BY <1>1, TickFlags, TickSignals DEF SignalInv

LEMMA TradeStep ==
  ASSUME SignalInv, Trade
  PROVE  SignalInv'
<1>1. UNCHANGED <<mid, walls, armed, det, microQ, exec, omQ>> /\ delta' \in -MaxDelta..MaxDelta
  BY DEF Trade
<1>2. WallsInv' /\ DetInv' /\ MicroInv' /\ ExecInv' /\ OmInv'
  BY <1>1 DEF SignalInv, WallsInv, DetInv, MicroInv, ExecInv, OmInv
<1>3. TradesInv' BY <1>1 DEF SignalInv, TradesInv
<1>4. ArmedWallsOnly' BY <1>1 DEF SignalInv, ArmedWallsOnly, Tracked
<1>. QED BY <1>2, <1>3, <1>4 DEF SignalInv

(* detect_absorption arms a wall that has persisted and is tracked, and a  *)
(* new wall has no flag to inherit.                                        *)
LEMMA SnapshotFlags ==
  ASSUME SignalInv, NEW m \in Mids, NEW found, found \subseteq Prices \ Tracked, NEW class,
         walls' = Seen(found, m), armed' = Armed(class, m)
  PROVE  WallsInv' /\ ArmedWallsOnly'
<1>1. WallsInv BY DEF SignalInv
<1>2. walls' \in [Prices -> Walls] /\ \A p \in Tracked : walls'[p] = walls[p]
  BY <1>1, SeenWalls
<1>3. armed' \in [Prices -> Unarmed..ArmTtl + 1]
  BY <1>1, Limits DEF WallsInv, Armed, Unarmed
<1>4. ASSUME NEW p \in Prices, armed'[p] # Unarmed
      PROVE  /\ p \in Tracked
             /\ walls'[p].age <= Fresh => armed'[p] + Persist <= walls'[p].age
  <2>1. p \in Tracked
    BY <1>4 DEF Armed, SignalInv, ArmedWallsOnly
  <2>2. walls'[p] = walls[p] /\ walls[p].age \in 0..Fresh + 1
    BY <1>1, <1>2, <2>1, TrackedWall
  <2>3. CASE Absorbs(walls[p], class[p], m)
    <3>1. armed'[p] = 0 BY <2>1, <2>3 DEF Armed
    <3>2. walls[p].age >= Persist BY <2>3 DEF Absorbs
    <3>. QED BY <2>1, <2>2, <3>1, <3>2, Limits
  <2>4. CASE ~Absorbs(walls[p], class[p], m)
    <3>1. armed'[p] = armed[p] BY <2>4 DEF Armed
    <3>. QED BY <1>4, <2>1, <2>2, <3>1 DEF SignalInv, ArmedWallsOnly
  <2>. QED BY <2>3, <2>4
<1>5. \A p \in Tracked : walls'[p] # None BY <1>2 DEF Tracked
<1>. QED BY <1>2, <1>3, <1>4, <1>5 DEF WallsInv, ArmedWallsOnly, Tracked

(* _process_snapshot up to its first await.                                *)
LEMMA SnapshotStep ==
  ASSUME SignalInv, Snapshot
  PROVE  SignalInv'
<1>1. PICK m \in Mids, found \in SUBSET (Prices \ Tracked), threshold \in Thresholds,
           class \in [Tracked -> Classes] :
        /\ walls' = Seen(found, m)
        /\ armed' = Armed(class, m)
        /\ \/ mid' = m /\ delta' = 0 /\ UNCHANGED <<det, microQ>>
           \/ \E p \in Swept(Seen(found, m), class, m, threshold) :
                LET sig == SignalOf(Seen(found, m), Armed(class, m), p, m) IN
                /\ microQ' = IF MicroRoom THEN Append(microQ, sig) ELSE microQ
                /\ det' = [pc |-> IF MicroRoom THEN "announcing" ELSE "putting", mid |-> m,
                           sig |-> sig, covered |-> Stands(sig.cover, class)]
                /\ UNCHANGED <<mid, delta>>
  BY DEF Snapshot
<1>2. WallsInv' /\ ArmedWallsOnly' BY <1>1, SnapshotFlags
<1>3. ExecInv' /\ OmInv' BY DEF Snapshot, SignalInv, ExecInv, OmInv
<1>4. CASE mid' = m /\ delta' = 0 /\ UNCHANGED <<det, microQ>>
  BY <1>2, <1>3, <1>4, Limits DEF SignalInv, TradesInv, DetInv, MicroInv
<1>5. ASSUME NEW p \in Swept(Seen(found, m), class, m, threshold),
             NEW sig, sig = SignalOf(Seen(found, m), Armed(class, m), p, m),
             microQ' = IF MicroRoom THEN Append(microQ, sig) ELSE microQ,
             det' = [pc |-> IF MicroRoom THEN "announcing" ELSE "putting", mid |-> m,
                     sig |-> sig, covered |-> Stands(sig.cover, class)],
             UNCHANGED <<mid, delta>>
      PROVE  SignalInv'
  <2>1. sig \in Covered BY <1>5, SweptIsCovered DEF SignalInv
  <2>2. MicroInv'
    <3>1. microQ \in Seq(Covered) /\ Len(microQ) <= MicroSize BY DEF SignalInv, MicroInv
    <3>2. CASE MicroRoom
      BY <1>5, <2>1, <3>1, <3>2, Limits, Appended DEF MicroInv, MicroRoom
    <3>3. CASE ~MicroRoom BY <1>5, <3>1, <3>3 DEF MicroInv
    <3>. QED BY <3>2, <3>3
  <2>3. Stands(sig.cover, class) \in BOOLEAN BY DEF Stands
  <2>4. DetInv' BY <1>5, <2>1, <2>3 DEF DetInv, Pending
  <2>5. TradesInv' BY <1>5 DEF SignalInv, TradesInv
  <2>. QED BY <1>2, <1>3, <2>2, <2>4, <2>5 DEF SignalInv
<1>. QED BY <1>1, <1>4, <1>5

LEMMA PutSignalStep ==
  ASSUME SignalInv, PutSignal
  PROVE  SignalInv'
<1>1. det \in Pending BY DEF PutSignal, SignalInv, DetInv, Idle
<1>2. DetInv' BY <1>1 DEF PutSignal, DetInv, Pending
<1>3. MicroInv'
  BY <1>1, Limits, Appended DEF PutSignal, MicroRoom, SignalInv, MicroInv, Pending
<1>4. UNCHANGED <<mid, walls, armed, delta, exec, omQ>> BY DEF PutSignal
<1>. QED BY <1>2, <1>3, <1>4
     DEF SignalInv, WallsInv, TradesInv, ExecInv, OmInv, ArmedWallsOnly, Tracked

(* The wall that fired is forgotten with its flag.                         *)
LEMMA AnnouncedStep ==
  ASSUME SignalInv, Announced
  PROVE  SignalInv'
<1>1. det \in Pending BY DEF Announced, SignalInv, DetInv, Idle
<1>. DEFINE w == det.sig.wall
<1>2. w \in Prices BY <1>1 DEF Pending, Covered, Signals
<1>3. /\ walls' = [walls EXCEPT ![w] = None] /\ armed' = [armed EXCEPT ![w] = Unarmed]
      /\ mid' = det.mid /\ delta' = 0 /\ det' = Idle
      /\ UNCHANGED <<microQ, exec, omQ>>
  BY DEF Announced, DropFlag
<1>. HIDE DEF w
<1>4. Unarmed \in Unarmed..ArmTtl + 1 BY Limits DEF Unarmed
<1>5. None \in Walls BY DEF Walls
<1>6. WallsInv' BY <1>2, <1>3, <1>4, <1>5 DEF SignalInv, WallsInv
<1>7. TradesInv' BY <1>1, <1>3, Limits DEF TradesInv, Pending
<1>8. ArmedWallsOnly'
  <2>1. ASSUME NEW p \in Prices, armed'[p] # Unarmed
        PROVE  p # w /\ armed'[p] = armed[p] /\ walls'[p] = walls[p]
    BY <1>2, <1>3, <2>1 DEF SignalInv, WallsInv
  <2>. QED BY <2>1 DEF SignalInv, ArmedWallsOnly, Tracked
<1>. QED BY <1>3, <1>6, <1>7, <1>8 DEF SignalInv, DetInv, MicroInv, ExecInv, OmInv

(* What the executor approves has passed gates 1 and 5.                    *)
LEMMA ApprovedIsChecked ==
  ASSUME NEW s \in Covered, NEW r, Approved(s, r)
  PROVE  s \in Checked
BY DEF Approved, Gate1, Gate5, Checked

LEMMA EvaluateStep ==
  ASSUME SignalInv, Evaluate
  PROVE  SignalInv'
<1>. DEFINE s == Head(microQ)
<1>1. microQ' = Tail(microQ) /\ microQ # <<>> /\ exec.pc = "idle" BY DEF Evaluate, TakenSignal
<1>2. s \in Covered /\ MicroInv'
  BY <1>1, Limits, Shortened DEF SignalInv, MicroInv
<1>3. PICK r \in Readings :
        \/ UNCHANGED <<exec, omQ>>
        \/ /\ Approved(s, r)
           /\ IF Len(omQ) < OmSize
              THEN omQ' = Append(omQ, s) /\ exec' = [exec EXCEPT !.last = 0]
              ELSE exec' = [pc |-> "putting", req |-> s, last |-> exec.last] /\ omQ' = omQ
  BY DEF Evaluate
<1>. HIDE DEF s
<1>4. UNCHANGED detector BY DEF Evaluate
<1>5. exec \in Ready BY <1>1 DEF SignalInv, ExecInv, Waiting
<1>6. ExecInv' /\ OmInv'
  <2>1. CASE UNCHANGED <<exec, omQ>> BY <2>1 DEF SignalInv, ExecInv, OmInv
  <2>2. CASE /\ Approved(s, r) /\ Len(omQ) < OmSize
             /\ omQ' = Append(omQ, s) /\ exec' = [exec EXCEPT !.last = 0]
    <3>1. s \in Checked BY <1>2, <2>2, ApprovedIsChecked
    <3>2. OmInv' BY <2>2, <3>1, Limits, Appended DEF SignalInv, OmInv
    <3>3. 0 \in 0..Interval BY Limits
    <3>4. exec'.pc = "idle" /\ exec' = [pc |-> "idle", last |-> 0]
      BY <1>5, <2>2 DEF Ready
    <3>. QED BY <3>2, <3>3, <3>4 DEF ExecInv, Ready
  <2>3. CASE /\ Approved(s, r)
             /\ exec' = [pc |-> "putting", req |-> s, last |-> exec.last] /\ omQ' = omQ
    <3>1. s \in Checked BY <1>2, <2>3, ApprovedIsChecked
    <3>. QED BY <1>5, <2>3, <3>1 DEF SignalInv, ExecInv, OmInv, Ready, Waiting
  <2>. QED BY <1>3, <2>1, <2>2, <2>3
<1>. QED BY <1>2, <1>4, <1>6
     DEF detector, SignalInv, WallsInv, TradesInv, DetInv, ArmedWallsOnly, Tracked

LEMMA QueueSteps ==
  ASSUME SignalInv, PutRequest \/ TakeRequest
  PROVE  SignalInv'
<1>1. UNCHANGED <<detector, microQ>> BY DEF PutRequest, TakeRequest
<1>2. ExecInv' /\ OmInv'
  <2>1. CASE PutRequest
    <3>1. exec.req \in Checked BY <2>1 DEF PutRequest, SignalInv, ExecInv, Ready, Waiting
    <3>2. OmInv' BY <2>1, <3>1, Limits, Appended DEF PutRequest, SignalInv, OmInv
    <3>3. 0 \in 0..Interval BY Limits
    <3>. QED BY <2>1, <3>2, <3>3 DEF PutRequest, ExecInv, Ready
  <2>2. CASE TakeRequest
    BY <2>2, Limits, Shortened DEF TakeRequest, SignalInv, OmInv, ExecInv
  <2>. QED BY <2>1, <2>2
<1>. QED BY <1>1, <1>2
     DEF detector, SignalInv, WallsInv, TradesInv, DetInv, MicroInv, ArmedWallsOnly, Tracked

LEMMA Unmoved ==
  ASSUME SignalInv, UNCHANGED vars
  PROVE  SignalInv'
BY DEF vars, SignalInv, WallsInv, TradesInv, DetInv, MicroInv, ExecInv, OmInv,
       ArmedWallsOnly, Tracked

LEMMA InitSignals ==
  ASSUME Init
  PROVE  SignalInv
<1>1. WallsInv /\ ArmedWallsOnly
  BY Limits DEF Init, WallsInv, ArmedWallsOnly, Walls, Unarmed
<1>2. TradesInv /\ DetInv BY Limits DEF Init, TradesInv, DetInv
<1>3. MicroInv BY Limits, EmptySeq DEF Init, MicroInv
<1>4. OmInv BY Limits, EmptySeq DEF Init, OmInv
<1>5. Interval \in 0..Interval BY Limits
<1>6. ExecInv BY <1>5 DEF Init, ExecInv, Ready
<1>. QED BY <1>1, <1>2, <1>3, <1>4, <1>6 DEF SignalInv

-----------------------------------------------------------------------------
(* The theorems                                                            *)

(* The invariant holds: signals are Covered behind the detector and        *)
(* Checked behind the gates, and flags belong to tracked walls.            *)
THEOREM SignalsChecked == Spec => []SignalInv
<1>1. Init => SignalInv BY InitSignals
<1>2. SignalInv /\ [Next]_vars => SignalInv'
  BY TickStep, TradeStep, SnapshotStep, PutSignalStep, AnnouncedStep, EvaluateStep,
     QueueSteps, Unmoved DEF Next
<1>. QED BY <1>1, <1>2, PTL DEF Spec

(* Detector, executor and their queues keep their shape: in particular no  *)
(* queue ever holds more than its maxsize.                                 *)
THEOREM SignalTypes == Spec => []TypeOK
<1>1. SignalInv => TypeOK
  <2>. SUFFICES ASSUME SignalInv PROVE TypeOK OBVIOUS
  <2>1. mid \in Mids \union {0} /\ delta \in -MaxDelta..MaxDelta
    BY DEF SignalInv, TradesInv
  <2>2. walls \in [Prices -> Walls] /\ armed \in [Prices -> Unarmed..ArmTtl + 1]
    BY DEF SignalInv, WallsInv
  <2>3. Covered \subseteq Signals /\ Checked \subseteq Signals BY DEF Covered, Checked
  <2>4. /\ det.pc \in {"idle", "putting", "announcing"}
        /\ det.pc # "idle" => det.mid \in Mids /\ det.sig \in Signals /\ det.covered \in BOOLEAN
    BY <2>3 DEF SignalInv, DetInv, Pending, Idle
  <2>5. microQ \in Seq(Signals) /\ Len(microQ) <= MicroSize
    BY <2>3, SeqMonotonic DEF SignalInv, MicroInv
  <2>6. omQ \in Seq(Signals) /\ Len(omQ) <= OmSize
    BY <2>3, SeqMonotonic DEF SignalInv, OmInv
  <2>7. /\ exec.last \in 0..Interval
        /\ exec.pc = "idle" \/ (exec.pc = "putting" /\ exec.req \in Signals)
    BY <2>3 DEF SignalInv, ExecInv, Ready, Waiting
  <2>. QED BY <2>1, <2>2, <2>4, <2>5, <2>6, <2>7 DEF TypeOK
<1>. QED BY <1>1, SignalsChecked, PTL

(* microstructure.py:359-383 and 444-445: however trades, snapshots and    *)
(* the announcing of signals interleave, an absorption flag belongs to the *)
(* wall that is tracked at its price, and was set once it had persisted.   *)
THEOREM FlagsFollowWalls == Spec => []ArmedWallsOnly
<1>1. SignalInv => ArmedWallsOnly BY DEF SignalInv
<1>. QED BY <1>1, SignalsChecked, PTL

(* executor.py, gates 1 and 5: whatever waits in the order queue, for      *)
(* however long it was held up on its way, absorbed before it was swept,   *)
(* and its protection was first seen no longer ago than the fresh window   *)
(* and the deadline together, on the side the price would come back from.  *)
THEOREM RequestsAreSound == Spec => []RequestIsSound
<1>1. SignalInv => RequestIsSound
  <2>. SUFFICES ASSUME SignalInv, NEW j \in DOMAIN omQ
                PROVE  /\ omQ[j].prior
                       /\ omQ[j].coverAge + omQ[j].age <= Fresh + Stale
                       /\ IF omQ[j].dir = "LONG" THEN omQ[j].cover < omQ[j].wall
                          ELSE omQ[j].cover > omQ[j].wall
    BY DEF RequestIsSound
  <2>. DEFINE s == omQ[j]
  <2>1. s \in Checked BY LenProperties, ElementOfSeq DEF SignalInv, OmInv
  <2>. HIDE DEF s
  <2>2. /\ s.prior /\ s.age <= Stale /\ s \in Signals
        /\ IF s.dir = "LONG" THEN s.cover < s.wall ELSE s.cover > s.wall
    BY <2>1 DEF Checked, Covered
  <2>3. s.coverAge \in 0..Fresh /\ s.age \in Nat BY <2>2, Limits DEF Signals
  <2>4. s.coverAge + s.age <= Fresh + Stale BY <2>2, <2>3, Limits
  <2>. QED BY <2>2, <2>4 DEF s
<1>. QED BY <1>1, SignalsChecked, PTL

-----------------------------------------------------------------------------
(* The telemetry: where a record can be                                    *)

Shape ==
  /\ queue \in Seq(Sigs) /\ buf \in Seq(Sigs)
  /\ drain.pc = "send" => drain.rec \in Sigs

IInv == Shape /\ RecordsAccountedFor

-----------------------------------------------------------------------------
(* The elements of sequences                                               *)

LEMMA Elements ==
  ASSUME NEW S, NEW q \in Seq(S)
  PROVE  /\ \A i \in 1..Len(q) : q[i] \in ToSet(q)
         /\ \A e \in ToSet(q) : \E i \in 1..Len(q) : e = q[i]
<1>1. DOMAIN q = 1..Len(q)  BY LenProperties
<1> QED  BY <1>1 DEF ToSet

LEMMA InAppended ==
  ASSUME NEW S, NEW q \in Seq(S), NEW e \in S
  PROVE  Append(q, e) \in Seq(S) /\ ToSet(Append(q, e)) = ToSet(q) \union {e}
<1> DEFINE r == Append(q, e)
<1>1. /\ r \in Seq(S) /\ Len(r) = Len(q) + 1 /\ Len(q) \in Nat
      /\ \A i \in 1..Len(q) : r[i] = q[i]
      /\ r[Len(q) + 1] = e
  BY AppendProperties, LenProperties
<1> HIDE DEF r
<1>2. \A i \in 1..Len(r) : r[i] \in ToSet(q) \union {e}
  <2> TAKE i \in 1..Len(r)
  <2>1. i = Len(q) + 1 \/ i \in 1..Len(q)  BY <1>1
  <2> QED  BY <1>1, <2>1, Elements
<1>3. \A i \in 1..Len(q) : q[i] \in ToSet(r)
  <2> TAKE i \in 1..Len(q)
  <2>1. i \in 1..Len(r) /\ r[i] = q[i]  BY <1>1
  <2>2. r[i] \in ToSet(r)  BY <1>1, <2>1, Elements
  <2> QED  BY <2>1, <2>2
<1>4. e \in ToSet(r)
  <2>1. Len(r) \in 1..Len(r)  BY <1>1
  <2> QED  BY <1>1, <2>1, Elements
<1>5. ToSet(r) = ToSet(q) \union {e}  BY <1>1, <1>2, <1>3, <1>4, Elements
<1> QED  BY <1>1, <1>5 DEF r

LEMMA InTail ==
  ASSUME NEW S, NEW q \in Seq(S), q # <<>>
  PROVE  /\ Head(q) \in S /\ Tail(q) \in Seq(S)
         /\ ToSet(q) \subseteq {Head(q)} \union ToSet(Tail(q))
<1> DEFINE r == Tail(q)
<1>1. /\ Head(q) \in S /\ r \in Seq(S) /\ Len(r) = Len(q) - 1
      /\ \A i \in 1..Len(r) : r[i] = q[i + 1]
  BY HeadTailProperties
<1>2. Len(q) \in Nat /\ Head(q) = q[1]  BY LenProperties
<1> HIDE DEF r
<1>3. ASSUME NEW i \in 1..Len(q), i # 1  PROVE q[i] \in ToSet(r)
  <2>1. i - 1 \in 1..Len(r) /\ (i - 1) + 1 = i  BY <1>1, <1>2, <1>3
  <2>2. r[i - 1] = q[i]  BY <1>1, <2>1
  <2>3. r[i - 1] \in ToSet(r)  BY <1>1, <2>1, Elements
  <2> QED  BY <2>2, <2>3
<1>4. \A i \in 1..Len(q) : q[i] \in {Head(q)} \union ToSet(r)  BY <1>2, <1>3
<1>5. ToSet(q) \subseteq {Head(q)} \union ToSet(r)  BY <1>4, Elements
<1> QED  BY <1>1, <1>5 DEF r

LEMMA InConcat ==
  ASSUME NEW S, NEW q \in Seq(S), NEW r \in Seq(S)
  PROVE  ToSet(q) \subseteq ToSet(q \o r) /\ ToSet(r) \subseteq ToSet(q \o r)
<1> DEFINE t == q \o r
<1>1. /\ Len(q) \in Nat /\ Len(r) \in Nat /\ t \in Seq(S) /\ Len(t) = Len(q) + Len(r)
      /\ \A i \in 1..Len(q) + Len(r) : t[i] = IF i <= Len(q) THEN q[i] ELSE r[i - Len(q)]
  BY ConcatProperties, LenProperties
<1> HIDE DEF t
<1>2. ASSUME NEW i \in 1..Len(q)  PROVE q[i] \in ToSet(t)
  <2>1. i \in 1..Len(t) /\ t[i] = q[i]  BY <1>1
  <2>2. t[i] \in ToSet(t)  BY <1>1, <2>1, Elements
  <2> QED  BY <2>1, <2>2
<1>3. ASSUME NEW i \in 1..Len(r)  PROVE r[i] \in ToSet(t)
  <2> DEFINE j == i + Len(q)
  <2>1. j \in 1..Len(t) /\ ~(j <= Len(q)) /\ j - Len(q) = i  BY <1>1
  <2>2. t[j] = r[i]  BY <1>1, <2>1
  <2>3. t[j] \in ToSet(t)  BY <1>1, <2>1, Elements
  <2> QED  BY <2>2, <2>3
<1>4. ToSet(q) \subseteq ToSet(t) /\ ToSet(r) \subseteq ToSet(t)
  BY <1>2, <1>3, Elements
<1> QED  BY <1>4 DEF t

LEMMA PrefixIsSeq ==
  ASSUME NEW S, NEW q \in Seq(S), NEW n \in 0..Len(q)
  PROVE  SubSeq(q, 1, n) \in Seq(S)
<1>1. \A i \in 1..n : q[i] \in S  BY LenProperties
<1> QED  BY <1>1, SubSeqProperties

LEMMA Empty == ToSet(<<>>) = {} /\ \A S : <<>> \in Seq(S)
BY EmptySeq DEF ToSet

-----------------------------------------------------------------------------
(* Steps                                                                   *)

(* Others than the task and the executor move no record.                   *)
LEMMA QuietStep ==
  ASSUME IInv, UNCHANGED <<evaluated, lost, queue, drain, buf>>, db.rows \subseteq db'.rows
  PROVE  IInv'
BY DEF IInv, Shape, RecordsAccountedFor, InMemory

LEMMA EmitKeeps ==
  ASSUME IInv, NEW s \in Sigs, Emit(s)
  PROVE  IInv'
<1>1. UNCHANGED <<drain, buf, db>> /\ evaluated' = evaluated \union {s}  BY DEF Emit
<1>2. CASE queue' = Append(queue, s) /\ UNCHANGED lost
  <2>1. queue' \in Seq(Sigs) /\ ToSet(queue') = ToSet(queue) \union {s}
    BY <1>2, InAppended DEF IInv, Shape
  <2> QED  BY <1>1, <1>2, <2>1 DEF IInv, Shape, RecordsAccountedFor, InMemory
<1>3. CASE lost' = lost \union {s} /\ UNCHANGED queue
  BY <1>1, <1>3 DEF IInv, Shape, RecordsAccountedFor, InMemory
<1> QED  BY <1>2, <1>3 DEF Emit

LEMMA TakeKeeps ==
  ASSUME IInv, Take
  PROVE  IInv'
<1>1. /\ UNCHANGED <<evaluated, lost, buf, db>> /\ drain.pc = "get" /\ queue # <<>>
      /\ drain' = [pc |-> "send", rec |-> Head(queue)] /\ queue' = Tail(queue)
  BY DEF Take, trades
<1>2. /\ Head(queue) \in Sigs /\ queue' \in Seq(Sigs)
      /\ ToSet(queue) \subseteq {Head(queue)} \union ToSet(queue')
  BY <1>1, InTail DEF IInv, Shape
<1> QED  BY <1>1, <1>2 DEF IInv, Shape, RecordsAccountedFor, InMemory

LEMMA SentKeeps ==
  ASSUME IInv, Sent
  PROVE  IInv'
<1>1. /\ UNCHANGED <<evaluated, lost, queue, db>> /\ drain.pc = "send"
      /\ buf' = Append(buf, drain.rec) /\ drain'.pc # "send"
  BY DEF Sent, trades, Get
<1>2. buf' \in Seq(Sigs) /\ ToSet(buf') = ToSet(buf) \union {drain.rec}
  BY <1>1, InAppended DEF IInv, Shape
<1> QED  BY <1>1, <1>2 DEF IInv, Shape, RecordsAccountedFor, InMemory

LEMMA FlushKeeps ==
  ASSUME IInv, Timeout \/ FlushSucceeds \/ FlushFails
  PROVE  IInv'
<1>1. CASE Timeout
  BY <1>1 DEF Timeout, FlushBuffer, trades, IInv, Shape, RecordsAccountedFor, InMemory
<1>2. CASE FlushSucceeds
  <2>1. /\ UNCHANGED <<evaluated, lost, queue>> /\ drain.pc = "flush" /\ drain'.pc = "get"
        /\ buf' = <<>>
    BY <1>2 DEF FlushSucceeds, trades, Get
  <2>2. db.rows \union ToSet(buf) \subseteq db'.rows
    BY <1>2 DEF FlushSucceeds, InsertOrIgnore, Commit, Union
  <2> QED  BY <2>1, <2>2, Empty DEF IInv, Shape, RecordsAccountedFor, InMemory
<1>3. CASE FlushFails
  <2>1. /\ UNCHANGED <<evaluated, queue, db>> /\ drain.pc = "flush" /\ drain'.pc = "get"
        /\ lost' = lost \union (ToSet(buf) \ ToSet(buf'))
        /\ buf' = SubSeq(buf, 1, IF Len(buf) < MaxBuf THEN Len(buf) ELSE MaxBuf)
    BY <1>3 DEF FlushFails, LeaveOpen, KeepBuffer, trades, Get
  <2>2. (IF Len(buf) < MaxBuf THEN Len(buf) ELSE MaxBuf) \in 0..Len(buf)
    BY TelemetryAssumption, LenProperties DEF IInv, Shape
  <2>3. buf' \in Seq(Sigs)  BY <2>1, <2>2, PrefixIsSeq DEF IInv, Shape
  <2> QED  BY <2>1, <2>3 DEF IInv, Shape, RecordsAccountedFor, InMemory
<1> QED  BY <1>1, <1>2, <1>3

LEMMA StopKeeps ==
  ASSUME IInv, Cancel \/ FlushRemaining
  PROVE  IInv'
<1>1. CASE Cancel
  BY <1>1 DEF Cancel, trades, Get, IInv, Shape, RecordsAccountedFor, InMemory
<1>2. CASE FlushRemaining
  <2> DEFINE records == ToSet(buf \o queue)
  <2>1. UNCHANGED <<evaluated, drain>> /\ buf' = <<>> /\ queue' = <<>>
    BY <1>2 DEF FlushRemaining, trades
  <2>2. ToSet(buf) \subseteq records /\ ToSet(queue) \subseteq records
    BY InConcat DEF IInv, Shape
  <2>3. \/ db.rows \union records \subseteq db'.rows /\ UNCHANGED lost
        \/ UNCHANGED db /\ lost' = lost \union (records \ db.rows)
    BY <1>2 DEF FlushRemaining, InsertOrIgnore, Commit, Union, Rollback
  <2> HIDE DEF records
  <2> QED  BY <2>1, <2>2, <2>3, Empty DEF IInv, Shape, RecordsAccountedFor, InMemory
<1> QED  BY <1>1, <1>2

LEMMA EndKeeps ==
  ASSUME IInv, End
  PROVE  IInv'
<1>1. /\ UNCHANGED <<evaluated, db>> /\ queue' = <<>> /\ buf' = <<>> /\ drain'.pc = "get"
      /\ lost' = lost \union (InMemory \ db.rows)
  BY DEF End, Rollback, trades, Get
<1> QED  BY <1>1, Empty DEF IInv, Shape, RecordsAccountedFor

(* The table only grows, whoever commits.                                  *)
LEMMA TableGrows ==
  ASSUME [TelemetryNext]_telemetryVars
  PROVE  db.rows \subseteq db'.rows /\ db.outcomes \subseteq db'.outcomes
<1>1. CASE UNCHANGED db  BY <1>1
<1>2. CASE \E t : Commit(t)  BY <1>2 DEF Commit, Union
<1>3. CASE Telemetry
  BY <1>1, <1>2, <1>3
  DEF Telemetry, Take, Sent, Timeout, FlushSucceeds, FlushFails, InsertOrIgnore, LeaveOpen
<1>4. CASE CallTask \/ SystemEvent
  BY <1>1, <1>2, <1>4 DEF CallTask, Update, Acquire, SystemEvent, LeaveOpen, Rollback
<1>5. CASE Cancel \/ FlushRemaining \/ Exit \/ Crash \/ Restart
  BY <1>1, <1>2, <1>5
  DEF Cancel, FlushRemaining, InsertOrIgnore, Rollback, Exit, Crash, End, Restart
<1> QED  BY <1>1, <1>3, <1>4, <1>5 DEF TelemetryNext, telemetryVars, Emit, Fill, Close

LEMMA NextKeeps ==
  ASSUME IInv, [TelemetryNext]_telemetryVars
  PROVE  IInv'
<1>1. CASE \/ CallTask \/ SystemEvent \/ Restart \/ UNCHANGED telemetryVars
           \/ \E s \in Tradable : Fill(s) \/ Close(s)
  <2>1. UNCHANGED <<evaluated, lost, queue, drain, buf>>
    BY <1>1 DEF CallTask, Update, Acquire, SystemEvent, Restart, telemetryVars, Fill, Close, trades
  <2> QED  BY <2>1, TableGrows, QuietStep
<1> QED
  BY <1>1, EmitKeeps, TakeKeeps, SentKeeps, FlushKeeps, StopKeeps, EndKeeps
  DEF TelemetryNext, Telemetry, Exit, Crash

-----------------------------------------------------------------------------
(* The theorems                                                            *)

(* signal_telemetry.py: a record the executor handed over is waiting, or   *)
(* in signal_records, or among those the code gives up by name.            *)
THEOREM NoneUnaccountedFor == TelemetrySpec => []RecordsAccountedFor
<1>1. TelemetryInit => IInv
  BY Empty DEF TelemetryInit, Get, IInv, Shape, RecordsAccountedFor
<1>2. IInv /\ [TelemetryNext]_telemetryVars => IInv'  BY NextKeeps
<1>3. IInv => RecordsAccountedFor  BY DEF IInv
<1> QED  BY <1>1, <1>2, <1>3, PTL DEF TelemetrySpec

(* INSERT OR IGNORE and one connection for all: a committed row keeps its  *)
(* outcome, whoever commits or rolls back.                                 *)
THEOREM CommittedStaysForGood == TelemetrySpec => CommittedStays
<1>1. [TelemetryNext]_telemetryVars => [db.rows \subseteq db'.rows /\ db.outcomes \subseteq db'.outcomes]_telemetryVars
  BY TableGrows
<1> QED  BY <1>1, PTL DEF TelemetrySpec, CommittedStays
=============================================================================
