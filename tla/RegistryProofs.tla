----------------------------- MODULE RegistryProofs -----------------------------
(***************************************************************************)
(* RowLeads and StatusClimbs of Registry, for any number of tabs, names,   *)
(* versions and specifications, whatever the gates let pass and wherever   *)
(* calls break off, provided that two names never share a file.            *)
(*                                                                         *)
(* Why it holds: only the operator registers, one specification at a time, *)
(* and never over a row; a promotion writes the file of its own row and    *)
(* only after the row; and of two promotions of one row, one is a tab's,   *)
(* which asks for LIVE, the highest status.                                *)
(***************************************************************************)
EXTENDS Registry, TLAPS

DistinctFiles == \A m, n \in Names : SafeName[m] = SafeName[n] => m = n

-----------------------------------------------------------------------------
(* The inductive invariant                                                 *)

Pcs == {"idle", "check", "empty", "dump", "insert", "load", "update", "pick"}

(* Rows are distinct by their id and by their name and version.            *)
Tables ==
  /\ db \in SUBSET Rows /\ made \in 0..MaxSpecs
  /\ \A r \in db : r.id <= made
  /\ \A r, q \in db : r.id = q.id \/ SameKey(r, q) => r = q

(* A file holds a specification of its own path; what the trader runs was  *)
(* in a file.                                                              *)
Files ==
  /\ running \in Specs \union {Nothing}
  /\ yaml \in [Names \X Versions -> Specs \union {Absent, Torn}]
  /\ \A p \in Names \X Versions : Loads(yaml[p]) => Path(yaml[p]) = p

Writing(k) == k.pc \in {"empty", "dump"}
Registering(k) == k.pc \in {"check", "insert"} \/ (Writing(k) /\ k.then = "insert")

(* The operator's specification has no row yet, and once it has found none *)
(* of its name and version, there is none.                                 *)
Registration ==
  LET k == call[Operator] IN
  Registering(k) =>
    /\ k.spec \in Specs /\ k.spec.id = made
    /\ \A r \in db : r.id # made
    /\ k.pc # "check" => \A r \in db : ~SameKey(r, k.spec)
    /\ k.pc = "insert" => yaml[Path(k.spec)] = k.spec

(* What a promotion asks for is higher than the row, or the highest.       *)
Aims(c, r, status) ==
  IF c = Operator THEN Rank[r.status] < Rank[status] \/ status = "LIVE"
  ELSE status = "LIVE" /\ Rank[r.status] >= Rank["PAPER"]

Loading(c, k) ==
  k.pc = "load" => /\ k.status \in Statuses
                   /\ \E r \in db : Key(r) = k.row /\ Aims(c, r, k.status)
Updating(c, k) ==
  k.pc = "update" => /\ k.spec \in Specs /\ k.id = k.spec.id
                     /\ \E r \in db : Key(r) = Key(k.spec) /\ Aims(c, r, k.spec.status)
Rewriting(k) ==
  Writing(k) /\ ~Registering(k) =>
    k.spec \in Specs /\ \E r \in db : SameKey(r, k.spec) /\ BehindItsRow(k.spec, r)
Picking(k) ==
  k.pc = "pick" => \E r \in db : Key(r) = k.row

CallInv(c) ==
  LET k == call[c] IN
  /\ k.pc \in Pcs
  /\ Registering(k) => c = Operator
  /\ Loading(c, k) /\ Updating(c, k) /\ Rewriting(k) /\ Picking(k)

Calls == call = [c \in Callers |-> call[c]] /\ \A c \in Callers : CallInv(c)

IInv == Tables /\ Files /\ Registration /\ Calls /\ RowLeads

-----------------------------------------------------------------------------
(* Data                                                                    *)

LEMMA SpecsLoad ==
  ASSUME NEW s \in Specs
  PROVE  Loads(s)
BY DEF Specs, Loads, Absent, Torn

LEMMA SpecHasPath ==
  ASSUME NEW s \in Specs \union Rows
  PROVE  Path(s) \in Names \X Versions
BY RegistryAssumption DEF Specs, Rows, Path

(* Where names have files of their own, a path is a name and a version.    *)
LEMMA PathIsKey ==
  ASSUME DistinctFiles, NEW r \in Specs \union Rows, NEW s \in Specs \union Rows
  PROVE  Path(r) = Path(s) <=> SameKey(r, s)
BY DEF DistinctFiles, Specs, Rows, Path, SameKey

LEMMA RankType ==
  /\ \A s \in Statuses : Rank[s] \in 0..3
  /\ Rank["LIVE"] = 3 /\ Rank["PAPER"] = 2 /\ "LIVE" \in Statuses
  /\ \A s \in Statuses : Rank[s] >= 3 => s = "LIVE"
BY DEF Statuses, Rank

(* Rows of the same specification: what Key compares.                      *)
LEMMA KeyFields ==
  ASSUME NEW r, NEW s
  PROVE  Key(r) = Key(s) <=> r.id = s.id /\ SameKey(r, s)
BY DEF Key, SameKey

-----------------------------------------------------------------------------
(* Steps of one call that leave both stores alone                          *)

LEMMA OtherCalls ==
  ASSUME NEW c \in Callers, NEW k, Goes(c, k)
  PROVE  \A d \in Callers \ {c} : call'[d] = call[d]
BY DEF Goes

LEMMA OwnCall ==
  ASSUME Calls, NEW c \in Callers, NEW k, Goes(c, k)
  PROVE  call'[c] = k /\ call' = [d \in Callers |-> call'[d]]
BY DEF Goes, Calls

(* A caller that goes on keeps what the others know of the table.          *)
LEMMA OneCallGoesOn ==
  ASSUME Calls, NEW c \in Callers, NEW k, Goes(c, k), UNCHANGED db, CallInv(c)'
  PROVE  Calls'
<1>1. \A d \in Callers \ {c} : CallInv(d)'
  BY OtherCalls DEF Calls, CallInv, Registering, Writing, Loading, Updating, Rewriting, Picking
<1> QED  BY <1>1, OwnCall DEF Calls

LEMMA QuietStep ==
  ASSUME IInv, NEW c \in Callers, NEW k, Goes(c, k), UNCHANGED <<db, yaml, made, running>>,
         CallInv(c)', Registration'
  PROVE  IInv'
<1>1. Calls'  BY OneCallGoesOn DEF IInv
<1>2. Tables' /\ Files' /\ RowLeads'  BY DEF IInv, Tables, Files, RowLeads
<1> QED  BY <1>1, <1>2 DEF IInv

(* A caller that is no operator has nothing to do with registering.        *)
LEMMA OthersDoNotRegister ==
  ASSUME Registration, NEW c \in Callers, c # Operator, NEW k, Goes(c, k),
         UNCHANGED <<db, yaml, made>>
  PROVE  Registration'
<1>1. call'[Operator] = call[Operator]  BY OtherCalls DEF Callers
<1> QED  BY <1>1 DEF Registration, Registering, Writing

LEMMA CallEnds ==
  ASSUME IInv, NEW c \in Callers, Done(c), UNCHANGED <<db, yaml, made, running>>
  PROVE  IInv'
<1>1. call'[c] = Idle  BY OwnCall DEF Done, IInv
<1>2. CallInv(c)'
  BY <1>1 DEF CallInv, Idle, Pcs, Registering, Writing, Loading, Updating, Rewriting, Picking
<1>3. Registration'
  <2>1. CASE c = Operator  BY <1>1, <2>1 DEF Registration, Registering, Writing, Idle
  <2>2. CASE c # Operator  BY <2>2, OthersDoNotRegister DEF Done, IInv
  <2> QED  BY <2>1, <2>2
<1> QED  BY <1>2, <1>3, QuietStep DEF Done

LEMMA BreakKeeps ==
  ASSUME IInv, NEW c \in Callers, Break(c)
  PROVE  IInv'
BY CallEnds DEF Break

LEMMA CheckKeeps ==
  ASSUME IInv, NEW c \in Callers, Check(c)
  PROVE  IInv'
<1>1. CASE Registered(call[c].spec)  BY <1>1, CallEnds DEF Check
<1>2. CASE ~Registered(call[c].spec)
  <2> DEFINE k == [pc |-> "empty", spec |-> call[c].spec, then |-> "insert"]
  <2>1. Goes(c, k) /\ UNCHANGED <<db, yaml, made, running>>  BY <1>2 DEF Check
  <2>2. call'[c] = k  BY <2>1, OwnCall DEF IInv
  <2>3. c = Operator  BY DEF IInv, Calls, CallInv, Registering, Check
  <2>4. CallInv(c)'
    BY <2>2, <2>3 DEF CallInv, Pcs, Registering, Writing, Loading, Updating, Rewriting, Picking
  <2>5. Registration'
    <3>1. Registering(call[Operator]) /\ call[Operator].spec = k.spec
      BY <2>3 DEF Check, Registering
    <3> QED  BY <1>2, <2>1, <2>2, <2>3, <3>1 DEF Registration, IInv, Registered
  <2> QED  BY <2>1, <2>4, <2>5, QuietStep
<1> QED  BY <1>1, <1>2

LEMMA PromoteKeeps ==
  ASSUME IInv, NEW c \in Callers, Promote(c)
  PROVE  IInv'
<1>1. PICK r \in db, status \in Statuses :
        /\ call[c] = Idle /\ c # Trader
        /\ c \in Tabs => r.status = "PAPER" /\ status = "LIVE"
        /\ Higher(r, status)
        /\ Goes(c, [pc |-> "load", row |-> Key(r), status |-> status])
  BY DEF Promote
<1> DEFINE k == [pc |-> "load", row |-> Key(r), status |-> status]
<1>2. Goes(c, k) /\ UNCHANGED <<db, yaml, made, running>>  BY <1>1 DEF Promote
<1>3. call'[c] = k  BY <1>2, OwnCall DEF IInv
<1>4. r.status \in Statuses  BY DEF IInv, Tables, Rows
<1>5. Aims(c, r, status)
  BY <1>1, <1>4, RankType DEF Aims, Higher, Callers
<1>6. CallInv(c)'
  BY <1>2, <1>3, <1>5
  DEF CallInv, Pcs, Registering, Writing, Loading, Updating, Rewriting, Picking
<1>7. Registration'
  <2>1. CASE c = Operator  BY <1>3, <2>1 DEF Registration, Registering, Writing
  <2>2. CASE c # Operator  BY <1>2, <2>2, OthersDoNotRegister DEF IInv
  <2> QED  BY <2>1, <2>2
<1> QED  BY <1>2, <1>6, <1>7, QuietStep

(* The file that is loaded is that of the row, for the row has one.        *)
LEMMA FileOfItsRow ==
  ASSUME DistinctFiles, IInv, NEW r \in db, Loads(yaml[Path(r)])
  PROVE  /\ yaml[Path(r)] \in Specs /\ Key(yaml[Path(r)]) = Key(r)
         /\ BehindItsRow(yaml[Path(r)], r)
<1>1. r \in Rows /\ Path(r) \in Names \X Versions
  BY SpecHasPath DEF IInv, Tables
<1>2. yaml[Path(r)] \in Specs /\ Path(yaml[Path(r)]) = Path(r)
  BY <1>1 DEF IInv, Files, Loads
<1>3. SameKey(yaml[Path(r)], r)  BY <1>1, <1>2, PathIsKey
<1>4. BehindItsRow(yaml[Path(r)], r)  BY DEF IInv, RowLeads
<1> QED  BY <1>2, <1>3, <1>4, KeyFields DEF BehindItsRow

LEMMA LoadKeeps ==
  ASSUME DistinctFiles, IInv, NEW c \in Callers, Load(c)
  PROVE  IInv'
<1> DEFINE y == yaml[Path(call[c].row)]
           k == [pc |-> "update", id |-> call[c].row.id,
                 spec |-> [y EXCEPT !.status = call[c].status]]
<1>1. CASE Done(c)  BY <1>1, CallEnds DEF Load
<1>2. CASE Loads(y) /\ Goes(c, k)
  <2>1. PICK r \in db : Key(r) = call[c].row /\ Aims(c, r, call[c].status)
    BY DEF IInv, Calls, CallInv, Loading, Load
  <2>2. Path(call[c].row) = Path(r)  BY <2>1 DEF Path, Key
  <2>3. y \in Specs /\ Key(y) = Key(r)  BY <1>2, <2>2, FileOfItsRow
  <2>4. call[c].status \in Statuses  BY DEF IInv, Calls, CallInv, Loading, Load
  <2>5. k.spec \in Specs /\ Key(k.spec) = Key(r) /\ k.spec.status = call[c].status
        /\ k.spec.id = k.id
    BY <2>1, <2>3, <2>4 DEF Specs, Key
  <2>6. UNCHANGED <<db, yaml, made, running>>  BY DEF Load
  <2>7. call'[c] = k  BY <1>2, OwnCall DEF IInv
  <2>8. k.pc = "update" /\ r \in db' /\ Aims(c, r, k.spec.status)
    BY <2>1, <2>5, <2>6
  <2> HIDE DEF k
  <2>9. CallInv(c)'
    BY <2>5, <2>7, <2>8 DEF CallInv, Pcs, Registering, Writing, Loading, Updating, Rewriting, Picking
  <2>10. Registration'
    <3>1. CASE c = Operator  BY <2>7, <2>8, <3>1 DEF Registration, Registering, Writing
    <3>2. CASE c # Operator  BY <1>2, <2>6, <3>2, OthersDoNotRegister DEF IInv
    <3> QED  BY <3>1, <3>2
  <2> QED  BY <1>2, <2>6, <2>9, <2>10, QuietStep
<1> QED  BY <1>1, <1>2 DEF Load

-----------------------------------------------------------------------------
(* The trader                                                              *)

LEMMA StartKeeps ==
  ASSUME IInv, Start
  PROVE  IInv'
<1>1. CASE db = {} /\ running' = Nothing /\ UNCHANGED call
  <2>1. running' = Nothing /\ UNCHANGED <<db, yaml, call, made>>  BY <1>1 DEF Start
  <2> QED
    BY <2>1 DEF IInv, Tables, Files, RowLeads, Registration, Registering, Writing, Calls, CallInv,
                Loading, Updating, Rewriting, Picking
<1>2. ASSUME NEW r \in db, Goes(Trader, [pc |-> "pick", row |-> Key(r)]), UNCHANGED running
      PROVE  IInv'
  <2> DEFINE k == [pc |-> "pick", row |-> Key(r)]
  <2>1. Goes(Trader, k) /\ UNCHANGED <<db, yaml, made, running>> /\ Trader \in Callers
    BY <1>2 DEF Start, Callers
  <2>2. call'[Trader] = k  BY <2>1, OwnCall DEF IInv
  <2>3. CallInv(Trader)'
    BY <1>2, <2>1, <2>2
    DEF CallInv, Pcs, Registering, Writing, Loading, Updating, Rewriting, Picking
  <2>4. Registration'
    BY <2>1, OthersDoNotRegister, RegistryAssumption DEF IInv
  <2> QED  BY <2>1, <2>3, <2>4, QuietStep
<1> QED  BY <1>1, <1>2 DEF Start

LEMMA LoadActiveKeeps ==
  ASSUME DistinctFiles, IInv, LoadActive
  PROVE  IInv'
<1> DEFINE y == yaml[Path(call[Trader].row)]
<1>1. PICK r \in db : Key(r) = call[Trader].row
  BY DEF IInv, Calls, CallInv, Picking, LoadActive, Callers
<1>2. Path(call[Trader].row) = Path(r)  BY <1>1 DEF Path, Key
<1>3. running' = IF Loads(y) THEN y ELSE Nothing  BY DEF LoadActive
<1>4. running' # Nothing => BehindItsRow(running', r)
  BY <1>2, <1>3, FileOfItsRow
<1>5. RowLeads'
  BY <1>1, <1>4 DEF IInv, RowLeads, LoadActive
<1>6. call'[Trader] = Idle /\ Trader \in Callers
  BY OwnCall DEF LoadActive, Done, IInv, Callers
<1>7. CallInv(Trader)'
  BY <1>6 DEF CallInv, Idle, Pcs, Registering, Writing, Loading, Updating, Rewriting, Picking
<1>8. Calls'  BY <1>6, <1>7, OneCallGoesOn DEF LoadActive, Done, IInv
<1>9. Registration'
  BY <1>6, OthersDoNotRegister, RegistryAssumption DEF LoadActive, Done, IInv
<1>10. Loads(y) => y \in Specs
  <2>1. Path(r) \in Names \X Versions  BY SpecHasPath DEF IInv, Tables
  <2> QED  BY <1>2, <2>1 DEF IInv, Files, Loads
<1>11. Files'  BY <1>3, <1>10 DEF IInv, Files, LoadActive, Loads
<1> QED  BY <1>5, <1>8, <1>9, <1>11 DEF IInv, Tables, LoadActive

-----------------------------------------------------------------------------
(* Registering                                                             *)

LEMMA OfferKeeps ==
  ASSUME IInv, NEW c \in Callers, NEW s \in Specs, s.id = made + 1, Offer(c, s)
  PROVE  IInv'
<1> DEFINE k == [pc |-> "check", spec |-> s]
<1>1. /\ c = Operator /\ Goes(c, k) /\ made' = made + 1 /\ made < MaxSpecs
      /\ UNCHANGED <<db, yaml, running>>
  BY DEF Offer
<1>2. call'[c] = k  BY <1>1, OwnCall DEF IInv
<1>3. CallInv(c)'
  BY <1>1, <1>2 DEF CallInv, Pcs, Registering, Writing, Loading, Updating, Rewriting, Picking
<1>4. Calls'  BY <1>1, <1>3, OneCallGoesOn DEF IInv
<1>5. made \in Nat /\ \A r \in db : r.id <= made /\ r.id \in Int
  BY DEF IInv, Tables, Rows
<1>6. Tables'  BY <1>1, <1>5, RegistryAssumption DEF IInv, Tables, SameKey
<1>7. Registration'
  BY <1>1, <1>2, <1>5 DEF Registration, Registering, Writing
<1> QED  BY <1>1, <1>4, <1>6, <1>7 DEF IInv, Files, RowLeads

LEMMA BuildKeeps ==
  ASSUME IInv, NEW c \in Callers, Build(c)
  PROVE  IInv'
<1>1. PICK n \in Names, m \in Metrics :
        /\ NextVersion(n) \in Versions
        /\ Offer(c, Spec0(n, NextVersion(n), "BACKTEST", m))
  BY DEF Build
<1> DEFINE v == NextVersion(n)
<1>2. v \in Versions  BY <1>1
<1> HIDE DEF v
<1>3. made < MaxSpecs /\ made \in Nat /\ MaxSpecs \in Nat
  BY <1>1, RegistryAssumption DEF Offer, IInv, Tables
<1>4. Spec0(n, v, "BACKTEST", m) \in Specs /\ Spec0(n, v, "BACKTEST", m).id = made + 1
  BY <1>2, <1>3 DEF Spec0, Specs, Statuses, Rank
<1> QED  BY <1>1, <1>4, OfferKeeps DEF v

LEMMA DraftKeeps ==
  ASSUME IInv, NEW c \in Callers, Draft(c)
  PROVE  IInv'
<1>1. PICK n \in Names, v \in Versions, m \in Metrics : Offer(c, Spec0(n, v, "RESEARCH", m))
  BY DEF Draft
<1>2. made < MaxSpecs /\ made \in Nat /\ MaxSpecs \in Nat
  BY <1>1, RegistryAssumption DEF Offer, IInv, Tables
<1>3. Spec0(n, v, "RESEARCH", m) \in Specs /\ Spec0(n, v, "RESEARCH", m).id = made + 1
  BY <1>2 DEF Spec0, Specs, Statuses, Rank
<1> QED  BY <1>1, <1>3, OfferKeeps

(* A caller that writes a file knows the specification; it is either one   *)
(* without a row, or that of a row which is not behind.                    *)
LEMMA Written ==
  ASSUME IInv, NEW c \in Callers, Writing(call[c])
  PROVE  /\ call[c].spec \in Specs /\ Path(call[c].spec) \in Names \X Versions
         /\ Registering(call[c]) => c = Operator /\ \A r \in db : ~SameKey(r, call[c].spec)
<1>1. call[c].spec \in Specs
  BY DEF IInv, Calls, CallInv, Registration, Rewriting
<1>2. Registering(call[c]) => c = Operator /\ \A r \in db : ~SameKey(r, call[c].spec)
  BY DEF IInv, Calls, CallInv, Registration, Writing
<1> QED  BY <1>1, <1>2, SpecHasPath

(* Writing another file does not touch what the operator has written.      *)
LEMMA OperatorsFile ==
  ASSUME DistinctFiles, IInv, NEW c \in Callers, c # Operator, Writing(call[c]),
         NEW k, Goes(c, k), NEW f, yaml' = [yaml EXCEPT ![Path(call[c].spec)] = f],
         UNCHANGED <<db, made>>
  PROVE  Registration'
<1>1. call'[Operator] = call[Operator]  BY OtherCalls DEF Callers
<1> DEFINE o == call[Operator]
<1>2. CASE o.pc = "insert"
  <2>1. o.spec \in Specs /\ \A r \in db : ~SameKey(r, o.spec)
    BY <1>2 DEF IInv, Registration, Registering
  <2>2. PICK r \in db : SameKey(r, call[c].spec)
    BY DEF IInv, Calls, CallInv, Rewriting
  <2>3. ~SameKey(o.spec, call[c].spec)  BY <2>1, <2>2 DEF SameKey
  <2>4. Path(o.spec) # Path(call[c].spec) /\ Path(o.spec) \in Names \X Versions
    BY <2>1, <2>3, Written, PathIsKey, SpecHasPath
  <2>5. yaml'[Path(o.spec)] = yaml[Path(o.spec)]  BY <2>4 DEF IInv, Files
  <2> QED  BY <1>1, <1>2, <2>5 DEF IInv, Registration, Registering, Writing
<1>3. CASE o.pc # "insert"
  BY <1>1, <1>3 DEF IInv, Registration, Registering, Writing
<1> QED  BY <1>2, <1>3

LEMMA EmptyKeeps ==
  ASSUME DistinctFiles, IInv, NEW c \in Callers, Empty(c)
  PROVE  IInv'
<1> DEFINE k == [call[c] EXCEPT !.pc = "dump"]
           p == Path(call[c].spec)
<1>1. /\ Goes(c, k) /\ UNCHANGED <<db, made, running>>
      /\ yaml' = [yaml EXCEPT ![p] = Torn] /\ call[c].pc = "empty" /\ Writing(call[c])
  BY DEF Empty, Writing
<1>2. p \in Names \X Versions  BY <1>1, Written
<1>3. ~Loads(Torn) /\ Torn # Absent  BY DEF Loads, Torn, Absent
<1>4. Files'  BY <1>1, <1>2, <1>3 DEF IInv, Files
<1>5. \A q \in Names \X Versions : q # p => yaml'[q] = yaml[q]  BY <1>1 DEF IInv, Files
<1>6. yaml'[p] = Torn  BY <1>1, <1>2 DEF IInv, Files
<1>7. \A r \in db : Path(r) \in Names \X Versions  BY SpecHasPath DEF IInv, Tables
<1>8. RowLeads'  BY <1>1, <1>3, <1>5, <1>6, <1>7 DEF IInv, RowLeads
<1>9. call'[c] = k /\ CallInv(c)  BY <1>1, OwnCall DEF IInv, Calls
<1>10. k.pc = "dump" /\ k.spec = call[c].spec /\ k.then = call[c].then
  OBVIOUS
<1> HIDE DEF k
<1>11. CallInv(c)'
  BY <1>1, <1>9, <1>10
  DEF CallInv, Pcs, Registering, Writing, Loading, Updating, Rewriting, Picking
<1>12. Registration'
  <2>1. CASE c = Operator
    BY <1>1, <1>9, <1>10, <2>1 DEF IInv, Registration, Registering, Writing
  <2>2. CASE c # Operator  BY <1>1, <2>2, OperatorsFile
  <2> QED  BY <2>1, <2>2
<1>13. Calls'  BY <1>1, <1>11, OneCallGoesOn DEF IInv
<1> QED  BY <1>1, <1>4, <1>8, <1>12, <1>13 DEF IInv, Tables

LEMMA DumpKeeps ==
  ASSUME DistinctFiles, IInv, NEW c \in Callers, Dump(c)
  PROVE  IInv'
<1> DEFINE s == call[c].spec
           p == Path(s)
<1>1. /\ UNCHANGED <<db, made, running>> /\ yaml' = [yaml EXCEPT ![p] = s]
      /\ call[c].pc = "dump" /\ Writing(call[c])
  BY DEF Dump, Writing
<1>2. p \in Names \X Versions /\ s \in Specs /\ Loads(s)  BY <1>1, Written, SpecsLoad
<1>3. Files'  BY <1>1, <1>2 DEF IInv, Files
<1>4. \A q \in Names \X Versions : q # p => yaml'[q] = yaml[q]  BY <1>1 DEF IInv, Files
<1>5. yaml'[p] = s  BY <1>1, <1>2 DEF IInv, Files
<1>6. \A r \in db : r \in Rows /\ Path(r) \in Names \X Versions
  BY SpecHasPath DEF IInv, Tables
<1>7. ASSUME NEW r \in db, Path(r) = p  PROVE BehindItsRow(s, r)
  <2>1. SameKey(r, s)  BY <1>2, <1>6, <1>7, PathIsKey
  <2>2. ~Registering(call[c])  BY <1>1, <2>1, Written
  <2>3. PICK q \in db : SameKey(q, s) /\ BehindItsRow(s, q)
    BY <1>1, <2>2 DEF IInv, Calls, CallInv, Rewriting
  <2>4. q = r  BY <2>1, <2>3 DEF IInv, Tables, SameKey
  <2> QED  BY <2>3, <2>4
<1>8. \A r \in db : /\ yaml'[Path(r)] # Absent
                    /\ Loads(yaml'[Path(r)]) => BehindItsRow(yaml'[Path(r)], r)
  <2>1. s # Absent  BY <1>2 DEF Loads
  <2> QED  BY <1>4, <1>5, <1>6, <1>7, <2>1 DEF IInv, RowLeads
<1>9. RowLeads'  BY <1>1, <1>8 DEF IInv, RowLeads
<1>10. CASE call[c].then = "insert" /\ Goes(c, [pc |-> "insert", spec |-> s])
  <2> DEFINE k == [pc |-> "insert", spec |-> s]
  <2>1. call'[c] = k /\ c = Operator
    BY <1>1, <1>10, OwnCall DEF IInv, Calls, CallInv, Registering
  <2>2. CallInv(c)'
    BY <2>1 DEF CallInv, Pcs, Registering, Writing, Loading, Updating, Rewriting, Picking
  <2>3. Registration'
    BY <1>1, <1>5, <1>10, <2>1 DEF IInv, Registration, Registering, Writing
  <2>4. Calls'  BY <1>1, <1>10, <2>2, OneCallGoesOn DEF IInv
  <2> QED  BY <1>1, <1>3, <1>9, <2>3, <2>4 DEF IInv, Tables
<1>11. CASE Done(c)
  <2>1. call'[c] = Idle  BY <1>11, OwnCall DEF Done, IInv
  <2>2. CallInv(c)'
    BY <2>1 DEF CallInv, Idle, Pcs, Registering, Writing, Loading, Updating, Rewriting, Picking
  <2>3. Registration'
    <3>1. CASE c = Operator  BY <2>1, <3>1 DEF Registration, Registering, Writing, Idle
    <3>2. CASE c # Operator  BY <1>1, <1>11, <3>2, OperatorsFile DEF Done
    <3> QED  BY <3>1, <3>2
  <2>4. Calls'  BY <1>1, <1>11, <2>2, OneCallGoesOn DEF IInv, Done
  <2> QED  BY <1>1, <1>3, <1>9, <2>3, <2>4 DEF IInv, Tables
<1> QED  BY <1>10, <1>11 DEF Dump

(* What a caller knows of the table, it still knows of a larger one.       *)
LEMMA InsertKeeps ==
  ASSUME DistinctFiles, IInv, NEW c \in Callers, Insert(c)
  PROVE  IInv'
<1> DEFINE s == call[c].spec
           n == RowOf(s)
<1>1. c = Operator /\ Registering(call[c])
  BY DEF Insert, IInv, Calls, CallInv, Registering
<1>2. /\ s \in Specs /\ s.id = made /\ yaml[Path(s)] = s
      /\ \A r \in db : r.id # made /\ ~SameKey(r, s)
  BY <1>1 DEF Insert, IInv, Registration
<1>3. db' = db \union {n} /\ Done(c) /\ UNCHANGED <<yaml, made, running>>
  BY <1>2 DEF Insert
<1>4. n \in Rows /\ SameKey(n, s) /\ BehindItsRow(s, n) /\ n.id = s.id /\ Path(n) = Path(s)
  BY <1>2, RankType DEF RowOf, Rows, Specs, SameKey, BehindItsRow, Path
<1> HIDE DEF n
<1>5. Tables'
  <2>1. \A r \in db : ~(r.id = n.id \/ SameKey(r, n) \/ SameKey(n, r))
    BY <1>2, <1>4 DEF SameKey
  <2>2. n.id <= made  BY <1>2, <1>4 DEF IInv, Tables
  <2> QED  BY <1>3, <1>4, <2>1, <2>2 DEF IInv, Tables, SameKey
<1>6. Loads(s) /\ s # Absent  BY <1>2, SpecsLoad DEF Loads
<1>7. RowLeads'
  <2>1. yaml[Path(n)] = s  BY <1>2, <1>4
  <2> QED  BY <1>3, <1>4, <1>6, <2>1 DEF IInv, RowLeads
<1>8. call'[c] = Idle  BY <1>3, OwnCall DEF Done, IInv
<1>9. CallInv(c)'
  BY <1>8 DEF CallInv, Idle, Pcs, Registering, Writing, Loading, Updating, Rewriting, Picking
<1>10. \A d \in Callers \ {c} : call'[d] = call[d]  BY <1>3, OtherCalls DEF Done
<1>11. \A d \in Callers \ {c} : CallInv(d)'
  BY <1>3, <1>10
  DEF IInv, Calls, CallInv, Registering, Writing, Loading, Updating, Rewriting, Picking
<1>12. Calls'  BY <1>3, <1>9, <1>11, OwnCall DEF IInv, Calls, Done
<1>13. Registration'  BY <1>1, <1>8 DEF Registration, Registering, Writing, Idle
<1> QED  BY <1>3, <1>5, <1>7, <1>12, <1>13 DEF IInv, Files

-----------------------------------------------------------------------------
(* Promoting: the row                                                      *)

Raised(c, r) ==
  IF r.id = call[c].id THEN [r EXCEPT !.status = call[c].spec.status] ELSE r

(* The row that is updated is that of the specification, and it rises,     *)
(* although its rank was read before.                                      *)
LEMMA RowsRise ==
  ASSUME IInv, NEW c \in Callers, call[c].pc = "update", NEW r \in db
  PROVE  /\ Raised(c, r) \in Rows /\ Raised(c, r).id = r.id
         /\ Raised(c, r).name = r.name /\ Raised(c, r).version = r.version
         /\ Rank[Raised(c, r).status] >= Rank[r.status]
         /\ Rank[r.status] \in 0..3 /\ Rank[Raised(c, r).status] \in 0..3
<1> DEFINE s == call[c].spec
<1>1. r \in Rows /\ s \in Specs
  BY DEF IInv, Tables, Calls, CallInv, Updating
<1>2. CASE r.id = call[c].id
  <2>1. PICK q \in db : Key(q) = Key(s) /\ Aims(c, q, s.status) /\ s.id = call[c].id
    BY DEF IInv, Calls, CallInv, Updating
  <2>2. q = r
    <3>1. q.id = r.id  BY <1>2, <2>1 DEF Key
    <3> QED  BY <3>1 DEF IInv, Tables
  <2>3. s.status \in Statuses /\ r.status \in Statuses  BY <1>1 DEF Specs, Rows
  <2>4. Rank[s.status] >= Rank[r.status]  BY <2>1, <2>2, <2>3, RankType DEF Aims
  <2>5. Raised(c, r) = [r EXCEPT !.status = s.status]  BY <1>2 DEF Raised
  <2> QED  BY <1>1, <2>3, <2>4, <2>5, RankType DEF Rows
<1>3. CASE r.id # call[c].id  BY <1>1, <1>3, RankType DEF Raised, Rows
<1> QED  BY <1>2, <1>3

LEMMA BehindRisesToo ==
  ASSUME IInv, NEW c \in Callers, call[c].pc = "update", NEW r \in db,
         NEW s \in Specs, BehindItsRow(s, r)
  PROVE  BehindItsRow(s, Raised(c, r))
<1>1. Rank[s.status] \in 0..3  BY RankType DEF Specs
<1> QED  BY <1>1, RowsRise DEF BehindItsRow


(* What another caller knows of its row is still true of the raised one:   *)
(* one of the two is the operator, or both are tabs that ask for LIVE.     *)
LEMMA OthersStillAim ==
  ASSUME IInv, NEW c \in Callers, call[c].pc = "update", NEW d \in Callers, d # c,
         NEW r \in db, NEW status \in Statuses, Aims(d, r, status)
  PROVE  Aims(d, Raised(c, r), status)
<1>1. Rank[status] \in 0..3  BY RankType
<1>2. CASE d # Operator  BY <1>2, RowsRise, RankType DEF Aims
<1>3. CASE d = Operator /\ r.id # call[c].id  BY <1>3 DEF Aims, Raised
<1>4. CASE d = Operator /\ r.id = call[c].id
  <2> DEFINE s == call[c].spec
  <2>1. PICK q \in db : Key(q) = Key(s) /\ Aims(c, q, s.status) /\ s.id = call[c].id
    BY DEF IInv, Calls, CallInv, Updating
  <2>2. q = r
    <3>1. q.id = r.id  BY <1>4, <2>1 DEF Key
    <3> QED  BY <3>1 DEF IInv, Tables
  <2>3. Rank[r.status] >= Rank["PAPER"]  BY <1>4, <2>1, <2>2 DEF Aims
  <2>4. Rank[r.status] \in 0..3  BY RowsRise
  <2>5. status = "LIVE"  BY <1>1, <1>4, <2>3, <2>4, RankType DEF Aims
  <2> QED  BY <1>4, <2>5 DEF Aims
<1> QED  BY <1>2, <1>3, <1>4

LEMMA UpdateKeeps ==
  ASSUME DistinctFiles, IInv, NEW c \in Callers, Update(c)
  PROVE  IInv'
<1> DEFINE s == call[c].spec
           k == [pc |-> "empty", spec |-> s, then |-> "return"]
<1>1. /\ call[c].pc = "update" /\ Goes(c, k) /\ UNCHANGED <<yaml, made, running>>
      /\ db' = {Raised(c, r) : r \in db}
  BY DEF Update, Raised
<1>2. /\ \A r \in db : Raised(c, r) \in db'
      /\ \A q \in db' : \E r \in db : q = Raised(c, r)
  BY <1>1
<1>3. \A r \in db :
        /\ Raised(c, r) \in Rows /\ Raised(c, r).id = r.id
        /\ Raised(c, r).name = r.name /\ Raised(c, r).version = r.version
  BY <1>1, RowsRise
<1>4. \A r \in db : /\ Key(Raised(c, r)) = Key(r) /\ Path(Raised(c, r)) = Path(r)
                    /\ \A t : SameKey(Raised(c, r), t) <=> SameKey(r, t)
                    /\ \A t : SameKey(t, Raised(c, r)) <=> SameKey(t, r)
  BY <1>3 DEF Key, Path, SameKey
<1>5. Tables'
  <2>1. db' \in SUBSET Rows  BY <1>2, <1>3
  <2>2. \A q \in db' : q.id <= made'  BY <1>1, <1>2, <1>3 DEF IInv, Tables
  <2>3. ASSUME NEW q1 \in db', NEW q2 \in db', q1.id = q2.id \/ SameKey(q1, q2)
        PROVE  q1 = q2
    <3>1. PICK r1 \in db : q1 = Raised(c, r1)  BY <1>2
    <3>2. PICK r2 \in db : q2 = Raised(c, r2)  BY <1>2
    <3>3. r1.id = r2.id \/ SameKey(r1, r2)  BY <1>3, <2>3, <3>1, <3>2 DEF SameKey
    <3>4. r1 = r2  BY <3>3 DEF IInv, Tables
    <3> QED  BY <3>1, <3>2, <3>4
  <2> QED  BY <1>1, <2>1, <2>2, <2>3 DEF IInv, Tables
<1>6. RowLeads'
  <2>1. ASSUME NEW q \in db'
        PROVE  /\ yaml[Path(q)] # Absent
               /\ Loads(yaml[Path(q)]) => BehindItsRow(yaml[Path(q)], q)
    <3>1. PICK r \in db : q = Raised(c, r)  BY <1>2
    <3>2. Path(q) = Path(r) /\ Path(r) \in Names \X Versions
      BY <1>4, <3>1, SpecHasPath DEF IInv, Tables
    <3>3. Loads(yaml[Path(r)]) => yaml[Path(r)] \in Specs
      BY <3>2 DEF IInv, Files, Loads
    <3> QED  BY <1>1, <3>1, <3>2, <3>3, BehindRisesToo DEF IInv, RowLeads
  <2>2. running # Nothing => \E q \in db' : BehindItsRow(running, q)
    <3>1. SUFFICES ASSUME running # Nothing PROVE \E q \in db' : BehindItsRow(running, q)
      OBVIOUS
    <3>2. PICK r \in db : BehindItsRow(running, r)  BY <3>1 DEF IInv, RowLeads
    <3> QED  BY <1>1, <1>2, <3>1, <3>2, BehindRisesToo DEF IInv, Files
  <2> QED  BY <1>1, <2>1, <2>2 DEF RowLeads
<1>7. call'[c] = k  BY <1>1, OwnCall DEF IInv
<1>8. PICK mine \in db : Key(mine) = Key(s) /\ s.id = call[c].id /\ s \in Specs
  BY <1>1 DEF IInv, Calls, CallInv, Updating
<1>9. SameKey(Raised(c, mine), s) /\ BehindItsRow(s, Raised(c, mine))
  <2>1. mine.id = call[c].id /\ s.id = mine.id /\ SameKey(mine, s)
    BY <1>8 DEF Key, SameKey
  <2>2. Raised(c, mine).status = s.status
    BY <2>1, <1>1 DEF Raised, IInv, Tables, Rows
  <2>3. Rank[s.status] \in 0..3  BY <1>8, RankType DEF Specs
  <2> QED  BY <1>3, <1>4, <2>1, <2>2, <2>3 DEF BehindItsRow
<1>10. CallInv(c)'
  <2>1. \E q \in db' : SameKey(q, s) /\ BehindItsRow(s, q)  BY <1>2, <1>9
  <2> QED
    BY <1>7, <1>8, <2>1
    DEF CallInv, Pcs, Registering, Writing, Loading, Updating, Rewriting, Picking
<1>11. ASSUME NEW d \in Callers, d # c  PROVE CallInv(d)'
  <2>1. call'[d] = call[d] /\ CallInv(d)  BY <1>1, <1>11, OtherCalls DEF IInv, Calls
  <2>2. Loading(d, call[d])'
    BY <1>1, <1>2, <1>4, <1>11, <2>1, OthersStillAim DEF CallInv, Loading
  <2>3. Updating(d, call[d])'
    <3>1. call[d].pc = "update" => call[d].spec.status \in Statuses
      BY <2>1 DEF CallInv, Updating, Specs
    <3> QED  BY <1>1, <1>2, <1>4, <1>11, <2>1, <3>1, OthersStillAim DEF CallInv, Updating
  <2>4. Rewriting(call[d])'
    BY <1>1, <1>2, <1>4, <2>1, BehindRisesToo DEF CallInv, Rewriting, Writing, Registering
  <2>5. Picking(call[d])'  BY <1>2, <1>4, <2>1 DEF CallInv, Picking
  <2> QED  BY <2>1, <2>2, <2>3, <2>4, <2>5 DEF CallInv, Registering, Writing
<1>12. Calls'  BY <1>1, <1>10, <1>11, OwnCall DEF IInv, Calls
<1>13. Registration'
  <2>1. CASE c = Operator  BY <1>7, <2>1 DEF Registration, Registering, Writing
  <2>2. CASE c # Operator
    <3>1. call'[Operator] = call[Operator]  BY <1>1, <2>2, OtherCalls DEF Callers
    <3>2. Registering(call[Operator]) =>
            /\ \A q \in db' : q.id # made
            /\ call[Operator].pc # "check" => \A q \in db' : ~SameKey(q, call[Operator].spec)
      BY <1>2, <1>3, <1>4 DEF IInv, Registration
    <3> QED  BY <1>1, <3>1, <3>2 DEF IInv, Registration, Registering, Writing
  <2> QED  BY <2>1, <2>2
<1> QED  BY <1>1, <1>5, <1>6, <1>12, <1>13 DEF IInv, Files

-----------------------------------------------------------------------------
(* The theorems                                                            *)

LEMMA InitInv == ASSUME Init PROVE IInv
BY RegistryAssumption
DEF Init, IInv, Tables, Files, Registration, Calls, RowLeads, CallInv, Idle, Pcs, Callers,
    Registering, Writing, Loading, Updating, Rewriting, Picking, Loads

LEMMA NextKeeps ==
  ASSUME DistinctFiles, IInv, [Next]_vars
  PROVE  IInv'
<1>1. ASSUME NEW c \in Callers,
             \/ Build(c) \/ Draft(c) \/ Check(c) \/ Empty(c) \/ Dump(c) \/ Insert(c)
             \/ Promote(c) \/ Load(c) \/ Update(c) \/ Break(c)
      PROVE  IInv'
  BY <1>1, BuildKeeps, DraftKeeps, CheckKeeps, EmptyKeeps, DumpKeeps, InsertKeeps,
     PromoteKeeps, LoadKeeps, UpdateKeeps, BreakKeeps
<1>2. CASE UNCHANGED vars
  BY <1>2
  DEF vars, IInv, Tables, Files, Registration, Calls, RowLeads, CallInv, Registering, Writing,
      Loading, Updating, Rewriting, Picking
<1> QED  BY <1>1, <1>2, StartKeeps, LoadActiveKeeps DEF Next

(* Wherever calls interleave and break off, each row has its file, and the *)
(* file and the strategy that the trader runs are never ahead of the row   *)
(* (promote and register of registry.py), if names do not share files.     *)
THEOREM RowAlwaysLeads ==
  ASSUME DistinctFiles
  PROVE  Spec => []RowLeads
<1>1. Init => IInv  BY InitInv
<1>2. IInv /\ [Next]_vars => IInv'  BY NextKeeps
<1>3. IInv => RowLeads  BY DEF IInv
<1> QED  BY <1>1, <1>2, <1>3, PTL DEF Spec

(* No row is lost and no status is lowered (promote's "Cannot demote"),    *)
(* although the rank is compared before the file is loaded and the row is  *)
(* written after it.                                                       *)
THEOREM StatusOnlyClimbs ==
  ASSUME DistinctFiles
  PROVE  Spec => StatusClimbs
<1> DEFINE Climbs == \A r \in db : \E q \in db' : q.id = r.id /\ Rank[q.status] >= Rank[r.status]
<1>1. Init => IInv  BY InitInv
<1>2. IInv /\ [Next]_vars => IInv'  BY NextKeeps
<1>3. IInv /\ [Next]_vars => [Climbs]_vars
  <2> SUFFICES ASSUME IInv, Next PROVE Climbs
    BY DEF vars
  <2>1. \A r \in db : Rank[r.status] \in 0..3  BY RankType DEF IInv, Tables, Rows
  <2>2. CASE \E c \in Callers : Update(c)
    <3>1. PICK c \in Callers : Update(c)  BY <2>2
    <3>2. \A r \in db : Raised(c, r) \in db'  BY <3>1 DEF Update, Raised
    <3> QED  BY <3>1, <3>2, RowsRise DEF Update
  <2>3. CASE \E c \in Callers : Insert(c)
    <3>1. db \subseteq db'  BY <2>3 DEF Insert
    <3> QED  BY <2>1, <3>1
  <2>4. CASE db' = db  BY <2>1, <2>4
  <2> QED
    BY <2>2, <2>3, <2>4
    DEF Next, Start, LoadActive, Build, Draft, Offer, Check, Empty, Dump, Promote, Load, Break
<1> QED  BY <1>1, <1>2, <1>3, PTL DEF Spec, StatusClimbs

=============================================================================
