------------------------------- MODULE Registry -------------------------------
(***************************************************************************)
(* strategy/registry.py and strategy/builder.py: a strategy is a row of    *)
(* the strategies table and a YAML file beside it, and no call writes both *)
(* at once.  Between two statements of one call another call may run, and  *)
(* each call may end there: its process dies or the statement raises.      *)
(*                                                                         *)
(* An operator builds, registers and promotes, one call at a time; each    *)
(* open tab of the dashboard may promote to LIVE; the trader loads the     *)
(* active strategy when it starts.                                         *)
(***************************************************************************)
EXTENDS Integers, FiniteSets, FiniteSetsExt

CONSTANTS
  Operator, Tabs, Trader,   \* the callers
  Names,       \* names of strategies
  SafeName,    \* name |-> the name in the file's path
  Metrics,     \* what a walk-forward may have measured
  PaperMetrics,\* what paper trading may have measured
  NaN,         \* the Sharpe ratio of a backtest without returns
  MinTrades,   \* bounds of the gate to PAPER
  MinSharpe, MaxDrawdown, MinProfit,
  MinBuild,    \* MIN_OOS_TRADES of the builder
  MinWeeks,    \* bounds of the gate to LIVE
  MinPaperTrades,
  MaxSpecs     \* bound: how many specifications are made

ASSUME RegistryAssumption ==
  /\ SafeName \in [Names -> Names]
  /\ Operator # Trader /\ {Operator, Trader} \intersect Tabs = {}
  /\ MaxSpecs \in Nat \ {0}

VARIABLES
  db,      \* the rows of the strategies table
  yaml,    \* path |-> what the file holds
  call,    \* what each caller is in the midst of
  made,    \* how many specifications were made: strategy_id and created_at
  running  \* what the trader loaded at its last start

vars == <<db, yaml, call, made, running>>

Callers == {Operator, Trader} \union Tabs
Versions == 1..MaxSpecs
Rank == [RESEARCH |-> 0, BACKTEST |-> 1, PAPER |-> 2, LIVE |-> 3]
Statuses == DOMAIN Rank

Specs == [name : Names, version : Versions, status : Statuses, id : 1..MaxSpecs,
          metrics : Metrics]
Rows == [name : Names, version : Versions, status : Statuses, id : 1..MaxSpecs]

Absent == [missing |-> TRUE]
Torn == [torn |-> TRUE]   \* open(path, "w") has emptied it
Idle == [pc |-> "idle"]
Nothing == [default |-> TRUE]

(* _yaml_path                                                              *)
Path(s) == <<SafeName[s.name], s.version>>
Key(r) == [name |-> r.name, version |-> r.version, id |-> r.id]
SameKey(r, s) == r.name = s.name /\ r.version = s.version
Loads(file) == file \notin {Absent, Torn}

TypeOK ==
  /\ db \in SUBSET Rows /\ made \in 0..MaxSpecs
  /\ \A r, q \in db : r.id = q.id \/ SameKey(r, q) => r = q
  /\ yaml \in [Names \X Versions -> Specs \union {Absent, Torn}]
  /\ running \in Specs \union {Nothing}
  /\ \A c \in Callers :
       call[c].pc \in {"idle", "check", "empty", "dump", "insert", "load", "update", "pick"}

Init ==
  /\ db = {} /\ made = 0 /\ running = Nothing
  /\ yaml = [p \in Names \X Versions |-> Absent]
  /\ call = [c \in Callers |-> Idle]

Goes(c, k) == call' = [call EXCEPT ![c] = k]
Done(c) == Goes(c, Idle)

-----------------------------------------------------------------------------
(* Building and registering                                                *)

(* StrategyBuilder._validate                                               *)
Viable(m) ==
  /\ m.trades >= MinBuild
  /\ m.sharpe # NaN
  /\ m.drawdown >= 0 /\ m.profit >= 0

(* _next_version: one more than the highest of this name.                  *)
NextVersion(n) == Max({r.version : r \in {q \in db : q.name = n}} \union {0}) + 1

Spec0(n, v, s, m) == [name |-> n, version |-> v, status |-> s, id |-> made + 1, metrics |-> m]

Offer(c, s) ==
  /\ c = Operator /\ call[c] = Idle /\ made < MaxSpecs
  /\ made' = made + 1
  /\ Goes(c, [pc |-> "check", spec |-> s])
  /\ UNCHANGED <<db, yaml, running>>

(* StrategyBuilder.build, up to the call of register.                      *)
Build(c) == \E n \in Names, m \in Metrics :
  /\ Viable(m) /\ NextVersion(n) \in Versions
  /\ Offer(c, Spec0(n, NextVersion(n), "BACKTEST", m))

(* A specification that is written by hand.                                *)
Draft(c) == \E n \in Names, v \in Versions, m \in Metrics :
  /\ m.sharpe # NaN
  /\ Offer(c, Spec0(n, v, "RESEARCH", m))

NoneRegistered(s) == FALSE   \* mutant: register leaves duplicates to the table

Registered(s) == \E r \in db : SameKey(r, s)

(* register: the SELECT that finds duplicates.                             *)
Check(c) ==
  /\ call[c].pc = "check"
  /\ IF Registered(call[c].spec) THEN Done(c)
     ELSE Goes(c, [pc |-> "empty", spec |-> call[c].spec, then |-> "insert"])
  /\ UNCHANGED <<db, yaml, made, running>>

(* _write_yaml: the file is emptied when it is opened.                     *)
Empty(c) ==
  /\ call[c].pc = "empty"
  /\ yaml' = [yaml EXCEPT ![Path(call[c].spec)] = Torn]
  /\ Goes(c, [call[c] EXCEPT !.pc = "dump"])
  /\ UNCHANGED <<db, made, running>>

Dump(c) ==
  /\ call[c].pc = "dump"
  /\ yaml' = [yaml EXCEPT ![Path(call[c].spec)] = call[c].spec]
  /\ IF call[c].then = "insert" THEN Goes(c, [pc |-> "insert", spec |-> call[c].spec])
     ELSE Done(c)
  /\ UNCHANGED <<db, made, running>>

RowOf(s) == [name |-> s.name, version |-> s.version, status |-> s.status, id |-> s.id]

(* The INSERT and its commit; the table refuses a second (name, version).  *)
Insert(c) ==
  /\ call[c].pc = "insert"
  /\ db' = IF \E r \in db : SameKey(r, call[c].spec) THEN db
           ELSE db \union {RowOf(call[c].spec)}
  /\ Done(c)
  /\ UNCHANGED <<yaml, made, running>>

-----------------------------------------------------------------------------
(* Promoting                                                               *)

(* can_promote_to_paper                                                    *)
PaperGate(m) ==
  /\ m.trades >= MinTrades /\ m.sharpe >= MinSharpe
  /\ m.drawdown <= MaxDrawdown /\ m.profit >= MinProfit

(* can_promote_to_live: 70 % of the Sharpe ratio that was measured.        *)
LiveGate(m, p) ==
  /\ p.weeks >= MinWeeks /\ p.trades >= MinPaperTrades
  /\ 10 * p.sharpe >= 7 * m.sharpe

AnyRank(r, status) == r.status # status   \* mutant: only the same status is refused

Higher(r, status) == Rank[status] > Rank[r.status]

(* promote, its first connection: the row and the rank.  A tab has seen    *)
(* the row as PAPER.                                                       *)
Promote(c) == \E r \in db, status \in Statuses :
  /\ call[c] = Idle /\ c # Trader
  /\ c \in Tabs => r.status = "PAPER" /\ status = "LIVE"
  /\ Higher(r, status)
  /\ Goes(c, [pc |-> "load", row |-> Key(r), status |-> status])
  /\ UNCHANGED <<db, yaml, made, running>>

Gate(status, m, p) ==
  CASE status = "PAPER" -> PaperGate(m)
    [] status = "LIVE" -> LiveGate(m, p)
    [] OTHER -> TRUE

(* A file that does not load raises; so does a gate that blocks.  The       *)
(* caller has computed p for LIVE.                                         *)
Load(c) == \E p \in PaperMetrics :
  /\ call[c].pc = "load"
  /\ LET k == call[c]
         y == yaml[Path(k.row)]
     IN  IF Loads(y) /\ Gate(k.status, y.metrics, p)
         THEN Goes(c, [pc |-> "update", id |-> k.row.id,
                       spec |-> [y EXCEPT !.status = k.status]])
         ELSE Done(c)
  /\ UNCHANGED <<db, yaml, made, running>>

(* The UPDATE, of the row as it is now, and its commit.                    *)
Update(c) ==
  /\ call[c].pc = "update"
  /\ db' = {IF r.id = call[c].id THEN [r EXCEPT !.status = call[c].spec.status] ELSE r
              : r \in db}
  /\ Goes(c, [pc |-> "empty", spec |-> call[c].spec, then |-> "return"])
  /\ UNCHANGED <<yaml, made, running>>

-----------------------------------------------------------------------------
(* The trader's start, and calls that end early                            *)

(* get_active_strategy: the highest status, of those the youngest.         *)
Best(r) == \A q \in db :
  \/ Rank[r.status] > Rank[q.status]
  \/ r.status = q.status /\ r.id >= q.id

Start ==
  /\ call[Trader] = Idle
  /\ \/ db = {} /\ running' = Nothing /\ UNCHANGED call
     \/ \E r \in db : /\ Best(r) /\ UNCHANGED running
                      /\ Goes(Trader, [pc |-> "pick", row |-> Key(r)])
  /\ UNCHANGED <<db, yaml, made>>

(* A file that does not load ends main.                                    *)
LoadActive ==
  /\ call[Trader].pc = "pick"
  /\ LET y == yaml[Path(call[Trader].row)]
     IN  running' = IF Loads(y) THEN y ELSE Nothing
  /\ Done(Trader)
  /\ UNCHANGED <<db, yaml, made>>

Break(c) ==
  /\ call[c] # Idle
  /\ Done(c)
  /\ UNCHANGED <<db, yaml, made, running>>

Next ==
  \/ Start \/ LoadActive
  \/ \E c \in Callers :
       \/ Build(c) \/ Draft(c) \/ Check(c) \/ Empty(c) \/ Dump(c) \/ Insert(c)
       \/ Promote(c) \/ Load(c) \/ Update(c) \/ Break(c)

Spec == Init /\ [][Next]_vars

-----------------------------------------------------------------------------
(* Properties                                                              *)

(* The table is "the authoritative forward record" (registry.py:193): each *)
(* row has its file, and the file and the strategy that the trader runs    *)
(* are those of the row, never ahead of it, wherever calls interleaved or  *)
(* broke off.                                                              *)
BehindItsRow(s, r) == s.id = r.id /\ Rank[s.status] <= Rank[r.status]

RowLeads ==
  /\ \A r \in db : LET y == yaml[Path(r)]
                   IN  y # Absent /\ (Loads(y) => BehindItsRow(y, r))
  /\ running # Nothing => \E r \in db : BehindItsRow(running, r)

(* "Cannot demote" (registry.py:211): no row vanishes or loses its status, *)
(* although the rank is read in one transaction and written in another.    *)
StatusClimbs ==
  [][\A r \in db : \E q \in db' : q.id = r.id /\ Rank[q.status] >= Rank[r.status]]_vars

(* README, Rule 6: "StrategySpec is immutable after PAPER promotion": the  *)
(* file of such a row holds the specification that was promoted.  Refuted  *)
(* by TLC where two names share a file (SafeName <- OneFile).              *)
FrozenSpecStays == \A r \in db :
  Rank[r.status] >= Rank["PAPER"] /\ Loads(yaml[Path(r)]) => yaml[Path(r)].id = r.id

(* registry.py:194: what a broken call leaves behind, promote repairs.     *)
(* Refuted by TLC: the repair is refused or does not load the file.        *)
RepairIsPossible == \A r \in db :
  LET y == yaml[Path(r)]
  IN  (\A c \in Callers : call[c] = Idle) /\ r.status # "LIVE" =>
        Loads(y) /\ (y.status = r.status \/ Higher(r, r.status))
=============================================================================
