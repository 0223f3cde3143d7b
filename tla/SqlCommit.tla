------------------------------ MODULE SqlCommit ------------------------------
(***************************************************************************)
(* The commit unit of the SQL destinations: the shared planner             *)
(* (sqlcore/protocol) and its two executors, postgres (Path = "direct":    *)
(* append and replace rows go straight into the target, inside the unit's  *)
(* transaction) and duckdb (Path = "staged": all rows go to a stage first, *)
(* which one transaction publishes).  A session may die at any point; if   *)
(* it dies with COMMIT on the wire the transaction is a zombie of the      *)
(* server's, which commits or aborts some time later, possibly when the    *)
(* recovery session is already delivering the same unit again.             *)
(*                                                                         *)
(* Merge is represented by its full-feed case ("feed": one merge_scope, so *)
(* the scope replacement leaves the delivered rows), which is the one the  *)
(* planner keeps state for.                                                *)
(***************************************************************************)
EXTENDS Naturals, FiniteSets

CONSTANTS
  Table,
  Mode,       \* Mode[t] \in {"append", "replace", "feed"}
  MaxLoad,    \* bound: loads are 1 .. MaxLoad
  MaxSeq,     \* bound: commits of a load are 1 .. MaxSeq
  Feed(_, _), \* Feed(u, t): how many rows unit u carries for table t
  Path,       \* "direct" or "staged": FullLoadPublish
  Late,       \* tables that may be ensured after the load's first commit
  MaxDeaths   \* bound: errors and deaths of sessions

Unit == [load : 1 .. MaxLoad, seq : 1 .. MaxSeq]
Rows(u, t) == {[unit |-> u, n |-> i] : i \in 1 .. Feed(u, t)}

SqlAssumption ==
  /\ Mode \in [Table -> {"append", "replace", "feed"}]
  /\ MaxLoad \in Nat \ {0} /\ MaxSeq \in Nat \ {0} /\ MaxDeaths \in Nat
  /\ \A u \in Unit, t \in Table : Feed(u, t) \in Nat
  /\ Path \in {"direct", "staged"} /\ Late \subseteq Table

\* What a stage publishes over is ensured when the load begins: the clear of a
\* Replace target comes with the load's first commit, or not at all.
LateAssumption == Path = "staged" => \A t \in Late : Mode[t] # "replace"

VARIABLES
  db,             \* what is committed: targets, receipts, clear records, state
  zombie,         \* the transaction a dead session left in COMMIT, or NoTx
  cur,            \* the unit the engine delivers (its write-ahead log's head)
  acked,          \* units the engine knows committed
  deaths,         \* bound counter
  pc,             \* where the session is
  target,         \* the Replace target about to be cleared, when pc = "clear"
  tables,         \* Catalog.tables: tables ensured in this session
  sent,           \* sent[t]: rows of cur written so far
  unit,           \* the open unit transaction's changes, or NoTx
  stage,          \* stage[t]: staged rows of cur
  clearedTargets, \* Load.cleared_targets
  singleUnitDone  \* Load.single_unit_done

engineVars  == <<cur, acked, deaths>>
memoryVars  == <<tables, clearedTargets, singleUnitDone>>
deliverVars == <<pc, target, sent, unit, stage>>
vars        == <<db, zombie, engineVars, memoryVars, deliverVars>>

-----------------------------------------------------------------------------
(* Tables as bags of rows, and transactions as changes to them *)

AllRows(t) == UNION {Rows(u, t) : u \in Unit}
Zero(t) == [r \in AllRows(t) |-> 0]
Plus(bag, r) == [bag EXCEPT ![r] = @ + 1]
Sum2(a, b) == [r \in DOMAIN a |-> a[r] + b[r]]
NoRows == [t \in Table |-> Zero(t)]
NoUnit == [load |-> 0, seq |-> 0]

\* clears: targets emptied first; adds: rows put in after; cleared: the rows of
\* _rdlt_cleared; receipt: the unit whose receipt and state are written.
NoTx == [open |-> FALSE, clears |-> {}, adds |-> NoRows, cleared |-> {}, receipt |-> NoUnit]

Apply(d, x) ==
  [rows     |-> [t \in Table |-> IF t \in x.clears THEN x.adds[t] ELSE Sum2(d.rows[t], x.adds[t])],
   receipts |-> d.receipts \cup {x.receipt},
   cleared  |-> d.cleared \cup {<<x.receipt.load, t>> : t \in x.cleared},
   state    |-> x.receipt]

\* uses_stage, negated: rows that go straight to their target.
FullFeed(t) == Mode[t] = "feed"
Direct(t) == Path = "direct" /\ ~FullFeed(t)

\* Locks a zombie holds: a TRUNCATE keeps everyone out of the table, an insert
\* keeps out only another TRUNCATE.
CopyBlocked(t) == zombie.open /\ (t \in zombie.clears \/ ~Direct(t))
ClearBlocked(t) == zombie.open /\ (t \in zombie.clears \/ zombie.adds[t] # Zero(t))

Init ==
  /\ db = [rows |-> NoRows, receipts |-> {}, cleared |-> {}, state |-> NoUnit]
  /\ zombie = NoTx
  /\ cur = [load |-> 1, seq |-> 1] /\ acked = {} /\ deaths = 0
  /\ pc = "none" /\ target = {} /\ sent = [t \in Table |-> 0]
  /\ tables = {} /\ clearedTargets = {} /\ singleUnitDone = {}
  /\ unit = NoTx /\ stage = NoRows

-----------------------------------------------------------------------------
(* A session takes a unit's rows *)

\* What rollback, or the end of a unit, leaves of it in the session.
EndUnit(l) ==
  /\ pc' = l /\ target' = {}
  /\ sent' = [t \in Table |-> 0]
  /\ unit' = NoTx /\ stage' = NoRows

EndSession ==
  /\ EndUnit("none")
  /\ tables' = {} /\ clearedTargets' = {} /\ singleUnitDone' = {}

\* duckdb's database file is opened by one process at a time.
OpenSession ==
  /\ pc = "none" /\ cur \in Unit
  /\ Path = "staged" => ~zombie.open
  /\ pc' = "loading"
  /\ UNCHANGED <<db, zombie, engineVars, memoryVars, target, sent, unit, stage>>

EnsureTable(t) ==
  /\ pc = "loading" /\ t \notin tables
  /\ tables' = tables \cup {t}
  /\ UNCHANGED <<db, zombie, engineVars, clearedTargets, singleUnitDone, deliverVars>>

\* begin_if_closed, by write on the direct path; duckdb stages outside of any
\* transaction.
Begun == [unit EXCEPT !.open = (Path = "direct")]

\* prepare_target: the clear a Replace target still needs.
NeedsClear(t) ==
  /\ Direct(t) /\ Mode[t] = "replace"
  /\ t \notin clearedTargets \cup unit.cleared

\* A variant: what an earlier session cleared is not looked up.
LookupMemory(t) ==
  /\ pc = "loading" /\ t \in tables /\ sent[t] < Feed(cur, t) /\ NeedsClear(t)
  /\ unit' = Begun
  /\ pc' = "clear" /\ target' = {t}
  /\ UNCHANGED <<db, zombie, engineVars, memoryVars, sent, stage>>

\* A variant: a target counts as cleared once any unit of the load committed.
LookupPerLoad(t) ==
  /\ pc = "loading" /\ t \in tables /\ sent[t] < Feed(cur, t) /\ NeedsClear(t)
  /\ unit' = Begun
  /\ IF \E u \in db.receipts : u.load = cur.load
     THEN /\ clearedTargets' = clearedTargets \cup {t}
          /\ UNCHANGED <<pc, target>>
     ELSE /\ pc' = "clear" /\ target' = {t}
          /\ UNCHANGED clearedTargets
  /\ UNCHANGED <<db, zombie, engineVars, tables, singleUnitDone, sent, stage>>

\* prepare_for_write seeds the guard from the durable record ...
LookupCleared(t) ==
  /\ pc = "loading" /\ t \in tables /\ sent[t] < Feed(cur, t) /\ NeedsClear(t)
  /\ unit' = Begun
  /\ IF <<cur.load, t>> \in db.cleared
     THEN /\ clearedTargets' = clearedTargets \cup {t}
          /\ UNCHANGED <<pc, target>>
     ELSE /\ pc' = "clear" /\ target' = {t}
          /\ UNCHANGED clearedTargets
  /\ UNCHANGED <<db, zombie, engineVars, tables, singleUnitDone, sent, stage>>

\* ... and clears, recording it in the same transaction.
ClearTarget(t) ==
  /\ pc = "clear" /\ t \in target /\ ~ClearBlocked(t)
  /\ unit' = [unit EXCEPT !.clears = @ \cup {t}, !.cleared = @ \cup {t}, !.adds[t] = Zero(t)]
  /\ pc' = "loading" /\ target' = {}
  /\ UNCHANGED <<db, zombie, engineVars, memoryVars, sent, stage>>

\* write: into the target on the direct path, into the stage otherwise.
Write(t) ==
  /\ pc = "loading" /\ t \in tables /\ sent[t] < Feed(cur, t)
  /\ ~NeedsClear(t) /\ ~CopyBlocked(t)
  /\ sent' = [sent EXCEPT ![t] = @ + 1]
  /\ LET row == [unit |-> cur, n |-> sent[t] + 1]
     IN IF Direct(t)
        THEN unit' = [Begun EXCEPT !.adds[t] = Plus(@, row)] /\ UNCHANGED stage
        ELSE unit' = Begun /\ stage' = [stage EXCEPT ![t] = Plus(@, row)]
  /\ UNCHANGED <<db, zombie, engineVars, memoryVars, pc, target>>

\* The engine ensures the tables of a load at its start, or (Late) when it
\* first has rows for them.
Delivered ==
  /\ \A t \in Table : sent[t] = Feed(cur, t)
  /\ Table \ Late \subseteq tables

-----------------------------------------------------------------------------
(* commit: existing_receipt, then replay or publish *)

StagedNonempty == {t \in tables : FullFeed(t) /\ stage[t] # Zero(t)}

\* A variant: a replayed feed does not count.
ReplayUnmarked ==
  /\ pc = "loading" /\ Delivered /\ cur \in db.receipts
  /\ EndUnit("answered")
  /\ UNCHANGED <<db, zombie, engineVars, memoryVars>>

\* The receipt is there: the redelivered rows are dropped, by rollback of the
\* unit (direct) or by truncating the stages (staged); a feed still counts.
Replay ==
  /\ pc = "loading" /\ Delivered /\ cur \in db.receipts
  /\ singleUnitDone' = singleUnitDone \cup StagedNonempty
  /\ EndUnit("answered")
  /\ UNCHANGED <<db, zombie, engineVars, tables, clearedTargets>>

\* No receipt yet, as far as the transaction can see.
ProbeFresh ==
  /\ pc = "loading" /\ Delivered /\ cur \notin db.receipts
  /\ unit' = [unit EXCEPT !.open = TRUE]
  /\ pc' = "publish"
  /\ UNCHANGED <<db, zombie, engineVars, memoryVars, target, sent, stage>>

LoadCommittedBefore == \E u \in db.receipts : u.load = cur.load

\* A variant: the staged path never clears.
PlanClearsFeeds == StagedNonempty

\* plan_commit: what is emptied (the scope of a feed, and on the staged path
\* every Replace target at the load's first commit) and what is inserted.
PlanClears ==
  StagedNonempty \cup
  {t \in tables : Mode[t] = "replace" /\ ~Direct(t) /\ ~LoadCommittedBefore}
PlanInserts == {t \in tables : ~Direct(t)}
SecondFeed == StagedNonempty \cap singleUnitDone # {}

\* A variant: neither key nor row lock makes two attempts meet.
RunScriptBlind ==
  /\ pc = "publish" /\ ~SecondFeed
  /\ unit' = [unit EXCEPT !.clears = @ \cup PlanClears,
                          !.adds = [t \in Table |-> IF t \in PlanInserts THEN stage[t] ELSE @[t]],
                          !.receipt = cur]
  /\ pc' = "commit"
  /\ UNCHANGED <<db, zombie, engineVars, memoryVars, target, sent, stage>>

\* The planned steps.  UpsertState and InsertReceipt wait for a zombie that
\* wrote the same rows.
RunScript ==
  /\ pc = "publish" /\ ~SecondFeed
  /\ ~zombie.open /\ cur \notin db.receipts
  /\ unit' = [unit EXCEPT !.clears = @ \cup PlanClears,
                          !.adds = [t \in Table |-> IF t \in PlanInserts THEN stage[t] ELSE @[t]],
                          !.receipt = cur]
  /\ pc' = "commit"
  /\ UNCHANGED <<db, zombie, engineVars, memoryVars, target, sent, stage>>

\* A variant: the failed transaction is tried again as it stands.
ReceiptConflictStays ==
  /\ pc = "publish" /\ ~SecondFeed
  /\ ~zombie.open /\ cur \in db.receipts
  /\ UNCHANGED vars

\* The receipt turned up after the probe: its primary key fails the unit.
ReceiptConflict ==
  /\ pc = "publish" /\ ~SecondFeed
  /\ ~zombie.open /\ cur \in db.receipts
  /\ EndSession
  /\ UNCHANGED <<db, zombie, engineVars>>

\* CommitError::SingleUnit: rolled back, and the load is given up.
RefuseFeed ==
  /\ pc = "publish" /\ SecondFeed
  /\ EndSession
  /\ cur' = [load |-> cur.load + 1, seq |-> 1]
  /\ UNCHANGED <<db, zombie, acked, deaths>>

\* A variant: the clears of the unit are forgotten.
CommitTxForgets ==
  /\ pc = "commit"
  /\ db' = Apply(db, [unit EXCEPT !.cleared = {}])
  /\ clearedTargets' = clearedTargets \cup unit.cleared
  /\ singleUnitDone' = singleUnitDone \cup StagedNonempty
  /\ EndUnit("answered")
  /\ UNCHANGED <<zombie, engineVars, tables>>

\* COMMIT is answered; only now are the clears and the feeds remembered.
CommitTx ==
  /\ pc = "commit"
  /\ db' = Apply(db, unit)
  /\ clearedTargets' = clearedTargets \cup unit.cleared
  /\ singleUnitDone' = singleUnitDone \cup StagedNonempty
  /\ EndUnit("answered")
  /\ UNCHANGED <<zombie, engineVars, tables>>

-----------------------------------------------------------------------------
(* The engine, and what goes wrong *)

\* The engine learns the receipt; the same session takes the load's next unit.
EngineAck ==
  /\ pc = "answered"
  /\ acked' = acked \cup {cur}
  /\ IF cur.seq < MaxSeq
     THEN /\ cur' = [cur EXCEPT !.seq = @ + 1]
          /\ EndUnit("loading") /\ UNCHANGED memoryVars
     ELSE /\ cur' = [load |-> cur.load + 1, seq |-> 1]
          /\ EndSession
  /\ UNCHANGED <<db, zombie, deaths>>

\* The memory of a feed's unit dies with the session (singleUnitDone): once
\* such a unit is acknowledged, the load is not resumed by another session.
MayDie ==
  /\ deaths < MaxDeaths
  /\ \A u \in acked, t \in Table : u.load = cur.load /\ FullFeed(t) => Feed(u, t) = 0

SessionDies ==
  /\ pc # "none" /\ MayDie
  /\ deaths' = deaths + 1
  /\ EndSession
  /\ UNCHANGED <<db, zombie, cur, acked>>

\* Dead with COMMIT sent: the outcome is the server's.
DieInCommit ==
  /\ pc = "commit" /\ MayDie
  /\ deaths' = deaths + 1
  /\ zombie' = unit
  /\ EndSession
  /\ UNCHANGED <<db, cur, acked>>

\* A statement of the unit fails: rollback, and the unit is delivered again to
\* the same session.  (On the staged path the rows would still be staged.)
UnitFails ==
  /\ Path = "direct" /\ deaths < MaxDeaths
  /\ pc \in {"loading", "clear", "publish"} /\ unit.open
  /\ deaths' = deaths + 1
  /\ EndUnit("loading")
  /\ UNCHANGED <<db, zombie, cur, acked, memoryVars>>

ZombieEnds ==
  /\ zombie.open
  /\ db' = Apply(db, zombie) \/ db' = db
  /\ zombie' = NoTx
  /\ UNCHANGED <<engineVars, memoryVars, deliverVars>>

Progress ==
  \/ OpenSession
  \/ \E t \in Table : EnsureTable(t) \/ LookupCleared(t) \/ ClearTarget(t) \/ Write(t)
  \/ Replay \/ ProbeFresh \/ RunScript \/ ReceiptConflict \/ RefuseFeed \/ CommitTx
  \/ EngineAck

Next == Progress \/ SessionDies \/ DieInCommit \/ UnitFails \/ ZombieEnds

Spec == Init /\ [][Next]_vars

\* The engine keeps driving its session, and the server ends a transaction whose
\* client is gone.
FairSpec == Spec /\ WF_vars(Progress) /\ WF_vars(ZombieEnds)

-----------------------------------------------------------------------------
(* Properties *)

\* Types, and that changes are only ever held inside an open transaction.
TypeOK ==
  /\ db.receipts \subseteq Unit /\ db.state \in Unit \cup {NoUnit}
  /\ db.cleared \subseteq (1 .. MaxLoad) \X Table
  /\ \A t \in Table : db.rows[t] \in [AllRows(t) -> Nat] /\ stage[t] \in [AllRows(t) -> Nat]
  /\ \A x \in {unit, zombie} : ~x.open => x = NoTx
  /\ cur \in Unit \cup {[load |-> MaxLoad + 1, seq |-> 1]} /\ acked \subseteq Unit
  /\ pc \in {"none", "loading", "clear", "publish", "commit", "answered"}
  /\ target \subseteq tables /\ tables \subseteq Table
  /\ clearedTargets \subseteq tables /\ singleUnitDone \subseteq tables
  /\ deaths \in 0 .. MaxDeaths

\* The direct path clears a target at its first write, so what a reload has no
\* rows for yet is still the previous load's.
Promised ==
  [t \in Table |-> IF Direct(t) /\ Mode[t] = "replace" THEN "feed" ELSE Mode[t]]

Abstract == INSTANCE ExactlyOnce WITH
  Mode <- Promised, committed <- db.receipts, view <- db.rows

\* The commit unit implements ExactlyOnce, and a reader never sees an attempt
\* (the view is never in doubt): whatever dies where, and whenever the server
\* ends the transaction of a dead session, a unit takes effect once.
ImplementsExactlyOnce == Abstract!ESpec

\* The state document is that of the newest receipted unit: no transaction
\* lands so late that it takes the pipeline's position back (UpsertState).
StateIsNewest ==
  \A u \in db.receipts :
    \/ u.load < db.state.load
    \/ u.load = db.state.load /\ u.seq <= db.state.seq

\* A replace load truncates its target once and then loads: when all of its
\* units have committed, a Replace target holds no row of an earlier load.
ReloadReplaces ==
  \A l \in 1 .. MaxLoad :
    (\A i \in 1 .. MaxSeq : [load |-> l, seq |-> i] \in db.receipts) =>
      \A t \in {x \in Table : Mode[x] = "replace"} :
        \A r \in AllRows(t) : r.unit.load < l => db.rows[t][r] = 0

\* What the session remembers of a load is what the database recorded: a
\* target believed cleared was cleared durably by this load (cleared_targets
\* is promoted after COMMIT, and seeded from _rdlt_cleared).
ClearedIsDurable == \A t \in clearedTargets : <<cur.load, t>> \in db.cleared

\* What holds in the end if sessions stop dying: a recovery session gets past
\* its predecessor's transaction.
AllCommitted == acked = Unit

=============================================================================
