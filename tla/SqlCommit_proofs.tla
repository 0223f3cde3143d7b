--------------------------- MODULE SqlCommit_proofs ---------------------------
(***************************************************************************)
(* Theorems of SqlCommit, on both paths, for any tables, feeds, loads and  *)
(* number of deaths; and of MergeTable, what the script of a unit makes of *)
(* a merge target, as an instance, for any keys, rows and options.         *)
(***************************************************************************)
EXTENDS SqlCommit, Sequences, TLAPS, FiniteSetTheorems, WellFoundedInduction

\* The bags a table can hold, whichever table it is.
Bag(t) == [AllRows(t) -> Nat]
Bags == UNION {Bag(t) : t \in Table}
Past == [load |-> MaxLoad + 1, seq |-> 1]

TxOK(x) ==
  /\ x \in [open : BOOLEAN, clears : SUBSET Table, adds : [Table -> Bags],
            cleared : SUBSET Table, receipt : Unit \cup {NoUnit}]
  /\ \A t \in Table : x.adds[t] \in Bag(t)

DbOK ==
  /\ db \in [rows : [Table -> Bags], receipts : SUBSET Unit,
             cleared : SUBSET ((1 .. MaxLoad) \X Table), state : Unit \cup {NoUnit}]
  /\ \A t \in Table : db.rows[t] \in Bag(t)

StageOK == stage \in [Table -> Bags] /\ \A t \in Table : stage[t] \in Bag(t)

Memory == tables \subseteq Table /\ clearedTargets \subseteq tables /\ singleUnitDone \subseteq tables

Engine == cur \in Unit \cup {Past} /\ acked \subseteq Unit /\ deaths \in 0 .. MaxDeaths

\* Where a session is says whether its transaction is open.
Control ==
  /\ pc \in {"none", "loading", "clear", "publish", "commit", "answered"}
  /\ pc # "none" => cur \in Unit
  /\ target \subseteq tables /\ unit.cleared \subseteq tables
  /\ pc \in {"publish", "commit"} => unit.open
  /\ pc = "commit" => unit.receipt \in Unit
  /\ pc = "clear" => unit.open /\ Path = "direct"
  /\ Path = "staged" /\ pc \notin {"publish", "commit"} => ~unit.open

TypeInv ==
  /\ DbOK /\ TxOK(unit) /\ TxOK(zombie) /\ StageOK /\ Memory /\ Engine /\ Control
  /\ ~unit.open => unit = NoTx
  /\ IF zombie.open THEN zombie.receipt \in Unit ELSE zombie = NoTx
  /\ sent \in [Table -> Nat]

-----------------------------------------------------------------------------
(* Bags *)

\* The bags the actions build are bags.
LEMMA BagsMade ==
  ASSUME NEW t \in Table
  PROVE  /\ Zero(t) \in Bag(t) /\ Bag(t) \subseteq Bags
         /\ \A b \in Bag(t), r \in AllRows(t) : Plus(b, r) \in Bag(t)
         /\ \A a \in Bag(t), b \in Bag(t) : Sum2(a, b) \in Bag(t)
<1>1. Zero(t) \in Bag(t) BY DEF Zero, Bag
<1>2. Bag(t) \subseteq Bags BY DEF Bags
<1>3. ASSUME NEW b \in Bag(t), NEW r \in AllRows(t) PROVE Plus(b, r) \in Bag(t)
  BY <1>3 DEF Plus, Bag
<1>4. ASSUME NEW a \in Bag(t), NEW b \in Bag(t) PROVE Sum2(a, b) \in Bag(t)
  BY <1>4 DEF Sum2, Bag
<1> QED BY <1>1, <1>2, <1>3, <1>4

\* An empty transaction is one.
LEMMA NoTxOK == TxOK(NoTx) /\ ~NoTx.open /\ NoTx.cleared = {}
<1>1. NoRows \in [Table -> Bags] /\ \A t \in Table : NoRows[t] \in Bag(t)
  BY BagsMade DEF NoRows
<1> QED BY <1>1 DEF NoTx, TxOK

\* The next row of the unit is one of its rows.
LEMMA NextRow ==
  ASSUME SqlAssumption, TypeInv, NEW t \in Table, cur \in Unit, sent[t] < Feed(cur, t)
  PROVE  [unit |-> cur, n |-> sent[t] + 1] \in AllRows(t)
<1>1. sent[t] + 1 \in 1 .. Feed(cur, t) BY DEF SqlAssumption, TypeInv
<1>2. [unit |-> cur, n |-> sent[t] + 1] \in Rows(cur, t) BY <1>1 DEF Rows
<1> QED BY <1>2 DEF AllRows

-----------------------------------------------------------------------------
(* Type correctness *)

\* What an applied transaction leaves is a database.
LEMMA ApplyOK ==
  ASSUME TypeInv, NEW x, TxOK(x), x.receipt \in Unit, db' = Apply(db, x)
  PROVE  DbOK'
<1> DEFINE rows == [t \in Table |-> IF t \in x.clears THEN x.adds[t]
                                    ELSE Sum2(db.rows[t], x.adds[t])]
           cleared == {<<x.receipt.load, t>> : t \in x.cleared}
<1>1. \A t \in Table : x.adds[t] \in Bag(t) /\ db.rows[t] \in Bag(t)
  BY DEF TypeInv, TxOK, DbOK
<1>2. \A t \in Table : rows[t] \in Bag(t) /\ rows[t] \in Bags
  BY <1>1, BagsMade
<1>3. rows \in [Table -> Bags] BY <1>2
<1>4. cleared \subseteq (1 .. MaxLoad) \X Table BY DEF TxOK, Unit
<1>5. db' = [rows |-> rows, receipts |-> db.receipts \cup {x.receipt},
             cleared |-> db.cleared \cup cleared, state |-> x.receipt]
  BY DEF Apply
<1>6. /\ db.receipts \subseteq Unit /\ db.cleared \subseteq (1 .. MaxLoad) \X Table
  BY DEF TypeInv, DbOK
<1> HIDE DEF rows, cleared
<1> QED BY <1>2, <1>3, <1>4, <1>5, <1>6 DEF DbOK

\* The initial state is well typed.
LEMMA TypeInit == ASSUME SqlAssumption, Init PROVE TypeInv
<1>1. NoRows \in [Table -> Bags] /\ \A t \in Table : NoRows[t] \in Bag(t)
  BY BagsMade DEF NoRows
<1>2. cur \in Unit BY DEF Init, Unit, SqlAssumption
<1>3. 0 \in 0 .. MaxDeaths BY DEF SqlAssumption
<1>4. DbOK BY <1>1 DEF Init, DbOK
<1>5. StageOK BY <1>1 DEF Init, StageOK
<1>6. TxOK(unit) /\ TxOK(zombie) /\ ~unit.open /\ unit.cleared = {} BY NoTxOK DEF Init
<1>7. sent \in [Table -> Nat] BY DEF Init
<1>8. Memory /\ Engine BY <1>2, <1>3 DEF Memory, Engine, Init
<1>9. Control BY <1>2, <1>6 DEF Control, Init
<1> QED BY <1>4, <1>5, <1>6, <1>7, <1>8, <1>9 DEF TypeInv, Init

\* A unit that ends leaves an empty one behind.
LEMMA EndUnitOK ==
  ASSUME TypeInv, NEW l \in {"none", "loading", "answered"}, EndUnit(l),
         l # "none" => cur' \in Unit, tables' \subseteq Table
  PROVE  TxOK(unit)' /\ unit' = NoTx /\ StageOK' /\ sent' \in [Table -> Nat] /\ Control'
<1>1. NoRows \in [Table -> Bags] /\ \A t \in Table : NoRows[t] \in Bag(t)
  BY BagsMade DEF NoRows
<1>2. unit' = NoTx /\ stage' = NoRows /\ pc' = l /\ target' = {} BY DEF EndUnit
<1>3. StageOK' BY <1>1, <1>2 DEF StageOK
<1>4. TxOK(unit)' BY <1>2, NoTxOK DEF TxOK
<1>5. sent' \in [Table -> Nat] BY DEF EndUnit
<1>6. Control' BY <1>2, NoTxOK DEF Control
<1> QED BY <1>2, <1>3, <1>4, <1>5, <1>6

\* A transaction into which a table's rows are put.
LEMMA AddsEffect ==
  ASSUME NEW x, TxOK(x), NEW t \in Table, NEW b \in Bag(t), NEW y, y = [x EXCEPT !.adds[t] = b]
  PROVE  /\ TxOK(y) /\ y.adds = [x.adds EXCEPT ![t] = b]
         /\ y.open = x.open /\ y.clears = x.clears /\ y.cleared = x.cleared
         /\ y.receipt = x.receipt
BY BagsMade DEF TxOK

\* begin_if_closed opens the transaction and changes nothing in it.
LEMMA BegunEffect ==
  ASSUME TypeInv
  PROVE  /\ TxOK(Begun) /\ Begun.open = (Path = "direct")
         /\ Begun.adds = unit.adds /\ Begun.clears = unit.clears
         /\ Begun.cleared = unit.cleared /\ Begun.receipt = unit.receipt
<1> DEFINE open == Path = "direct"
<1>1. TxOK(unit) BY DEF TypeInv
<1>2. Begun = [unit EXCEPT !.open = open] /\ open \in BOOLEAN BY DEF Begun
<1>3. SUFFICES /\ TxOK(Begun) /\ Begun.open = open
               /\ Begun.adds = unit.adds /\ Begun.clears = unit.clears
               /\ Begun.cleared = unit.cleared /\ Begun.receipt = unit.receipt
  OBVIOUS
<1> HIDE DEF open
<1> QED BY <1>1, <1>2 DEF TxOK

\* A row written goes to the target or to the stage.
LEMMA WriteEffect ==
  ASSUME SqlAssumption, TypeInv, NEW t \in Table, Write(t)
  PROVE  /\ TxOK(unit)' /\ StageOK' /\ unit'.open = (Path = "direct")
         /\ unit'.clears = unit.clears /\ unit'.cleared = unit.cleared
         /\ LET row == [unit |-> cur, n |-> sent[t] + 1]
            IN IF Direct(t)
                 THEN /\ unit'.adds = [unit.adds EXCEPT ![t] = Plus(unit.adds[t], row)]
                      /\ stage' = stage
                 ELSE /\ unit'.adds = unit.adds
                      /\ stage' = [stage EXCEPT ![t] = Plus(stage[t], row)]
<1> DEFINE row == [unit |-> cur, n |-> sent[t] + 1]
<1>1. /\ TxOK(Begun) /\ Begun.open = (Path = "direct")
      /\ Begun.adds = unit.adds /\ Begun.clears = unit.clears
      /\ Begun.cleared = unit.cleared
  BY BegunEffect
<1>2. cur \in Unit /\ sent[t] < Feed(cur, t) BY DEF Write, TypeInv, Control
<1>3. row \in AllRows(t) BY <1>2, NextRow
<1>4. IF Direct(t)
        THEN /\ unit' = [Begun EXCEPT !.adds[t] = Plus(Begun.adds[t], row)]
             /\ stage' = stage
        ELSE /\ unit' = Begun
             /\ stage' = [stage EXCEPT ![t] = Plus(stage[t], row)]
  BY DEF Write
<1> HIDE DEF row
<1>5. Plus(Begun.adds[t], row) \in Bag(t) /\ Plus(stage[t], row) \in Bag(t)
  BY <1>1, <1>3, BagsMade DEF TxOK, TypeInv, StageOK
<1>6. StageOK' BY <1>4, <1>5, BagsMade DEF StageOK, TypeInv
<1>7. CASE Direct(t)
  <2>1. /\ TxOK(unit') /\ unit'.adds = [Begun.adds EXCEPT ![t] = Plus(Begun.adds[t], row)]
        /\ unit'.open = Begun.open /\ unit'.clears = Begun.clears
        /\ unit'.cleared = Begun.cleared
    BY <1>1, <1>4, <1>5, <1>7, AddsEffect
  <2>2. TxOK(unit)' BY <2>1 DEF TxOK
  <2> QED BY <1>1, <1>4, <1>6, <1>7, <2>1, <2>2 DEF row
<1>8. CASE ~Direct(t)
  <2>1. TxOK(unit)' BY <1>1, <1>4, <1>8 DEF TxOK
  <2> QED BY <1>1, <1>4, <1>6, <1>8, <2>1 DEF row
<1> QED BY <1>7, <1>8

\* A session that takes its unit's rows stays well typed.
LEMMA TypeWork ==
  ASSUME SqlAssumption, TypeInv, NEW t \in Table,
         EnsureTable(t) \/ LookupCleared(t) \/ ClearTarget(t) \/ Write(t)
  PROVE  TypeInv'
<1>a. UNCHANGED <<zombie, db, cur, acked, deaths>>
  BY DEF EnsureTable, LookupCleared, ClearTarget, Write, engineVars
<1>b. TxOK(unit) /\ TxOK(zombie) /\ Memory /\ Engine /\ Control /\ DbOK /\ sent \in [Table -> Nat]
      /\ (IF zombie.open THEN zombie.receipt \in Unit ELSE zombie = NoTx)
  BY DEF TypeInv
<1>0. /\ TxOK(unit) /\ TxOK(zombie) /\ Memory /\ Engine /\ Control /\ sent \in [Table -> Nat]
      /\ zombie' = zombie /\ Engine' /\ DbOK' /\ cur' = cur
      /\ (IF zombie'.open THEN zombie'.receipt \in Unit ELSE zombie' = NoTx)
  BY <1>a, <1>b DEF Engine, DbOK
<1>1. CASE EnsureTable(t)
  BY <1>0, <1>1 DEF EnsureTable, TypeInv, memoryVars, deliverVars, Memory, Control, StageOK, TxOK
<1>2. CASE LookupCleared(t)
  <2>1. /\ NeedsClear(t) /\ Path = "direct" /\ pc = "loading" /\ t \in tables
        /\ unit' = [unit EXCEPT !.open = TRUE]
    BY <1>2 DEF LookupCleared, NeedsClear, Direct, Begun
  <2>2. TxOK(unit)' /\ unit'.open /\ unit'.cleared = unit.cleared BY <1>0, <2>1 DEF TxOK
  <2>3. /\ UNCHANGED <<tables, singleUnitDone, sent, stage>>
        /\ clearedTargets' \subseteq clearedTargets \cup {t}
        /\ pc' \in {"loading", "clear"} /\ target' \subseteq target \cup {t}
    BY <1>2, <2>1 DEF LookupCleared
  <2>4. Memory' BY <1>0, <2>1, <2>3 DEF Memory
  <2>5. Control' BY <1>0, <1>2, <2>1, <2>2, <2>3 DEF Control, LookupCleared, engineVars
  <2> QED BY <1>0, <2>2, <2>3, <2>4, <2>5 DEF TypeInv, StageOK, TxOK
<1>3. CASE ClearTarget(t)
  <2>1. /\ pc = "clear" /\ t \in target /\ pc' = "loading" /\ target' = {}
        /\ UNCHANGED <<tables, clearedTargets, singleUnitDone, sent, stage, cur>>
        /\ unit' = [unit EXCEPT !.clears = unit.clears \cup {t},
                                !.cleared = unit.cleared \cup {t}, !.adds[t] = Zero(t)]
    BY <1>3 DEF ClearTarget, memoryVars, engineVars
  <2>2. TxOK(unit)' /\ unit'.open = unit.open /\ unit'.cleared = unit.cleared \cup {t}
    BY <1>0, <2>1, BagsMade DEF TxOK
  <2>3. Control' BY <1>0, <2>1, <2>2 DEF Control
  <2> QED BY <1>0, <2>1, <2>2, <2>3 DEF TypeInv, StageOK, TxOK, Memory, Control
<1>4. CASE Write(t)
  <2>1. /\ pc = "loading" /\ t \in tables /\ sent' = [sent EXCEPT ![t] = sent[t] + 1]
        /\ UNCHANGED <<tables, clearedTargets, singleUnitDone, pc, target, cur>>
    BY <1>4 DEF Write, memoryVars, engineVars
  <2>2. /\ TxOK(unit)' /\ StageOK' /\ unit'.cleared = unit.cleared
        /\ unit'.open = (Path = "direct")
    BY <1>4, WriteEffect
  <2>3. Path \in {"direct", "staged"} BY DEF SqlAssumption
  <2>4. ~unit'.open => unit' = NoTx
    <3>1. SUFFICES ASSUME ~(Path = "direct") PROVE unit' = NoTx BY <2>2
    <3>2. ~unit.open /\ unit = NoTx /\ ~Direct(t)
      BY <1>0, <2>1, <2>3, <3>1 DEF Control, TypeInv, Direct
    <3>3. unit' = unit BY <1>0, <1>4, <3>1, <3>2 DEF Write, TxOK, Begun
    <3> QED BY <3>2, <3>3
  <2>5. Control' BY <1>0, <2>1, <2>2, <2>3 DEF Control
  <2>6. sent' \in [Table -> Nat] /\ Memory' BY <1>0, <2>1 DEF Memory
  <2> QED BY <1>0, <2>2, <2>4, <2>5, <2>6 DEF TypeInv, TxOK
<1> QED BY <1>1, <1>2, <1>3, <1>4

\* The commit protocol keeps the state well typed.
LEMMA TypeCommit ==
  ASSUME SqlAssumption, TypeInv, Replay \/ ProbeFresh \/ RunScript \/ CommitTx PROVE TypeInv'
<1>a. UNCHANGED <<zombie, cur, acked, deaths>>
  BY DEF Replay, ProbeFresh, RunScript, CommitTx, engineVars
<1>b. /\ TxOK(unit) /\ TxOK(zombie) /\ Memory /\ Engine /\ Control /\ StageOK
      /\ sent \in [Table -> Nat]
      /\ (IF zombie.open THEN zombie.receipt \in Unit ELSE zombie = NoTx)
  BY DEF TypeInv
<1>0. /\ TxOK(unit) /\ TxOK(zombie) /\ Memory /\ Engine /\ Control /\ sent \in [Table -> Nat]
      /\ StageOK /\ zombie' = zombie /\ cur' = cur /\ Engine'
      /\ (IF zombie'.open THEN zombie'.receipt \in Unit ELSE zombie' = NoTx)
  BY <1>a, <1>b DEF Engine
<1>1. CASE Replay
  <2>1. EndUnit("answered") /\ cur \in Unit /\ pc # "none"
        /\ UNCHANGED <<db, tables, clearedTargets>>
        /\ singleUnitDone' \subseteq tables
    BY <1>0, <1>1 DEF Replay, Control, StagedNonempty, Memory
  <2>2. TxOK(unit)' /\ unit' = NoTx /\ StageOK' /\ sent' \in [Table -> Nat] /\ Control'
    BY <1>0, <2>1, EndUnitOK DEF Memory
  <2> QED BY <1>0, <2>1, <2>2 DEF TypeInv, Memory, DbOK, TxOK
<1>2. CASE ProbeFresh
  <2>1. /\ unit' = [unit EXCEPT !.open = TRUE] /\ pc' = "publish" /\ pc = "loading"
        /\ UNCHANGED <<db, tables, clearedTargets, singleUnitDone, target, sent, stage>>
    BY <1>2 DEF ProbeFresh, memoryVars
  <2>2. TxOK(unit)' /\ unit'.open /\ unit'.cleared = unit.cleared BY <1>0, <2>1 DEF TxOK
  <2>3. Control' BY <1>0, <2>1, <2>2 DEF Control
  <2> QED BY <1>0, <2>1, <2>2, <2>3 DEF TypeInv, Memory, DbOK, TxOK, StageOK
<1>3. CASE RunScript
  <2> DEFINE adds == [t \in Table |-> IF t \in PlanInserts THEN stage[t] ELSE unit.adds[t]]
  <2>1. /\ unit' = [unit EXCEPT !.clears = unit.clears \cup PlanClears, !.adds = adds,
                                !.receipt = cur]
        /\ pc' = "commit" /\ pc = "publish"
        /\ UNCHANGED <<db, tables, clearedTargets, singleUnitDone, target, sent, stage>>
    BY <1>3 DEF RunScript, memoryVars
  <2>2. PlanClears \subseteq Table /\ cur \in Unit
    BY <1>0, <2>1 DEF PlanClears, StagedNonempty, Memory, Control
  <2>3. adds \in [Table -> Bags] /\ \A t \in Table : adds[t] \in Bag(t)
    BY <1>0, BagsMade DEF TxOK, StageOK
  <2> HIDE DEF adds
  <2>4. TxOK(unit)' /\ unit'.open = unit.open /\ unit'.cleared = unit.cleared
    BY <1>0, <2>1, <2>2, <2>3 DEF TxOK
  <2>5. Control' BY <1>0, <2>1, <2>4 DEF Control
  <2> QED BY <1>0, <2>1, <2>4, <2>5 DEF TypeInv, Memory, DbOK, TxOK, StageOK, Control
<1>4. CASE CommitTx
  <2>1. /\ pc = "commit" /\ db' = Apply(db, unit) /\ EndUnit("answered") /\ tables' = tables
        /\ clearedTargets' = clearedTargets \cup unit.cleared
        /\ singleUnitDone' = singleUnitDone \cup StagedNonempty
    BY <1>4 DEF CommitTx
  <2>2. unit.receipt \in Unit BY <1>0, <2>1 DEF Control
  <2>3. DbOK' BY <1>0, <2>1, <2>2, ApplyOK
  <2>4. TxOK(unit)' /\ unit' = NoTx /\ StageOK' /\ sent' \in [Table -> Nat] /\ Control'
    BY <1>0, <2>1, EndUnitOK DEF Memory, Control
  <2>5. Memory' BY <1>0, <2>1 DEF Memory, Control, StagedNonempty
  <2> QED BY <1>0, <2>3, <2>4, <2>5 DEF TypeInv, TxOK
<1> QED BY <1>1, <1>2, <1>3, <1>4

\* The engine, and what goes wrong, keep the state well typed.
LEMMA TypeEngine ==
  ASSUME SqlAssumption, TypeInv,
         \/ OpenSession \/ ReceiptConflict \/ RefuseFeed \/ EngineAck
         \/ SessionDies \/ DieInCommit \/ UnitFails \/ ZombieEnds
  PROVE  TypeInv'
<1>0. /\ TxOK(unit) /\ TxOK(zombie) /\ Memory /\ Engine /\ Control /\ sent \in [Table -> Nat]
      /\ StageOK /\ DbOK /\ (IF zombie.open THEN zombie.receipt \in Unit ELSE zombie = NoTx)
  BY DEF TypeInv
<1>1. CASE OpenSession
  BY <1>0, <1>1, NoTxOK DEF OpenSession, TypeInv, engineVars, memoryVars, DbOK, StageOK, Memory, Engine,
                    Control, TxOK, SqlAssumption
<1>2. ASSUME EndSession, cur' \in Unit \cup {Past}, acked' \subseteq Unit, deaths' \in 0 .. MaxDeaths,
             zombie' = zombie \/ (zombie' = unit /\ pc = "commit"), db' = db
      PROVE  TypeInv'
  <2>1. EndUnit("none") /\ tables' = {} /\ clearedTargets' = {} /\ singleUnitDone' = {}
    BY <1>2 DEF EndSession
  <2>2. TxOK(unit)' /\ unit' = NoTx /\ StageOK' /\ sent' \in [Table -> Nat] /\ Control'
    BY <2>1, EndUnitOK
  <2>3. TxOK(zombie)' /\ (IF zombie'.open THEN zombie'.receipt \in Unit ELSE zombie' = NoTx)
    BY <1>0, <1>2 DEF TypeInv, TxOK, Control
  <2>4. Memory' /\ Engine' /\ DbOK' BY <1>0, <1>2, <2>1 DEF Memory, Engine, DbOK
  <2> QED BY <2>2, <2>3, <2>4 DEF TypeInv
<1>3. CASE ReceiptConflict
  BY <1>0, <1>2, <1>3 DEF ReceiptConflict, engineVars, Engine
<1>4. CASE RefuseFeed
  <2>1. cur \in Unit BY <1>0, <1>4 DEF RefuseFeed, Control
  <2>2. [load |-> cur.load + 1, seq |-> 1] \in Unit \cup {Past}
    BY <2>1 DEF Unit, Past, SqlAssumption
  <2> QED BY <1>0, <1>2, <1>4, <2>2 DEF RefuseFeed, Engine
<1>5. CASE EngineAck
  <2>1. cur \in Unit /\ pc = "answered" BY <1>0, <1>5 DEF EngineAck, Control
  <2>2. acked' \subseteq Unit /\ deaths' \in 0 .. MaxDeaths /\ UNCHANGED <<db, zombie>>
    BY <1>0, <1>5, <2>1 DEF EngineAck, Engine
  <2>3. CASE cur.seq < MaxSeq
    <3>1. cur' = [cur EXCEPT !.seq = cur.seq + 1] /\ EndUnit("loading")
          /\ UNCHANGED <<tables, clearedTargets, singleUnitDone>>
      BY <1>5, <2>3 DEF EngineAck, memoryVars
    <3>2. cur' \in Unit BY <2>1, <2>3, <3>1 DEF Unit, SqlAssumption
    <3>3. TxOK(unit)' /\ unit' = NoTx /\ StageOK' /\ sent' \in [Table -> Nat] /\ Control'
      BY <1>0, <3>1, <3>2, EndUnitOK DEF Memory
    <3>4. Memory' /\ Engine' /\ DbOK' BY <1>0, <2>2, <3>1, <3>2 DEF Memory, Engine, DbOK
    <3> QED BY <1>0, <2>2, <3>3, <3>4 DEF TypeInv, TxOK
  <2>4. CASE ~(cur.seq < MaxSeq)
    <3>1. [load |-> cur.load + 1, seq |-> 1] \in Unit \cup {Past}
      BY <2>1 DEF Unit, Past, SqlAssumption
    <3> QED BY <1>2, <1>5, <2>2, <2>4, <3>1 DEF EngineAck
  <2> QED BY <2>3, <2>4
<1>6. CASE SessionDies \/ DieInCommit
  <2>1. deaths' \in 0 .. MaxDeaths BY <1>0, <1>6 DEF SessionDies, DieInCommit, MayDie, Engine,
                                       SqlAssumption
  <2> QED BY <1>0, <1>2, <1>6, <2>1 DEF SessionDies, DieInCommit, Engine
<1>7. CASE UnitFails
  <2>1. deaths' \in 0 .. MaxDeaths /\ EndUnit("loading") /\ cur \in Unit
        /\ UNCHANGED <<db, zombie, cur, acked, tables, clearedTargets, singleUnitDone>>
    BY <1>0, <1>7 DEF UnitFails, Engine, SqlAssumption, memoryVars, Control
  <2>2. TxOK(unit)' /\ unit' = NoTx /\ StageOK' /\ sent' \in [Table -> Nat] /\ Control'
    BY <1>0, <2>1, EndUnitOK DEF Memory
  <2>3. Memory' /\ Engine' /\ DbOK' BY <1>0, <2>1 DEF Memory, Engine, DbOK
  <2> QED BY <1>0, <2>1, <2>2, <2>3 DEF TypeInv, TxOK
<1>8. CASE ZombieEnds
  <2>1. zombie.receipt \in Unit BY <1>0, <1>8 DEF ZombieEnds
  <2>2. DbOK' BY <1>0, <1>8, <2>1, ApplyOK DEF ZombieEnds, DbOK
  <2>3. TxOK(zombie)' BY <1>8, NoTxOK DEF ZombieEnds, TxOK
  <2>4. UNCHANGED <<cur, acked, deaths, tables, clearedTargets, singleUnitDone, pc, target, sent,
                    unit, stage>> /\ zombie' = NoTx
    BY <1>8 DEF ZombieEnds, engineVars, memoryVars, deliverVars
  <2>5. TxOK(unit)' /\ Memory' /\ Engine' /\ Control' /\ StageOK' /\ sent' \in [Table -> Nat]
    BY <1>0, <2>4 DEF TxOK, StageOK, Memory, Engine, Control
  <2>6. (~unit.open => unit = NoTx)' BY <2>4 DEF TypeInv
  <2>7. ~zombie'.open BY <2>4, NoTxOK
  <2> QED BY <2>2, <2>3, <2>4, <2>5, <2>6, <2>7 DEF TypeInv
<1> QED BY <1>1, <1>3, <1>4, <1>5, <1>6, <1>7, <1>8

\* Every step keeps the state well typed.
LEMMA TypeStep == ASSUME SqlAssumption, TypeInv, [Next]_vars PROVE TypeInv'
<1>1. CASE UNCHANGED vars
  <2>1. UNCHANGED <<db, zombie, cur, acked, deaths, tables, clearedTargets, singleUnitDone, pc,
                    target, sent, unit, stage>>
    BY <1>1 DEF vars, engineVars, memoryVars, deliverVars
  <2> QED BY <2>1 DEF TypeInv, TxOK, DbOK, StageOK, Memory, Engine, Control
<1> QED BY <1>1, TypeWork, TypeCommit, TypeEngine DEF Next, Progress

\* The types TypeOK names are among them.
LEMMA TypeInvOK == ASSUME SqlAssumption, TypeInv PROVE TypeOK
<1>1. /\ db.receipts \subseteq Unit /\ db.state \in Unit \cup {NoUnit}
      /\ db.cleared \subseteq (1 .. MaxLoad) \X Table
      /\ \A t \in Table : db.rows[t] \in Bag(t) /\ stage[t] \in Bag(t)
  BY DEF TypeInv, DbOK, StageOK
<1>2. \A x \in {unit, zombie} : ~x.open => x = NoTx BY DEF TypeInv
<1>3. cur \in Unit \cup {Past} /\ acked \subseteq Unit /\ deaths \in 0 .. MaxDeaths
  BY DEF TypeInv, Engine
<1>4. /\ target \subseteq tables /\ tables \subseteq Table
      /\ clearedTargets \subseteq tables /\ singleUnitDone \subseteq tables
  BY DEF TypeInv, Control, Memory
<1> QED BY <1>1, <1>2, <1>3, <1>4 DEF TypeInv, Control, TypeOK, Bag, Past

\* Whatever dies where, only typed changes are held, and only by an open
\* transaction (TypeOK).
THEOREM TypeCorrect == ASSUME SqlAssumption PROVE Spec => []TypeOK
<1>1. Init => TypeInv BY TypeInit
<1>2. TypeInv /\ [Next]_vars => TypeInv' BY TypeStep
<1>3. TypeInv => TypeOK BY TypeInvOK
<1> QED BY <1>1, <1>2, <1>3, PTL DEF Spec

-----------------------------------------------------------------------------
(* The rows of a unit, and what a reader should find *)

Before(u, v) == u.load < v.load \/ (u.load = v.load /\ u.seq < v.seq)

\* The first k rows of unit u, and all of them.
Work(t, u, k) == [r \in AllRows(t) |-> IF r.unit = u /\ r.n <= k THEN 1 ELSE 0]
Whole(t, u)   == [r \in AllRows(t) |-> IF r.unit = u THEN 1 ELSE 0]

\* What a reader of t finds when the units of C have committed.
View(t, C) == [r \in AllRows(t) |-> IF r.unit \in Abstract!Current(C, t) THEN 1 ELSE 0]

\* Unit w, committed after those of C, is the first whose rows replace t's.
Fresh(t, w, C) ==
  \/ Promised[t] = "replace" /\ \A v \in C : v.load # w.load
  \/ /\ Promised[t] = "feed" /\ Feed(w, t) > 0
     /\ \A v \in C : v.load = w.load => Feed(v, t) = 0

\* A row is one of its unit's.
LEMMA RowOfUnit ==
  ASSUME SqlAssumption, NEW t \in Table, NEW r \in AllRows(t)
  PROVE  /\ r.unit \in Unit /\ r.n \in 1 .. Feed(r.unit, t) /\ Feed(r.unit, t) \in Nat \ {0}
         /\ r = [unit |-> r.unit, n |-> r.n]
<1>1. PICK u \in Unit : r \in Rows(u, t) BY DEF AllRows
<1>2. PICK i \in 1 .. Feed(u, t) : r = [unit |-> u, n |-> i] BY <1>1 DEF Rows
<1>3. Feed(u, t) \in Nat BY DEF SqlAssumption
<1> QED BY <1>2, <1>3

\* A unit brings rows to a table or none.
LEMMA RowsOrNone ==
  ASSUME SqlAssumption, NEW t \in Table, NEW u \in Unit
  PROVE  Feed(u, t) \in Nat /\ (Rows(u, t) # {} <=> Feed(u, t) > 0)
<1>1. Feed(u, t) \in Nat BY DEF SqlAssumption
<1>2. Feed(u, t) > 0 => [unit |-> u, n |-> 1] \in Rows(u, t) BY <1>1 DEF Rows
<1>3. Feed(u, t) = 0 => Rows(u, t) = {} BY DEF Rows
<1> QED BY <1>1, <1>2, <1>3

\* Before the first row, with one row more, and with all of them.
LEMMA WorkNone ==
  ASSUME SqlAssumption, NEW t \in Table, NEW u PROVE Work(t, u, 0) = Zero(t)
<1>1. \A r \in AllRows(t) : ~(r.n <= 0) BY RowOfUnit
<1> QED BY <1>1 DEF Work, Zero

LEMMA WorkMore ==
  ASSUME SqlAssumption, NEW t \in Table, NEW u \in Unit, NEW k \in Nat, k < Feed(u, t)
  PROVE  Plus(Work(t, u, k), [unit |-> u, n |-> k + 1]) = Work(t, u, k + 1)
<1> DEFINE row == [unit |-> u, n |-> k + 1]
<1>1. Feed(u, t) \in Nat BY DEF SqlAssumption
<1>2. row \in Rows(u, t) BY <1>1 DEF Rows
<1>3. row \in AllRows(t) BY <1>2 DEF AllRows
<1>4. ASSUME NEW r \in AllRows(t)
      PROVE  /\ r = row => r.unit = u /\ ~(r.n <= k) /\ r.n <= k + 1
             /\ r # row => (r.unit = u /\ r.n <= k <=> r.unit = u /\ r.n <= k + 1)
  <2>1. r.n \in Nat /\ r = [unit |-> r.unit, n |-> r.n] BY RowOfUnit
  <2> QED BY <2>1
<1> HIDE DEF row
<1> DEFINE a == Work(t, u, k)
           b == Work(t, u, k + 1)
<1>5. /\ a \in [AllRows(t) -> Nat] /\ b \in [AllRows(t) -> Nat]
      /\ \A r \in AllRows(t) : b[r] = IF r = row THEN a[r] + 1 ELSE a[r]
  BY <1>4 DEF Work
<1> HIDE DEF a, b
<1>6. [a EXCEPT ![row] = a[row] + 1] = b BY <1>3, <1>5
<1> QED BY <1>6 DEF Plus, row, a, b

LEMMA WorkAll ==
  ASSUME SqlAssumption, NEW t \in Table, NEW u PROVE Work(t, u, Feed(u, t)) = Whole(t, u)
<1>1. \A r \in AllRows(t) : r.unit = u => r.n <= Feed(u, t) BY RowOfUnit
<1> QED BY <1>1 DEF Work, Whole

LEMMA WorkSome ==
  ASSUME SqlAssumption, NEW t \in Table, NEW u \in Unit, NEW k \in Nat, k > 0, k <= Feed(u, t)
  PROVE  Work(t, u, k) # Zero(t)
<1> DEFINE row == [unit |-> u, n |-> 1]
<1>1. 1 \in 1 .. Feed(u, t) BY DEF SqlAssumption
<1>2. row \in Rows(u, t) BY <1>1 DEF Rows
<1>3. row \in AllRows(t) BY <1>2 DEF AllRows
<1>4. Work(t, u, k)[row] = 1 /\ Zero(t)[row] = 0 BY <1>3 DEF Work, Zero
<1> QED BY <1>4

\* What is current is committed.
LEMMA CurrentCommitted ==
  ASSUME SqlAssumption, NEW t \in Table, NEW C PROVE Abstract!Current(C, t) \subseteq C
<1>1. Promised[t] \in {"append", "replace", "feed"} BY DEF Promised, SqlAssumption
<1> QED BY <1>1 DEF Abstract!Current, Abstract!Newest

\* The view of ExactlyOnce, table by table.
LEMMA ExactView ==
  ASSUME SqlAssumption, NEW C \in SUBSET Unit
  PROVE  Abstract!Exact(C) = [t \in Table |-> View(t, C)]
<1>1. ASSUME NEW t \in Table, NEW r \in AllRows(t)
      PROVE  (\E u \in Abstract!Current(C, t) : r \in Rows(u, t)) <=> r.unit \in Abstract!Current(C, t)
  <2>1. r.unit \in Unit /\ r.n \in 1 .. Feed(r.unit, t) /\ r = [unit |-> r.unit, n |-> r.n]
    BY RowOfUnit
  <2>2. r \in Rows(r.unit, t) BY <2>1 DEF Rows
  <2>3. \A u \in Unit : r \in Rows(u, t) => r.unit = u BY DEF Rows
  <2> QED BY <2>2, <2>3, CurrentCommitted
<1>2. \A t \in Table : Abstract!AllRows(t) = AllRows(t) BY DEF Abstract!AllRows, AllRows
<1> QED BY <1>1, <1>2 DEF Abstract!Exact, View

\* The newest of a set of units to which one is added that none is newer than.
LEMMA NewestStep ==
  ASSUME NEW C \in SUBSET Unit, NEW w \in Unit, \A u \in C : u.load <= w.load
  PROVE  Abstract!Newest(C \cup {w})
           = IF \E x \in C : x.load = w.load THEN Abstract!Newest(C) \cup {w} ELSE {w}
<1>1. \A u \in Unit : u.load \in Nat BY DEF Unit
<1>2. CASE \E x \in C : x.load = w.load
  <2>1. \A u \in C : (\A x \in C : x.load <= u.load) <=> u.load = w.load BY <1>1, <1>2
  <2>2. \A u \in C \cup {w} : (\A x \in C \cup {w} : x.load <= u.load) <=> u.load = w.load
    BY <1>1
  <2> QED BY <1>2, <2>1, <2>2 DEF Abstract!Newest
<1>3. CASE ~\E x \in C : x.load = w.load
  <2>1. \A u \in C : u.load < w.load BY <1>1, <1>3
  <2>2. \A u \in C : ~(w.load <= u.load) BY <1>1, <2>1
  <2>3. \A x \in C \cup {w} : x.load <= w.load BY <1>1
  <2> QED BY <1>3, <2>2, <2>3 DEF Abstract!Newest
<1> QED BY <1>2, <1>3

\* What one unit more makes of the current ones.
LEMMA CurrentStep ==
  ASSUME SqlAssumption, NEW t \in Table, NEW C \in SUBSET Unit, NEW w \in Unit, w \notin C,
         \A u \in C : u.load <= w.load,
         NEW v \in Unit, Feed(v, t) > 0
  PROVE  v \in Abstract!Current(C \cup {w}, t)
           <=> v = w \/ (~Fresh(t, w, C) /\ v \in Abstract!Current(C, t))
<1>2. CASE Promised[t] = "append" BY <1>2 DEF Abstract!Current, Fresh
<1>3. CASE Promised[t] = "replace"
  <2>1. /\ Abstract!Current(C, t) = Abstract!Newest(C)
        /\ Abstract!Current(C \cup {w}, t) = Abstract!Newest(C \cup {w})
    BY <1>3 DEF Abstract!Current
  <2>2. Fresh(t, w, C) <=> ~\E x \in C : x.load = w.load BY <1>3 DEF Fresh
  <2>3. Abstract!Newest(C \cup {w})
          = IF \E x \in C : x.load = w.load THEN Abstract!Newest(C) \cup {w} ELSE {w}
    BY NewestStep
  <2> QED BY <2>1, <2>2, <2>3
<1>4. CASE Promised[t] = "feed"
  <2> DEFINE F == {u \in C : Rows(u, t) # {}}
             G == {u \in C \cup {w} : Rows(u, t) # {}}
  <2>1. /\ Abstract!Current(C, t) = Abstract!Newest(F)
        /\ Abstract!Current(C \cup {w}, t) = Abstract!Newest(G)
    BY <1>4 DEF Abstract!Current
  <2>2. \A u \in Unit : Feed(u, t) \in Nat /\ (Rows(u, t) # {} <=> Feed(u, t) > 0)
    BY RowsOrNone
  <2>3. Fresh(t, w, C) <=> Feed(w, t) > 0 /\ \A x \in C : x.load = w.load => Feed(x, t) = 0
    BY <1>4 DEF Fresh
  <2>4. /\ F \in SUBSET Unit /\ \A u \in Unit : u \in F <=> u \in C /\ Feed(u, t) > 0
        /\ G = IF Feed(w, t) > 0 THEN F \cup {w} ELSE F
    BY <2>2
  <2> HIDE DEF F, G
  <2>5. CASE Feed(w, t) > 0
    <3>1. Fresh(t, w, C) <=> ~\E x \in F : x.load = w.load BY <2>2, <2>3, <2>4, <2>5
    <3>2. \A u \in F : u.load <= w.load BY <2>4
    <3>3. Abstract!Newest(F \cup {w})
            = IF \E x \in F : x.load = w.load THEN Abstract!Newest(F) \cup {w} ELSE {w}
      BY <2>4, <3>2, NewestStep
    <3> QED BY <2>1, <2>4, <2>5, <3>1, <3>3
  <2>6. CASE ~(Feed(w, t) > 0) BY <2>1, <2>3, <2>4, <2>6
  <2> QED BY <2>5, <2>6
<1>5. Promised[t] \in {"append", "replace", "feed"} BY DEF Promised, SqlAssumption
<1> QED BY <1>2, <1>3, <1>4, <1>5

-----------------------------------------------------------------------------
(* A transaction ready to commit, and what it leaves *)

DirectReplace(t) == Direct(t) /\ Mode[t] = "replace"

\* x brings the rows of the unit after those of C, and empties what they replace.
TxReady(x, C) ==
  /\ x.receipt \in Unit /\ x.receipt \notin C
  /\ \A u \in C : Before(u, x.receipt)
  /\ \A t \in Table : /\ x.adds[t] = Whole(t, x.receipt)
                      /\ t \in x.clears <=> Fresh(t, x.receipt, C)
                      /\ t \in x.cleared <=> DirectReplace(t) /\ t \in x.clears

\* A reader finds exactly what is committed.
RowsExact == \A t \in Table : db.rows[t] = View(t, db.receipts)

\* A clear is on record once a unit of the load brought rows.
ClearedExact ==
  \A l \in 1 .. MaxLoad, t \in Table :
    <<l, t>> \in db.cleared
      <=> DirectReplace(t) /\ \E u \in db.receipts : u.load = l /\ Feed(u, t) > 0

\* Ready transactions leave exactly what is committed.
LEMMA ApplyReady ==
  ASSUME SqlAssumption, TypeInv, RowsExact, ClearedExact,
         NEW x, TxOK(x), TxReady(x, db.receipts), db' = Apply(db, x)
  PROVE  /\ RowsExact' /\ ClearedExact'
         /\ db'.receipts = db.receipts \cup {x.receipt} /\ db'.state = x.receipt
         /\ db.cleared \subseteq db'.cleared
<1> DEFINE C == db.receipts
           w == x.receipt
<1>1. /\ db'.receipts = C \cup {w} /\ db'.state = w
      /\ db'.cleared = db.cleared \cup {<<w.load, t>> : t \in x.cleared}
      /\ \A t \in Table : db'.rows[t] = IF t \in x.clears THEN x.adds[t]
                                        ELSE Sum2(db.rows[t], x.adds[t])
  BY DEF Apply
<1>2. C \in SUBSET Unit /\ w \in Unit /\ w \notin C /\ x.cleared \subseteq Table
  BY DEF TypeInv, DbOK, TxReady, TxOK
<1>3. \A u \in C : u.load <= w.load BY <1>2 DEF TxReady, Before, Unit
<1>4. ASSUME NEW t \in Table PROVE db'.rows[t] = View(t, C \cup {w})
  <2>1. /\ x.adds[t] = Whole(t, w) /\ (t \in x.clears <=> Fresh(t, w, C))
        /\ db.rows[t] = View(t, C)
    BY DEF TxReady, RowsExact
  <2>2. ASSUME NEW r \in AllRows(t)
        PROVE  r.unit \in Abstract!Current(C \cup {w}, t)
                 <=> r.unit = w \/ (~Fresh(t, w, C) /\ r.unit \in Abstract!Current(C, t))
    <3>1. r.unit \in Unit /\ Feed(r.unit, t) > 0 BY RowOfUnit
    <3> QED BY <1>2, <1>3, <3>1, CurrentStep
  <2>3. Abstract!Current(C, t) \subseteq C BY CurrentCommitted
  <2> HIDE DEF C, w
  <2>4. CASE Fresh(t, w, C) BY <1>1, <2>1, <2>2, <2>4 DEF Whole, View
  <2>5. CASE ~Fresh(t, w, C)
    <3>1. db'.rows[t] = Sum2(View(t, C), Whole(t, w)) BY <1>1, <2>1, <2>5
    <3>2. \A r \in AllRows(t) : r.unit = w => r.unit \notin Abstract!Current(C, t)
      BY <1>2, <2>3
    <3> QED BY <2>2, <2>5, <3>1, <3>2 DEF Sum2, View, Whole
  <2> QED BY <2>4, <2>5
<1>5. RowsExact' BY <1>1, <1>4 DEF RowsExact, View
<1>6. ASSUME NEW l \in 1 .. MaxLoad, NEW t \in Table
      PROVE  <<l, t>> \in db'.cleared
               <=> DirectReplace(t) /\ \E u \in db'.receipts : u.load = l /\ Feed(u, t) > 0
  <2>1. <<l, t>> \in db'.cleared <=> <<l, t>> \in db.cleared \/ (l = w.load /\ t \in x.cleared)
    BY <1>1, <1>2
  <2>2. <<l, t>> \in db.cleared <=> DirectReplace(t) /\ \E u \in C : u.load = l /\ Feed(u, t) > 0
    BY DEF ClearedExact
  <2>3. t \in x.cleared <=> DirectReplace(t) /\ Fresh(t, w, C) BY DEF TxReady
  <2>4. DirectReplace(t) => Promised[t] = "feed" BY DEF DirectReplace, Promised
  <2>5. \A u \in Unit : Feed(u, t) \in Nat BY DEF SqlAssumption
  <2> HIDE DEF C, w
  <2>6. DirectReplace(t) =>
          (Fresh(t, w, C) <=> Feed(w, t) > 0 /\ \A v \in C : v.load = w.load => ~(Feed(v, t) > 0))
    BY <1>2, <2>4, <2>5 DEF Fresh
  <2> QED BY <1>1, <1>2, <2>1, <2>2, <2>3, <2>6
<1>7. ClearedExact'
  <2> QED BY <1>6 DEF ClearedExact, DirectReplace, Direct, FullFeed
<1> QED BY <1>1, <1>5, <1>7

-----------------------------------------------------------------------------
(* The inductive invariant *)

\* What the session wrote of its unit is in the transaction or in the stage.
DeliverInv ==
  /\ \A t \in Table : sent[t] > 0 => t \in tables /\ sent[t] <= Feed(cur, t)
  /\ pc \in {"publish", "commit"} => Delivered
  /\ \A t \in Table : stage[t] = IF Direct(t) THEN Zero(t) ELSE Work(t, cur, sent[t])
  /\ pc # "commit" => \A t \in Table :
       unit.adds[t] = IF Direct(t) THEN Work(t, cur, sent[t]) ELSE Zero(t)

\* The unit's clears are those of the direct path's Replace targets, made at
\* their first row unless the load had cleared them.
Uncleared(t) == <<cur.load, t>> \notin db.cleared \/ cur \in db.receipts

ClearInv ==
  /\ pc # "commit" => /\ unit.clears = unit.cleared
                      /\ \A t \in unit.cleared : DirectReplace(t) /\ Feed(cur, t) > 0 /\ Uncleared(t)
  /\ \A t \in Table : DirectReplace(t) /\ sent[t] > 0 => t \in clearedTargets \cup unit.cleared
  /\ pc = "clear" => \A t \in target : /\ DirectReplace(t) /\ sent[t] < Feed(cur, t)
                                       /\ t \notin clearedTargets \cup unit.cleared
                                       /\ Uncleared(t)

\* Units commit in order, and a transaction in doubt is the newest.
OrderInv ==
  /\ \A u \in db.receipts : u = cur \/ Before(u, cur)
  /\ \A u \in db.receipts : u = db.state \/ Before(u, db.state)
  /\ acked \subseteq db.receipts
  /\ \A u \in db.receipts : u.load = cur.load => u = cur \/ u \in acked
  /\ pc = "answered" => cur \in db.receipts
  /\ pc = "commit" => ~zombie.open /\ TxReady(unit, db.receipts) /\ unit.receipt = cur
  /\ zombie.open => /\ TxReady(zombie, db.receipts)
                    /\ zombie.receipt = cur \/ zombie.receipt.load < cur.load

\* A feed that counted is remembered while the load can go on.
NoFed == \A u \in acked, t \in Table : u.load = cur.load /\ FullFeed(t) => Feed(u, t) = 0

FeedInv ==
  /\ \A u \in acked, t \in Table : u.load = cur.load /\ FullFeed(t) /\ Feed(u, t) > 0 =>
       pc # "none" /\ t \in singleUnitDone
  /\ pc = "answered" => \A t \in Table : FullFeed(t) /\ Feed(cur, t) > 0 => t \in singleUnitDone
  /\ cur \in db.receipts /\ pc # "answered" => NoFed
  /\ zombie.open /\ zombie.receipt.load = cur.load => NoFed

UnitInv == DeliverInv /\ ClearInv /\ OrderInv /\ FeedInv /\ RowsExact /\ ClearedExact /\ ClearedIsDurable

\* At the start nothing is committed and nothing is on its way.
LEMMA UnitInit == ASSUME SqlAssumption, Init PROVE UnitInv
<1>1. NoTx.adds = NoRows /\ NoTx.clears = {} /\ NoTx.cleared = {} /\ ~NoTx.open BY DEF NoTx
<1>2. /\ db.receipts = {} /\ db.cleared = {} /\ db.rows = NoRows /\ acked = {} /\ pc = "none"
      /\ zombie = NoTx /\ unit = NoTx /\ stage = NoRows /\ target = {} /\ clearedTargets = {}
      /\ sent = [t \in Table |-> 0]
  BY DEF Init
<1>3. \A t \in Table : NoRows[t] = Zero(t) /\ Work(t, cur, 0) = Zero(t) BY WorkNone DEF NoRows
<1>4. DeliverInv BY <1>1, <1>2, <1>3 DEF DeliverInv
<1>5. ClearInv BY <1>1, <1>2 DEF ClearInv
<1>6. OrderInv /\ FeedInv BY <1>1, <1>2 DEF OrderInv, FeedInv
<1>7. ASSUME NEW t \in Table PROVE db.rows[t] = View(t, db.receipts)
  <2>1. Abstract!Current({}, t) = {} BY CurrentCommitted
  <2> QED BY <1>2, <1>3, <2>1 DEF View, Zero
<1>8. RowsExact /\ ClearedExact /\ ClearedIsDurable
  BY <1>2, <1>7 DEF RowsExact, ClearedExact, ClearedIsDurable
<1> QED BY <1>4, <1>5, <1>6, <1>8 DEF UnitInv

\* A unit that ends has written nothing yet.
LEMMA EndUnitDeliver ==
  ASSUME SqlAssumption, NEW l \in {"none", "loading", "answered"}, EndUnit(l)
  PROVE  DeliverInv' /\ ClearInv'
<1>1. /\ pc' = l /\ target' = {} /\ sent' = [t \in Table |-> 0] /\ unit' = NoTx /\ stage' = NoRows
  BY DEF EndUnit
<1>2. NoTx.adds = NoRows /\ NoTx.clears = {} /\ NoTx.cleared = {} BY DEF NoTx
<1>3. \A t \in Table : NoRows[t] = Zero(t) /\ Work(t, cur', 0) = Zero(t) BY WorkNone DEF NoRows
<1>4. \A t \in Table : Work(t, cur, sent[t])' = Work(t, cur', sent'[t]) /\ Zero(t)' = Zero(t)
                       /\ Direct(t)' = Direct(t)
  BY DEF Work, Zero, Direct, FullFeed
<1>5. DeliverInv' BY <1>1, <1>2, <1>3, <1>4 DEF DeliverInv
<1>6. ClearInv' BY <1>1, <1>2 DEF ClearInv
<1> QED BY <1>5, <1>6

-----------------------------------------------------------------------------
(* The steps *)

\* A session that takes its unit's rows leaves the database alone.
LEMMA WorkKeeps ==
  ASSUME SqlAssumption, TypeInv, UnitInv, UNCHANGED <<db, zombie, cur, acked, singleUnitDone>>,
         pc \in {"loading", "clear"}, pc' \in {"loading", "clear", "publish"}
  PROVE  OrderInv' /\ FeedInv' /\ RowsExact' /\ ClearedExact'
<1>1. OrderInv' BY DEF UnitInv, OrderInv, TxReady, DirectReplace, Direct, FullFeed, Whole, Fresh, Before
<1>2. FeedInv' BY DEF UnitInv, FeedInv, NoFed, FullFeed
<1>3. RowsExact' BY DEF UnitInv, RowsExact, View
<1>4. ClearedExact' BY DEF UnitInv, ClearedExact, DirectReplace, Direct, FullFeed
<1> QED BY <1>1, <1>2, <1>3, <1>4

\* Ensuring a table.
LEMMA UnitEnsure ==
  ASSUME SqlAssumption, TypeInv, UnitInv, NEW t \in Table, EnsureTable(t) PROVE UnitInv'
<1>1. /\ pc = "loading" /\ tables' = tables \cup {t}
      /\ UNCHANGED <<db, zombie, cur, acked, clearedTargets, singleUnitDone, pc, target, sent,
                     unit, stage>>
  BY DEF EnsureTable, engineVars, deliverVars
<1>2. DeliverInv' BY <1>1 DEF UnitInv, DeliverInv, Direct, FullFeed, Work, Zero
<1>3. ClearInv' BY <1>1 DEF UnitInv, ClearInv, DirectReplace, Direct, FullFeed, Uncleared
<1>4. ClearedIsDurable' BY <1>1 DEF UnitInv, ClearedIsDurable
<1> QED BY <1>1, <1>2, <1>3, <1>4, WorkKeeps DEF UnitInv

\* prepare_for_write believes a target cleared that the database says was.
LEMMA UnitLookup ==
  ASSUME SqlAssumption, TypeInv, UnitInv, NEW t \in Table, LookupCleared(t) PROVE UnitInv'
<1>1. /\ pc = "loading" /\ t \in tables /\ sent[t] < Feed(cur, t) /\ NeedsClear(t)
      /\ unit' = Begun
      /\ UNCHANGED <<db, zombie, cur, acked, tables, singleUnitDone, sent, stage>>
      /\ IF <<cur.load, t>> \in db.cleared
           THEN clearedTargets' = clearedTargets \cup {t} /\ pc' = pc /\ target' = target
           ELSE clearedTargets' = clearedTargets /\ pc' = "clear" /\ target' = {t}
  BY DEF LookupCleared, engineVars
<1>2. /\ unit'.adds = unit.adds /\ unit'.clears = unit.clears /\ unit'.cleared = unit.cleared
  BY <1>1, BegunEffect
<1>3. DirectReplace(t) /\ t \notin clearedTargets \cup unit.cleared
  BY <1>1 DEF NeedsClear, DirectReplace
<1>4. DeliverInv' BY <1>1, <1>2 DEF UnitInv, DeliverInv, Direct, FullFeed, Work, Zero
<1>5. ClearInv'
  <2>1. \A x \in Table : (DirectReplace(x)' <=> DirectReplace(x)) /\ (Uncleared(x)' <=> Uncleared(x))
    BY <1>1 DEF DirectReplace, Direct, FullFeed, Uncleared
  <2>2. unit.cleared \subseteq Table BY DEF TypeInv, TxOK
  <2>3. pc' = "clear" => Uncleared(t) BY <1>1 DEF Uncleared
  <2>4. target' \subseteq Table /\ (pc' = "clear" => target' = {t})
    BY <1>1 DEF TypeInv, Control, Memory
  <2> QED BY <1>1, <1>2, <1>3, <2>1, <2>2, <2>3, <2>4 DEF UnitInv, ClearInv
<1>6. ClearedIsDurable' BY <1>1 DEF UnitInv, ClearedIsDurable
<1> QED BY <1>1, <1>4, <1>5, <1>6, WorkKeeps DEF UnitInv

\* A clear empties the target and is recorded.
LEMMA UnitClear ==
  ASSUME SqlAssumption, TypeInv, UnitInv, NEW t \in Table, ClearTarget(t) PROVE UnitInv'
<1>1. /\ pc = "clear" /\ t \in target /\ pc' = "loading" /\ target' = {}
      /\ UNCHANGED <<db, zombie, cur, acked, tables, clearedTargets, singleUnitDone, sent, stage>>
      /\ unit' = [unit EXCEPT !.clears = unit.clears \cup {t},
                              !.cleared = unit.cleared \cup {t}, !.adds[t] = Zero(t)]
  BY DEF ClearTarget, memoryVars, engineVars
<1>2. TxOK(unit) /\ unit.cleared \subseteq Table /\ sent \in [Table -> Nat] BY DEF TypeInv, TxOK
<1>3. /\ unit'.adds = [unit.adds EXCEPT ![t] = Zero(t)]
      /\ unit'.clears = unit.clears \cup {t} /\ unit'.cleared = unit.cleared \cup {t}
  BY <1>1, <1>2 DEF TxOK
<1>4. /\ DirectReplace(t) /\ sent[t] < Feed(cur, t) /\ Uncleared(t)
      /\ t \notin clearedTargets \cup unit.cleared
  BY <1>1 DEF UnitInv, ClearInv
<1>5. sent[t] = 0 BY <1>2, <1>4 DEF UnitInv, ClearInv
<1>6. DeliverInv'
  <2>1. \A x \in Table : Work(x, cur, sent[x])' = Work(x, cur, sent[x]) /\ Zero(x)' = Zero(x)
                         /\ (Direct(x)' <=> Direct(x))
    BY <1>1 DEF Work, Zero, Direct, FullFeed
  <2>2. Work(t, cur, sent[t]) = Zero(t) BY <1>5, WorkNone
  <2>3. \A x \in Table : unit'.adds[x] = unit.adds[x]
    BY <1>1, <1>2, <1>3, <2>2, <1>4 DEF UnitInv, DeliverInv, TxOK, DirectReplace
  <2> QED BY <1>1, <2>1, <2>3 DEF UnitInv, DeliverInv
<1>7. ClearInv'
  <2>1. \A x \in Table : (DirectReplace(x)' <=> DirectReplace(x)) /\ (Uncleared(x)' <=> Uncleared(x))
    BY <1>1 DEF DirectReplace, Direct, FullFeed, Uncleared
  <2> QED BY <1>1, <1>2, <1>3, <1>4, <2>1 DEF UnitInv, ClearInv, TypeInv, SqlAssumption
<1>8. ClearedIsDurable' BY <1>1 DEF UnitInv, ClearedIsDurable
<1> QED BY <1>1, <1>6, <1>7, <1>8, WorkKeeps DEF UnitInv

\* A row is written to where the rows before it are.
LEMMA UnitWrite ==
  ASSUME SqlAssumption, TypeInv, UnitInv, NEW t \in Table, Write(t) PROVE UnitInv'
<1> DEFINE row == [unit |-> cur, n |-> sent[t] + 1]
<1>1. /\ pc = "loading" /\ t \in tables /\ sent[t] < Feed(cur, t) /\ ~NeedsClear(t)
      /\ sent' = [sent EXCEPT ![t] = sent[t] + 1]
      /\ UNCHANGED <<db, zombie, cur, acked, tables, clearedTargets, singleUnitDone, pc, target>>
  BY DEF Write, memoryVars, engineVars
<1>2. /\ sent \in [Table -> Nat] /\ cur \in Unit /\ TxOK(unit)
      /\ stage \in [Table -> Bags] /\ unit.adds \in [Table -> Bags]
  BY <1>1 DEF TypeInv, Control, TxOK, StageOK
<1>3. /\ unit'.clears = unit.clears /\ unit'.cleared = unit.cleared
      /\ IF Direct(t)
           THEN unit'.adds = [unit.adds EXCEPT ![t] = Plus(unit.adds[t], row)] /\ stage' = stage
           ELSE unit'.adds = unit.adds /\ stage' = [stage EXCEPT ![t] = Plus(stage[t], row)]
  BY WriteEffect
<1>4. Plus(Work(t, cur, sent[t]), row) = Work(t, cur, sent[t] + 1) BY <1>1, <1>2, WorkMore
<1> HIDE DEF row
<1>5. DeliverInv'
  <2>1. \A x \in Table : Work(x, cur, sent[x])' = Work(x, cur, sent'[x]) /\ Zero(x)' = Zero(x)
                         /\ (Direct(x)' <=> Direct(x))
    BY <1>1 DEF Work, Zero, Direct, FullFeed
  <2>2. \A x \in Table : /\ stage[x] = IF Direct(x) THEN Zero(x) ELSE Work(x, cur, sent[x])
                         /\ unit.adds[x] = IF Direct(x) THEN Work(x, cur, sent[x]) ELSE Zero(x)
    BY <1>1 DEF UnitInv, DeliverInv
  <2>3. \A x \in Table : /\ stage'[x] = IF Direct(x) THEN Zero(x) ELSE Work(x, cur, sent'[x])
                         /\ unit'.adds[x] = IF Direct(x) THEN Work(x, cur, sent'[x]) ELSE Zero(x)
    BY <1>1, <1>2, <1>3, <1>4, <2>2
  <2>4. Feed(cur, t) \in Nat BY <1>2 DEF SqlAssumption
  <2>5. \A x \in Table : sent'[x] > 0 => x \in tables' /\ sent'[x] <= Feed(cur', x)
    BY <1>1, <1>2, <2>4 DEF UnitInv, DeliverInv
  <2> QED BY <1>1, <2>1, <2>3, <2>5 DEF DeliverInv
<1>6. ClearInv'
  <2>1. \A x \in Table : (DirectReplace(x)' <=> DirectReplace(x)) /\ (Uncleared(x)' <=> Uncleared(x))
    BY <1>1 DEF DirectReplace, Direct, FullFeed, Uncleared
  <2>2. DirectReplace(t) => t \in clearedTargets \cup unit.cleared
    BY <1>1 DEF NeedsClear, DirectReplace
  <2>3. unit.cleared \subseteq Table BY <1>2 DEF TxOK
  <2> QED BY <1>1, <1>2, <1>3, <2>1, <2>2, <2>3 DEF UnitInv, ClearInv
<1>7. ClearedIsDurable' BY <1>1 DEF UnitInv, ClearedIsDurable
<1> QED BY <1>1, <1>5, <1>6, <1>7, WorkKeeps DEF UnitInv

\* The probe opens the transaction.
LEMMA UnitProbe == ASSUME SqlAssumption, TypeInv, UnitInv, ProbeFresh PROVE UnitInv'
<1>1. /\ pc = "loading" /\ Delivered /\ unit' = [unit EXCEPT !.open = TRUE] /\ pc' = "publish"
      /\ UNCHANGED <<db, zombie, cur, acked, tables, clearedTargets, singleUnitDone, target, sent, stage>>
  BY DEF ProbeFresh, engineVars, memoryVars
<1>2. TxOK(unit) BY DEF TypeInv
<1>3. unit'.adds = unit.adds /\ unit'.clears = unit.clears /\ unit'.cleared = unit.cleared
  BY <1>1, <1>2 DEF TxOK
<1>4. DeliverInv' BY <1>1, <1>3 DEF UnitInv, DeliverInv, Delivered, Direct, FullFeed, Work, Zero
<1>5. ClearInv' BY <1>1, <1>3 DEF UnitInv, ClearInv, DirectReplace, Direct, FullFeed, Uncleared
<1>6. ClearedIsDurable' BY <1>1 DEF UnitInv, ClearedIsDurable
<1> QED BY <1>1, <1>4, <1>5, <1>6, WorkKeeps DEF UnitInv

\* The planned steps make the transaction ready: it clears a table exactly
\* when its unit is the first of the load to replace what is there.
LEMMA ScriptClears ==
  ASSUME SqlAssumption, LateAssumption, TypeInv, UnitInv, RunScript, NEW t \in Table
  PROVE  t \in unit.clears \cup PlanClears <=> Fresh(t, cur, db.receipts)
<1>1. /\ pc = "publish" /\ cur \notin db.receipts /\ ~SecondFeed /\ Delivered /\ cur \in Unit
  BY DEF RunScript, UnitInv, DeliverInv, TypeInv, Control
<1>2. /\ db.receipts \subseteq Unit /\ sent \in [Table -> Nat] /\ tables \subseteq Table
      /\ \A u \in Unit : Feed(u, t) \in Nat
  BY DEF TypeInv, DbOK, Memory, SqlAssumption
<1>3. sent[t] = Feed(cur, t) /\ (t \notin Late => t \in tables)
  BY <1>1 DEF Delivered
<1>4. unit.clears = unit.cleared BY <1>1 DEF UnitInv, ClearInv
<1>5. CASE DirectReplace(t)
  <2>1. t \notin PlanClears BY <1>5 DEF PlanClears, StagedNonempty, DirectReplace, Direct
  <2>2. Promised[t] = "feed" BY <1>5 DEF DirectReplace, Promised
  <2>3. <<cur.load, t>> \in db.cleared
          <=> \E u \in db.receipts : u.load = cur.load /\ Feed(u, t) > 0
    BY <1>1, <1>5 DEF UnitInv, ClearedExact, Unit
  <2>4. t \in unit.cleared => Feed(cur, t) > 0 /\ <<cur.load, t>> \notin db.cleared
    BY <1>1 DEF UnitInv, ClearInv, Uncleared
  <2>5. Feed(cur, t) > 0 => t \in clearedTargets \cup unit.cleared
    BY <1>3, <1>5 DEF UnitInv, ClearInv
  <2>6. t \in clearedTargets => <<cur.load, t>> \in db.cleared
    BY DEF UnitInv, ClearedIsDurable
  <2>7. t \in unit.cleared <=> Feed(cur, t) > 0 /\ <<cur.load, t>> \notin db.cleared
    BY <2>4, <2>5, <2>6
  <2>8. (\A u \in db.receipts : u.load = cur.load => Feed(u, t) = 0)
          <=> ~\E u \in db.receipts : u.load = cur.load /\ Feed(u, t) > 0
    BY <1>2
  <2> QED BY <1>4, <2>1, <2>2, <2>3, <2>7, <2>8 DEF Fresh
<1>6. CASE FullFeed(t)
  <2>1. Promised[t] = "feed" BY <1>6 DEF FullFeed, Promised, Direct
  <2>2. t \notin unit.clears
    BY <1>1, <1>4, <1>6 DEF UnitInv, ClearInv, DirectReplace, Direct
  <2>3. t \in PlanClears <=> t \in StagedNonempty
    BY <1>6 DEF PlanClears, FullFeed
  <2>4. t \in StagedNonempty <=> Feed(cur, t) > 0
    <3>1. stage[t] = Work(t, cur, Feed(cur, t))
      BY <1>3, <1>6 DEF UnitInv, DeliverInv, Direct
    <3>2. Feed(cur, t) > 0 => t \in tables BY <1>3 DEF UnitInv, DeliverInv
    <3>3. Feed(cur, t) > 0 => Work(t, cur, Feed(cur, t)) # Zero(t) BY <1>1, <1>2, WorkSome
    <3>4. Feed(cur, t) = 0 => Work(t, cur, Feed(cur, t)) = Zero(t) BY WorkNone
    <3> QED BY <1>1, <1>2, <1>6, <3>1, <3>2, <3>3, <3>4 DEF StagedNonempty
  <2>5. Feed(cur, t) > 0 => \A v \in db.receipts : v.load = cur.load => Feed(v, t) = 0
    <3>1. SUFFICES ASSUME Feed(cur, t) > 0, NEW v \in db.receipts, v.load = cur.load, Feed(v, t) > 0
                   PROVE  FALSE
      BY <1>2
    <3>2. v \in acked BY <1>1, <3>1 DEF UnitInv, OrderInv
    <3>3. t \in singleUnitDone BY <1>6, <3>1, <3>2 DEF UnitInv, FeedInv
    <3> QED BY <1>1, <2>4, <3>1, <3>3 DEF SecondFeed
  <2> QED BY <2>1, <2>2, <2>3, <2>4, <2>5 DEF Fresh
<1>7. CASE ~DirectReplace(t) /\ ~FullFeed(t)
  <2>1. t \notin unit.clears BY <1>1, <1>4, <1>7 DEF UnitInv, ClearInv
  <2>2. Promised[t] = Mode[t] /\ Mode[t] \in {"append", "replace"}
    BY <1>7 DEF Promised, DirectReplace, FullFeed, SqlAssumption
  <2>3. t \in PlanClears <=> Mode[t] = "replace" /\ t \in tables /\ ~LoadCommittedBefore
    BY <1>7 DEF PlanClears, StagedNonempty, DirectReplace
  <2>4. Mode[t] = "replace" => t \in tables
    BY <1>3, <1>7 DEF LateAssumption, DirectReplace, Direct, SqlAssumption
  <2> QED BY <2>1, <2>2, <2>3, <2>4 DEF Fresh, LoadCommittedBefore
<1> QED BY <1>5, <1>6, <1>7

\* The planned steps.
LEMMA UnitScript ==
  ASSUME SqlAssumption, LateAssumption, TypeInv, UnitInv, RunScript PROVE UnitInv'
<1> DEFINE adds == [t \in Table |-> IF t \in PlanInserts THEN stage[t] ELSE unit.adds[t]]
<1>1. /\ pc = "publish" /\ pc' = "commit" /\ ~zombie.open /\ cur \notin db.receipts
      /\ unit' = [unit EXCEPT !.clears = unit.clears \cup PlanClears, !.adds = adds, !.receipt = cur]
      /\ UNCHANGED <<db, zombie, cur, acked, tables, clearedTargets, singleUnitDone, target, sent, stage>>
  BY DEF RunScript, engineVars, memoryVars
<1>2. TxOK(unit) /\ cur \in Unit /\ sent \in [Table -> Nat] /\ Delivered
  BY <1>1 DEF TypeInv, Control, UnitInv, DeliverInv
<1> HIDE DEF adds
<1>3. /\ unit'.clears = unit.clears \cup PlanClears /\ unit'.cleared = unit.cleared
      /\ unit'.adds = adds /\ unit'.receipt = cur
  BY <1>1, <1>2 DEF TxOK
<1>4. ASSUME NEW t \in Table PROVE adds[t] = Whole(t, cur)
  <2>1. sent[t] = Feed(cur, t) BY <1>2 DEF Delivered
  <2>2. /\ stage[t] = IF Direct(t) THEN Zero(t) ELSE Work(t, cur, sent[t])
        /\ unit.adds[t] = IF Direct(t) THEN Work(t, cur, sent[t]) ELSE Zero(t)
    BY <1>1 DEF UnitInv, DeliverInv
  <2>3. t \notin tables => Feed(cur, t) = 0
    <3>1. sent[t] \in Nat BY <1>2
    <3> QED BY <2>1, <3>1 DEF UnitInv, DeliverInv
  <2>4. Work(t, cur, 0) = Zero(t) /\ Work(t, cur, Feed(cur, t)) = Whole(t, cur)
    BY WorkNone, WorkAll
  <2> QED BY <2>1, <2>2, <2>3, <2>4 DEF adds, PlanInserts
<1>5. ASSUME NEW t \in Table
      PROVE  t \in unit.cleared <=> DirectReplace(t) /\ t \in unit.clears \cup PlanClears
  <2>1. DirectReplace(t) => t \notin PlanClears
    BY DEF PlanClears, StagedNonempty, DirectReplace, Direct
  <2>2. unit.clears = unit.cleared /\ \A x \in unit.cleared : DirectReplace(x)
    BY <1>1 DEF UnitInv, ClearInv
  <2> QED BY <2>1, <2>2
<1>6. \A u \in db.receipts : Before(u, cur) BY <1>1 DEF UnitInv, OrderInv
<1>7. TxReady(unit', db.receipts)
  BY <1>1, <1>2, <1>3, <1>4, <1>5, <1>6, ScriptClears DEF TxReady
<1>8. OrderInv'
  <2>1. TxReady(unit, db.receipts)' 
    BY <1>1, <1>7 DEF TxReady, DirectReplace, Direct, FullFeed, Whole, Fresh, Before
  <2> QED BY <1>1, <1>3, <2>1 DEF UnitInv, OrderInv, Before
<1>9. FeedInv' BY <1>1 DEF UnitInv, FeedInv, NoFed, FullFeed
<1>10. DeliverInv' BY <1>1, <1>2 DEF UnitInv, DeliverInv, Delivered, Direct, FullFeed, Work, Zero
<1>11. ClearInv' BY <1>1, <1>3 DEF UnitInv, ClearInv, DirectReplace, Direct, FullFeed
<1>12. RowsExact' /\ ClearedExact' /\ ClearedIsDurable'
  BY <1>1 DEF UnitInv, RowsExact, View, ClearedExact, DirectReplace, Direct, FullFeed, ClearedIsDurable
<1> QED BY <1>8, <1>9, <1>10, <1>11, <1>12 DEF UnitInv

\* A feed delivered whole is staged.
LEMMA StagedFed ==
  ASSUME SqlAssumption, TypeInv, UnitInv, Delivered, cur \in Unit,
         NEW t \in Table, FullFeed(t), Feed(cur, t) > 0
  PROVE  t \in StagedNonempty
<1>1. sent[t] = Feed(cur, t) /\ Feed(cur, t) \in Nat BY DEF Delivered, SqlAssumption
<1>2. t \in tables /\ stage[t] = Work(t, cur, Feed(cur, t))
  BY <1>1 DEF UnitInv, DeliverInv, Direct
<1>3. Work(t, cur, Feed(cur, t)) # Zero(t) BY <1>1, WorkSome
<1> QED BY <1>2, <1>3 DEF StagedNonempty

\* COMMIT makes the unit's rows the table's.
LEMMA UnitCommit == ASSUME SqlAssumption, TypeInv, UnitInv, CommitTx PROVE UnitInv'
<1>1. /\ pc = "commit" /\ db' = Apply(db, unit) /\ EndUnit("answered") /\ pc' = "answered"
      /\ clearedTargets' = clearedTargets \cup unit.cleared
      /\ singleUnitDone' = singleUnitDone \cup StagedNonempty
      /\ UNCHANGED <<zombie, cur, acked>>
  BY DEF CommitTx, engineVars, EndUnit
<1>2. /\ ~zombie.open /\ TxReady(unit, db.receipts) /\ unit.receipt = cur /\ cur \in Unit
      /\ Delivered /\ TxOK(unit) /\ RowsExact /\ ClearedExact
  BY <1>1 DEF UnitInv, OrderInv, DeliverInv, TypeInv, Control
<1>3. /\ RowsExact' /\ ClearedExact' /\ db'.receipts = db.receipts \cup {cur}
      /\ db'.state = cur /\ db.cleared \subseteq db'.cleared
  BY <1>1, <1>2, ApplyReady
<1>4. DeliverInv' /\ ClearInv' BY <1>1, EndUnitDeliver
<1>5. \A u \in db.receipts : Before(u, cur) BY <1>2 DEF TxReady
<1>6. OrderInv' BY <1>1, <1>2, <1>3, <1>5 DEF UnitInv, OrderInv, Before
<1>7. \A t \in Table : FullFeed(t) /\ Feed(cur, t) > 0 => t \in singleUnitDone'
  BY <1>1, <1>2, StagedFed
<1>8. FeedInv' BY <1>1, <1>2, <1>7 DEF UnitInv, FeedInv, FullFeed
<1>9. db'.cleared = db.cleared \cup {<<cur.load, t>> : t \in unit.cleared}
  BY <1>1, <1>2 DEF Apply
<1>10. ClearedIsDurable' BY <1>1, <1>9 DEF UnitInv, ClearedIsDurable
<1> QED BY <1>3, <1>4, <1>6, <1>8, <1>10 DEF UnitInv

\* A unit whose receipt is there is only forgotten again.
LEMMA UnitReplay == ASSUME SqlAssumption, TypeInv, UnitInv, Replay PROVE UnitInv'
<1>1. /\ pc = "loading" /\ Delivered /\ cur \in db.receipts /\ EndUnit("answered")
      /\ pc' = "answered" /\ singleUnitDone' = singleUnitDone \cup StagedNonempty
      /\ UNCHANGED <<db, zombie, cur, acked, clearedTargets>>
  BY DEF Replay, engineVars, EndUnit
<1>2. cur \in Unit BY <1>1 DEF TypeInv, Control
<1>3. DeliverInv' /\ ClearInv' BY <1>1, EndUnitDeliver
<1>4. OrderInv' BY <1>1 DEF UnitInv, OrderInv, TxReady, DirectReplace, Direct, FullFeed, Whole,
                            Fresh, Before
<1>5. \A t \in Table : FullFeed(t) /\ Feed(cur, t) > 0 => t \in singleUnitDone'
  BY <1>1, <1>2, StagedFed
<1>6. FeedInv' BY <1>1, <1>5 DEF UnitInv, FeedInv, NoFed, FullFeed
<1>7. RowsExact' /\ ClearedExact' /\ ClearedIsDurable'
  BY <1>1 DEF UnitInv, RowsExact, View, ClearedExact, DirectReplace, Direct, FullFeed, ClearedIsDurable
<1> QED BY <1>3, <1>4, <1>6, <1>7 DEF UnitInv

\* A session begins with nothing remembered.
LEMMA UnitOpen == ASSUME SqlAssumption, TypeInv, UnitInv, OpenSession PROVE UnitInv'
<1>1. /\ pc = "none" /\ pc' = "loading"
      /\ UNCHANGED <<db, zombie, cur, acked, tables, clearedTargets, singleUnitDone, target, sent,
                     unit, stage>>
  BY DEF OpenSession, engineVars, memoryVars
<1>2. DeliverInv' BY <1>1 DEF UnitInv, DeliverInv, Direct, FullFeed, Work, Zero
<1>3. ClearInv' BY <1>1 DEF UnitInv, ClearInv, DirectReplace, Direct, FullFeed, Uncleared
<1>4. OrderInv' BY <1>1 DEF UnitInv, OrderInv, TxReady, DirectReplace, Direct, FullFeed, Whole,
                            Fresh, Before
<1>5. FeedInv' BY <1>1 DEF UnitInv, FeedInv, NoFed, FullFeed
<1>6. RowsExact' /\ ClearedExact' /\ ClearedIsDurable'
  BY <1>1 DEF UnitInv, RowsExact, View, ClearedExact, DirectReplace, Direct, FullFeed, ClearedIsDurable
<1> QED BY <1>2, <1>3, <1>4, <1>5, <1>6 DEF UnitInv

\* A session that is over, its load to be resumed, forgot no feed.
LEMMA UnitSessionOver ==
  ASSUME SqlAssumption, TypeInv, UnitInv, EndSession, NoFed, UNCHANGED <<db, cur, acked>>,
         zombie' = zombie \/ (zombie' = unit /\ pc = "commit")
  PROVE  UnitInv'
<1>1. EndUnit("none") /\ pc' = "none" /\ clearedTargets' = {} BY DEF EndSession, EndUnit
<1>2. DeliverInv' /\ ClearInv' BY <1>1, EndUnitDeliver
<1>3. OrderInv'
  <2>1. zombie'.open => /\ TxReady(zombie', db.receipts)
                        /\ zombie'.receipt = cur \/ zombie'.receipt.load < cur.load
    BY DEF UnitInv, OrderInv
  <2> QED BY <1>1, <2>1 DEF UnitInv, OrderInv, TxReady, DirectReplace, Direct, FullFeed, Whole,
                            Fresh, Before
<1>4. FeedInv' BY <1>1 DEF FeedInv, NoFed, FullFeed
<1>5. RowsExact' /\ ClearedExact' /\ ClearedIsDurable'
  BY <1>1 DEF UnitInv, RowsExact, View, ClearedExact, DirectReplace, Direct, FullFeed, ClearedIsDurable
<1> QED BY <1>2, <1>3, <1>4, <1>5 DEF UnitInv

\* The next load starts afresh.
LEMMA UnitNextLoad ==
  ASSUME SqlAssumption, TypeInv, UnitInv, EndSession, cur \in Unit,
         cur' = [load |-> cur.load + 1, seq |-> 1], acked' \subseteq db.receipts,
         UNCHANGED <<db, zombie>>
  PROVE  UnitInv'
<1>1. EndUnit("none") /\ pc' = "none" /\ clearedTargets' = {} BY DEF EndSession, EndUnit
<1>2. DeliverInv' /\ ClearInv' BY <1>1, EndUnitDeliver
<1>3. /\ cur.load \in Nat /\ cur'.load = cur.load + 1 /\ db.receipts \subseteq Unit
      /\ \A u \in Unit : u.load \in Nat
  BY DEF TypeInv, DbOK, Unit
<1>4. \A u \in db.receipts : u.load < cur'.load
  BY <1>3 DEF UnitInv, OrderInv, Before
<1>5. zombie.open => zombie.receipt \in Unit /\ zombie.receipt.load < cur'.load
  BY <1>3 DEF TypeInv, UnitInv, OrderInv
<1>6. OrderInv'
  <2>1. zombie.open => TxReady(zombie, db.receipts) BY DEF UnitInv, OrderInv
  <2>2. \A u \in db.receipts : u.load # cur'.load /\ Before(u, cur') BY <1>3, <1>4 DEF Before
  <2> QED BY <1>1, <1>5, <2>1, <2>2 DEF UnitInv, OrderInv, TxReady, DirectReplace, Direct,
                                        FullFeed, Whole, Fresh, Before
<1>7. FeedInv'
  <2>1. \A u \in acked' : u.load # cur'.load BY <1>3, <1>4
  <2>2. NoFed' BY <2>1 DEF NoFed
  <2> QED BY <1>1, <2>1, <2>2 DEF FeedInv
<1>8. RowsExact' /\ ClearedExact' /\ ClearedIsDurable'
  BY <1>1 DEF UnitInv, RowsExact, View, ClearedExact, DirectReplace, Direct, FullFeed, ClearedIsDurable
<1> QED BY <1>2, <1>6, <1>7, <1>8 DEF UnitInv

\* The engine learns the receipt and goes on.
LEMMA UnitAck == ASSUME SqlAssumption, TypeInv, UnitInv, EngineAck PROVE UnitInv'
<1>1. /\ pc = "answered" /\ acked' = acked \cup {cur} /\ UNCHANGED <<db, zombie>>
  BY DEF EngineAck
<1>2. cur \in Unit /\ cur \in db.receipts /\ db.receipts \subseteq Unit
  BY <1>1 DEF TypeInv, Control, DbOK, UnitInv, OrderInv
<1>3. acked' \subseteq db.receipts BY <1>1, <1>2 DEF UnitInv, OrderInv
<1>4. CASE ~(cur.seq < MaxSeq)
  BY <1>1, <1>2, <1>3, <1>4, UnitNextLoad DEF EngineAck
<1>5. CASE cur.seq < MaxSeq
  <2>1. /\ cur' = [cur EXCEPT !.seq = cur.seq + 1] /\ EndUnit("loading") /\ pc' = "loading"
        /\ UNCHANGED <<clearedTargets, singleUnitDone>>
    BY <1>5 DEF EngineAck, memoryVars, EndUnit
  <2>2. /\ cur'.load = cur.load /\ cur'.seq = cur.seq + 1 /\ cur.seq \in Nat /\ cur.load \in Nat
    BY <1>2, <2>1 DEF Unit
  <2>3. \A u \in db.receipts : Before(u, cur')
    <3>1. \A u \in Unit : u.load \in Nat /\ u.seq \in Nat BY DEF Unit
    <3> QED BY <1>2, <2>2, <3>1 DEF UnitInv, OrderInv, Before
  <2>4. cur' \notin db.receipts
    BY <2>2, <2>3 DEF Before
  <2>5. zombie.open => /\ TxReady(zombie, db.receipts) /\ zombie.receipt.load < cur.load
                       /\ zombie.receipt.load # cur.load
    <3>1. zombie.open => TxReady(zombie, db.receipts)
                         /\ (zombie.receipt = cur \/ zombie.receipt.load < cur.load)
      BY DEF UnitInv, OrderInv
    <3>2. TxReady(zombie, db.receipts) => zombie.receipt \in Unit /\ zombie.receipt # cur
      BY <1>2 DEF TxReady
    <3> QED BY <2>2, <3>1, <3>2 DEF Unit
  <2>6. DeliverInv' /\ ClearInv' BY <2>1, EndUnitDeliver
  <2>7. OrderInv'
    <3>1. \A u \in db.receipts : u.load = cur'.load => u \in acked'
      BY <1>1, <2>2 DEF UnitInv, OrderInv
    <3> QED BY <1>1, <1>3, <2>1, <2>2, <2>3, <2>5, <3>1
            DEF UnitInv, OrderInv, TxReady, DirectReplace, Direct, FullFeed, Whole, Fresh, Before
  <2>8. FeedInv'
    <3>1. \A u \in acked', t \in Table : u.load = cur.load /\ FullFeed(t) /\ Feed(u, t) > 0 =>
             t \in singleUnitDone
      BY <1>1 DEF UnitInv, FeedInv
    <3> QED BY <1>1, <2>1, <2>2, <2>4, <2>5, <3>1 DEF FeedInv, FullFeed
  <2>9. RowsExact' /\ ClearedExact' /\ ClearedIsDurable'
    BY <1>1, <2>1, <2>2 DEF UnitInv, RowsExact, View, ClearedExact, DirectReplace, Direct,
                            FullFeed, ClearedIsDurable
  <2> QED BY <2>6, <2>7, <2>8, <2>9 DEF UnitInv
<1> QED BY <1>4, <1>5

\* A statement fails: the unit is taken again.
LEMMA UnitFailed == ASSUME SqlAssumption, TypeInv, UnitInv, UnitFails PROVE UnitInv'
<1>1. /\ pc \in {"loading", "clear", "publish"} /\ EndUnit("loading") /\ pc' = "loading"
      /\ UNCHANGED <<db, zombie, cur, acked, clearedTargets, singleUnitDone>>
  BY DEF UnitFails, EndUnit, memoryVars
<1>2. DeliverInv' /\ ClearInv' BY <1>1, EndUnitDeliver
<1>3. OrderInv' BY <1>1 DEF UnitInv, OrderInv, TxReady, DirectReplace, Direct, FullFeed, Whole,
                            Fresh, Before
<1>4. FeedInv' BY <1>1 DEF UnitInv, FeedInv, NoFed, FullFeed
<1>5. RowsExact' /\ ClearedExact' /\ ClearedIsDurable'
  BY <1>1 DEF UnitInv, RowsExact, View, ClearedExact, DirectReplace, Direct, FullFeed, ClearedIsDurable
<1> QED BY <1>2, <1>3, <1>4, <1>5 DEF UnitInv

\* The server ends a dead session's transaction, one way or the other.
LEMMA UnitZombie == ASSUME SqlAssumption, TypeInv, UnitInv, ZombieEnds PROVE UnitInv'
<1> DEFINE w == zombie.receipt
<1>1. /\ zombie.open /\ (db' = Apply(db, zombie) \/ db' = db) /\ zombie' = NoTx
      /\ UNCHANGED <<cur, acked, tables, clearedTargets, singleUnitDone, pc, target, sent, unit, stage>>
  BY DEF ZombieEnds, engineVars, memoryVars, deliverVars
<1>2. /\ TxReady(zombie, db.receipts) /\ (w = cur \/ w.load < cur.load) /\ TxOK(zombie)
      /\ w \in Unit /\ pc # "commit" /\ RowsExact /\ ClearedExact /\ ~zombie'.open
  BY <1>1, NoTxOK DEF UnitInv, OrderInv, TypeInv
<1>3. DeliverInv' BY <1>1 DEF UnitInv, DeliverInv, Delivered, Direct, FullFeed, Work, Zero
<1>4. CASE db' = db
  <2>1. ClearInv' BY <1>1, <1>4 DEF UnitInv, ClearInv, DirectReplace, Direct, FullFeed, Uncleared
  <2>2. OrderInv' BY <1>1, <1>2, <1>4 DEF UnitInv, OrderInv, Before
  <2>3. FeedInv' BY <1>1, <1>2, <1>4 DEF UnitInv, FeedInv, NoFed, FullFeed
  <2>4. RowsExact' /\ ClearedExact' /\ ClearedIsDurable'
    BY <1>1, <1>4 DEF UnitInv, RowsExact, View, ClearedExact, DirectReplace, Direct, FullFeed,
                      ClearedIsDurable
  <2> QED BY <1>3, <2>1, <2>2, <2>3, <2>4 DEF UnitInv
<1>5. CASE db' = Apply(db, zombie)
  <2>1. /\ RowsExact' /\ ClearedExact' /\ db'.receipts = db.receipts \cup {w}
        /\ db'.state = w /\ db.cleared \subseteq db'.cleared
    BY <1>2, <1>5, ApplyReady
  <2>2. db'.cleared = db.cleared \cup {<<w.load, t>> : t \in zombie.cleared}
    BY <1>5 DEF Apply
  <2>3. \A t \in Table : Uncleared(t) => Uncleared(t)'
    <3>1. SUFFICES ASSUME NEW t \in Table, Uncleared(t), cur \notin db'.receipts
                   PROVE  <<cur.load, t>> \notin db'.cleared
      BY <1>1 DEF Uncleared
    <3>2. w.load # cur.load /\ <<cur.load, t>> \notin db.cleared
      BY <1>2, <2>1, <3>1 DEF Uncleared, Unit
    <3> QED BY <2>2, <3>2
  <2>4. ClearInv'
    <3>1. unit.cleared \subseteq Table /\ target \subseteq Table
      BY DEF TypeInv, TxOK, Control, Memory
    <3> QED BY <1>1, <1>2, <2>3, <3>1 DEF UnitInv, ClearInv, DirectReplace, Direct, FullFeed
  <2>5. \A u \in db.receipts : Before(u, w) BY <1>2 DEF TxReady
  <2>6. OrderInv'
    BY <1>1, <1>2, <2>1, <2>5 DEF UnitInv, OrderInv, Before, Unit
  <2>7. w = cur => NoFed BY <1>1 DEF UnitInv, FeedInv
  <2>8. FeedInv' BY <1>1, <1>2, <2>1, <2>7 DEF UnitInv, FeedInv, NoFed, FullFeed
  <2>9. ClearedIsDurable' BY <1>1, <2>1 DEF UnitInv, ClearedIsDurable
  <2> QED BY <1>3, <2>1, <2>4, <2>6, <2>8, <2>9 DEF UnitInv
<1> QED BY <1>1, <1>4, <1>5

\* Every step of either path keeps the invariant.
LEMMA UnitStep ==
  ASSUME SqlAssumption, LateAssumption, TypeInv, UnitInv, [Next]_vars PROVE UnitInv'
<1>1. CASE UNCHANGED vars
  <2>1. UNCHANGED <<db, zombie, cur, acked, tables, clearedTargets, singleUnitDone, pc, target, sent,
                    unit, stage>>
    BY <1>1 DEF vars, engineVars, memoryVars, deliverVars
  <2>2. DeliverInv' BY <2>1 DEF UnitInv, DeliverInv, Delivered, Direct, FullFeed, Work, Zero
  <2>3. ClearInv' BY <2>1 DEF UnitInv, ClearInv, DirectReplace, Direct, FullFeed, Uncleared
  <2>4. OrderInv' BY <2>1 DEF UnitInv, OrderInv, TxReady, DirectReplace, Direct, FullFeed, Whole,
                              Fresh, Before
  <2>5. FeedInv' BY <2>1 DEF UnitInv, FeedInv, NoFed, FullFeed
  <2>6. RowsExact' /\ ClearedExact' /\ ClearedIsDurable'
    BY <2>1 DEF UnitInv, RowsExact, View, ClearedExact, DirectReplace, Direct, FullFeed,
                ClearedIsDurable
  <2> QED BY <2>2, <2>3, <2>4, <2>5, <2>6 DEF UnitInv
<1>2. CASE ReceiptConflict
  <2>1. /\ EndSession /\ pc = "publish" /\ cur \in db.receipts /\ UNCHANGED <<db, zombie, cur, acked>>
    BY <1>2 DEF ReceiptConflict, engineVars
  <2>2. NoFed BY <2>1 DEF UnitInv, FeedInv
  <2> QED BY <2>1, <2>2, UnitSessionOver
<1>3. CASE RefuseFeed
  <2>1. cur \in Unit BY <1>3 DEF RefuseFeed, TypeInv, Control
  <2>2. acked \subseteq db.receipts BY DEF UnitInv, OrderInv
  <2> QED BY <1>3, <2>1, <2>2, UnitNextLoad DEF RefuseFeed
<1>4. CASE SessionDies
  <2>1. NoFed BY <1>4 DEF SessionDies, MayDie, NoFed
  <2> QED BY <1>4, <2>1, UnitSessionOver DEF SessionDies
<1>5. CASE DieInCommit
  <2>1. NoFed BY <1>5 DEF DieInCommit, MayDie, NoFed
  <2> QED BY <1>5, <2>1, UnitSessionOver DEF DieInCommit
<1> QED BY <1>1, <1>2, <1>3, <1>4, <1>5, UnitEnsure, UnitLookup, UnitClear, UnitWrite, UnitProbe,
           UnitScript, UnitCommit, UnitReplay, UnitOpen, UnitAck, UnitFailed, UnitZombie
        DEF Next, Progress

\* What follows holds of every behaviour.
LEMMA UnitAlways == ASSUME SqlAssumption, LateAssumption PROVE Spec => [](TypeInv /\ UnitInv)
<1>1. Init => TypeInv /\ UnitInv BY TypeInit, UnitInit
<1>2. TypeInv /\ UnitInv /\ [Next]_vars => TypeInv' /\ UnitInv' BY TypeStep, UnitStep
<1> QED BY <1>1, <1>2, PTL DEF Spec

\* The position in the state document is never taken back (StateIsNewest): a
\* transaction left in COMMIT by a dead session is the newest, or is refused.
THEOREM StateNewest == ASSUME SqlAssumption, LateAssumption PROVE Spec => []StateIsNewest
<1>1. TypeInv /\ UnitInv => StateIsNewest
  <2>1. SUFFICES ASSUME TypeInv, UnitInv, NEW u \in db.receipts
                 PROVE  u.load < db.state.load \/ (u.load = db.state.load /\ u.seq <= db.state.seq)
    BY DEF StateIsNewest
  <2>2. u = db.state \/ Before(u, db.state) BY <2>1 DEF UnitInv, OrderInv
  <2>3. u \in Unit /\ u.load \in Nat /\ u.seq \in Nat BY <2>1 DEF TypeInv, DbOK, Unit
  <2>4. db.state \in Unit \cup {NoUnit} /\ db.state.seq \in Nat
    BY <2>1 DEF TypeInv, DbOK, Unit, NoUnit
  <2> QED BY <2>2, <2>3, <2>4 DEF Before
<1> QED BY <1>1, UnitAlways, PTL

\* A session believes cleared only what the database recorded as cleared, by a
\* transaction that committed (ClearedIsDurable).
THEOREM ClearedDurable == ASSUME SqlAssumption, LateAssumption PROVE Spec => []ClearedIsDurable
<1>1. UnitInv => ClearedIsDurable BY DEF UnitInv
<1> QED BY <1>1, UnitAlways, PTL

\* Every load brings rows to the tables it reloads on the direct path.
ReloadAssumption ==
  \A t \in Table : DirectReplace(t) =>
    \A l \in 1 .. MaxLoad : \E i \in 1 .. MaxSeq : Feed([load |-> l, seq |-> i], t) > 0

\* A finished reload leaves no row of an earlier load (ReloadReplaces): a target
\* is cleared once by a load, however its sessions end.
THEOREM Reload ==
  ASSUME SqlAssumption, LateAssumption, ReloadAssumption PROVE Spec => []ReloadReplaces
<1>1. TypeInv /\ UnitInv => ReloadReplaces
  <2>1. SUFFICES ASSUME TypeInv, UnitInv, NEW l \in 1 .. MaxLoad,
                        \A i \in 1 .. MaxSeq : [load |-> l, seq |-> i] \in db.receipts,
                        NEW t \in Table, Mode[t] = "replace",
                        NEW r \in AllRows(t), r.unit.load < l
                 PROVE  db.rows[t][r] = 0
    BY DEF ReloadReplaces
  <2>2. db.rows[t][r] = IF r.unit \in Abstract!Current(db.receipts, t) THEN 1 ELSE 0
    BY <2>1 DEF UnitInv, RowsExact, View
  <2>3. r.unit \in Unit /\ r.unit.load \in Nat /\ l \in Nat BY RowOfUnit DEF Unit
  <2>4. CASE DirectReplace(t)
    <3>1. PICK i \in 1 .. MaxSeq : Feed([load |-> l, seq |-> i], t) > 0
      BY <2>4 DEF ReloadAssumption
    <3>2. [load |-> l, seq |-> i] \in Unit BY DEF Unit
    <3>3. Rows([load |-> l, seq |-> i], t) # {} BY <3>1, <3>2, RowsOrNone
    <3>4. Promised[t] = "feed" BY <2>4 DEF DirectReplace, Promised
    <3>5. ~(l <= r.unit.load) BY <2>1, <2>3
    <3> QED BY <2>1, <2>2, <3>3, <3>4, <3>5 DEF Abstract!Current, Abstract!Newest
  <2>5. CASE ~DirectReplace(t)
    <3>1. Promised[t] = "replace" BY <2>1, <2>5 DEF DirectReplace, Promised
    <3>2. [load |-> l, seq |-> 1] \in db.receipts BY <2>1 DEF SqlAssumption
    <3>3. ~(l <= r.unit.load) BY <2>1, <2>3
    <3> QED BY <2>2, <3>1, <3>2, <3>3 DEF Abstract!Current, Abstract!Newest
  <2> QED BY <2>4, <2>5
<1> QED BY <1>1, UnitAlways, PTL

-----------------------------------------------------------------------------
(* The refinement *)

\* A ready transaction that is applied is one Commit of its unit.
LEMMA CommitIsOne ==
  ASSUME SqlAssumption, TypeInv, UnitInv, TypeInv', UnitInv',
         NEW x, TxOK(x), TxReady(x, db.receipts), db' = Apply(db, x), acked' = acked
  PROVE  x.receipt \in Unit /\ Abstract!Commit(x.receipt)
<1>1. x.receipt \in Unit /\ x.receipt \notin db.receipts BY DEF TxReady
<1>2. db'.receipts = db.receipts \cup {x.receipt} BY DEF Apply
<1>3. db'.receipts \in SUBSET Unit /\ db'.rows \in [Table -> Bags] BY DEF TypeInv, DbOK
<1>4. Abstract!Exact(db'.receipts) = [t \in Table |-> View(t, db'.receipts)] BY <1>3, ExactView
<1>5. \A t \in Table : db'.rows[t] = View(t, db'.receipts) BY DEF UnitInv, RowsExact, View
<1>6. db'.rows = Abstract!Exact(db'.receipts) BY <1>3, <1>4, <1>5
<1> QED BY <1>1, <1>2, <1>6 DEF Abstract!Commit

\* Each step is a step of ExactlyOnce or shows nothing.
LEMMA StepImplements ==
  ASSUME SqlAssumption, TypeInv, UnitInv, TypeInv', UnitInv', [Next]_vars
  PROVE  [Abstract!ENext]_(Abstract!evars)
<1>1. CASE CommitTx
  <2>1. /\ TxReady(unit, db.receipts) /\ TxOK(unit) /\ db' = Apply(db, unit) /\ acked' = acked
    BY <1>1 DEF CommitTx, UnitInv, OrderInv, TypeInv, engineVars
  <2>2. unit.receipt \in Unit /\ Abstract!Commit(unit.receipt) BY <2>1, CommitIsOne
  <2> QED BY <2>2 DEF Abstract!ENext
<1>2. CASE ZombieEnds
  <2>1. /\ TxReady(zombie, db.receipts) /\ TxOK(zombie) /\ acked' = acked
        /\ db' = Apply(db, zombie) \/ db' = db
    BY <1>2 DEF ZombieEnds, UnitInv, OrderInv, TypeInv, engineVars
  <2>2. CASE db' = Apply(db, zombie)
    <3>1. zombie.receipt \in Unit /\ Abstract!Commit(zombie.receipt) BY <2>1, <2>2, CommitIsOne
    <3> QED BY <3>1 DEF Abstract!ENext
  <2>3. CASE db' = db BY <2>1, <2>3 DEF Abstract!evars
  <2> QED BY <2>1, <2>2, <2>3
<1>3. CASE EngineAck
  <2>1. /\ cur \in db.receipts /\ cur \in Unit /\ db' = db /\ acked' = acked \cup {cur}
    BY <1>3 DEF EngineAck, UnitInv, OrderInv, TypeInv, Control
  <2>2. Abstract!Ack(cur) BY <2>1 DEF Abstract!Ack
  <2> QED BY <2>1, <2>2 DEF Abstract!ENext
<1>4. CASE db' = db /\ acked' = acked BY <1>4 DEF Abstract!evars
<1>5. ASSUME NEW t \in Table, EnsureTable(t) \/ LookupCleared(t) \/ ClearTarget(t) \/ Write(t)
      PROVE  db' = db /\ acked' = acked
  BY <1>5 DEF EnsureTable, LookupCleared, ClearTarget, Write, engineVars
<1>6. ASSUME \/ OpenSession \/ Replay \/ ProbeFresh \/ RunScript \/ ReceiptConflict \/ RefuseFeed
             \/ SessionDies \/ DieInCommit \/ UnitFails \/ UNCHANGED vars
      PROVE  db' = db /\ acked' = acked
  BY <1>6 DEF OpenSession, Replay, ProbeFresh, RunScript, ReceiptConflict, RefuseFeed, SessionDies,
              DieInCommit, UnitFails, engineVars, vars
<1> QED BY <1>1, <1>2, <1>3, <1>4, <1>5, <1>6 DEF Next, Progress

\* The commit unit takes effect once (ImplementsExactlyOnce): redelivered, died
\* upon, or committed by the server when its session was gone.
THEOREM Refinement == ASSUME SqlAssumption, LateAssumption PROVE Spec => ImplementsExactlyOnce
<1>1. Init => Abstract!EInit
  <2>1. SUFFICES ASSUME Init PROVE Abstract!EInit OBVIOUS
  <2>2. RowsExact /\ db.rows \in [Table -> Bags] /\ db.receipts = {} /\ acked = {}
    BY <2>1, TypeInit, UnitInit DEF UnitInv, TypeInv, DbOK, Init
  <2>3. Abstract!Exact({}) = [t \in Table |-> View(t, {})] BY ExactView
  <2>4. db.rows = Abstract!Exact({}) BY <2>2, <2>3 DEF RowsExact
  <2> QED BY <2>2, <2>4 DEF Abstract!EInit
<1>2. TypeInv /\ UnitInv /\ (TypeInv /\ UnitInv)' /\ [Next]_vars => [Abstract!ENext]_(Abstract!evars)
  BY StepImplements
<1> QED BY <1>1, <1>2, UnitAlways, PTL DEF Spec, ImplementsExactlyOnce, Abstract!ESpec

-----------------------------------------------------------------------------
(***************************************************************************)
(* MergeTable                                                              *)
(***************************************************************************)
CONSTANTS Keys, Ranks, Scopes, Kids, Null, Marker, Options, MaxStage, MaxClock
VARIABLES opts, indexes, mstage, mtarget, clock

M == INSTANCE MergeTable WITH stage <- mstage, target <- mtarget

-----------------------------------------------------------------------------
(* Deduplication *)

RankOf == Ranks \cup {Null}
\* A stage, as far as deduplication looks at it.
Staged(s) == \A i \in DOMAIN s : i \in Int /\ s[i].rank \in RankOf

\* Two rows of a key are in one order, and the order is transitive.
LEMMA FirstOrders ==
  ASSUME M!MergeAssumption, NEW s, Staged(s), NEW sorted \in BOOLEAN,
         NEW i \in DOMAIN s, NEW j \in DOMAIN s, NEW k \in DOMAIN s
  PROVE  /\ i # j => M!First(s, sorted, i, j) \/ M!First(s, sorted, j, i)
         /\ ~(M!First(s, sorted, i, j) /\ M!First(s, sorted, j, i))
         /\ M!First(s, sorted, i, j) /\ M!First(s, sorted, j, k) => M!First(s, sorted, i, k)
<1> DEFINE R(a, b) == M!RankedBefore(a, b)
<1>1. ASSUME NEW a \in RankOf, NEW b \in RankOf, NEW c \in RankOf
      PROVE  /\ ~(R(a, b) /\ R(b, a))
             /\ R(a, b) /\ R(b, c) => R(a, c)
             /\ R(a, b) /\ ~R(c, b) => R(a, c)
             /\ ~R(b, a) /\ R(b, c) => R(a, c)
             /\ ~R(b, a) /\ ~R(c, b) => ~R(c, a)
  BY DEF RankOf, M!MergeAssumption, M!RankedBefore
<1> HIDE DEF R
<1>2. PICK a \in RankOf, b \in RankOf, c \in RankOf :
        a = s[i].rank /\ b = s[j].rank /\ c = s[k].rank
  BY DEF Staged
<1>3. i \in Int /\ j \in Int /\ k \in Int BY DEF Staged
<1>4. /\ M!First(s, sorted, i, j) <=> (sorted /\ R(a, b)) \/ (i > j /\ ~(sorted /\ R(b, a)))
      /\ M!First(s, sorted, j, i) <=> (sorted /\ R(b, a)) \/ (j > i /\ ~(sorted /\ R(a, b)))
      /\ M!First(s, sorted, j, k) <=> (sorted /\ R(b, c)) \/ (j > k /\ ~(sorted /\ R(c, b)))
      /\ M!First(s, sorted, i, k) <=> (sorted /\ R(a, c)) \/ (i > k /\ ~(sorted /\ R(c, a)))
  BY <1>2 DEF M!First, R
<1>5. /\ ~(R(a, b) /\ R(b, a)) /\ ~(R(b, c) /\ R(c, b)) /\ ~(R(a, c) /\ R(c, a))
      /\ R(a, b) /\ R(b, c) => R(a, c)
      /\ R(a, b) /\ ~R(c, b) => R(a, c)
      /\ ~R(b, a) /\ R(b, c) => R(a, c)
      /\ ~R(b, a) /\ ~R(c, b) => ~R(c, a)
  BY <1>1
<1> QED BY <1>3, <1>4, <1>5

\* Deduplication leaves at most one row of a key.
LEMMA DedupedOnce ==
  ASSUME M!MergeAssumption, NEW s, Staged(s), NEW sorted \in BOOLEAN,
         NEW i \in M!DedupSubquery(s, sorted), NEW j \in M!DedupSubquery(s, sorted),
         s[i].key = s[j].key
  PROVE  i = j
<1>1. i \in DOMAIN s /\ j \in DOMAIN s BY DEF M!DedupSubquery
<1>2. i # j => M!First(s, sorted, i, j) /\ M!First(s, sorted, j, i) BY <1>1 DEF M!DedupSubquery
<1> QED BY <1>1, <1>2, FirstOrders

\* It leaves one of every key.
EachKept(s, sorted) ==
  \A k \in M!KeysOf(s) : \E i \in M!DedupSubquery(s, sorted) : s[i].key = k

\* What one more row changes.
LEMMA OneMore ==
  ASSUME M!MergeAssumption, NEW X, NEW s \in Seq(X), NEW row \in X, NEW sorted \in BOOLEAN,
         Staged(s), row.rank \in RankOf, EachKept(s, sorted)
  PROVE  LET t == Append(s, row)
             n == Len(s) + 1
         IN  /\ Staged(t) /\ EachKept(t, sorted)
             /\ M!KeysOf(t) = M!KeysOf(s) \cup {row.key}
             /\ \A i \in M!DedupSubquery(s, sorted) :
                  s[i].key # row.key => i \in M!DedupSubquery(t, sorted) /\ t[i] = s[i]
             /\ row.key \notin M!KeysOf(s) => n \in M!DedupSubquery(t, sorted)
             /\ \A i \in M!DedupSubquery(s, sorted) :
                  s[i].key = row.key =>
                    IF M!First(t, sorted, n, i) THEN n \in M!DedupSubquery(t, sorted)
                                              ELSE i \in M!DedupSubquery(t, sorted)
<1> DEFINE t == Append(s, row)
           n == Len(s) + 1
           D == M!DedupSubquery(s, sorted)
           E == M!DedupSubquery(t, sorted)
<1>1. /\ n \in Nat /\ DOMAIN s = 1 .. Len(s) /\ Len(s) \in Nat /\ n \notin DOMAIN s
      /\ DOMAIN t = DOMAIN s \cup {n} /\ t[n] = row
      /\ \A i \in DOMAIN s : t[i] = s[i]
  <2>1. DOMAIN s = 1 .. Len(s) /\ Len(s) \in Nat OBVIOUS
  <2>2. Len(t) = n /\ DOMAIN t = 1 .. n /\ t[n] = row OBVIOUS
  <2>3. \A i \in 1 .. Len(s) : t[i] = s[i] OBVIOUS
  <2>4. 1 .. n = 1 .. Len(s) \cup {n} BY <2>1
  <2> HIDE DEF t
  <2> QED BY <2>1, <2>2, <2>3, <2>4
<1> HIDE DEF t, n
<1>2. Staged(t) BY <1>1 DEF Staged
<1>3. M!KeysOf(t) = M!KeysOf(s) \cup {row.key}
  <2>1. \A k : k \in M!KeysOf(t) <=> \E i \in DOMAIN t : t[i].key = k BY DEF M!KeysOf
  <2>2. \A k : k \in M!KeysOf(s) <=> \E i \in DOMAIN s : s[i].key = k BY DEF M!KeysOf
  <2>3. \A k : (\E i \in DOMAIN t : t[i].key = k) <=> (\E i \in DOMAIN s : s[i].key = k) \/ k = row.key
    BY <1>1
  <2> QED BY <2>1, <2>2, <2>3
<1>4. \A i \in DOMAIN s, j \in DOMAIN s : M!First(t, sorted, i, j) <=> M!First(s, sorted, i, j)
  BY <1>1 DEF M!First
<1>5. \A i \in D : s[i].key # row.key => i \in E /\ t[i] = s[i]
  BY <1>1, <1>4 DEF M!DedupSubquery
<1>6. row.key \notin M!KeysOf(s) => n \in E
  BY <1>1 DEF M!DedupSubquery, M!KeysOf
<1>7. ASSUME NEW i \in D, s[i].key = row.key
      PROVE  IF M!First(t, sorted, n, i) THEN n \in E ELSE i \in E
  <2>1. i \in DOMAIN s /\ i \in DOMAIN t /\ i # n BY <1>1 DEF M!DedupSubquery
  <2>2. CASE M!First(t, sorted, n, i)
    <3>1. ASSUME NEW j \in DOMAIN t, t[j].key = t[n].key, j # n PROVE M!First(t, sorted, n, j)
      <4>1. j \in DOMAIN s /\ s[j].key = row.key BY <1>1, <3>1
      <4>2. j # i => M!First(s, sorted, i, j) BY <1>7, <4>1 DEF M!DedupSubquery
      <4>3. j # i => M!First(t, sorted, i, j) BY <1>4, <2>1, <4>1, <4>2
      <4>4. n \in DOMAIN t BY <1>1
      <4> QED BY <1>2, <2>1, <2>2, <3>1, <4>3, <4>4, FirstOrders
    <3>2. n \in DOMAIN t BY <1>1
    <3> QED BY <2>2, <3>1, <3>2 DEF M!DedupSubquery
  <2>3. CASE ~M!First(t, sorted, n, i)
    <3>1. M!First(t, sorted, i, n)
      <4>1. n \in DOMAIN t BY <1>1
      <4> QED BY <1>2, <2>1, <2>3, <4>1, FirstOrders
    <3>2. ASSUME NEW j \in DOMAIN t, t[j].key = t[i].key, j # i PROVE M!First(t, sorted, i, j)
      <4>1. CASE j = n BY <3>1, <4>1
      <4>2. CASE j # n
        <5>1. j \in DOMAIN s /\ s[j].key = s[i].key BY <1>1, <2>1, <3>2, <4>2
        <5>2. M!First(s, sorted, i, j) BY <1>7, <3>2, <5>1 DEF M!DedupSubquery
        <5> QED BY <1>4, <2>1, <5>1, <5>2
      <4> QED BY <4>1, <4>2
    <3> QED BY <2>1, <2>3, <3>2 DEF M!DedupSubquery
  <2> QED BY <2>2, <2>3
<1>8. EachKept(t, sorted)
  <2> SUFFICES ASSUME NEW k \in M!KeysOf(t) PROVE \E i \in E : t[i].key = k BY DEF EachKept
  <2>1. CASE k \in M!KeysOf(s)
    <3>1. PICK i \in D : s[i].key = k BY <2>1 DEF EachKept
    <3>2. i \in DOMAIN s BY DEF M!DedupSubquery
    <3>3. CASE k # row.key BY <1>5, <3>1, <3>3
    <3>4. CASE k = row.key
      <4>1. n \in E \/ i \in E BY <1>7, <3>1, <3>4
      <4>2. t[n].key = k /\ t[i].key = k BY <1>1, <3>1, <3>2, <3>4
      <4> QED BY <4>1, <4>2
    <3> QED BY <3>3, <3>4
  <2>2. CASE k \notin M!KeysOf(s)
    <3>1. k = row.key BY <1>3, <2>2
    <3> QED BY <1>1, <1>6, <2>2, <3>1
  <2> QED BY <2>1, <2>2
<1> QED BY <1>2, <1>3, <1>5, <1>6, <1>7, <1>8 DEF t, n

\* By arrival alone, the last row of a key survives.
LEMMA LastSurvives ==
  ASSUME NEW X, NEW s \in Seq(X)
  PROVE  EachKept(s, FALSE)
<1> SUFFICES ASSUME NEW k \in M!KeysOf(s) PROVE \E i \in M!DedupSubquery(s, FALSE) : s[i].key = k
  BY DEF EachKept
<1> DEFINE I == {i \in DOMAIN s : s[i].key = k}
           B == {Len(s) - i : i \in I}
<1>1. DOMAIN s = 1 .. Len(s) /\ Len(s) \in Nat OBVIOUS
<1>2. I # {} /\ I \subseteq 1 .. Len(s) BY <1>1 DEF M!KeysOf
<1>3. B \subseteq Nat /\ B # {} BY <1>1, <1>2
<1>4. IsWellFoundedOn(OpToRel(<, Nat), Nat) BY NatLessThanWellFounded
<1>5. PICK m \in B : \A y \in B : ~ (<<y, m>> \in OpToRel(<, Nat))
  <2> HIDE DEF B
  <2> QED BY <1>3, <1>4, WFMin
<1>6. PICK i \in I : m = Len(s) - i OBVIOUS
<1>7. ASSUME NEW j \in I PROVE i >= j
  <2>1. Len(s) - j \in B OBVIOUS
  <2>2. ~(Len(s) - j < m) BY <1>3, <1>5, <2>1 DEF OpToRel
  <2> QED BY <1>1, <1>2, <1>6, <2>2
<1>8. i \in M!DedupSubquery(s, FALSE)
  <2>1. \A j \in DOMAIN s : s[j].key = s[i].key /\ j # i => i > j BY <1>1, <1>7
  <2> QED BY <2>1 DEF M!DedupSubquery, M!First
<1> QED BY <1>8

-----------------------------------------------------------------------------
(* What the arms leave of a root table *)

Versions == [row : M!AnyRow, from : Nat \cup {Null}, to : Nat \cup {Null, Marker}]

\* A root table's stage: rows of the stream, one of every key surviving.
RootStage(s) == s \in Seq(M!AnyRow) /\ EachKept(s, opts.dedup # "none")

LEMMA RootStaged ==
  ASSUME M!MergeAssumption, NEW s, RootStage(s)
  PROVE  /\ Staged(s)
         /\ \A i \in DOMAIN s : s[i] \in M!AnyRow
         /\ \A k \in M!KeysOf(s) : \E i \in M!Deduped(s) : s[i].key = k
         /\ \A i \in M!Deduped(s) : i \in DOMAIN s /\ s[i].key \in M!KeysOf(s)
         /\ \A i \in M!Deduped(s), j \in M!Deduped(s) : s[i].key = s[j].key => i = j
<1>1. s \in Seq(M!AnyRow) /\ DOMAIN s = 1 .. Len(s) /\ Len(s) \in Nat BY DEF RootStage
<1>2. \A i \in DOMAIN s : i \in Int /\ s[i] \in M!AnyRow BY <1>1
<1>3. Staged(s) BY <1>2 DEF Staged, M!AnyRow, RankOf
<1>4. \A k \in M!KeysOf(s) : \E i \in M!Deduped(s) : s[i].key = k BY DEF RootStage, EachKept, M!Deduped
<1>5. \A i \in M!Deduped(s) : i \in DOMAIN s BY DEF M!Deduped, M!DedupSubquery
<1>6. \A i \in M!Deduped(s) : s[i].key \in M!KeysOf(s) BY <1>5 DEF M!KeysOf
<1>7. \A i \in M!Deduped(s), j \in M!Deduped(s) : s[i].key = s[j].key => i = j
  <2>1. (opts.dedup # "none") \in BOOLEAN OBVIOUS
  <2> QED BY <1>3, <2>1, DedupedOnce DEF M!Deduped
<1> QED BY <1>2, <1>3, <1>4, <1>5, <1>6, <1>7

\* Rows of a table without history, and of the unit that replaces some of them.
LEMMA DeleteInserted ==
  ASSUME NEW T, NEW s, NEW e
  PROVE  e \in M!KeyedDeleteInsert(T, s) <=>
           \/ e \in T /\ e.row.key \notin M!KeysOf(s)
           \/ \E i \in M!Deduped(s) : M!Keep(s[i]) /\ e = M!Published(s, i)
BY DEF M!KeyedDeleteInsert

\* A flat table: no row carries a time.
Flat(T) == \A e \in T : e.from = Null /\ e.to = Null

\* An upsert leaves what a delete and an insert would.
LEMMA Upserted ==
  ASSUME M!MergeAssumption, NEW T, NEW s, RootStage(s), Flat(T)
  PROVE  M!KeyedUpsert(T, s) = M!KeyedDeleteInsert(T, s)
<1> DEFINE gone     == {s[i].key : i \in {j \in M!Deduped(s) : ~M!Keep(s[j])}}
           kept     == {j \in M!Deduped(s) : M!Keep(s[j])}
           left     == {t \in T : t.row.key \notin gone}
           excluded(k) == CHOOSE i \in kept : s[i].key = k
           conflict == {t \in left : \E i \in kept : s[i].key = t.row.key}
           updated  == {M!Stored(s[excluded(t.row.key)], t.from, t.to) : t \in conflict}
           added    == {j \in kept : \A t \in left : t.row.key # s[j].key}
           new      == {M!Published(s, i) : i \in added}
<1>1. M!KeyedUpsert(T, s) = (left \ conflict) \cup updated \cup new BY DEF M!KeyedUpsert
<1>2. /\ \A k \in M!KeysOf(s) : \E i \in M!Deduped(s) : s[i].key = k
      /\ \A i \in M!Deduped(s) : s[i].key \in M!KeysOf(s)
      /\ \A i \in M!Deduped(s), j \in M!Deduped(s) : s[i].key = s[j].key => i = j
  BY RootStaged
<1>3. \A k : k \in gone <=> \E i \in M!Deduped(s) : ~M!Keep(s[i]) /\ s[i].key = k OBVIOUS
<1>4. \A i : i \in kept <=> i \in M!Deduped(s) /\ M!Keep(s[i]) OBVIOUS
<1>5. \A t : t \in left <=> t \in T /\ t.row.key \notin gone OBVIOUS
<1>6. \A t : t \in conflict <=> t \in left /\ \E i \in kept : s[i].key = t.row.key OBVIOUS
<1>7. ASSUME NEW i \in kept PROVE excluded(s[i].key) = i
  <2> HIDE DEF kept
  <2>1. excluded(s[i].key) \in kept /\ s[excluded(s[i].key)].key = s[i].key OBVIOUS
  <2> QED BY <1>2, <1>4, <2>1
<1>8. \A e : e \in updated <=> \E t \in conflict : e = M!Stored(s[excluded(t.row.key)], t.from, t.to)
  OBVIOUS
<1>9. \A i : i \in added <=> i \in kept /\ \A t \in left : t.row.key # s[i].key OBVIOUS
<1>10. \A e : e \in new <=> \E i \in added : e = M!Published(s, i) OBVIOUS
<1> HIDE DEF gone, kept, left, excluded, conflict, updated, added, new
<1>11. \A t \in conflict, i \in kept : s[i].key = t.row.key =>
          M!Stored(s[excluded(t.row.key)], t.from, t.to) = M!Published(s, i)
  BY <1>5, <1>6, <1>7 DEF Flat, M!Published
<1>12. \A e : e \in updated \/ e \in new <=> \E i \in kept : e = M!Published(s, i)
  <2> TAKE e
  <2>1. e \in updated => \E i \in kept : e = M!Published(s, i) BY <1>6, <1>8, <1>11
  <2>2. e \in new => \E i \in kept : e = M!Published(s, i) BY <1>9, <1>10
  <2>3. ASSUME NEW i \in kept, e = M!Published(s, i) PROVE e \in updated \/ e \in new
    <3>1. CASE \E t \in left : t.row.key = s[i].key
      <4>1. PICK t \in conflict : t.row.key = s[i].key BY <1>6, <3>1
      <4> QED BY <1>8, <1>11, <2>3, <4>1
    <3>2. CASE \A t \in left : t.row.key # s[i].key BY <1>9, <1>10, <2>3, <3>2
    <3> QED BY <3>1, <3>2
  <2> QED BY <2>1, <2>2, <2>3
<1>13. \A e : e \in left \ conflict <=> e \in T /\ e.row.key \notin M!KeysOf(s)
  BY <1>2, <1>3, <1>4, <1>5, <1>6
<1>14. \A e : e \in M!KeyedUpsert(T, s) <=> e \in M!KeyedDeleteInsert(T, s)
  BY <1>1, <1>4, <1>12, <1>13, DeleteInserted
<1> QED BY <1>14

\* Every table without history is left the same, whatever the arm.
LEMMA FlatMerged ==
  ASSUME M!MergeAssumption, opts \in M!Option, M!Accepts(opts), opts.strategy # "scd2",
         M!ArmOf(opts) # "unsupported", RootStage(mstage["root"]), Flat(mtarget["root"]), NEW e
  PROVE  LET T == mtarget["root"]
             s == mstage["root"]
         IN  e \in M!MergeSteps("root") <=>
               \/ /\ e \in T /\ e.row.key \notin M!KeysOf(s)
                  /\ opts.scope => e.row.scope \notin M!DeliveredScopes(s)
               \/ \E i \in M!Deduped(s) : M!Keep(s[i]) /\ e = M!Published(s, i)
<1> DEFINE T == mtarget["root"]
           s == mstage["root"]
           U == IF opts.scope THEN M!ScopeReplace(T, s) ELSE T
<1>1. \A t : t \in U <=> t \in T /\ (opts.scope => t.row.scope \notin M!DeliveredScopes(s))
  BY DEF M!ScopeReplace
<1>2. Flat(U) BY <1>1 DEF Flat
<1>3. M!Arm("root", U) = M!KeyedDeleteInsert(U, s)
  <2>1. CASE M!ArmOf(opts) = "keyed_delete_insert" BY <2>1 DEF M!Arm
  <2>2. CASE M!ArmOf(opts) = "keyed_upsert"
    <3>1. M!Arm("root", U) = M!KeyedUpsert(U, s) BY <2>2 DEF M!Arm
    <3> HIDE DEF U
    <3> QED BY <1>2, <3>1, Upserted
  <2>3. CASE M!ArmOf(opts) = "identity_delete_insert"
    <3>1. M!Arm("root", U) = M!IdentityDeleteInsert(U, s, s, FALSE) BY <2>3 DEF M!Arm
    <3> QED BY <3>1 DEF M!IdentityDeleteInsert, M!KeyedDeleteInsert
  <2>4. M!ArmOf(opts) # "scd2" BY DEF M!ArmOf
  <2> QED BY <2>1, <2>2, <2>3, <2>4 DEF M!ArmOf
<1>4. M!MergeSteps("root") = IF M!FullFeed(opts) /\ s = <<>> THEN T ELSE M!Arm("root", U)
  BY DEF M!MergeSteps
<1> HIDE DEF U
<1>5. CASE M!FullFeed(opts) /\ s = <<>>
  <2>1. M!KeysOf(s) = {} /\ M!Deduped(s) = {} /\ M!DeliveredScopes(s) = {}
    <3>1. DOMAIN s = {} BY <1>5
    <3> HIDE DEF s
    <3> QED BY <3>1 DEF M!KeysOf, M!Deduped, M!DedupSubquery, M!DeliveredScopes
  <2> QED BY <1>4, <1>5, <2>1
<1>6. CASE ~(M!FullFeed(opts) /\ s = <<>>)
  <2>1. M!MergeSteps("root") = M!KeyedDeleteInsert(U, s) BY <1>3, <1>4, <1>6
  <2> QED BY <1>1, <2>1, DeleteInserted
<1> QED BY <1>5, <1>6

-----------------------------------------------------------------------------
(* What scd2 leaves of a history *)

Open == IF opts.marker THEN Marker ELSE Null
\* The unit says otherwise of the key of t, or claims its key is gone.
Changed(t, s) == t.row.key \in M!KeysOf(s) /\ \A i \in M!Deduped(s) : s[i].key = t.row.key => t.row # s[i]
Absent(t, s) == /\ opts.retire
                /\ t.row.key \notin M!KeysOf(s)
                /\ opts.scope => t.row.scope \in M!DeliveredScopes(s)
Closes(t, s) == Changed(t, s) \/ Absent(t, s)

LEMMA ClosedOnce ==
  ASSUME M!MergeAssumption, clock \in Nat, NEW t
  PROVE  /\ M!IsActive(t) <=> t.to = Null \/ (opts.marker /\ t.to = Marker)
         /\ ~M!IsActive(M!Stored(t.row, t.from, clock))
         /\ M!IsActive(M!Stored(t.row, t.from, Open))
         /\ M!Stored(t.row, t.from, clock).row = t.row /\ M!Stored(t.row, t.from, clock).from = t.from
         /\ M!Stored(t.row, t.from, clock).to = clock
BY DEF M!MergeAssumption, M!IsActive, M!Stored, Open

LEMMA Scd2Merged ==
  ASSUME M!MergeAssumption, NEW T, NEW s, RootStage(s), clock \in Nat, NEW e
  PROVE  e \in M!Scd2(T, s) <=>
           \/ \E t \in T : e = M!Retired(t, Closes(t, s))
           \/ \E i \in M!Deduped(s) :
                /\ e = M!Stored(s[i], clock, Open)
                /\ \A t \in T : t.row.key = s[i].key => ~M!IsActive(t) \/ Changed(t, s)
<1> DEFINE survivor(k) == s[CHOOSE i \in M!Deduped(s) : s[i].key = k]
           changed(t)  == t.row.key \in M!KeysOf(s) /\ t.row # survivor(t.row.key)
           closed      == {M!Retired(t, changed(t)) : t \in T}
           unmatched   == {i \in M!Deduped(s) :
                             ~\E t \in closed : M!IsActive(t) /\ t.row.key = s[i].key}
           inserted    == closed \cup {M!Stored(s[i], clock, Open) : i \in unmatched}
<1>1. M!Scd2(T, s) = {M!Retired(t, Absent(t, s)) : t \in inserted}
  BY DEF M!Scd2, Absent, Open
<1>2. /\ \A k \in M!KeysOf(s) : \E i \in M!Deduped(s) : s[i].key = k
      /\ \A i \in M!Deduped(s) : s[i].key \in M!KeysOf(s)
      /\ \A i \in M!Deduped(s), j \in M!Deduped(s) : s[i].key = s[j].key => i = j
  BY RootStaged
<1>3. ASSUME NEW i \in M!Deduped(s) PROVE survivor(s[i].key) = s[i]
  <2>1. (CHOOSE j \in M!Deduped(s) : s[j].key = s[i].key) = i BY <1>2
  <2> QED BY <2>1
<1> HIDE DEF survivor
<1>4. ASSUME NEW t PROVE changed(t) <=> Changed(t, s)
  BY <1>2, <1>3 DEF Changed
<1>5. \A x : x \in closed <=> \E t \in T : x = M!Retired(t, Changed(t, s))
  <2>1. \A x : x \in closed <=> \E t \in T : x = M!Retired(t, changed(t)) OBVIOUS
  <2> HIDE DEF changed, closed
  <2>2. \A t : M!Retired(t, changed(t)) = M!Retired(t, Changed(t, s)) BY <1>4 DEF M!Retired
  <2> QED BY <2>1, <2>2
<1> HIDE DEF changed
<1>6. \A i : i \in unmatched <=>
        i \in M!Deduped(s) /\ ~\E t \in closed : M!IsActive(t) /\ t.row.key = s[i].key
  OBVIOUS
<1>7. \A x : x \in inserted <=> x \in closed \/ \E i \in unmatched : x = M!Stored(s[i], clock, Open)
  OBVIOUS
<1>8. e \in M!Scd2(T, s) <=> \E x \in inserted : e = M!Retired(x, Absent(x, s)) BY <1>1
<1> HIDE DEF closed, unmatched, inserted
<1>9. ASSUME NEW t PROVE LET x == M!Retired(t, Changed(t, s))
                         IN  M!Retired(x, Absent(x, s)) = M!Retired(t, Closes(t, s))
  <2>1. CASE M!IsActive(t) /\ Changed(t, s)
    <3>1. M!Retired(t, Changed(t, s)) = M!Stored(t.row, t.from, clock) BY <2>1 DEF M!Retired
    <3>2. ~M!IsActive(M!Stored(t.row, t.from, clock)) BY ClosedOnce
    <3> QED BY <2>1, <3>1, <3>2 DEF M!Retired, Closes
  <2>2. CASE ~(M!IsActive(t) /\ Changed(t, s))
    <3>1. M!Retired(t, Changed(t, s)) = t BY <2>2 DEF M!Retired
    <3> QED BY <2>2, <3>1 DEF M!Retired, Closes
  <2> QED BY <2>1, <2>2
<1>10. ASSUME NEW i \in M!Deduped(s)
       PROVE  /\ M!Retired(M!Stored(s[i], clock, Open), Absent(M!Stored(s[i], clock, Open), s))
                   = M!Stored(s[i], clock, Open)
  <2>1. M!Stored(s[i], clock, Open).row.key = s[i].key BY DEF M!Stored
  <2>2. ~Absent(M!Stored(s[i], clock, Open), s) BY <1>2, <2>1 DEF Absent
  <2> QED BY <2>2 DEF M!Retired
<1>11. ASSUME NEW i \in M!Deduped(s)
       PROVE  i \in unmatched <=>
                \A t \in T : t.row.key = s[i].key => ~M!IsActive(t) \/ Changed(t, s)
  <2>1. ASSUME NEW t \in T
        PROVE  LET x == M!Retired(t, Changed(t, s))
               IN  M!IsActive(x) /\ x.row.key = s[i].key
                     <=> t.row.key = s[i].key /\ M!IsActive(t) /\ ~Changed(t, s)
    <3>1. CASE M!IsActive(t) /\ Changed(t, s)
      <4>1. M!Retired(t, Changed(t, s)) = M!Stored(t.row, t.from, clock) BY <3>1 DEF M!Retired
      <4>2. ~M!IsActive(M!Retired(t, Changed(t, s))) BY <4>1, ClosedOnce
      <4> HIDE DEF Changed
      <4> QED BY <3>1, <4>2
    <3>2. CASE ~(M!IsActive(t) /\ Changed(t, s))
      <4>1. M!Retired(t, Changed(t, s)) = t BY <3>2 DEF M!Retired
      <4>2. M!IsActive(t) => ~Changed(t, s) BY <3>2
      <4> HIDE DEF Changed
      <4> QED BY <4>1, <4>2
    <3> QED BY <3>1, <3>2
  <2>2. (\E x \in closed : M!IsActive(x) /\ x.row.key = s[i].key)
          <=> \E t \in T : t.row.key = s[i].key /\ M!IsActive(t) /\ ~Changed(t, s)
    BY <1>5, <2>1
  <2> QED BY <1>6, <2>2
<1>12. (\E x \in inserted : e = M!Retired(x, Absent(x, s)))
         <=> \/ \E x \in closed : e = M!Retired(x, Absent(x, s))
             \/ \E i \in unmatched : e = M!Stored(s[i], clock, Open)
  <2>1. unmatched \subseteq M!Deduped(s) BY <1>6
  <2> QED BY <1>7, <1>10, <2>1
<1>13. (\E x \in closed : e = M!Retired(x, Absent(x, s))) <=> \E t \in T : e = M!Retired(t, Closes(t, s))
  BY <1>5, <1>9
<1>14. (\E i \in unmatched : e = M!Stored(s[i], clock, Open))
         <=> \E i \in M!Deduped(s) : /\ e = M!Stored(s[i], clock, Open)
                                   /\ \A t \in T : t.row.key = s[i].key => ~M!IsActive(t) \/ Changed(t, s)
  BY <1>6, <1>11
<1> QED BY <1>8, <1>12, <1>13, <1>14

-----------------------------------------------------------------------------
(* The inductive invariant *)

KidRows == [key : Keys \X Kids, root : Keys, rank : RankOf]
KidVersions == [row : KidRows, from : {Null}, to : {Null}]
OfRoot(row) == \E n : row.key = <<row.root, n>>

\* The children staged are those of the roots staged.
KidStage(c, s) ==
  /\ \A i \in DOMAIN c : c[i].root \in M!KeysOf(s)
  /\ \A j \in DOMAIN s : \A n \in s[j].kids : \E i \in DOMAIN c : c[i].key = <<s[j].key, n>>

OptsOK == opts \in M!Option /\ M!Accepts(opts) /\ M!IndexPlan(opts) \subseteq indexes

RowsOK ==
  /\ RootStage(mstage["root"])
  /\ mstage["child"] \in Seq(KidRows)
  /\ \A i \in DOMAIN mstage["child"] : OfRoot(mstage["child"][i])
  /\ opts.shredded => KidStage(mstage["child"], mstage["root"])

TargetOK ==
  /\ mtarget["root"] \subseteq Versions
  /\ mtarget["child"] \subseteq KidVersions
  /\ \A c \in mtarget["child"] : OfRoot(c.row)

\* When the versions of a key were current.
TimeOK(e, now) ==
  /\ e.from \in 1 .. now
  /\ \/ e.to = Null
     \/ e.to = Marker /\ opts.marker
     \/ e.to \in e.from .. now
TimesOK ==
  /\ clock \in Nat \ {0}
  /\ IF opts.strategy = "scd2" THEN \A e \in mtarget["root"] : TimeOK(e, clock)
                               ELSE Flat(mtarget["root"])

\* The open version of a key is no older than its closed ones.
Ordered ==
  opts.strategy = "scd2" =>
    \A e \in mtarget["root"], f \in mtarget["root"] :
      e.row.key = f.row.key /\ ~M!IsActive(e) /\ M!IsActive(f) => f.from >= e.to

MergeInv ==
  /\ OptsOK /\ RowsOK /\ TargetOK /\ TimesOK
  /\ M!OneCurrentRow /\ M!SubtreeWhole /\ Ordered

LEMMA MergeInit == ASSUME M!MergeAssumption, M!Init PROVE MergeInv
<1>1. OptsOK BY DEF M!Init, OptsOK, M!MergeAssumption
<1>2. /\ mstage["root"] = <<>> /\ mstage["child"] = <<>>
      /\ mtarget["root"] = {} /\ mtarget["child"] = {} /\ clock = 1
  BY DEF M!Init, M!Tables
<1>3. RowsOK
  <2>1. M!KeysOf(<<>>) = {} BY DEF M!KeysOf
  <2>2. DOMAIN <<>> = {} OBVIOUS
  <2>3. <<>> \in Seq(M!AnyRow) /\ <<>> \in Seq(KidRows) OBVIOUS
  <2> QED BY <1>2, <2>1, <2>2, <2>3 DEF RowsOK, RootStage, EachKept, KidStage
<1>4. TargetOK BY <1>2 DEF TargetOK
<1>5. TimesOK BY <1>2 DEF TimesOK, Flat
<1>6. M!OneCurrentRow /\ M!SubtreeWhole /\ Ordered BY <1>2 DEF M!OneCurrentRow, M!SubtreeWhole, Ordered
<1> QED BY <1>1, <1>3, <1>4, <1>5, <1>6 DEF MergeInv

\* The instance counts as FiniteSets does.
LEMMA SameSets ==
  ASSUME NEW S
  PROVE  /\ M!IsFiniteSet(S) <=> IsFiniteSet(S)
         /\ M!Cardinality(S) = Cardinality(S)
BY DEF M!IsFiniteSet, IsFiniteSet, M!Cardinality, Cardinality

\* The sequence made of a finite set has all its elements.
LEMMA SeqOfSet ==
  ASSUME NEW S, IsFiniteSet(S)
  PROVE  /\ M!SetToSeq(S) \in Seq(S)
         /\ \A x \in S : \E i \in DOMAIN M!SetToSeq(S) : M!SetToSeq(S)[i] = x
<1> DEFINE n == Cardinality(S)
           g == M!SetToSeq(S)
<1>1. n \in Nat /\ ExistsBijection(1 .. n, S) BY FS_CardinalityType
<1>2. \E f \in [1 .. n -> S] : M!IsInjective(f)
  BY <1>1 DEF ExistsBijection, Bijection, Injection, IsInjective, M!IsInjective
<1>3. g \in [1 .. n -> S] /\ M!IsInjective(g) BY <1>2, SameSets DEF M!SetToSeq
<1> HIDE DEF g, n
<1> DEFINE R == {g[i] : i \in 1 .. n}
<1>4. R \in SUBSET S BY <1>3
<1>5. g \in Bijection(1 .. n, R) BY <1>3 DEF Bijection, Injection, Surjection, IsInjective, M!IsInjective
<1>6. Cardinality(R) = n BY <1>1, <1>5, FS_CountingElements DEF ExistsBijection
<1>7. R = S BY <1>4, <1>6, FS_Subset DEF n
<1>8. DOMAIN g = 1 .. n BY <1>3
<1>9. g \in Seq(S) BY <1>1, <1>3
<1> QED BY <1>7, <1>8, <1>9 DEF g

\* The children of a row, as they are staged.
LEMMA KidsStaged ==
  ASSUME M!MergeAssumption, NEW row \in M!AnyRow
  PROVE  LET K == M!SetToSeq({M!ChildOf(row, n) : n \in row.kids})
         IN  /\ K \in Seq(KidRows)
             /\ \A i \in DOMAIN K : K[i].root = row.key /\ OfRoot(K[i])
             /\ \A n \in row.kids : \E i \in DOMAIN K : K[i].key = <<row.key, n>>
<1> DEFINE C == {M!ChildOf(row, n) : n \in row.kids}
           K == M!SetToSeq(C)
           f == [n \in row.kids |-> M!ChildOf(row, n)]
<1>1. row.kids \in SUBSET Kids /\ row.key \in Keys /\ row.rank \in RankOf BY DEF M!AnyRow, RankOf
<1>2. IsFiniteSet(row.kids) BY <1>1, FS_Subset, SameSets DEF M!MergeAssumption
<1>3. f \in Surjection(row.kids, C) BY DEF Surjection
<1>4. IsFiniteSet(C) BY <1>2, <1>3, FS_Surjection
<1>5. \A n \in row.kids : /\ M!ChildOf(row, n).root = row.key
                          /\ M!ChildOf(row, n).key = <<row.key, n>>
                          /\ M!ChildOf(row, n) \in KidRows
  BY <1>1 DEF M!ChildOf, KidRows
<1>6. \A x \in C : x.root = row.key /\ OfRoot(x) /\ x \in KidRows
  <2> SUFFICES ASSUME NEW n \in row.kids
               PROVE  LET x == M!ChildOf(row, n) IN x.root = row.key /\ OfRoot(x) /\ x \in KidRows
    OBVIOUS
  <2> QED BY <1>5 DEF OfRoot
<1>7. \A n \in row.kids : \E x \in C : x.key = <<row.key, n>> BY <1>5
<1> HIDE DEF C, f
<1>8. K \in Seq(C) /\ \A x \in C : \E i \in DOMAIN K : K[i] = x BY <1>4, SeqOfSet
<1> HIDE DEF K
<1>9. \A i \in DOMAIN K : K[i] \in C BY <1>8
<1>10. K \in Seq(KidRows)
  <2>1. DOMAIN K = 1 .. Len(K) /\ Len(K) \in Nat BY <1>8
  <2>2. \A i \in 1 .. Len(K) : K[i] \in KidRows BY <1>6, <1>9, <2>1
  <2> QED BY <1>8, <2>1, <2>2
<1> QED BY <1>6, <1>7, <1>8, <1>9, <1>10 DEF K, C

\* What a row of the engine adds to the stages.
LEMMA WriteAppends ==
  ASSUME M!MergeAssumption, RowsOK, OptsOK, M!Write
  PROVE  \E row \in M!Rows :
           /\ row \in M!AnyRow
           /\ mstage'["root"] = Append(mstage["root"], row)
           /\ mstage'["child"] = mstage["child"] \o M!SetToSeq({M!ChildOf(row, n) : n \in row.kids})
           /\ UNCHANGED <<opts, indexes, mtarget, clock>>
<1>1. PICK row \in M!Rows :
        mstage' = [root  |-> Append(mstage["root"], row),
                  child |-> mstage["child"] \o M!SetToSeq({M!ChildOf(row, n) : n \in row.kids})]
  BY DEF M!Write
<1>2. row \in M!AnyRow
  <2>1. /\ row = [key |-> row.key, rank |-> row.rank, scope |-> row.scope,
                  flag |-> row.flag, kids |-> row.kids]
        /\ row.key \in Keys /\ row.rank \in Ranks \cup {Null} /\ row.scope \in Scopes \cup {Null}
        /\ row.flag \in BOOLEAN /\ row.kids \in SUBSET Kids
    BY DEF M!Rows
  <2> QED BY <2>1 DEF M!AnyRow
<1>3. UNCHANGED <<opts, indexes, mtarget, clock>> BY DEF M!Write
<1> QED BY <1>1, <1>2, <1>3

\* Deduplication reads nothing of the options but the order.
LEMMA WholeSame ==
  ASSUME opts'.dedup = opts.dedup, NEW s, NEW sorted
  PROVE  EachKept(s, sorted)' <=> EachKept(s, sorted)
BY DEF EachKept, M!KeysOf, M!DedupSubquery, M!First, M!RankedBefore

LEMMA RootStageSame ==
  ASSUME opts'.dedup = opts.dedup, NEW s, mstage'["root"] = s,
         s \in Seq(M!AnyRow), EachKept(s, opts.dedup # "none")
  PROVE  (RootStage(mstage["root"]))'
<1>1. PICK b \in BOOLEAN : b = (opts.dedup # "none") OBVIOUS
<1>2. EachKept(s, b)' BY <1>1, WholeSame
<1>3. (opts'.dedup # "none") = b BY <1>1
<1> QED BY <1>2, <1>3 DEF RootStage

LEMMA MergeWrite == ASSUME M!MergeAssumption, MergeInv, M!Write PROVE MergeInv'
<1>1. OptsOK /\ RowsOK /\ TargetOK /\ TimesOK /\ M!OneCurrentRow /\ M!SubtreeWhole /\ Ordered
  BY DEF MergeInv
<1>2. PICK row \in M!Rows :
        /\ row \in M!AnyRow
        /\ mstage'["root"] = Append(mstage["root"], row)
        /\ mstage'["child"] = mstage["child"] \o M!SetToSeq({M!ChildOf(row, n) : n \in row.kids})
        /\ UNCHANGED <<opts, indexes, mtarget, clock>>
  BY <1>1, WriteAppends
<1> DEFINE s == mstage["root"]
           c == mstage["child"]
           K == M!SetToSeq({M!ChildOf(row, n) : n \in row.kids})
           t == Append(s, row)
           d == c \o K
           sorted == opts.dedup # "none"
<1>3. OptsOK' BY <1>1, <1>2 DEF OptsOK
<1>4. TargetOK' BY <1>1, <1>2 DEF TargetOK
<1>5. TimesOK' BY <1>1, <1>2 DEF TimesOK, TimeOK, Flat
<1>6. M!OneCurrentRow' /\ M!SubtreeWhole' /\ Ordered'
  BY <1>1, <1>2 DEF M!OneCurrentRow, M!SubtreeWhole, Ordered, M!IsActive
<1>7. RowsOK'
  <2>1. s \in Seq(M!AnyRow) /\ Staged(s) /\ EachKept(s, sorted) BY <1>1, RootStaged DEF RowsOK, RootStage
  <2>2. row.rank \in RankOf BY <1>2 DEF M!AnyRow, RankOf
  <2>3. EachKept(t, sorted) /\ M!KeysOf(t) = M!KeysOf(s) \cup {row.key}
    <3>1. PICK b \in BOOLEAN : b = sorted OBVIOUS
    <3>2. PICK u \in Seq(M!AnyRow) : u = s BY <2>1
    <3>3. Staged(u) /\ EachKept(u, b) BY <2>1, <3>1, <3>2
    <3>4. EachKept(Append(u, row), b) /\ M!KeysOf(Append(u, row)) = M!KeysOf(u) \cup {row.key}
      BY <1>2, <2>2, <3>3, OneMore
    <3> QED BY <3>1, <3>2, <3>4
  <2>4. t \in Seq(M!AnyRow) BY <1>2, <2>1
  <2>5. /\ K \in Seq(KidRows)
        /\ \A i \in DOMAIN K : K[i].root = row.key /\ OfRoot(K[i])
        /\ \A n \in row.kids : \E i \in DOMAIN K : K[i].key = <<row.key, n>>
    BY <1>2, KidsStaged
  <2>6. c \in Seq(KidRows) /\ \A i \in DOMAIN c : OfRoot(c[i]) BY <1>1 DEF RowsOK
  <2>7. /\ d \in Seq(KidRows)
        /\ \A i \in DOMAIN c : i \in DOMAIN d /\ d[i] = c[i]
        /\ \A i \in DOMAIN K : Len(c) + i \in DOMAIN d /\ d[Len(c) + i] = K[i]
        /\ \A i \in DOMAIN d : \/ i \in DOMAIN c /\ d[i] = c[i]
                               \/ \E j \in DOMAIN K : d[i] = K[j]
    <3> HIDE DEF c, K
    <3>1. DOMAIN c = 1 .. Len(c) /\ DOMAIN K = 1 .. Len(K) /\ Len(c) \in Nat /\ Len(K) \in Nat
      BY <2>5, <2>6
    <3>2. d \in Seq(KidRows) /\ Len(d) = Len(c) + Len(K) BY <2>5, <2>6
    <3>3. DOMAIN d = 1 .. Len(c) + Len(K) BY <3>2
    <3>4. \A i \in 1 .. Len(c) + Len(K) : d[i] = IF i <= Len(c) THEN c[i] ELSE K[i - Len(c)]
      BY <2>5, <2>6
    <3> HIDE DEF d
    <3>5. \A i \in DOMAIN K : Len(c) + i \in DOMAIN d /\ d[Len(c) + i] = K[i]
      BY <3>1, <3>3, <3>4
    <3>6. ASSUME NEW i \in DOMAIN d, i \notin DOMAIN c PROVE \E j \in DOMAIN K : d[i] = K[j]
      <4>1. i - Len(c) \in DOMAIN K BY <3>1, <3>3, <3>6
      <4>2. d[i] = K[i - Len(c)] BY <3>1, <3>3, <3>4, <3>6
      <4> QED BY <4>1, <4>2
    <3> QED BY <3>1, <3>2, <3>3, <3>4, <3>5, <3>6
  <2>8. \A i \in DOMAIN d : OfRoot(d[i])
    <3> HIDE DEF d, K, c
    <3> QED BY <2>5, <2>6, <2>7
  <2>9. opts.shredded => KidStage(d, t)
    <3> SUFFICES ASSUME opts.shredded PROVE KidStage(d, t) OBVIOUS
    <3>1. KidStage(c, s) BY <1>1 DEF RowsOK
    <3>2. \A i \in DOMAIN d : d[i].root \in M!KeysOf(t)
      <4> HIDE DEF d, K, t, c, s
      <4> QED BY <2>3, <2>5, <2>7, <3>1 DEF KidStage
    <3>3. DOMAIN t = DOMAIN s \cup {Len(s) + 1} /\ t[Len(s) + 1] = row
            /\ \A j \in DOMAIN s : t[j] = s[j]
      <4> HIDE DEF s
      <4>1. DOMAIN s = 1 .. Len(s) /\ Len(s) \in Nat BY <2>1
      <4>2. Len(t) = Len(s) + 1 /\ DOMAIN t = 1 .. Len(s) + 1 /\ t[Len(s) + 1] = row BY <1>2, <2>1
      <4>3. \A j \in 1 .. Len(s) : t[j] = s[j] BY <1>2, <2>1
      <4> HIDE DEF t
      <4> QED BY <4>1, <4>2, <4>3
    <3>4. ASSUME NEW j \in DOMAIN t, NEW n \in t[j].kids
          PROVE  \E i \in DOMAIN d : d[i].key = <<t[j].key, n>>
      <4> HIDE DEF d, K, t, c, s
      <4>1. CASE j \in DOMAIN s
        <5>1. PICK i \in DOMAIN c : c[i].key = <<s[j].key, n>> BY <3>1, <3>3, <3>4, <4>1 DEF KidStage
        <5> QED BY <2>7, <3>3, <4>1, <5>1
      <4>2. CASE t[j] = row
        <5>1. PICK i \in DOMAIN K : K[i].key = <<row.key, n>> BY <2>5, <3>4, <4>2
        <5> QED BY <2>7, <4>2, <5>1
      <4> QED BY <3>3, <4>1, <4>2
    <3> QED BY <3>2, <3>4 DEF KidStage
  <2>10. mstage'["root"] = t /\ mstage'["child"] = d /\ opts' = opts BY <1>2
  <2> HIDE DEF d, t, K, c, s
  <2>11. (RootStage(mstage["root"]))'
    <3>1. PICK u : u = t OBVIOUS
    <3> QED BY <2>3, <2>4, <2>10, <3>1, RootStageSame
  <2>12. (opts.shredded => KidStage(mstage["child"], mstage["root"]))'
    BY <2>9, <2>10 DEF KidStage, M!KeysOf
  <2> QED BY <2>7, <2>8, <2>10, <2>11, <2>12 DEF RowsOK
<1> QED BY <1>3, <1>4, <1>5, <1>6, <1>7 DEF MergeInv

\* Between loads: the columns the options read of a row stay the same.
LEMMA MergeReconfigure == ASSUME M!MergeAssumption, MergeInv, M!Reconfigure PROVE MergeInv'
<1>1. OptsOK /\ RowsOK /\ TargetOK /\ TimesOK /\ M!OneCurrentRow /\ M!SubtreeWhole /\ Ordered
  BY DEF MergeInv
<1>2. PICK o \in Options :
        /\ M!Accepts(o) /\ opts' = o /\ indexes' = indexes \cup M!IndexPlan(o)
        /\ \/ /\ o = [opts EXCEPT !.strategy = o.strategy]
              /\ "scd2" \notin {o.strategy, opts.strategy}
           \/ o = [opts EXCEPT !.marker = TRUE]
  BY DEF M!Reconfigure
<1>3. mstage["root"] = <<>> /\ UNCHANGED <<mstage, mtarget, clock>> BY DEF M!Reconfigure
<1>4. /\ opts'.dedup = opts.dedup /\ opts'.shredded = opts.shredded
      /\ opts'.strategy = "scd2" <=> opts.strategy = "scd2"
      /\ opts.marker => opts'.marker
      /\ opts'.strategy # "scd2" => opts'.marker = opts.marker
  <2>1. opts \in M!Option /\ o \in M!Option BY <1>1 DEF OptsOK, M!MergeAssumption
  <2>2. CASE /\ o = [opts EXCEPT !.strategy = o.strategy]
             /\ "scd2" \notin {o.strategy, opts.strategy}
    BY <1>2, <2>1, <2>2 DEF M!Option
  <2>3. CASE o = [opts EXCEPT !.marker = TRUE]
    <3>1. o.marker BY <2>1, <2>3 DEF M!Option
    <3>2. o.strategy = "scd2" BY <1>2, <2>1, <3>1 DEF M!Accepts, M!CheckScd2
    <3> QED BY <1>2, <2>1, <2>3, <3>1, <3>2 DEF M!Option
  <2> QED BY <1>2, <2>2, <2>3
<1>5. OptsOK'
  <2>1. o \in M!Option BY DEF M!MergeAssumption
  <2>2. (M!Accepts(opts))' <=> M!Accepts(o)
    BY <1>2 DEF M!Accepts, M!CheckHardDelete, M!CheckDedupSort, M!CheckMergeScope, M!CheckUpsert, M!CheckScd2
  <2>3. (M!IndexPlan(opts))' = M!IndexPlan(o) BY <1>2 DEF M!IndexPlan
  <2> QED BY <1>2, <2>1, <2>2, <2>3 DEF OptsOK
<1>6. RowsOK'
  <2>1. PICK s : s = mstage["root"] OBVIOUS
  <2>2. s \in Seq(M!AnyRow) /\ EachKept(s, opts.dedup # "none") BY <1>1, <2>1 DEF RowsOK, RootStage
  <2>3. (RootStage(mstage["root"]))' BY <1>3, <1>4, <2>1, <2>2, RootStageSame
  <2>4. (opts.shredded => KidStage(mstage["child"], mstage["root"]))'
    BY <1>1, <1>3, <1>4 DEF RowsOK, KidStage, M!KeysOf
  <2> QED BY <1>1, <1>3, <2>3, <2>4 DEF RowsOK
<1>7. TargetOK' BY <1>1, <1>3 DEF TargetOK
<1>8. TimesOK' BY <1>1, <1>3, <1>4 DEF TimesOK, TimeOK, Flat
<1>9. M!OneCurrentRow' /\ M!SubtreeWhole' BY <1>1, <1>3, <1>4 DEF M!OneCurrentRow, M!SubtreeWhole
<1>10. Ordered'
  <2> SUFFICES ASSUME opts.strategy = "scd2", NEW e \in mtarget["root"], NEW f \in mtarget["root"],
                      e.row.key = f.row.key, ~(M!IsActive(e))', (M!IsActive(f))'
               PROVE  f.from >= e.to
    BY <1>3, <1>4 DEF Ordered
  <2>1. TimeOK(e, clock) /\ TimeOK(f, clock) /\ clock \in Nat BY <1>1 DEF TimesOK
  <2>2. (M!IsActive(e))' <=> e.to = Null \/ (opts'.marker /\ e.to = Marker) BY DEF M!IsActive
  <2>3. (M!IsActive(f))' <=> f.to = Null \/ (opts'.marker /\ f.to = Marker) BY DEF M!IsActive
  <2>4. ~M!IsActive(e) BY <1>4, <2>2 DEF M!IsActive
  <2>5. M!IsActive(f) BY <2>1, <2>3 DEF M!IsActive, TimeOK, M!MergeAssumption
  <2> QED BY <1>1, <2>4, <2>5 DEF Ordered
<1> QED BY <1>5, <1>6, <1>7, <1>8, <1>9, <1>10 DEF MergeInv

-----------------------------------------------------------------------------
(* Publishing a unit *)

LEMMA PublishEffect ==
  ASSUME M!Publish
  PROVE  /\ mtarget'["root"] = M!MergeSteps("root")
         /\ mtarget'["child"] = IF opts.shredded THEN M!MergeSteps("child") ELSE mtarget["child"]
         /\ mstage'["root"] = <<>>
         /\ mstage'["child"] = IF opts.shredded THEN <<>> ELSE mstage["child"]
         /\ UNCHANGED <<opts, indexes>>
         /\ clock' = IF opts.strategy = "scd2" THEN clock + 1 ELSE clock
         /\ M!ArmOf(opts) # "unsupported"
         /\ mstage["root"] # <<>> \/ M!FullFeed(opts)
BY DEF M!Publish, M!PlanCommit, M!Tables, M!Registered

\* What the options of a shredded table can be.
LEMMA Shredded ==
  ASSUME opts \in M!Option, M!Accepts(opts), opts.shredded
  PROVE  opts.strategy = "delete_insert" /\ ~M!FullFeed(opts) /\ opts.dedup = "none"
         /\ M!ArmOf(opts) = "identity_delete_insert" /\ ~opts.scope
BY DEF M!Option, M!Accepts, M!CheckUpsert, M!CheckScd2, M!CheckMergeScope, M!CheckDedupSort, M!FullFeed, M!ArmOf

LEMMA ChildMerged ==
  ASSUME opts \in M!Option, M!Accepts(opts), opts.shredded, NEW e
  PROVE  LET C == mtarget["child"]
             c == mstage["child"]
             s == mstage["root"]
         IN  e \in M!MergeSteps("child") <=>
               \/ e \in C /\ e.row.root \notin M!KeysOf(s)
               \/ \E i \in M!Deduped(c) :
                    /\ opts.hard_delete => c[i].root \notin M!FlaggedRoots(s)
                    /\ e = M!Published(c, i)
<1> DEFINE C == mtarget["child"]
           c == mstage["child"]
           s == mstage["root"]
<1>1. M!MergeSteps("child") = M!IdentityDeleteInsert(C, c, s, TRUE)
  BY Shredded DEF M!MergeSteps, M!Arm
<1> HIDE DEF C, c, s
<1>2. e \in M!IdentityDeleteInsert(C, c, s, TRUE) <=>
               \/ e \in C /\ e.row.root \notin M!KeysOf(s)
               \/ \E i \in M!Deduped(c) :
                    /\ opts.hard_delete => c[i].root \notin M!FlaggedRoots(s)
                    /\ e = M!Published(c, i)
  BY DEF M!IdentityDeleteInsert
<1> QED BY <1>1, <1>2 DEF C, c, s

\* After a unit of a table without history.
LEMMA FlatPublished ==
  ASSUME M!MergeAssumption, MergeInv, M!Publish, opts.strategy # "scd2"
  PROVE  /\ mtarget'["root"] \subseteq Versions
         /\ Flat(mtarget'["root"])
         /\ \A e \in mtarget'["root"], f \in mtarget'["root"] : e.row.key = f.row.key => e = f
<1> DEFINE T == mtarget["root"]
           s == mstage["root"]
           U == mtarget'["root"]
<1>1. /\ OptsOK /\ RootStage(s) /\ T \subseteq Versions /\ Flat(T) /\ M!OneCurrentRow
  BY DEF MergeInv, RowsOK, TargetOK, TimesOK
<1>2. U = M!MergeSteps("root") /\ M!ArmOf(opts) # "unsupported" BY PublishEffect
<1>3. \A e : e \in U <=>
               \/ /\ e \in T /\ e.row.key \notin M!KeysOf(s)
                  /\ opts.scope => e.row.scope \notin M!DeliveredScopes(s)
               \/ \E i \in M!Deduped(s) : M!Keep(s[i]) /\ e = M!Published(s, i)
  BY <1>1, <1>2, FlatMerged DEF OptsOK
<1>4. \A i \in M!Deduped(s) : /\ M!Published(s, i) \in Versions
                            /\ M!Published(s, i).from = Null /\ M!Published(s, i).to = Null
                            /\ M!Published(s, i).row = s[i]
                            /\ s[i].key \in M!KeysOf(s)
  BY <1>1, RootStaged DEF M!Published, M!Stored, Versions
<1>5. \A i \in M!Deduped(s), j \in M!Deduped(s) : s[i].key = s[j].key => i = j BY <1>1, RootStaged
<1> HIDE DEF U, T, s
<1>6. U \subseteq Versions BY <1>1, <1>3, <1>4
<1>7. Flat(U) BY <1>1, <1>3, <1>4 DEF Flat
<1>8. ASSUME NEW e \in U, NEW f \in U, e.row.key = f.row.key PROVE e = f
  <2>1. CASE e.row.key \in M!KeysOf(s)
    <3>1. PICK i \in M!Deduped(s) : e = M!Published(s, i) BY <1>3, <2>1
    <3>2. PICK j \in M!Deduped(s) : f = M!Published(s, j) BY <1>3, <1>8, <2>1
    <3> QED BY <1>4, <1>5, <1>8, <3>1, <3>2
  <2>2. CASE e.row.key \notin M!KeysOf(s)
    <3>1. e \in T /\ f \in T BY <1>3, <1>4, <1>8, <2>2
    <3> QED BY <1>1, <1>8, <3>1 DEF M!OneCurrentRow, Flat, T
  <2> QED BY <2>1, <2>2
<1> QED BY <1>6, <1>7, <1>8 DEF U

\* The subtree of every root.
LEMMA SubtreePublished ==
  ASSUME M!MergeAssumption, MergeInv, M!Publish, opts.shredded
  PROVE  /\ mtarget'["child"] \subseteq KidVersions
         /\ \A c \in mtarget'["child"] : OfRoot(c.row)
         /\ \A c \in mtarget'["child"] : \E e \in mtarget'["root"] : e.row.key = c.row.root
         /\ \A e \in mtarget'["root"] : \A n \in e.row.kids :
              \E c \in mtarget'["child"] : c.row.key = <<e.row.key, n>>
<1> DEFINE T == mtarget["root"]
           s == mstage["root"]
           U == mtarget'["root"]
           C == mtarget["child"]
           c == mstage["child"]
           V == mtarget'["child"]
           safe(r) == opts.hard_delete => r \notin M!FlaggedRoots(s)
<1>1. /\ OptsOK /\ RootStage(s) /\ Flat(T) /\ M!SubtreeWhole
      /\ c \in Seq(KidRows) /\ KidStage(c, s) /\ \A i \in DOMAIN c : OfRoot(c[i])
      /\ C \subseteq KidVersions /\ \A x \in C : OfRoot(x.row)
  BY Shredded DEF MergeInv, RowsOK, TargetOK, TimesOK, OptsOK
<1>2. /\ opts.strategy = "delete_insert" /\ opts.dedup = "none" /\ ~opts.scope
      /\ opts \in M!Option /\ M!Accepts(opts)
  BY <1>1, Shredded DEF OptsOK
<1>3. U = M!MergeSteps("root") /\ V = M!MergeSteps("child") /\ M!ArmOf(opts) # "unsupported"
  BY PublishEffect
<1>4. \A e : e \in U <=> \/ e \in T /\ e.row.key \notin M!KeysOf(s)
                         \/ \E i \in M!Deduped(s) : M!Keep(s[i]) /\ e = M!Published(s, i)
  BY <1>1, <1>2, <1>3, FlatMerged
<1>5. \A e : e \in V <=> \/ e \in C /\ e.row.root \notin M!KeysOf(s)
                         \/ \E i \in M!Deduped(c) : safe(c[i].root) /\ e = M!Published(c, i)
  BY <1>2, <1>3, ChildMerged
<1>6. \A x, i : M!Published(x, i).row = x[i] BY DEF M!Published, M!Stored
<1>7. /\ \A k \in M!KeysOf(s) : \E i \in M!Deduped(s) : s[i].key = k
      /\ \A i \in M!Deduped(s) : i \in DOMAIN s /\ s[i].key \in M!KeysOf(s)
      /\ \A i \in M!Deduped(s), j \in M!Deduped(s) : s[i].key = s[j].key => i = j
  BY <1>1, RootStaged
<1>8. /\ \A i \in DOMAIN c : c[i].key \in M!KeysOf(c)
      /\ \A k \in M!KeysOf(c) : \E i \in M!Deduped(c) : c[i].key = k
      /\ \A i \in M!Deduped(c) : i \in DOMAIN c
  <2>1. M!Deduped(c) = M!DedupSubquery(c, FALSE) BY <1>2 DEF M!Deduped
  <2>2. EachKept(c, FALSE) BY <1>1, LastSurvives
  <2> QED BY <2>1, <2>2 DEF EachKept, M!KeysOf, M!DedupSubquery
<1>9. \A i \in M!Deduped(s) : M!Keep(s[i]) <=> safe(s[i].key)
  <2>1. M!Deduped(s) = M!DedupSubquery(s, FALSE) BY <1>2 DEF M!Deduped
  <2>2. \A k : k \in M!FlaggedRoots(s) <=> \E i \in M!Deduped(s) : s[i].flag /\ s[i].key = k
    BY <2>1 DEF M!FlaggedRoots
  <2>3. \A i \in M!Deduped(s) : s[i].flag <=> s[i].key \in M!FlaggedRoots(s) BY <1>7, <2>2
  <2> QED BY <2>3 DEF M!Keep
<1>10. \A i \in DOMAIN c : c[i] \in KidRows /\ M!Published(c, i) \in KidVersions
  <2>1. \A i \in DOMAIN c : c[i] \in KidRows BY <1>1
  <2> QED BY <2>1 DEF M!Published, M!Stored, KidVersions
<1> HIDE DEF T, s, U, C, c, V, safe
<1>11. V \subseteq KidVersions /\ \A x \in V : OfRoot(x.row)
  BY <1>1, <1>5, <1>6, <1>8, <1>10
<1>12. ASSUME NEW x \in V PROVE \E e \in U : e.row.key = x.row.root
  <2>1. CASE x \in C /\ x.row.root \notin M!KeysOf(s)
    <3>1. PICK e \in T : e.row.key = x.row.root BY <1>1, <2>1 DEF M!SubtreeWhole, T, C
    <3> QED BY <1>4, <2>1, <3>1
  <2>2. ASSUME NEW i \in M!Deduped(c), safe(c[i].root), x = M!Published(c, i)
        PROVE  \E e \in U : e.row.key = x.row.root
    <3>1. c[i].root \in M!KeysOf(s) BY <1>1, <1>8 DEF KidStage
    <3>2. PICK j \in M!Deduped(s) : s[j].key = c[i].root BY <1>7, <3>1
    <3>3. M!Published(s, j) \in U BY <1>4, <1>9, <2>2, <3>2
    <3> QED BY <1>6, <2>2, <3>2, <3>3
  <2> QED BY <1>5, <2>1, <2>2
<1>13. ASSUME NEW e \in U, NEW n \in e.row.kids PROVE \E x \in V : x.row.key = <<e.row.key, n>>
  <2>1. CASE e \in T /\ e.row.key \notin M!KeysOf(s)
    <3>1. PICK x \in C : x.row.key = <<e.row.key, n>> BY <1>1, <1>13, <2>1 DEF M!SubtreeWhole, T, C
    <3>2. x.row.root = e.row.key BY <1>1, <3>1 DEF OfRoot
    <3> QED BY <1>5, <2>1, <3>1, <3>2
  <2>2. ASSUME NEW j \in M!Deduped(s), M!Keep(s[j]), e = M!Published(s, j)
        PROVE  \E x \in V : x.row.key = <<e.row.key, n>>
    <3>1. e.row = s[j] BY <1>6, <2>2
    <3>2. PICK m \in DOMAIN c : c[m].key = <<s[j].key, n>>
      BY <1>1, <1>7, <1>13, <3>1 DEF KidStage
    <3>3. PICK i \in M!Deduped(c) : c[i].key = <<s[j].key, n>> BY <1>8, <3>2
    <3>4. c[i].root = s[j].key BY <1>1, <1>8, <3>3 DEF OfRoot
    <3>5. M!Published(c, i) \in V BY <1>5, <1>9, <2>2, <3>4
    <3> QED BY <1>6, <3>1, <3>3, <3>5
  <2> QED BY <1>4, <2>1, <2>2
<1> QED BY <1>11, <1>12, <1>13 DEF U, V

-----------------------------------------------------------------------------
(* Publishing into a history *)

\* t stays as it is, is closed now, or i is a new version.
StaysIn(t, s) == ~(M!IsActive(t) /\ Closes(t, s) /\ s # <<>>)
EntersOf(i, T, s) ==
  \A t \in T : t.row.key = s[i].key => ~M!IsActive(t) \/ Changed(t, s)

LEMMA HistoryMerged ==
  ASSUME M!MergeAssumption, MergeInv, M!Publish, opts.strategy = "scd2"
  PROVE  LET T == mtarget["root"]
             s == mstage["root"]
             U == mtarget'["root"]
         IN  /\ \A t \in T : IF StaysIn(t, s) THEN t \in U ELSE M!Stored(t.row, t.from, clock) \in U
             /\ \A e \in U :
                  \/ e \in T /\ StaysIn(e, s)
                  \/ \E t \in T : M!IsActive(t) /\ ~StaysIn(t, s) /\ e = M!Stored(t.row, t.from, clock)
                  \/ \E i \in M!Deduped(s) : e = M!Stored(s[i], clock, Open) /\ EntersOf(i, T, s)
             /\ s # <<>> => \A i \in M!Deduped(s) :
                  EntersOf(i, T, s) => M!Stored(s[i], clock, Open) \in U
<1> DEFINE T == mtarget["root"]
           s == mstage["root"]
           U == mtarget'["root"]
<1>1. /\ opts \in M!Option /\ M!Accepts(opts) /\ RootStage(s) /\ clock \in Nat
  BY DEF MergeInv, RowsOK, OptsOK, TimesOK
<1>2. U = M!MergeSteps("root") /\ (s # <<>> \/ M!FullFeed(opts)) /\ M!ArmOf(opts) = "scd2"
  BY <1>1, PublishEffect DEF M!ArmOf, M!Accepts, M!CheckScd2
<1>3. CASE s = <<>>
  <2>1. U = T BY <1>2, <1>3 DEF M!MergeSteps
  <2> QED BY <1>3, <2>1 DEF StaysIn
<1>4. CASE s # <<>>
  <2>1. U = M!Scd2(T, s) BY <1>2, <1>4 DEF M!MergeSteps, M!Arm
  <2>2. \A e : e \in U <=>
           \/ \E t \in T : e = M!Retired(t, Closes(t, s))
           \/ \E i \in M!Deduped(s) : e = M!Stored(s[i], clock, Open) /\ EntersOf(i, T, s)
    <3> HIDE DEF U, T, s
    <3> QED BY <1>1, <2>1, Scd2Merged DEF EntersOf
  <2>3. \A t : M!Retired(t, Closes(t, s))
                 = IF StaysIn(t, s) THEN t ELSE M!Stored(t.row, t.from, clock)
    BY <1>4 DEF M!Retired, StaysIn
  <2>4. \A t : ~StaysIn(t, s) => M!IsActive(t) BY DEF StaysIn
  <2> HIDE DEF U, T, s
  <2> QED BY <2>2, <2>3, <2>4 DEF U, T, s
<1> QED BY <1>3, <1>4

LEMMA HistoryPublished ==
  ASSUME M!MergeAssumption, MergeInv, M!Publish, opts.strategy = "scd2"
  PROVE  LET U == mtarget'["root"]
         IN  /\ U \subseteq Versions
             /\ \A e \in U : TimeOK(e, clock + 1)
             /\ \A e \in U, f \in U : M!IsActive(e) /\ M!IsActive(f) /\ e.row.key = f.row.key => e = f
             /\ \A e \in U, f \in U :
                  e.row.key = f.row.key /\ ~M!IsActive(e) /\ M!IsActive(f) => f.from >= e.to
<1> DEFINE T == mtarget["root"]
           s == mstage["root"]
           U == mtarget'["root"]
           closed(t) == M!Stored(t.row, t.from, clock)
           new(i) == M!Stored(s[i], clock, Open)
<1>1. /\ RootStage(s) /\ T \subseteq Versions /\ clock \in Nat \ {0}
      /\ \A e \in T : TimeOK(e, clock)
      /\ M!OneCurrentRow /\ Ordered
  BY DEF MergeInv, RowsOK, TargetOK, TimesOK
<1>2. \A e \in U :
        \/ e \in T /\ StaysIn(e, s)
        \/ \E t \in T : M!IsActive(t) /\ ~StaysIn(t, s) /\ e = closed(t)
        \/ \E i \in M!Deduped(s) : e = new(i) /\ EntersOf(i, T, s)
  BY HistoryMerged
<1>3. /\ \A k \in M!KeysOf(s) : \E i \in M!Deduped(s) : s[i].key = k
      /\ \A i \in M!Deduped(s) : i \in DOMAIN s /\ s[i].key \in M!KeysOf(s)
      /\ \A i \in DOMAIN s : s[i] \in M!AnyRow
      /\ \A i \in M!Deduped(s), j \in M!Deduped(s) : s[i].key = s[j].key => i = j
  BY <1>1, RootStaged
<1>4. \A t : /\ closed(t).row = t.row /\ closed(t).from = t.from /\ closed(t).to = clock
             /\ ~M!IsActive(closed(t))
  BY <1>1, ClosedOnce
<1>5. \A i : new(i).row = s[i] /\ new(i).from = clock /\ new(i).to = Open /\ M!IsActive(new(i))
  BY DEF M!Stored, M!IsActive, Open
<1>6. \A t \in T : closed(t) \in Versions /\ TimeOK(closed(t), clock + 1)
  <2> SUFFICES ASSUME NEW t \in T PROVE closed(t) \in Versions /\ TimeOK(closed(t), clock + 1)
    OBVIOUS
  <2>1. t.row \in M!AnyRow /\ t.from \in 1 .. clock BY <1>1 DEF Versions, TimeOK
  <2> QED BY <1>1, <1>4, <2>1 DEF M!Stored, Versions, TimeOK
<1>7. \A i \in M!Deduped(s) : new(i) \in Versions /\ TimeOK(new(i), clock + 1)
  BY <1>1, <1>3, <1>5 DEF M!Stored, Versions, TimeOK, Open
<1>8. \A e \in T : TimeOK(e, clock + 1) BY <1>1 DEF TimeOK
<1>9. \A e \in T, f \in T : M!IsActive(e) /\ M!IsActive(f) /\ e.row.key = f.row.key => e = f
  BY <1>1 DEF M!OneCurrentRow, M!IsActive
<1>10. \A e \in T, f \in T : e.row.key = f.row.key /\ ~M!IsActive(e) /\ M!IsActive(f) => f.from >= e.to
  BY <1>1 DEF Ordered
<1>11. \A e \in T : ~M!IsActive(e) => e.to \in Nat /\ e.to <= clock
  BY <1>1 DEF TimeOK, M!IsActive
<1> HIDE DEF T, s, U, closed, new
<1>12. \A e \in U : e \in Versions /\ TimeOK(e, clock + 1)
  BY <1>1, <1>2, <1>6, <1>7, <1>8
<1>13. \A e \in U : M!IsActive(e) =>
         \/ e \in T /\ StaysIn(e, s)
         \/ \E i \in M!Deduped(s) : e = new(i) /\ EntersOf(i, T, s)
  BY <1>2, <1>4
<1>14. ASSUME NEW t \in T, M!IsActive(t), StaysIn(t, s), NEW i \in M!Deduped(s), EntersOf(i, T, s)
       PROVE  t.row.key # s[i].key
  <2>1. s # <<>> BY <1>3
  <2>2. ~Changed(t, s) BY <1>14, <2>1 DEF StaysIn, Closes
  <2> QED BY <1>14, <2>2 DEF EntersOf
<1>15. ASSUME NEW e \in U, NEW f \in U, M!IsActive(e), M!IsActive(f), e.row.key = f.row.key PROVE e = f
  BY <1>3, <1>5, <1>9, <1>13, <1>14, <1>15
<1>16. ASSUME NEW e \in U, NEW f \in U, e.row.key = f.row.key, ~M!IsActive(e), M!IsActive(f)
       PROVE  f.from >= e.to
  <2>1. e \in T \/ \E t \in T : M!IsActive(t) /\ ~StaysIn(t, s) /\ e = closed(t) BY <1>2, <1>5, <1>16
  <2>2. CASE f \in T /\ StaysIn(f, s)
    <3>1. CASE e \in T BY <1>10, <1>16, <2>2, <3>1
    <3>2. ASSUME NEW t \in T, M!IsActive(t), ~StaysIn(t, s), e = closed(t) PROVE FALSE
      <4>1. t = f BY <1>4, <1>9, <1>16, <2>2, <3>2
      <4> QED BY <2>2, <3>2, <4>1
    <3> QED BY <2>1, <3>1, <3>2
  <2>3. ASSUME NEW i \in M!Deduped(s), f = new(i) PROVE f.from >= e.to
    BY <1>1, <1>4, <1>5, <1>11, <1>16, <2>1, <2>3
  <2> QED BY <1>13, <1>16, <2>2, <2>3
<1> QED BY <1>12, <1>15, <1>16 DEF U

LEMMA MergePublish == ASSUME M!MergeAssumption, MergeInv, M!Publish PROVE MergeInv'
<1>1. OptsOK /\ RowsOK /\ TargetOK /\ TimesOK /\ M!OneCurrentRow /\ M!SubtreeWhole /\ Ordered
  BY DEF MergeInv
<1>2. /\ mstage'["root"] = <<>>
      /\ mtarget'["child"] = IF opts.shredded THEN M!MergeSteps("child") ELSE mtarget["child"]
      /\ mstage'["child"] = IF opts.shredded THEN <<>> ELSE mstage["child"]
      /\ UNCHANGED <<opts, indexes>>
      /\ clock' = IF opts.strategy = "scd2" THEN clock + 1 ELSE clock
  BY PublishEffect
<1>3. OptsOK' BY <1>1, <1>2 DEF OptsOK
<1>4. RowsOK'
  <2>1. M!KeysOf(<<>>) = {} /\ DOMAIN <<>> = {} /\ <<>> \in Seq(M!AnyRow) /\ <<>> \in Seq(KidRows)
    BY DEF M!KeysOf
  <2>2. (RootStage(mstage["root"]))'
    <3>1. EachKept(<<>>, opts.dedup # "none") BY <2>1 DEF EachKept
    <3>2. PICK s : s = <<>> OBVIOUS
    <3> QED BY <1>2, <2>1, <3>1, <3>2, RootStageSame
  <2>3. mstage'["child"] \in Seq(KidRows) BY <1>1, <1>2, <2>1 DEF RowsOK
  <2>4. \A i \in DOMAIN mstage'["child"] : OfRoot(mstage'["child"][i])
    BY <1>1, <1>2, <2>1 DEF RowsOK
  <2>5. (opts.shredded => KidStage(mstage["child"], mstage["root"]))'
    BY <1>2, <2>1 DEF KidStage
  <2> QED BY <2>2, <2>3, <2>4, <2>5 DEF RowsOK
<1>5. mtarget'["root"] \subseteq Versions
  <2>1. CASE opts.strategy = "scd2" BY <2>1, HistoryPublished
  <2>2. CASE opts.strategy # "scd2" BY <2>2, FlatPublished
  <2> QED BY <2>1, <2>2
<1>6. TargetOK'
  <2>1. mtarget'["child"] \subseteq KidVersions /\ \A c \in mtarget'["child"] : OfRoot(c.row)
    <3>1. CASE opts.shredded BY <3>1, SubtreePublished
    <3>2. CASE ~opts.shredded BY <1>1, <1>2, <3>2 DEF TargetOK
    <3> QED BY <3>1, <3>2
  <2> QED BY <1>5, <2>1 DEF TargetOK
<1>7. TimesOK' /\ M!OneCurrentRow' /\ Ordered'
  <2>1. CASE opts.strategy = "scd2"
    <3>1. PICK U : U = mtarget'["root"] OBVIOUS
    <3>2. /\ \A e \in U : TimeOK(e, clock + 1)
          /\ \A e \in U, f \in U : M!IsActive(e) /\ M!IsActive(f) /\ e.row.key = f.row.key => e = f
          /\ \A e \in U, f \in U :
               e.row.key = f.row.key /\ ~M!IsActive(e) /\ M!IsActive(f) => f.from >= e.to
      BY <2>1, <3>1, HistoryPublished
    <3>3. \A e \in U : e.to \in {Null, Marker} => M!IsActive(e)
      <4>1. clock + 1 \in Nat BY <1>1 DEF TimesOK
      <4> QED BY <3>2, <4>1 DEF TimeOK, M!IsActive, M!MergeAssumption
    <3>4. M!OneCurrentRow' BY <3>1, <3>2, <3>3 DEF M!OneCurrentRow
    <3>5. clock' = clock + 1 /\ clock' \in Nat \ {0} BY <1>1, <1>2, <2>1 DEF TimesOK
    <3>6. TimesOK' BY <1>2, <2>1, <3>1, <3>2, <3>5 DEF TimesOK, TimeOK
    <3>7. Ordered' BY <1>2, <3>1, <3>2 DEF Ordered, M!IsActive
    <3> QED BY <3>4, <3>6, <3>7
  <2>2. CASE opts.strategy # "scd2"
    <3>1. PICK U : U = mtarget'["root"] OBVIOUS
    <3>2. Flat(U) /\ \A e \in U, f \in U : e.row.key = f.row.key => e = f
      BY <2>2, <3>1, FlatPublished
    <3>3. M!OneCurrentRow' BY <3>1, <3>2 DEF M!OneCurrentRow
    <3>4. TimesOK' BY <1>1, <1>2, <2>2, <3>1, <3>2 DEF TimesOK, Flat
    <3> QED BY <1>2, <2>2, <3>3, <3>4 DEF Ordered
  <2> QED BY <2>1, <2>2
<1>8. M!SubtreeWhole'
  <2>1. CASE opts.shredded BY <1>2, <2>1, SubtreePublished DEF M!SubtreeWhole
  <2>2. CASE ~opts.shredded BY <1>2, <2>2 DEF M!SubtreeWhole
  <2> QED BY <2>1, <2>2
<1> QED BY <1>3, <1>4, <1>6, <1>7, <1>8 DEF MergeInv

LEMMA MergeStep == ASSUME M!MergeAssumption, MergeInv, [M!Next]_M!vars PROVE MergeInv'
<1>1. CASE M!Next BY <1>1, MergeWrite, MergePublish, MergeReconfigure DEF M!Next
<1>2. CASE UNCHANGED M!vars
  <2>1. UNCHANGED <<opts, indexes, mstage, mtarget, clock>> BY <1>2 DEF M!vars
  <2>2. OptsOK /\ RowsOK /\ TargetOK /\ TimesOK /\ M!OneCurrentRow /\ M!SubtreeWhole /\ Ordered
    BY DEF MergeInv
  <2>3. OptsOK' BY <2>1, <2>2 DEF OptsOK
  <2>4. RowsOK'
    <3>1. PICK s : s = mstage["root"] OBVIOUS
    <3>2. s \in Seq(M!AnyRow) /\ EachKept(s, opts.dedup # "none") BY <2>2, <3>1 DEF RowsOK, RootStage
    <3>3. (RootStage(mstage["root"]))' BY <2>1, <3>1, <3>2, RootStageSame
    <3> QED BY <2>1, <2>2, <3>3 DEF RowsOK, KidStage, M!KeysOf
  <2>5. TargetOK' /\ TimesOK' BY <2>1, <2>2 DEF TargetOK, TimesOK, TimeOK, Flat
  <2>6. M!OneCurrentRow' /\ M!SubtreeWhole' /\ Ordered'
    BY <2>1, <2>2 DEF M!OneCurrentRow, M!SubtreeWhole, Ordered, M!IsActive
  <2> QED BY <2>3, <2>4, <2>5, <2>6 DEF MergeInv
<1> QED BY <1>1, <1>2

LEMMA MergeAlways == ASSUME M!MergeAssumption PROVE M!Spec => []MergeInv
<1>1. M!Init => MergeInv BY MergeInit
<1>2. MergeInv /\ [M!Next]_M!vars => MergeInv' BY MergeStep
<1> QED BY <1>1, <1>2, PTL DEF M!Spec

LEMMA MergeTypes == ASSUME M!MergeAssumption, MergeInv PROVE M!TypeOK
<1>1. OptsOK /\ RowsOK /\ TargetOK /\ TimesOK BY DEF MergeInv
<1>2. \A i \in DOMAIN mstage["root"] : mstage["root"][i].key \in Keys
  <2>1. \A i \in DOMAIN mstage["root"] : mstage["root"][i] \in M!AnyRow BY <1>1, RootStaged DEF RowsOK
  <2> QED BY <2>1 DEF M!AnyRow
<1>3. \A e \in mtarget["root"] :
         /\ e.row.key \in Keys
         /\ e.from \in IF opts.strategy = "scd2" THEN 1 .. clock ELSE {Null}
         /\ e.to = Null \/ e.to = Marker \/ e.to \in e.from .. clock
  <2>1. \A e \in mtarget["root"] : e.row.key \in Keys BY <1>1 DEF TargetOK, Versions, M!AnyRow
  <2> QED BY <1>1, <2>1 DEF TimesOK, TimeOK, Flat
<1>4. \A e \in mtarget["child"] : e.row.root \in Keys BY <1>1 DEF TargetOK, KidVersions, KidRows
<1> QED BY <1>1, <1>2, <1>3, <1>4 DEF M!TypeOK, OptsOK

\* The rows, versions and times of a merge table are of their types
\* (MergeTable's TypeOK): no statement of an arm leaves a version whose validity
\* ends before it begins or after now().
THEOREM MergeTypeCorrect == ASSUME M!MergeAssumption PROVE M!Spec => []M!TypeOK
<1>1. MergeInv => M!TypeOK BY MergeTypes
<1> QED BY <1>1, MergeAlways, PTL

\* A key has one current row after any sequence of units, under every accepted
\* option set (MergeTable's OneCurrentRow): the survivor of deduped() is unique,
\* and each arm of plan/arms.rs replaces, updates or retires what it supersedes.
THEOREM OneRow == ASSUME M!MergeAssumption PROVE M!Spec => []M!OneCurrentRow
<1>1. MergeInv => M!OneCurrentRow BY DEF MergeInv
<1> QED BY <1>1, MergeAlways, PTL

\* The subtree of a root is replaced as a whole (MergeTable's SubtreeWhole): the
\* child table follows the root's stage, hard deletes included, because plan_commit
\* truncates no stage before the last table is published.
THEOREM Subtree == ASSUME M!MergeAssumption PROVE M!Spec => []M!SubtreeWhole
<1>1. MergeInv => M!SubtreeWhole BY DEF MergeInv
<1> QED BY <1>1, MergeAlways, PTL

\* Every accepted option set has an arm, and an upsert its unique index
\* (MergeTable's ArmSupported): validate.rs, select_arm and index_plan agree,
\* also after an operator edits the options.
THEOREM Supported == ASSUME M!MergeAssumption PROVE M!Spec => []M!ArmSupported
<1>1. MergeInv => M!ArmSupported
  <2> SUFFICES ASSUME MergeInv PROVE M!ArmSupported OBVIOUS
  <2>1. opts \in M!Option /\ M!Accepts(opts) /\ M!IndexPlan(opts) \subseteq indexes
    BY DEF MergeInv, OptsOK
  <2>2. M!ArmOf(opts) # "unsupported"
    BY <2>1 DEF M!Option, M!ArmOf, M!Accepts, M!CheckUpsert, M!CheckScd2
  <2>3. M!ArmOf(opts) = "keyed_upsert" => [unique |-> TRUE, on |-> "key"] \in indexes
    <3>1. M!ArmOf(opts) = "keyed_upsert" => ~opts.shredded /\ opts.strategy = "upsert"
      BY <2>1 DEF M!ArmOf
    <3>2. ~opts.shredded /\ opts.strategy = "upsert" =>
            [unique |-> TRUE, on |-> "key"] \in M!IndexPlan(opts)
      <4> SUFFICES ASSUME ~opts.shredded, opts.strategy = "upsert"
                   PROVE  [unique |-> TRUE, on |-> "key"] \in M!IndexPlan(opts)
        OBVIOUS
      <4>1. PICK x : x = [unique |-> opts.strategy = "upsert", on |-> "key"] OBVIOUS
      <4>2. x \in M!IndexPlan(opts) BY <4>1 DEF M!IndexPlan
      <4>3. x = [unique |-> TRUE, on |-> "key"] BY <4>1
      <4> QED BY <4>2, <4>3
    <3> QED BY <2>1, <3>1, <3>2
  <2>4. opts.hard_delete => M!ArmOf(opts) # "scd2"
    BY <2>1 DEF M!ArmOf, M!Accepts, M!CheckHardDelete
  <2> QED BY <2>2, <2>3, <2>4 DEF M!ArmSupported
<1> QED BY <1>1, MergeAlways, PTL

\* scd2_merge_sql only adds to a history, whatever the units say (MergeTable's
\* HistoryKept): versions stay, closed ones stay closed, and a key's next version
\* opens no earlier than its last one closed.
THEOREM HistoryStays == ASSUME M!MergeAssumption PROVE M!Spec => M!HistoryKept
<1> DEFINE A == opts.strategy = "scd2" =>
                  \A e \in mtarget["root"] :
                    /\ \E f \in mtarget'["root"] :
                         /\ <<f.row, f.from>> = <<e.row, e.from>>
                         /\ ~M!IsActive(e) => f.to = e.to
                    /\ \A f \in mtarget'["root"] :
                         f.row.key = e.row.key /\ f \notin mtarget["root"] /\ ~M!IsActive(e)
                           => f.from >= e.to
<1>1. ASSUME MergeInv, M!Publish, opts.strategy = "scd2" PROVE A
  <2> DEFINE T == mtarget["root"]
             s == mstage["root"]
             U == mtarget'["root"]
  <2>1. /\ \A t \in T : IF StaysIn(t, s) THEN t \in U ELSE M!Stored(t.row, t.from, clock) \in U
        /\ \A e \in U :
             \/ e \in T /\ StaysIn(e, s)
             \/ \E t \in T : M!IsActive(t) /\ ~StaysIn(t, s) /\ e = M!Stored(t.row, t.from, clock)
             \/ \E i \in M!Deduped(s) : e = M!Stored(s[i], clock, Open) /\ EntersOf(i, T, s)
    BY <1>1, HistoryMerged
  <2>2. clock \in Nat /\ \A e \in T : TimeOK(e, clock) BY <1>1 DEF MergeInv, TimesOK
  <2>3. \A e \in T : ~M!IsActive(e) => e.to \in Nat /\ e.to <= clock BY <2>2 DEF TimeOK, M!IsActive
  <2>4. \A t : ~StaysIn(t, s) => M!IsActive(t) BY DEF StaysIn
  <2>5. \A t, i : M!Stored(t.row, t.from, clock).row = t.row /\ M!Stored(t.row, t.from, clock).from = t.from
                  /\ M!Stored(s[i], clock, Open).from = clock
    BY DEF M!Stored
  <2> HIDE DEF T, s, U
  <2>6. ASSUME NEW e \in T
        PROVE  \E f \in U : <<f.row, f.from>> = <<e.row, e.from>> /\ (~M!IsActive(e) => f.to = e.to)
    <3>1. CASE StaysIn(e, s) BY <2>1, <3>1
    <3>2. CASE ~StaysIn(e, s) BY <2>1, <2>4, <2>5, <3>2
    <3> QED BY <3>1, <3>2
  <2>7. ASSUME NEW e \in T, NEW f \in U, f.row.key = e.row.key, f \notin T, ~M!IsActive(e)
        PROVE  f.from >= e.to
    <3>1. CASE \E t \in T : M!IsActive(t) /\ f = M!Stored(t.row, t.from, clock)
      <4>1. PICK t \in T : M!IsActive(t) /\ f = M!Stored(t.row, t.from, clock) BY <3>1
      <4>2. t.from >= e.to BY <1>1, <2>5, <2>7, <4>1 DEF MergeInv, Ordered, T
      <4> QED BY <2>5, <4>1, <4>2
    <3>2. CASE f.from = clock BY <2>2, <2>3, <2>7, <3>2
    <3> QED BY <2>1, <2>5, <2>7, <3>1, <3>2
  <2> QED BY <2>6, <2>7 DEF T, U
<1>2. MergeInv /\ [M!Next]_M!vars => [A]_M!vars
  <2> SUFFICES ASSUME MergeInv, M!Next PROVE A OBVIOUS
  <2>1. CASE mtarget' = mtarget
    <3>1. PICK T : T = mtarget["root"] OBVIOUS
    <3> QED BY <2>1, <3>1
  <2>2. CASE M!Write BY <2>1, <2>2 DEF M!Write
  <2>3. CASE M!Reconfigure BY <2>1, <2>3 DEF M!Reconfigure
  <2>4. CASE M!Publish BY <1>1, <2>4
  <2> QED BY <2>2, <2>3, <2>4 DEF M!Next
<1> QED BY <1>2, MergeAlways, PTL DEF M!Spec, M!HistoryKept

-----------------------------------------------------------------------------
(* The keyed view *)

\* What a stage says of a key, and what rows of a target show of it.
SurvivorIn(s, k) ==
  IF k \in M!KeysOf(s) THEN s[CHOOSE i \in M!Deduped(s) : s[i].key = k] ELSE Null
RowIn(T, k) ==
  IF \E e \in T : M!IsActive(e) /\ e.row.key = k
    THEN (CHOOSE e \in T : M!IsActive(e) /\ e.row.key = k).row ELSE Null

LEMMA SurvivorIs ==
  ASSUME M!MergeAssumption, NEW s, RootStage(s)
  PROVE  /\ \A i \in M!Deduped(s) : SurvivorIn(s, s[i].key) = s[i]
         /\ \A k : k \notin M!KeysOf(s) => SurvivorIn(s, k) = Null
<1>1. \A i \in M!Deduped(s), j \in M!Deduped(s) : s[i].key = s[j].key => i = j BY RootStaged
<1>2. ASSUME NEW i \in M!Deduped(s) PROVE SurvivorIn(s, s[i].key) = s[i]
  <2>1. (CHOOSE j \in M!Deduped(s) : s[j].key = s[i].key) = i BY <1>1
  <2>2. s[i].key \in M!KeysOf(s) BY RootStaged
  <2> QED BY <2>1, <2>2 DEF SurvivorIn
<1> QED BY <1>2 DEF SurvivorIn

LEMMA RowIs ==
  ASSUME NEW T, \A e \in T, f \in T : M!IsActive(e) /\ M!IsActive(f) /\ e.row.key = f.row.key => e = f
  PROVE  /\ \A e \in T : M!IsActive(e) => RowIn(T, e.row.key) = e.row
         /\ \A k : (\A e \in T : ~(M!IsActive(e) /\ e.row.key = k)) => RowIn(T, k) = Null
<1>1. ASSUME NEW e \in T, M!IsActive(e) PROVE RowIn(T, e.row.key) = e.row
  <2>1. (CHOOSE f \in T : M!IsActive(f) /\ f.row.key = e.row.key) = e BY <1>1
  <2> QED BY <1>1, <2>1 DEF RowIn
<1> QED BY <1>1 DEF RowIn

\* The mapped state of the abstract specification.
LEMMA Mapped ==
  /\ \A k : M!Survivor(k) = SurvivorIn(mstage["root"], k)
  /\ \A k : M!CurrentRow(k) = RowIn(mtarget["root"], k)
BY DEF M!Survivor, SurvivorIn, M!CurrentRow, RowIn
LEMMA MappedNext ==
  ASSUME opts' = opts
  PROVE  /\ \A k : (M!Survivor(k))' = SurvivorIn(mstage'["root"], k)
         /\ \A k : (M!CurrentRow(k))' = RowIn(mtarget'["root"], k)
<1>1. \A k : (M!CurrentRow(k))' = RowIn(mtarget'["root"], k)
  BY DEF M!CurrentRow, RowIn, M!IsActive
<1>2. \A k : (M!Survivor(k))' = SurvivorIn(mstage'["root"], k)
  BY DEF M!Survivor, SurvivorIn, M!KeysOf, M!Deduped, M!DedupSubquery, M!First, M!RankedBefore
<1> QED BY <1>1, <1>2

\* A row of the engine is one row of the view's unit.
LEMMA DeliverImplements ==
  ASSUME M!MergeAssumption, MergeInv, M!Write
  PROVE  M!Reader!Deliver
<1> DEFINE s == mstage["root"]
           sorted == opts.dedup # "none"
<1>1. OptsOK /\ RowsOK /\ RootStage(s) BY DEF MergeInv, RowsOK
<1>2. PICK row \in M!Rows :
        /\ row \in M!AnyRow
        /\ mstage'["root"] = Append(s, row)
        /\ UNCHANGED <<opts, indexes, mtarget, clock>>
  BY <1>1, WriteAppends
<1> DEFINE t == Append(s, row)
           n == Len(s) + 1
<1>3. s \in Seq(M!AnyRow) /\ Staged(s) /\ EachKept(s, sorted) BY <1>1, RootStaged DEF RootStage
<1>4. row.rank \in RankOf /\ row.key \in Keys BY <1>2 DEF M!AnyRow, RankOf
<1>5. /\ n \in Nat /\ DOMAIN s = 1 .. Len(s) /\ Len(s) \in Nat
      /\ DOMAIN t = DOMAIN s \cup {n} /\ t[n] = row /\ t \in Seq(M!AnyRow)
      /\ \A i \in DOMAIN s : t[i] = s[i] /\ i # n /\ n > i
  <2>1. DOMAIN s = 1 .. Len(s) /\ Len(s) \in Nat BY <1>3
  <2>2. Len(t) = n /\ DOMAIN t = 1 .. n /\ t[n] = row /\ t \in Seq(M!AnyRow) BY <1>2, <1>3
  <2>3. \A i \in 1 .. Len(s) : t[i] = s[i] BY <1>2, <1>3
  <2>4. 1 .. n = 1 .. Len(s) \cup {n} BY <2>1
  <2> HIDE DEF t
  <2> QED BY <2>1, <2>2, <2>3, <2>4
<1>6. /\ Staged(t) /\ EachKept(t, sorted)
      /\ M!KeysOf(t) = M!KeysOf(s) \cup {row.key}
      /\ \A i \in M!Deduped(s) : s[i].key # row.key => i \in M!Deduped(t) /\ t[i] = s[i]
      /\ row.key \notin M!KeysOf(s) => n \in M!Deduped(t)
      /\ \A i \in M!Deduped(s) : s[i].key = row.key =>
           IF M!First(t, sorted, n, i) THEN n \in M!Deduped(t) ELSE i \in M!Deduped(t)
  <2>1. PICK b \in BOOLEAN : b = sorted OBVIOUS
  <2>2. PICK u \in Seq(M!AnyRow) : u = s BY <1>3
  <2>3. Staged(u) /\ EachKept(u, b) BY <1>3, <2>1, <2>2
  <2> DEFINE v == Append(u, row)
             m == Len(u) + 1
  <2>4. /\ Staged(v) /\ EachKept(v, b)
        /\ M!KeysOf(v) = M!KeysOf(u) \cup {row.key}
        /\ \A i \in M!DedupSubquery(u, b) : u[i].key # row.key => i \in M!DedupSubquery(v, b) /\ v[i] = u[i]
        /\ row.key \notin M!KeysOf(u) => m \in M!DedupSubquery(v, b)
        /\ \A i \in M!DedupSubquery(u, b) : u[i].key = row.key =>
             IF M!First(v, b, m, i) THEN m \in M!DedupSubquery(v, b) ELSE i \in M!DedupSubquery(v, b)
    BY <1>2, <1>4, <2>3, OneMore
  <2>5. v = t /\ m = n BY <2>2
  <2>6. M!Deduped(s) = M!DedupSubquery(u, b) /\ M!Deduped(t) = M!DedupSubquery(v, b)
    BY <2>1, <2>2, <2>5 DEF M!Deduped
  <2> HIDE DEF v, m, t, n, s, sorted
  <2> QED BY <2>1, <2>2, <2>4, <2>5, <2>6
<1>7. RootStage(t) BY <1>5, <1>6 DEF RootStage
<1> HIDE DEF s, t, n
<1>8. ASSUME NEW k \in Keys
      PROVE  SurvivorIn(t, k) = IF k = row.key THEN M!Reader!Later(SurvivorIn(s, k), row)
                                               ELSE SurvivorIn(s, k)
  <2>1. CASE k # row.key
    <3>1. CASE k \in M!KeysOf(s)
      <4>1. PICK i \in M!Deduped(s) : s[i].key = k BY <1>1, <3>1, RootStaged
      <4>2. i \in M!Deduped(t) /\ t[i] = s[i] BY <1>6, <2>1, <4>1
      <4>3. SurvivorIn(s, k) = s[i] BY <1>1, <4>1, SurvivorIs
      <4>4. SurvivorIn(t, k) = s[i] BY <1>7, <4>1, <4>2, SurvivorIs
      <4> QED BY <2>1, <4>3, <4>4
    <3>2. CASE k \notin M!KeysOf(s) BY <1>1, <1>6, <1>7, <2>1, <3>2, SurvivorIs
    <3> QED BY <3>1, <3>2
  <2>2. CASE k = row.key /\ k \notin M!KeysOf(s)
    <3>1. SurvivorIn(t, k) = row BY <1>5, <1>6, <1>7, <2>2, SurvivorIs
    <3>2. SurvivorIn(s, k) = Null BY <1>1, <2>2, SurvivorIs
    <3> QED BY <2>2, <3>1, <3>2 DEF M!Reader!Later
  <2>3. CASE k = row.key /\ k \in M!KeysOf(s)
    <3>1. PICK i \in M!Deduped(s) : s[i].key = k BY <1>1, <2>3, RootStaged
    <3>2. i \in DOMAIN s /\ s[i] \in M!AnyRow BY <1>1, RootStaged
    <3>3. SurvivorIn(s, k) = s[i] BY <1>1, <3>1, SurvivorIs
    <3>4. s[i] # Null /\ s[i].rank \in RankOf BY <3>2 DEF M!MergeAssumption, M!AnyRow, RankOf
    <3>5. t[i] = s[i] /\ t[n] = row /\ n > i BY <1>5, <3>2
    <3>6. SurvivorIn(t, k) = IF M!First(t, sorted, n, i) THEN row ELSE s[i]
      <4>1. CASE M!First(t, sorted, n, i)
        <5>1. n \in M!Deduped(t) BY <1>6, <2>3, <3>1, <4>1
        <5> QED BY <1>7, <2>3, <3>5, <4>1, <5>1, SurvivorIs
      <4>2. CASE ~M!First(t, sorted, n, i)
        <5>1. i \in M!Deduped(t) BY <1>6, <2>3, <3>1, <4>2
        <5> QED BY <1>7, <3>1, <3>5, <4>2, <5>1, SurvivorIs
      <4> QED BY <4>1, <4>2
    <3>7. M!First(t, sorted, n, i) <=>
            \/ sorted /\ M!RankedBefore(row.rank, s[i].rank)
            \/ ~(sorted /\ M!RankedBefore(s[i].rank, row.rank))
      BY <3>5 DEF M!First
    <3>8. PICK old, a, b : old = s[i] /\ a = old.rank /\ b = row.rank OBVIOUS
    <3>9. a \in RankOf /\ b \in RankOf /\ old # Null BY <1>4, <3>4, <3>8
    <3>10. M!Reader!Later(old, row) = IF M!First(t, sorted, n, i) THEN row ELSE old
      <4>1. CASE opts.dedup = "none" BY <3>7, <4>1 DEF M!Reader!Later
      <4>2. CASE opts.dedup # "none"
        <5>1. M!First(t, sorted, n, i) <=> M!RankedBefore(b, a) \/ ~M!RankedBefore(a, b)
          BY <3>7, <3>8, <4>2
        <5>2. M!Reader!Later(old, row) =
                IF b = Null THEN IF a = Null THEN row ELSE old
                ELSE IF a = Null THEN row
                ELSE IF opts.dedup = "asc" THEN IF b <= a THEN row ELSE old
                ELSE IF b >= a THEN row ELSE old
          BY <3>8, <3>9, <4>2 DEF M!Reader!Later
        <5>3. a = Null \/ a \in Int BY <3>9 DEF RankOf, M!MergeAssumption
        <5>4. b = Null \/ b \in Int BY <3>9 DEF RankOf, M!MergeAssumption
        <5>5. M!RankedBefore(b, a) \/ ~M!RankedBefore(a, b) <=>
                IF b = Null THEN a = Null
                ELSE IF a = Null THEN TRUE
                ELSE IF opts.dedup = "asc" THEN b <= a ELSE b >= a
          BY <5>3, <5>4 DEF M!RankedBefore
        <5> QED BY <5>1, <5>2, <5>5
      <4> QED BY <4>1, <4>2
    <3> QED BY <2>3, <3>3, <3>6, <3>8, <3>10
  <2> QED BY <2>1, <2>2, <2>3
<1>9. row \in M!Reader!Row BY DEF M!Rows, M!Reader!Row
<1>10. mstage'["root"] = t /\ opts' = opts /\ mtarget' = mtarget BY <1>2 DEF t, s
<1>11. [k \in Keys |-> M!Survivor(k)]'
         = [[k \in Keys |-> M!Survivor(k)] EXCEPT
              ![row.key] = M!Reader!Later([k \in Keys |-> M!Survivor(k)][row.key], row)]
  <2>1. \A k : M!Survivor(k) = SurvivorIn(s, k) BY Mapped DEF s
  <2>2. \A k : (M!Survivor(k))' = SurvivorIn(t, k) BY <1>10, MappedNext
  <2>3. [k \in Keys |-> M!Survivor(k)]' = [k \in Keys |-> SurvivorIn(t, k)] BY <2>2
  <2>4. [k \in Keys |-> M!Survivor(k)] = [k \in Keys |-> SurvivorIn(s, k)] BY <2>1
  <2>5. [k \in Keys |-> SurvivorIn(t, k)]
          = [[k \in Keys |-> SurvivorIn(s, k)] EXCEPT ![row.key] = M!Reader!Later(SurvivorIn(s, row.key), row)]
    BY <1>4, <1>8
  <2>6. [k \in Keys |-> SurvivorIn(s, k)][row.key] = SurvivorIn(s, row.key) BY <1>4
  <2> QED BY <2>3, <2>4, <2>5, <2>6
<1>12. (M!DeliveredScopes(mstage["root"]))' = M!DeliveredScopes(s) \cup ({row.scope} \ {Null})
  <2>1. (M!DeliveredScopes(mstage["root"]))' = M!DeliveredScopes(t) BY <1>10 DEF M!DeliveredScopes
  <2>2. {t[i].scope : i \in DOMAIN t} = {s[i].scope : i \in DOMAIN s} \cup {row.scope}
    <3>1. \A x : (\E i \in DOMAIN t : x = t[i].scope)
                   <=> (\E i \in DOMAIN s : x = s[i].scope) \/ x = row.scope
      BY <1>5
    <3> QED BY <3>1
  <2>3. M!DeliveredScopes(t) = M!DeliveredScopes(s) \cup ({row.scope} \ {Null})
    BY <2>2 DEF M!DeliveredScopes
  <2> QED BY <2>1, <2>3
<1>13. (mstage["root"] # <<>>)' = TRUE
  <2>1. n \in DOMAIN t BY <1>5
  <2>2. t # <<>> BY <2>1
  <2> QED BY <1>10, <2>2
<1>14. [k \in Keys |-> M!CurrentRow(k)]' = [k \in Keys |-> M!CurrentRow(k)]
  <2>1. \A k : (M!CurrentRow(k))' = M!CurrentRow(k) BY <1>10, Mapped, MappedNext
  <2> QED BY <2>1
<1> QED BY <1>9, <1>10, <1>11, <1>12, <1>13, <1>14 DEF M!Reader!Deliver, s

\* What the view makes of a key when a unit is published.
MergedIn(s, T, k) ==
  LET row == SurvivorIn(s, k)
      old == RowIn(T, k)
  IN  IF row # Null THEN IF opts.hard_delete /\ row.flag THEN Null ELSE row
      ELSE IF /\ old # Null
              /\ s # <<>>
              /\ IF opts.scope THEN old.scope \in M!DeliveredScopes(s) ELSE opts.retire
             THEN Null ELSE old

LEMMA FlatShown ==
  ASSUME M!MergeAssumption, MergeInv, M!Publish, opts.strategy # "scd2", NEW k
  PROVE  RowIn(mtarget'["root"], k) = MergedIn(mstage["root"], mtarget["root"], k)
<1> DEFINE T == mtarget["root"]
           s == mstage["root"]
           U == mtarget'["root"]
<1>1. /\ opts \in M!Option /\ M!Accepts(opts) /\ RootStage(s) /\ T \subseteq Versions /\ Flat(T)
      /\ \A e \in T, f \in T : e.row.key = f.row.key => e = f
  BY DEF MergeInv, OptsOK, RowsOK, TargetOK, TimesOK, M!OneCurrentRow, Flat
<1>2. U = M!MergeSteps("root") /\ M!ArmOf(opts) # "unsupported" BY PublishEffect
<1>3. \A e : e \in U <=>
               \/ /\ e \in T /\ e.row.key \notin M!KeysOf(s)
                  /\ opts.scope => e.row.scope \notin M!DeliveredScopes(s)
               \/ \E i \in M!Deduped(s) : M!Keep(s[i]) /\ e = M!Published(s, i)
  BY <1>1, <1>2, FlatMerged
<1>4. Flat(U) /\ \A e \in U, f \in U : e.row.key = f.row.key => e = f BY FlatPublished
<1>5. \A i : M!Published(s, i).row = s[i] BY DEF M!Published, M!Stored
<1>6. /\ \A j \in M!KeysOf(s) : \E i \in M!Deduped(s) : s[i].key = j
      /\ \A i \in M!Deduped(s) : i \in DOMAIN s /\ s[i].key \in M!KeysOf(s) /\ s[i] \in M!AnyRow
      /\ \A i \in M!Deduped(s), j \in M!Deduped(s) : s[i].key = s[j].key => i = j
  BY <1>1, RootStaged
<1>7. \A e \in U : RowIn(U, e.row.key) = e.row BY <1>4, RowIs DEF Flat, M!IsActive
<1>8. (\A e \in U : e.row.key # k) => RowIn(U, k) = Null BY <1>4, RowIs
<1>9. \A e \in T : RowIn(T, e.row.key) = e.row BY <1>1, RowIs DEF Flat, M!IsActive
<1>10. (\A e \in T : e.row.key # k) => RowIn(T, k) = Null BY <1>1, RowIs
<1>11. /\ \A i \in M!Deduped(s) : SurvivorIn(s, s[i].key) = s[i]
       /\ \A j : j \notin M!KeysOf(s) => SurvivorIn(s, j) = Null
  BY <1>1, SurvivorIs
<1>12. \A r \in M!AnyRow : r # Null BY DEF M!MergeAssumption
<1>13. ~opts.retire BY <1>1 DEF M!Accepts, M!CheckScd2
<1>14. M!DeliveredScopes(s) # {} => s # <<>>
  <2> SUFFICES ASSUME s = <<>> PROVE M!DeliveredScopes(s) = {} OBVIOUS
  <2>1. DOMAIN s = {} OBVIOUS
  <2> HIDE DEF s
  <2> QED BY <2>1 DEF M!DeliveredScopes
<1> HIDE DEF T, s, U
<1>15. CASE k \in M!KeysOf(s)
  <2>1. PICK i \in M!Deduped(s) : s[i].key = k BY <1>6, <1>15
  <2>2. SurvivorIn(s, k) = s[i] /\ s[i] # Null BY <1>6, <1>11, <1>12, <2>1
  <2>3. CASE M!Keep(s[i])
    <3>1. M!Published(s, i) \in U BY <1>3, <2>3
    <3>2. RowIn(U, k) = s[i] BY <1>5, <1>7, <2>1, <3>1
    <3>3. MergedIn(s, T, k) = s[i] BY <2>2, <2>3 DEF MergedIn, M!Keep
    <3> QED BY <3>2, <3>3 DEF T, s, U
  <2>4. CASE ~M!Keep(s[i])
    <3>1. \A e \in U : e.row.key # k BY <1>3, <1>5, <1>6, <1>15, <2>1, <2>4
    <3>2. RowIn(U, k) = Null BY <1>8, <3>1
    <3>3. MergedIn(s, T, k) = Null BY <2>2, <2>4 DEF MergedIn, M!Keep
    <3> QED BY <3>2, <3>3 DEF T, s, U
  <2> QED BY <2>3, <2>4
<1>16. CASE k \notin M!KeysOf(s)
  <2>1. SurvivorIn(s, k) = Null BY <1>11, <1>16
  <2>2. \A e \in U : e.row.key = k => e \in T /\ (opts.scope => e.row.scope \notin M!DeliveredScopes(s))
    BY <1>3, <1>5, <1>6, <1>16
  <2>3. CASE \A e \in T : e.row.key # k
    <3>1. RowIn(T, k) = Null /\ RowIn(U, k) = Null BY <1>8, <1>10, <2>2, <2>3
    <3>2. MergedIn(s, T, k) = Null BY <2>1, <3>1 DEF MergedIn
    <3> QED BY <3>1, <3>2 DEF T, s, U
  <2>4. ASSUME NEW e \in T, e.row.key = k PROVE RowIn(U, k) = MergedIn(s, T, k)
    <3>1. RowIn(T, k) = e.row /\ e.row # Null BY <1>1, <1>9, <1>12, <2>4 DEF Versions
    <3>2. CASE opts.scope /\ e.row.scope \in M!DeliveredScopes(s)
      <4>1. \A f \in U : f.row.key # k BY <1>1, <2>2, <2>4, <3>2
      <4>2. RowIn(U, k) = Null BY <1>8, <4>1
      <4>3. MergedIn(s, T, k) = Null BY <1>14, <2>1, <3>1, <3>2 DEF MergedIn
      <4> QED BY <4>2, <4>3
    <3>3. CASE ~(opts.scope /\ e.row.scope \in M!DeliveredScopes(s))
      <4>1. e \in U BY <1>3, <1>16, <2>4, <3>3
      <4>2. RowIn(U, k) = e.row BY <1>7, <2>4, <4>1
      <4>3. MergedIn(s, T, k) = e.row BY <1>13, <2>1, <3>1, <3>3 DEF MergedIn
      <4> QED BY <4>2, <4>3
    <3> QED BY <3>2, <3>3
  <2> QED BY <2>3, <2>4 DEF T, s, U
<1> QED BY <1>15, <1>16

LEMMA HistoryShown ==
  ASSUME M!MergeAssumption, MergeInv, M!Publish, opts.strategy = "scd2", NEW k
  PROVE  RowIn(mtarget'["root"], k) = MergedIn(mstage["root"], mtarget["root"], k)
<1> DEFINE T == mtarget["root"]
           s == mstage["root"]
           U == mtarget'["root"]
           closed(t) == M!Stored(t.row, t.from, clock)
           new(i) == M!Stored(s[i], clock, Open)
<1>1. /\ opts \in M!Option /\ M!Accepts(opts) /\ RootStage(s) /\ T \subseteq Versions
      /\ clock \in Nat
      /\ \A e \in T, f \in T : M!IsActive(e) /\ M!IsActive(f) /\ e.row.key = f.row.key => e = f
  BY DEF MergeInv, OptsOK, RowsOK, TargetOK, TimesOK, M!OneCurrentRow, M!IsActive
<1>2. /\ \A t \in T : IF StaysIn(t, s) THEN t \in U ELSE closed(t) \in U
      /\ \A e \in U :
           \/ e \in T /\ StaysIn(e, s)
           \/ \E t \in T : M!IsActive(t) /\ ~StaysIn(t, s) /\ e = closed(t)
           \/ \E i \in M!Deduped(s) : e = new(i) /\ EntersOf(i, T, s)
      /\ s # <<>> => \A i \in M!Deduped(s) : EntersOf(i, T, s) => new(i) \in U
  BY HistoryMerged
<1>3. \A e \in U, f \in U : M!IsActive(e) /\ M!IsActive(f) /\ e.row.key = f.row.key => e = f
  BY HistoryPublished
<1>4. /\ \A t : closed(t).row = t.row /\ ~M!IsActive(closed(t))
      /\ \A i : new(i).row = s[i] /\ M!IsActive(new(i))
  BY <1>1, ClosedOnce DEF M!Stored, M!IsActive, Open
<1>5. /\ \A j \in M!KeysOf(s) : \E i \in M!Deduped(s) : s[i].key = j
      /\ \A i \in M!Deduped(s) : i \in DOMAIN s /\ s[i].key \in M!KeysOf(s) /\ s[i] \in M!AnyRow
      /\ \A i \in M!Deduped(s), j \in M!Deduped(s) : s[i].key = s[j].key => i = j
  BY <1>1, RootStaged
<1>6. /\ \A e \in U : M!IsActive(e) => RowIn(U, e.row.key) = e.row
      /\ (\A e \in U : ~(M!IsActive(e) /\ e.row.key = k)) => RowIn(U, k) = Null
  BY <1>3, RowIs
<1>7. /\ \A e \in T : M!IsActive(e) => RowIn(T, e.row.key) = e.row
      /\ (\A e \in T : ~(M!IsActive(e) /\ e.row.key = k)) => RowIn(T, k) = Null
  BY <1>1, RowIs
<1>8. /\ \A i \in M!Deduped(s) : SurvivorIn(s, s[i].key) = s[i]
      /\ \A j : j \notin M!KeysOf(s) => SurvivorIn(s, j) = Null
  BY <1>1, SurvivorIs
<1>9. \A r \in M!AnyRow : r # Null BY DEF M!MergeAssumption
<1>10. ~opts.hard_delete /\ (opts.scope => opts.retire)
  BY <1>1 DEF M!Accepts, M!CheckHardDelete, M!CheckMergeScope
<1>11. \A i \in M!Deduped(s) : s # <<>> BY <1>5
<1> HIDE DEF T, s, U, closed, new
<1>12. CASE k \in M!KeysOf(s)
  <2>1. PICK i \in M!Deduped(s) : s[i].key = k BY <1>5, <1>12
  <2>2. MergedIn(s, T, k) = s[i] BY <1>5, <1>8, <1>9, <1>10, <2>1 DEF MergedIn
  <2>3. CASE EntersOf(i, T, s)
    <3>1. new(i) \in U BY <1>2, <1>11, <2>3
    <3> QED BY <1>4, <1>6, <2>1, <2>2, <3>1 DEF T, s, U
  <2>4. CASE ~EntersOf(i, T, s)
    <3>1. PICK t \in T : t.row.key = k /\ M!IsActive(t) /\ ~Changed(t, s) BY <2>1, <2>4 DEF EntersOf
    <3>2. t.row = s[i] BY <1>5, <1>12, <2>1, <3>1 DEF Changed
    <3>3. StaysIn(t, s) BY <1>12, <3>1 DEF StaysIn, Closes, Absent
    <3>4. t \in U BY <1>2, <3>3
    <3> QED BY <1>6, <2>2, <3>1, <3>2, <3>4 DEF T, s, U
  <2> QED BY <2>3, <2>4
<1>13. CASE k \notin M!KeysOf(s)
  <2>1. SurvivorIn(s, k) = Null BY <1>8, <1>13
  <2>2. \A e \in U : M!IsActive(e) /\ e.row.key = k => e \in T /\ StaysIn(e, s)
    BY <1>2, <1>4, <1>5, <1>13
  <2>3. CASE \A e \in T : ~(M!IsActive(e) /\ e.row.key = k)
    <3>1. RowIn(T, k) = Null /\ RowIn(U, k) = Null BY <1>6, <1>7, <2>2, <2>3
    <3>2. MergedIn(s, T, k) = Null BY <2>1, <3>1 DEF MergedIn
    <3> QED BY <3>1, <3>2 DEF T, s, U
  <2>4. ASSUME NEW t \in T, M!IsActive(t), t.row.key = k PROVE RowIn(U, k) = MergedIn(s, T, k)
    <3>1. RowIn(T, k) = t.row /\ t.row # Null BY <1>1, <1>7, <1>9, <2>4 DEF Versions
    <3>2. ~Changed(t, s) BY <1>13, <2>4 DEF Changed
    <3>3. StaysIn(t, s) <=> ~(s # <<>> /\ Absent(t, s)) BY <2>4, <3>2 DEF StaysIn, Closes
    <3>4. Absent(t, s) <=> IF opts.scope THEN t.row.scope \in M!DeliveredScopes(s) ELSE opts.retire
      BY <1>10, <1>13, <2>4 DEF Absent
    <3>5. CASE StaysIn(t, s)
      <4>1. RowIn(U, k) = t.row BY <1>2, <1>6, <2>4, <3>5
      <4>2. MergedIn(s, T, k) = t.row BY <2>1, <3>1, <3>3, <3>4, <3>5 DEF MergedIn
      <4> QED BY <4>1, <4>2
    <3>6. CASE ~StaysIn(t, s)
      <4>1. \A e \in U : ~(M!IsActive(e) /\ e.row.key = k) BY <1>1, <2>2, <2>4, <3>6
      <4>2. RowIn(U, k) = Null BY <1>6, <4>1
      <4>3. MergedIn(s, T, k) = Null BY <2>1, <3>1, <3>3, <3>4, <3>6 DEF MergedIn
      <4> QED BY <4>2, <4>3
    <3> QED BY <3>5, <3>6
  <2> QED BY <2>3, <2>4 DEF T, s, U
<1> QED BY <1>12, <1>13

LEMMA PublishImplements ==
  ASSUME M!MergeAssumption, MergeInv, M!Publish
  PROVE  M!Reader!Publish
<1>1. mstage'["root"] = <<>> /\ UNCHANGED opts BY PublishEffect
<1>2. DOMAIN <<>> = {} /\ M!KeysOf(<<>>) = {} /\ M!DeliveredScopes(<<>>) = {}
  BY DEF M!KeysOf, M!DeliveredScopes
<1>3. (mstage["root"] # <<>>)' = FALSE BY <1>1
<1>4. (M!DeliveredScopes(mstage["root"]))' = {} BY <1>1, <1>2 DEF M!DeliveredScopes
<1>5. [k \in Keys |-> M!Survivor(k)]' = M!Reader!Nothing
  <2>1. \A k : SurvivorIn(<<>>, k) = Null BY <1>2 DEF SurvivorIn
  <2>2. \A k : (M!Survivor(k))' = Null BY <1>1, <2>1, MappedNext
  <2> QED BY <2>2 DEF M!Reader!Nothing
<1>6. ASSUME NEW k \in Keys PROVE M!Reader!Merged(k) = MergedIn(mstage["root"], mtarget["root"], k)
  <2>1. M!Survivor(k) = SurvivorIn(mstage["root"], k) /\ M!CurrentRow(k) = RowIn(mtarget["root"], k)
    BY Mapped
  <2>2. /\ [j \in Keys |-> M!Survivor(j)][k] = M!Survivor(k)
        /\ [j \in Keys |-> M!CurrentRow(j)][k] = M!CurrentRow(k)
    OBVIOUS
  <2>3. PICK row, old : row = M!Survivor(k) /\ old = M!CurrentRow(k) OBVIOUS
  <2>4. M!Reader!Merged(k) =
          IF row # Null THEN IF opts.hard_delete /\ row.flag THEN Null ELSE row
          ELSE IF /\ old # Null
                  /\ mstage["root"] # <<>>
                  /\ IF opts.scope THEN old.scope \in M!DeliveredScopes(mstage["root"]) ELSE opts.retire
                 THEN Null ELSE old
    BY <2>2, <2>3 DEF M!Reader!Merged, M!Reader!Complete
  <2> QED BY <2>1, <2>3, <2>4 DEF MergedIn
<1>7. \A k : RowIn(mtarget'["root"], k) = MergedIn(mstage["root"], mtarget["root"], k)
  BY FlatShown, HistoryShown
<1>8. [k \in Keys |-> M!CurrentRow(k)]' = [k \in Keys |-> M!Reader!Merged(k)]
  <2>1. \A k : (M!CurrentRow(k))' = RowIn(mtarget'["root"], k) BY <1>1, MappedNext
  <2> QED BY <1>6, <1>7, <2>1
<1> QED BY <1>1, <1>3, <1>4, <1>5, <1>8 DEF M!Reader!Publish

LEMMA ReconfigureImplements ==
  ASSUME M!MergeAssumption, MergeInv, M!Reconfigure
  PROVE  M!Reader!Reconfigure
<1>1. mstage["root"] = <<>> /\ UNCHANGED <<mstage, mtarget, clock>> BY DEF M!Reconfigure
<1>2. MergeInv' BY MergeReconfigure
<1>3. DOMAIN <<>> = {} /\ M!KeysOf(<<>>) = {} BY DEF M!KeysOf
<1>4. \A k : M!Survivor(k) = Null /\ (M!Survivor(k))' = Null
  BY <1>1, <1>3 DEF M!Survivor, M!KeysOf
<1>5. \A e \in mtarget["root"] : (M!IsActive(e))' <=> M!IsActive(e)
  <2>1. TimesOK /\ TimesOK' BY <1>2 DEF MergeInv
  <2>2. opts.marker => opts'.marker
    <3>1. PICK o \in Options :
            /\ opts' = o
            /\ \/ o = [opts EXCEPT !.strategy = o.strategy]
               \/ o = [opts EXCEPT !.marker = TRUE]
      BY DEF M!Reconfigure
    <3>2. opts \in M!Option /\ o \in M!Option BY DEF MergeInv, OptsOK, M!MergeAssumption
    <3> QED BY <3>1, <3>2 DEF M!Option
  <2>3. \A e \in mtarget["root"] : opts.strategy = "scd2" => TimeOK(e, clock) BY <2>1 DEF TimesOK
  <2>4. \A e \in mtarget["root"] : opts.strategy # "scd2" => e.to = Null BY <2>1 DEF TimesOK, Flat
  <2>5. clock \in Nat BY <2>1 DEF TimesOK
  <2> QED BY <2>2, <2>3, <2>4, <2>5 DEF M!IsActive, TimeOK, M!MergeAssumption
<1>6. \A k : (M!CurrentRow(k))' = M!CurrentRow(k) BY <1>1, <1>5 DEF M!CurrentRow
<1>7. (M!DeliveredScopes(mstage["root"]))' = M!DeliveredScopes(mstage["root"])
  BY <1>1 DEF M!DeliveredScopes
<1> QED BY <1>1, <1>4, <1>6, <1>7 DEF M!Reader!Reconfigure

\* Whatever the strategy and the options, a reader of the target sees the keyed
\* view: the rows deduplication keeps are those one pass in arrival order keeps.
THEOREM ViewRefinement == ASSUME M!MergeAssumption PROVE M!Spec => M!ImplementsKeyedView
<1>1. M!Init => M!Reader!Init
  <2> SUFFICES ASSUME M!Init PROVE M!Reader!Init OBVIOUS
  <2>1. mstage["root"] = <<>> /\ mtarget["root"] = {} BY DEF M!Init, M!Tables
  <2>2. DOMAIN <<>> = {} /\ M!KeysOf(<<>>) = {} /\ M!DeliveredScopes(<<>>) = {}
    BY DEF M!KeysOf, M!DeliveredScopes
  <2>3. \A k : M!Survivor(k) = Null /\ M!CurrentRow(k) = Null BY <2>1, <2>2 DEF M!Survivor, M!CurrentRow
  <2> QED BY <2>1, <2>2, <2>3 DEF M!Reader!Init, M!Reader!Nothing
<1>2. MergeInv /\ [M!Next]_M!vars => [M!Reader!Next]_(M!Reader!vars)
  <2> SUFFICES ASSUME MergeInv, [M!Next]_M!vars PROVE M!Reader!Next \/ UNCHANGED M!Reader!vars OBVIOUS
  <2>1. CASE M!Write BY <2>1, DeliverImplements DEF M!Reader!Next
  <2>2. CASE M!Publish BY <2>2, PublishImplements DEF M!Reader!Next
  <2>3. CASE M!Reconfigure BY <2>3, ReconfigureImplements DEF M!Reader!Next
  <2>4. CASE UNCHANGED M!vars
    <3>1. UNCHANGED <<opts, mstage, mtarget>> BY <2>4 DEF M!vars
    <3>2. \A k : (M!Survivor(k))' = M!Survivor(k) /\ (M!CurrentRow(k))' = M!CurrentRow(k)
      BY <3>1, Mapped, MappedNext
    <3>3. (M!DeliveredScopes(mstage["root"]))' = M!DeliveredScopes(mstage["root"])
      BY <3>1 DEF M!DeliveredScopes
    <3> QED BY <3>1, <3>2, <3>3 DEF M!Reader!vars
  <2> QED BY <2>1, <2>2, <2>3, <2>4 DEF M!Next
<1> QED BY <1>1, <1>2, MergeAlways, PTL DEF M!Spec, M!ImplementsKeyedView, M!Reader!Spec

=============================================================================
