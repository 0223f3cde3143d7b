-------------------------- MODULE SnowflakeLoad_proofs --------------------------
(***************************************************************************)
(* Theorems of SnowflakeLoad, for any tables, feeds, loads, schema changes *)
(* and number of deaths, when the server decides what a dead session left  *)
(* in COMMIT before the next session probes for the receipt (Prompt).      *)
(***************************************************************************)
EXTENDS SnowflakeLoad, FiniteSetTheorems, FunctionTheorems, TLAPS

\* The bags a table can hold, whichever table it is.
Bag(t) == [AllRows(t) -> Nat]
Bags == UNION {Bag(t) : t \in Table}
AnyRow == UNION {AllRows(x) : x \in Table}
Past == [load |-> MaxLoad + 1, seq |-> 1]

TxOK(x) ==
  /\ x \in [open : BOOLEAN, clears : SUBSET Table, adds : [Table -> Bags],
            cleared : SUBSET Table, receipt : Unit \cup {NoUnit}]
  /\ \A t \in Table : x.adds[t] \in Bag(t)

DatabaseType ==
  [rows : [Table -> Bags], receipts : SUBSET Unit, cleared : SUBSET ((1 .. MaxLoad) \X Table),
   state : Unit \cup {NoUnit}, columns : [Table -> 0 .. MaxVersion]]
DbOK ==
  /\ db \in DatabaseType
  /\ \A t \in Table : db.rows[t] \in Bag(t)

\* A file holds rows of its table, and no two have one name.
Name == [load : 1 .. MaxLoad, table : Table, index : Nat]
FilesOK(files) ==
  /\ files \subseteq [name : Name, rows : SUBSET AnyRow, version : Nat]
  /\ \A f \in files : f.rows \subseteq AllRows(f.name.table) /\ f.rows # {}
  /\ \A f, g \in files : f.name = g.name => f = g

MemoryOK(l) ==
  /\ l \in [tables : [Table -> 0 .. MaxVersion], cleared : SUBSET Table,
            clearedInUnit : SUBSET Table, reclearOwed : SUBSET Table,
            open : [Table -> [rows : SUBSET AnyRow, version : Nat]],
            pending : [Table -> [columns : Nat, parts : SUBSET [name : Name, rows : SUBSET AnyRow]]],
            nextPart : Nat, singleUnitDone : SUBSET Table]
  /\ \A t \in Table : /\ l.open[t].rows \subseteq AllRows(t)
                      /\ \A p \in l.pending[t].parts : p.rows \subseteq AllRows(t)

Engine == cur \in Unit \cup {Past} /\ acked \subseteq Unit /\ deaths \in 0 .. MaxDeaths

\* Where a session is says what its transaction and its memory can be.
Publishing == pc \in {"publish", "copy", "script", "commit"}
Control ==
  /\ pc \in {"none", "loading", "publish", "copy", "script", "commit", "answered"}
  /\ pc # "none" => cur \in Unit
  /\ pc = "none" => load = Fresh
  /\ pc \in {"none", "answered"} => tx = NoTx
  /\ Publishing => tx.open /\ load.reclearOwed = {}
  /\ pc = "answered" => load.reclearOwed = {}
  /\ tx.receipt = IF pc = "commit" THEN cur ELSE NoUnit
  /\ ~tx.open => tx = NoTx
  /\ load.clearedInUnit = tx.cleared
  /\ IF zombie.open THEN pc \in {"none", "loading"} /\ cur \in Unit ELSE zombie = NoTx

TypeInv ==
  /\ DbOK /\ TxOK(tx) /\ TxOK(zombie) /\ FilesOK(remote) /\ MemoryOK(load) /\ Engine /\ Control
  /\ sent \in [Table -> Nat] /\ narrowed \in BOOLEAN
  /\ \A t \in Table : load.tables[t] <= db.columns[t]

-----------------------------------------------------------------------------
(* The inductive invariant *)

Before(u, v) == u.load < v.load \/ (u.load = v.load /\ u.seq < v.seq)

\* All rows of unit u.
Whole(t, u) == [r \in AllRows(t) |-> IF r.unit = u THEN 1 ELSE 0]

\* What a reader of t finds when the units of C have committed.
View(t, C) == [r \in AllRows(t) |-> IF r.unit \in Abstract!Current(C, t) THEN 1 ELSE 0]

\* Unit w, committed after those of C, is the first whose rows replace t's.
First(t, w, C) ==
  /\ Promised[t] = "feed" /\ Feed(w, t) > 0
  /\ \A v \in C : v.load = w.load => Feed(v, t) = 0

\* x brings the rows of the unit after those of C, and empties what they replace.
TxReady(x, C) ==
  /\ x.receipt \in Unit /\ x.receipt \notin C
  /\ \A u \in C : Before(u, x.receipt)
  /\ \A t \in Table : /\ x.adds[t] = Whole(t, x.receipt)
                      /\ t \in x.clears <=> First(t, x.receipt, C)
                      /\ t \in x.cleared <=> Mode[t] = "replace" /\ t \in x.clears

\* A reader finds exactly what is committed.
RowsExact == \A t \in Table : db.rows[t] = View(t, db.receipts)

\* A clear is on record once a unit of the load brought rows.
ClearedExact ==
  \A l \in 1 .. MaxLoad, t \in Table :
    <<l, t>> \in db.cleared
      <=> Mode[t] = "replace" /\ \E u \in db.receipts : u.load = l /\ Feed(u, t) > 0

\* The k rows of unit c written so far are each in one place: in the open part, or in one of
\* the parts waiting for the COPY, whose file has its rows if it is still there
\* and no column the COPY will not name.
Placed(c, t, l, files, k) ==
  LET parts == l.pending[t].parts
  IN /\ \A r \in AllRows(t) :
          (r \in l.open[t].rows \/ \E p \in parts : r \in p.rows) <=> (r.unit = c /\ r.n <= k)
     /\ \A p \in parts : \A r \in p.rows : r \notin l.open[t].rows
     /\ \A p, q \in parts : p.name = q.name \/ (\E r \in p.rows : r \in q.rows) => p = q
     /\ \A p \in parts : p.rows # {} /\ p.name.table = t /\ p.name.index < l.nextPart
     /\ \A p \in parts, f \in files :
          f.name = p.name => f.rows = p.rows /\ f.version <= l.pending[t].columns
     /\ IF l.open[t].rows = {} THEN l.open[t] = NoPart
                               ELSE l.open[t].version <= l.pending[t].columns
     /\ l.pending[t].columns <= l.tables[t]

NothingStaged == load.open = Fresh.open /\ load.pending = Fresh.pending

PartsInv ==
  /\ pc \in {"loading", "publish", "copy"} => \A t \in Table : Placed(cur, t, load, remote, sent[t])
  /\ pc \notin {"loading", "publish", "copy"} => NothingStaged
  /\ pc = "copy" => load.open = Fresh.open
  /\ pc \in {"script", "commit"} => \A t \in Table : tx.adds[t] = Whole(t, cur)
  /\ pc \notin {"script", "commit"} => tx.adds = NoRows
  /\ \A t \in Table : sent[t] > 0 => load.tables[t] # 0 /\ sent[t] <= Feed(cur, t)
  /\ Publishing \/ pc = "answered" => Delivered

\* The unit's clears, made or owed, are those of Replace targets it brought rows
\* to and that no unit of the load had cleared; the session knows the earlier ones.
ClearInv ==
  /\ pc # "commit" => tx.clears = tx.cleared
  /\ \A t \in load.clearedInUnit \cup load.reclearOwed :
       /\ Mode[t] = "replace" /\ sent[t] > 0
       /\ <<cur.load, t>> \notin db.cleared \/ cur \in db.receipts
  /\ \A t \in Table : Mode[t] = "replace" /\ sent[t] > 0 =>
       t \in ClearedUnion(load) \cup load.reclearOwed
  /\ pc # "none" => \A u \in db.receipts \ {cur}, t \in Table :
       u.load = cur.load /\ Mode[t] = "replace" /\ Feed(u, t) > 0 => t \in load.cleared

\* Units commit in order; what a dead session left in COMMIT is the unit the
\* engine delivers again.
OrderInv ==
  /\ \A u \in db.receipts : u = cur \/ Before(u, cur)
  /\ \A u \in db.receipts : u = db.state \/ Before(u, db.state)
  /\ acked \subseteq db.receipts
  /\ pc = "answered" => cur \in db.receipts
  /\ Publishing => cur \notin db.receipts
  /\ pc = "commit" => TxReady(tx, db.receipts)
  /\ zombie.open => TxReady(zombie, db.receipts) /\ zombie.receipt = cur

\* A feed that counted is remembered while the load can go on.
FeedInv ==
  /\ \A u \in db.receipts, t \in Table :
       u.load = cur.load /\ Mode[t] = "feed" /\ Feed(u, t) > 0 =>
         pc # "none" /\ t \in load.singleUnitDone
  /\ zombie.open => \A t \in Table : Mode[t] = "feed" => Feed(cur, t) = 0

UnitInv ==
  /\ PartsInv /\ ClearInv /\ OrderInv /\ FeedInv
  /\ RowsExact /\ ClearedExact /\ ClearedIsDurable /\ NoColumnDropped

Inv == TypeInv /\ UnitInv

-----------------------------------------------------------------------------
(* Rows and bags *)

\* A row is one of its unit's.
LEMMA RowOfUnit ==
  ASSUME SnowAssumption, NEW t \in Table, NEW r \in AllRows(t)
  PROVE  /\ r.unit \in Unit /\ r.n \in 1 .. Feed(r.unit, t) /\ Feed(r.unit, t) \in Nat \ {0}
         /\ r = [unit |-> r.unit, n |-> r.n]
<1>1. PICK u \in Unit : r \in Rows(u, t) BY DEF AllRows
<1>2. PICK i \in 1 .. Feed(u, t) : r = [unit |-> u, n |-> i] BY <1>1 DEF Rows
<1>3. Feed(u, t) \in Nat BY DEF SnowAssumption
<1> QED BY <1>2, <1>3

\* A unit brings rows to a table or none.
LEMMA RowsOrNone ==
  ASSUME SnowAssumption, NEW t \in Table, NEW u \in Unit
  PROVE  Feed(u, t) \in Nat /\ (Rows(u, t) # {} <=> Feed(u, t) > 0)
<1>1. Feed(u, t) \in Nat BY DEF SnowAssumption
<1>2. Feed(u, t) > 0 => [unit |-> u, n |-> 1] \in Rows(u, t) BY <1>1 DEF Rows
<1>3. Feed(u, t) = 0 => Rows(u, t) = {} BY DEF Rows
<1> QED BY <1>1, <1>2, <1>3

\* The next row of the unit is one of its rows.
LEMMA NextRow ==
  ASSUME SnowAssumption, cur \in Unit, NEW t \in Table, NEW k \in Nat, k < Feed(cur, t)
  PROVE  [unit |-> cur, n |-> k + 1] \in AllRows(t)
<1>1. k + 1 \in 1 .. Feed(cur, t) BY DEF SnowAssumption
<1>2. [unit |-> cur, n |-> k + 1] \in Rows(cur, t) BY <1>1 DEF Rows
<1> QED BY <1>2 DEF AllRows

\* The rows of a unit in a table are finitely many.
LEMMA FiniteRows ==
  ASSUME SnowAssumption, NEW t \in Table, NEW u \in Unit
  PROVE  IsFiniteSet({r \in AllRows(t) : r.unit = u})
<1> DEFINE W == {r \in AllRows(t) : r.unit = u}
           at == [r \in W |-> r.n]
<1>1. Feed(u, t) \in Nat BY DEF SnowAssumption
<1>2. IsFiniteSet(1 .. Feed(u, t)) BY <1>1, FS_Interval
<1>3. \A r \in W : r.n \in 1 .. Feed(u, t) /\ r = [unit |-> u, n |-> r.n] BY RowOfUnit
<1>4. at \in Injection(W, 1 .. Feed(u, t)) BY <1>3 DEF Injection, IsInjective
<1> HIDE DEF W, at
<1>5. IsFiniteSet(W) BY <1>2, <1>4, FS_Injection
<1> QED BY <1>5 DEF W

\* The bags the actions build are bags, and an empty transaction is one.
LEMMA NoTxOK ==
  /\ NoRows \in [Table -> Bags] /\ \A t \in Table : NoRows[t] \in Bag(t) /\ Bag(t) \subseteq Bags
  /\ TxOK(NoTx) /\ ~NoTx.open /\ NoTx.cleared = {} /\ NoTx.clears = {}
  /\ NoTx.adds = NoRows /\ NoTx.receipt = NoUnit
<1>1. ASSUME NEW t \in Table
      PROVE  NoRows[t] \in Bag(t) /\ Bag(t) \subseteq Bags
  <2>1. [r \in AllRows(t) |-> 0] \in Bag(t) BY DEF Bag
  <2> QED BY <2>1 DEF NoRows, Bags
<1>2. NoRows \in [Table -> Bags] BY <1>1 DEF NoRows
<1> QED BY <1>1, <1>2 DEF NoTx, TxOK

\* A transaction that brings nothing says nothing of a unit.
LEMMA NoUnitApart == NoUnit \notin Unit
BY DEF NoUnit, Unit

-----------------------------------------------------------------------------
(* Parts *)

\* What an upload leaves of the stage, when more files are uploaded.
Here(l, files, k) ==
  /\ MemoryOK(l) /\ FilesOK(Upload(files)) /\ FilesOK(files)
  /\ \A f \in files : f.name.index < l.nextPart
  /\ \A t \in Table : Placed(cur, t, l, Upload(files), k[t])

\* Closing the parts C under the indexes ix makes m of the memory l and files F.
Named1(x, ix) == [load |-> cur.load, table |-> x, index |-> ix[x]]
PartOf(l, x, ix) == [name |-> Named1(x, ix), rows |-> l.open[x].rows]
FileOf(l, x, ix) == [name |-> Named1(x, ix), rows |-> l.open[x].rows, version |-> l.open[x].version]
Closes(l, F, C, ix, m) ==
  /\ \A t \in C : l.nextPart <= ix[t] /\ ix[t] < m.load.nextPart
  /\ m.load.nextPart \in Nat /\ l.nextPart <= m.load.nextPart
  /\ m.load = [l EXCEPT !.open = m.load.open, !.nextPart = m.load.nextPart,
                        !.pending = m.load.pending]
  /\ m.load.open = [t \in Table |-> IF t \in C THEN NoPart ELSE l.open[t]]
  /\ m.load.pending =
       [t \in Table |-> [columns |-> l.pending[t].columns,
          parts |-> l.pending[t].parts \cup {PartOf(l, x, ix) : x \in C \cap {t}}]]
  /\ m.files = F \cup {FileOf(l, x, ix) : x \in C}

\* What closing parts does to the memory and to the stage.
LEMMA CloseEffect ==
  ASSUME SnowAssumption, NEW l, NEW F, NEW T \in SUBSET Table, MemoryOK(l),
         \E t \in T : l.open[t].rows # {},
         NEW m, m = CloseParts(T, [load |-> l, files |-> F])
  PROVE  \E C \in SUBSET T : \E ix \in [C -> Nat] :
           (\A t \in T : t \in C <=> l.open[t].rows # {}) /\ Closes(l, F, C, ix, m)
<1> DEFINE C == {t \in T : l.open[t].rows # {}}
           order == CHOOSE f \in Injection(C, 1 .. Cardinality(C)) : TRUE
           ix == [t \in C |-> l.nextPart + order[t] - 1]
           nm == [t \in C |-> [load |-> cur.load, table |-> t, index |-> l.nextPart + order[t] - 1]]
           open == [t \in Table |-> IF t \in C THEN NoPart ELSE l.open[t]]
           next == l.nextPart + Cardinality(C)
           pending == [t \in Table |-> [columns |-> l.pending[t].columns,
                        parts |-> l.pending[t].parts \cup
                          {[name |-> nm[x], rows |-> l.open[x].rows] : x \in C \cap {t}}]]
           N == {[name |-> nm[x], rows |-> l.open[x].rows, version |-> l.open[x].version] : x \in C}
<1>1. IsFiniteSet(C)
  <2>1. IsFiniteSet(Table) /\ C \in SUBSET Table BY DEF SnowAssumption
  <2> HIDE DEF C
  <2> QED BY <2>1, FS_Subset
<1>2. Cardinality(C) \in Nat /\ \E f : f \in Injection(C, 1 .. Cardinality(C))
  <2> HIDE DEF C
  <2>1. Cardinality(C) \in Nat /\ ExistsBijection(1 .. Cardinality(C), C)
    BY <1>1, FS_CardinalityType
  <2>2. ExistsBijection(C, 1 .. Cardinality(C)) BY <2>1, Fun_ExistsBijSymmetric
  <2> QED BY <2>1, <2>2 DEF ExistsBijection, Bijection
<1>3. order \in Injection(C, 1 .. Cardinality(C)) BY <1>2
<1>4. order \in [C -> 1 .. Cardinality(C)] BY <1>3 DEF Injection
<1>5. l.nextPart \in Nat BY DEF MemoryOK
<1>6. m = [load |-> [l EXCEPT !.open = open, !.nextPart = next, !.pending = pending],
           files |-> F \cup N]
  <2>1. C # {} OBVIOUS
  <2> QED BY <2>1 DEF CloseParts
<1>7. C \in SUBSET T /\ \A t \in T : t \in C <=> l.open[t].rows # {} OBVIOUS
<1>8. /\ ix \in [C -> Nat] /\ next \in Nat /\ l.nextPart <= next
      /\ \A t \in C : l.nextPart <= ix[t] /\ ix[t] < next
  <2> HIDE DEF C, order
  <2> QED BY <1>2, <1>4, <1>5
<1>9. \A x \in C : nm[x] = Named1(x, ix)
  <2> HIDE DEF C, order
  <2> QED BY DEF Named1
<1>10. N = {FileOf(l, x, ix) : x \in C}
  <2> HIDE DEF C, nm, ix
  <2> QED BY <1>9 DEF FileOf
<1>11. pending = [t \in Table |-> [columns |-> l.pending[t].columns,
          parts |-> l.pending[t].parts \cup {PartOf(l, x, ix) : x \in C \cap {t}}]]
  <2> HIDE DEF C, nm, ix
  <2>1. \A t \in Table : {[name |-> nm[x], rows |-> l.open[x].rows] : x \in C \cap {t}}
                          = {PartOf(l, x, ix) : x \in C \cap {t}}
    BY <1>9 DEF PartOf
  <2> QED BY <2>1
<1>12. open = [t \in Table |-> IF t \in C THEN NoPart ELSE l.open[t]] OBVIOUS
<1> HIDE DEF C, order, ix, nm, open, next, pending, N
<1>13. /\ m.load.open = open /\ m.load.nextPart = next /\ m.load.pending = pending
       /\ m.files = F \cup N
       /\ m.load = [l EXCEPT !.open = open, !.nextPart = next, !.pending = pending]
  <2>1. m.load = [l EXCEPT !.open = open, !.nextPart = next, !.pending = pending]
        /\ m.files = F \cup N
    BY <1>6
  <2> HIDE <1>6
  <2>2. PICK o, n, p : o = open /\ n = next /\ p = pending OBVIOUS
  <2>3. m.load = [l EXCEPT !.open = o, !.nextPart = n, !.pending = p] BY <2>1, <2>2
  <2>4. m.load.open = o /\ m.load.nextPart = n /\ m.load.pending = p BY <2>3 DEF MemoryOK
  <2> QED BY <2>1, <2>2, <2>4
<1>14. Closes(l, F, C, ix, m) BY <1>8, <1>10, <1>11, <1>12, <1>13 DEF Closes
<1> QED BY <1>7, <1>8, <1>14

\* Two memories that differ in their parts only.
SameGuards(l, n) ==
  /\ n.tables = l.tables /\ n.cleared = l.cleared /\ n.clearedInUnit = l.clearedInUnit
  /\ n.reclearOwed = l.reclearOwed /\ n.singleUnitDone = l.singleUnitDone

\* A memory m.load with files m.files to upload, after l and with k rows written.
After(l, k, m) ==
  Here(m.load, m.files, k) /\ SameGuards(l, m.load) /\ m = [load |-> m.load, files |-> m.files]

AllClosed(T, m) == \A t \in T : m.load.open[t] = NoPart

\* Closing parts leaves every row in one place, and the rest of the memory alone.
LEMMA CloseSomeKeeps ==
  ASSUME SnowAssumption, NEW l, NEW F, NEW T \in SUBSET Table, NEW k, Here(l, F, k), cur \in Unit,
         \E t \in T : l.open[t].rows # {},
         NEW m, m = CloseParts(T, [load |-> l, files |-> F])
  PROVE  After(l, k, m) /\ AllClosed(T, m)
<1>0. /\ MemoryOK(l) /\ FilesOK(Upload(F)) /\ FilesOK(F) /\ l.nextPart \in Nat
      /\ \A f \in F : f.name.index < l.nextPart
      /\ \A t \in Table : Placed(cur, t, l, Upload(F), k[t])
  BY DEF Here, MemoryOK
<1>1. PICK C \in SUBSET T : \E ix \in [C -> Nat] :
           (\A t \in T : t \in C <=> l.open[t].rows # {}) /\ Closes(l, F, C, ix, m)
  <2>1. MemoryOK(l) BY <1>0
  <2>2. \E t \in T : l.open[t].rows # {} OBVIOUS
  <2>3. m = CloseParts(T, [load |-> l, files |-> F]) OBVIOUS
  <2> QED BY <2>1, <2>2, <2>3, CloseEffect
<1>2. PICK ix \in [C -> Nat] :
           (\A t \in T : t \in C <=> l.open[t].rows # {}) /\ Closes(l, F, C, ix, m)
  BY <1>1
<1> DEFINE N == {FileOf(l, x, ix) : x \in C}
<1>3. \A x \in Table : /\ l.open[x].rows \subseteq AllRows(x) /\ l.open[x].rows \subseteq AnyRow
                       /\ l.open[x].version \in Nat
  BY <1>0 DEF MemoryOK
<1>4. \A x \in C : /\ x \in Table /\ l.open[x].rows # {} /\ Named1(x, ix) \in Name
                    /\ Named1(x, ix).table = x /\ Named1(x, ix).index = ix[x]
  BY <1>2 DEF Named1, Name, Unit
<1>5. \A f \in N : \E x \in C : f = FileOf(l, x, ix) OBVIOUS
<1> HIDE DEF N
<1>6. \A x \in C : /\ FileOf(l, x, ix) \in [name : Name, rows : SUBSET AnyRow, version : Nat]
                    /\ FileOf(l, x, ix).name = Named1(x, ix)
                    /\ FileOf(l, x, ix).rows = l.open[x].rows
                    /\ FileOf(l, x, ix).version = l.open[x].version
  BY <1>3, <1>4 DEF FileOf
<1>7. FilesOK(N)
  BY <1>3, <1>4, <1>5, <1>6 DEF FilesOK
<1>8. m.files = F \cup N BY <1>2 DEF Closes, N
<1>9. \A f \in F, g \in N : f.name # g.name
  <2> SUFFICES ASSUME NEW f \in F, NEW g \in N, f.name = g.name PROVE FALSE OBVIOUS
  <2>1. PICK x \in C : g.name = Named1(x, ix) BY <1>5, <1>6
  <2>2. f.name.index < l.nextPart /\ f.name.index = ix[x] BY <1>0, <1>4, <2>1
  <2>3. l.nextPart <= ix[x] /\ ix[x] \in Nat BY <1>2 DEF Closes
  <2> QED BY <1>0, <2>2, <2>3
<1>10. Upload(m.files) = {f \in Upload(F) : \A g \in N : f.name # g.name} \cup N
  BY <1>8, <1>9 DEF Upload
<1>11. FilesOK(m.files) BY <1>0, <1>7, <1>8, <1>9 DEF FilesOK
<1>12. FilesOK(Upload(m.files)) BY <1>0, <1>7, <1>10 DEF FilesOK
<1>13. /\ m.load = [l EXCEPT !.open = m.load.open, !.nextPart = m.load.nextPart,
                             !.pending = m.load.pending]
       /\ m.load.nextPart \in Nat /\ l.nextPart <= m.load.nextPart
       /\ \A t \in C : l.nextPart <= ix[t] /\ ix[t] < m.load.nextPart
  BY <1>2 DEF Closes
<1>14. ASSUME NEW t \in Table
       PROVE  /\ m.load.open[t] = IF t \in C THEN NoPart ELSE l.open[t]
              /\ m.load.pending[t] = [columns |-> m.load.pending[t].columns,
                                      parts |-> m.load.pending[t].parts]
              /\ m.load.pending[t].columns = l.pending[t].columns
              /\ t \notin C => m.load.pending[t].parts = l.pending[t].parts
              /\ t \in C => m.load.pending[t].parts = l.pending[t].parts \cup {PartOf(l, t, ix)}
  <2>1. {PartOf(l, x, ix) : x \in C \cap {t}} = IF t \in C THEN {PartOf(l, t, ix)} ELSE {}
    OBVIOUS
  <2>2. m.load.open = [x \in Table |-> IF x \in C THEN NoPart ELSE l.open[x]]
    BY <1>2 DEF Closes
  <2>3. m.load.pending =
          [y \in Table |-> [columns |-> l.pending[y].columns,
             parts |-> l.pending[y].parts \cup {PartOf(l, x, ix) : x \in C \cap {y}}]]
    BY <1>2 DEF Closes
  <2>4. m.load.pending[t] = [columns |-> l.pending[t].columns, parts |->
                    l.pending[t].parts \cup (IF t \in C THEN {PartOf(l, t, ix)} ELSE {})]
    BY <2>1, <2>3
  <2>5. m.load.open[t] = IF t \in C THEN NoPart ELSE l.open[t] BY <2>2
  <2>6. PICK c, p : m.load.pending[t] = [columns |-> c, parts |-> p] /\ c = l.pending[t].columns
                    /\ p = l.pending[t].parts \cup (IF t \in C THEN {PartOf(l, t, ix)} ELSE {})
    BY <2>4
  <2>7. m.load.pending[t].columns = c /\ m.load.pending[t].parts = p BY <2>6
  <2>8. t \notin C => p = l.pending[t].parts BY <2>6
  <2>9. t \in C => p = l.pending[t].parts \cup {PartOf(l, t, ix)} BY <2>6
  <2> QED BY <2>5, <2>6, <2>7, <2>8, <2>9
<1>15. \A t \in C : /\ PartOf(l, t, ix) \in [name : Name, rows : SUBSET AnyRow]
                    /\ PartOf(l, t, ix).name = Named1(t, ix)
                    /\ PartOf(l, t, ix).rows = l.open[t].rows
  BY <1>3, <1>4 DEF PartOf
<1>16. m.load.open \in [Table -> [rows : SUBSET AnyRow, version : Nat]]
  <2>1. m.load.open = [x \in Table |-> IF x \in C THEN NoPart ELSE l.open[x]]
    BY <1>2 DEF Closes
  <2>2. l.open \in [Table -> [rows : SUBSET AnyRow, version : Nat]] BY <1>0 DEF MemoryOK
  <2>3. NoPart \in [rows : SUBSET AnyRow, version : Nat] BY DEF NoPart
  <2> QED BY <2>1, <2>2, <2>3
<1>17. m.load.pending \in [Table -> [columns : Nat, parts : SUBSET [name : Name, rows : SUBSET AnyRow]]]
  <2>1. l.pending \in [Table -> [columns : Nat, parts : SUBSET [name : Name, rows : SUBSET AnyRow]]]
    BY <1>0 DEF MemoryOK
  <2>2. ASSUME NEW t \in Table
        PROVE  m.load.pending[t] \in [columns : Nat, parts : SUBSET [name : Name, rows : SUBSET AnyRow]]
    <3>1. /\ m.load.pending[t] = [columns |-> m.load.pending[t].columns,
                                  parts |-> m.load.pending[t].parts]
          /\ m.load.pending[t].columns = l.pending[t].columns
          /\ t \notin C => m.load.pending[t].parts = l.pending[t].parts
          /\ t \in C => m.load.pending[t].parts = l.pending[t].parts \cup {PartOf(l, t, ix)}
      BY <1>14
    <3>2. l.pending[t].columns \in Nat
          /\ l.pending[t].parts \subseteq [name : Name, rows : SUBSET AnyRow]
      BY <2>1
    <3>3. t \in C => PartOf(l, t, ix) \in [name : Name, rows : SUBSET AnyRow] BY <1>15
    <3>4. m.load.pending[t].parts \subseteq [name : Name, rows : SUBSET AnyRow] BY <3>1, <3>2, <3>3
    <3> QED BY <3>1, <3>2, <3>4
  <2>3. m.load.pending =
          [y \in Table |-> [columns |-> l.pending[y].columns,
             parts |-> l.pending[y].parts \cup {PartOf(l, x, ix) : x \in C \cap {y}}]]
    BY <1>2 DEF Closes
  <2> QED BY <2>2, <2>3
<1>18. \A t \in Table : /\ m.load.open[t].rows \subseteq AllRows(t)
                        /\ \A p \in m.load.pending[t].parts : p.rows \subseteq AllRows(t)
  <2> SUFFICES ASSUME NEW t \in Table
               PROVE  /\ m.load.open[t].rows \subseteq AllRows(t)
                      /\ \A p \in m.load.pending[t].parts : p.rows \subseteq AllRows(t)
    OBVIOUS
  <2>1. \A p \in l.pending[t].parts : p.rows \subseteq AllRows(t) BY <1>0 DEF MemoryOK
  <2>2. \A p \in m.load.pending[t].parts :
          p \in l.pending[t].parts \/ (t \in C /\ p = PartOf(l, t, ix))
    <3>1. CASE t \in C
      <4>1. m.load.pending[t].parts = l.pending[t].parts \cup {PartOf(l, t, ix)} BY <3>1, <1>14
      <4> QED BY <3>1, <4>1
    <3>2. CASE t \notin C BY <3>2, <1>14
    <3> QED BY <3>1, <3>2
  <2>3. m.load.open[t].rows = {} \/ m.load.open[t] = l.open[t]
    <3>1. m.load.open[t] = NoPart \/ m.load.open[t] = l.open[t] BY <1>14
    <3> QED BY <3>1 DEF NoPart
  <2>4. t \in C => PartOf(l, t, ix).rows = l.open[t].rows BY <1>15
  <2>5. l.open[t].rows \subseteq AllRows(t) BY <1>3
  <2> QED BY <2>1, <2>2, <2>3, <2>4, <2>5
<1>19. MemoryOK(m.load)
  <2>1. PICK o, n, p : o = m.load.open /\ n = m.load.nextPart /\ p = m.load.pending OBVIOUS
  <2>2. m.load = [l EXCEPT !.open = o, !.nextPart = n, !.pending = p] BY <1>13, <2>1
  <2>3. /\ o \in [Table -> [rows : SUBSET AnyRow, version : Nat]] /\ n \in Nat
        /\ p \in [Table -> [columns : Nat, parts : SUBSET [name : Name, rows : SUBSET AnyRow]]]
        /\ \A t \in Table : o[t].rows \subseteq AllRows(t)
                           /\ \A q \in p[t].parts : q.rows \subseteq AllRows(t)
    BY <1>13, <1>16, <1>17, <1>18, <2>1
  <2> QED BY <1>0, <2>2, <2>3 DEF MemoryOK
<1>20. \A f \in m.files : f.name.index < m.load.nextPart
  <2>1. \A f \in N : \E x \in C : f.name.index = ix[x] BY <1>4, <1>5, <1>6
  <2>2. \A f \in F : f.name.index \in Nat BY <1>0 DEF FilesOK, Name
  <2> QED BY <2>1, <2>2, <1>0, <1>8, <1>13
<1>21. ASSUME NEW t \in Table PROVE Placed(cur, t, m.load, Upload(m.files), k[t])
  <2>1. m.load.tables = l.tables /\ l.tables[t] \in Nat /\ l.pending[t].columns \in Nat
        /\ l.pending[t].parts \subseteq [name : Name, rows : SUBSET AnyRow]
    <3>1. PICK o, n, p : o = m.load.open /\ n = m.load.nextPart /\ p = m.load.pending OBVIOUS
    <3>2. m.load = [l EXCEPT !.open = o, !.nextPart = n, !.pending = p] BY <1>13, <3>1
    <3>3. m.load.tables = l.tables BY <1>0, <3>2 DEF MemoryOK
    <3>4. l.tables[t] \in 0 .. MaxVersion /\ MaxVersion \in Nat BY <1>0 DEF MemoryOK, SnowAssumption
    <3>5. l.pending[t] \in [columns : Nat, parts : SUBSET [name : Name, rows : SUBSET AnyRow]]
      BY <1>0 DEF MemoryOK
    <3> QED BY <3>3, <3>4, <3>5
  <2>2. Placed(cur, t, l, Upload(F), k[t]) BY <1>0
  <2>9. \A p \in l.pending[t].parts : p.name.index < l.nextPart /\ p.name.index \in Nat
    <3>1. \A p \in l.pending[t].parts : p.name.index < l.nextPart BY <2>2 DEF Placed
    <3> QED BY <2>1, <3>1 DEF Name
  <2>3. \A p \in l.pending[t].parts, f \in N : f.name # p.name
    <3> SUFFICES ASSUME NEW p \in l.pending[t].parts, NEW f \in N, f.name = p.name PROVE FALSE
      OBVIOUS
    <3>1. PICK x \in C : f.name = Named1(x, ix) BY <1>5, <1>6
    <3>2. p.name.index < l.nextPart /\ p.name.index = ix[x] BY <1>4, <2>9, <3>1
    <3> QED BY <1>0, <1>13, <3>2
  <2>4. CASE t \notin C
    <3>1. m.load.open[t] = l.open[t] /\ m.load.pending[t].parts = l.pending[t].parts
          /\ m.load.pending[t].columns = l.pending[t].columns
      BY <2>4, <1>14
    <3>2. \A p \in l.pending[t].parts, f \in Upload(m.files) : f.name = p.name => f \in Upload(F)
      BY <1>10, <2>3
    <3>3. \A p \in l.pending[t].parts : p.name.index < m.load.nextPart
      BY <2>9, <1>0, <1>13
    <3>4. PICK o, c, P : o = l.open[t] /\ c = l.pending[t].columns /\ P = l.pending[t].parts
      OBVIOUS
    <3>5. /\ \A r \in AllRows(t) :
               (r \in o.rows \/ \E p \in P : r \in p.rows) <=> (r.unit = cur /\ r.n <= k[t])
          /\ \A p \in P : \A r \in p.rows : r \notin o.rows
          /\ \A p, q \in P : p.name = q.name \/ (\E r \in p.rows : r \in q.rows) => p = q
          /\ \A p \in P : p.rows # {} /\ p.name.table = t
          /\ \A p \in P, f \in Upload(F) :
               f.name = p.name => f.rows = p.rows /\ f.version <= c
          /\ IF o.rows = {} THEN o = NoPart ELSE o.version <= c
          /\ c <= l.tables[t]
      BY <2>2, <3>4 DEF Placed
    <3>6. m.load.open[t] = o /\ m.load.pending[t].parts = P /\ m.load.pending[t].columns = c
          /\ m.load.tables[t] = l.tables[t]
      BY <2>1, <3>1, <3>4
    <3>7. \A p \in P : p.name.index < m.load.nextPart BY <3>3, <3>4
    <3>8. \A p \in P, f \in Upload(m.files) :
               f.name = p.name => f.rows = p.rows /\ f.version <= c
      BY <3>2, <3>4, <3>5
    <3> HIDE <3>1, <3>2, <3>3, <3>4, <2>1, <2>2
    <3> QED BY <3>5, <3>6, <3>7, <3>8 DEF Placed
  <2>5. CASE t \in C
    <3> DEFINE P == l.pending[t].parts
               q == PartOf(l, t, ix)
    <3>1. /\ m.load.open[t] = NoPart /\ m.load.pending[t].parts = P \cup {q}
          /\ m.load.pending[t].columns = l.pending[t].columns /\ NoPart.rows = {}
      BY <2>5, <1>14 DEF NoPart
    <3>2. q.rows = l.open[t].rows /\ q.name = Named1(t, ix) /\ q.rows # {} /\ q.name.table = t
          /\ q.name.index = ix[t] /\ l.nextPart <= ix[t] /\ ix[t] < m.load.nextPart /\ ix[t] \in Nat
      BY <2>5, <1>4, <1>13, <1>15
    <3> HIDE DEF P, q
    <3>3. /\ \A r \in AllRows(t) :
               (r \in l.open[t].rows \/ \E p \in P : r \in p.rows) <=> (r.unit = cur /\ r.n <= k[t])
          /\ \A p \in P : \A r \in p.rows : r \notin l.open[t].rows
          /\ \A p, g \in P : p.name = g.name \/ (\E r \in p.rows : r \in g.rows) => p = g
          /\ \A p \in P : p.rows # {} /\ p.name.table = t /\ p.name.index < l.nextPart
                         /\ p.name.index \in Nat
          /\ \A p \in P, f \in Upload(F) :
               f.name = p.name => f.rows = p.rows /\ f.version <= l.pending[t].columns
          /\ l.open[t].version <= l.pending[t].columns
          /\ l.pending[t].columns <= l.tables[t]
      <4>1. \A p \in P : p.name.index \in Nat BY <2>9 DEF P
      <4>2. l.open[t].rows # {} BY <3>2
      <4> QED BY <2>2, <4>1, <4>2 DEF Placed, P
    <3>4. \A p \in P : q.name # p.name BY <3>2, <3>3, <1>0
    <3>5. \A p \in P \cup {q} : p.rows # {} /\ p.name.table = t /\ p.name.index < m.load.nextPart
      BY <3>2, <3>3, <1>0, <1>13
    <3>6. \A r \in AllRows(t) :
            (r \in NoPart.rows \/ \E p \in P \cup {q} : r \in p.rows) <=> (r.unit = cur /\ r.n <= k[t])
      <4> SUFFICES ASSUME NEW r \in AllRows(t)
                   PROVE (r \in NoPart.rows \/ \E p \in P \cup {q} : r \in p.rows)
                           <=> (r \in l.open[t].rows \/ \E p \in P : r \in p.rows)
        BY <3>3
      <4> QED BY <3>1, <3>2
    <3>7. \A p, g \in P \cup {q} : p.name = g.name \/ (\E r \in p.rows : r \in g.rows) => p = g
      <4> SUFFICES ASSUME NEW p \in P \cup {q}, NEW g \in P \cup {q},
                          p.name = g.name \/ (\E r \in p.rows : r \in g.rows)
                   PROVE  p = g
        OBVIOUS
      <4>1. CASE p \in P /\ g \in P BY <4>1, <3>3
      <4>2. CASE p \in P /\ g = q BY <4>2, <3>2, <3>3, <3>4
      <4>3. CASE p = q /\ g \in P BY <4>3, <3>2, <3>3, <3>4
      <4> QED BY <4>1, <4>2, <4>3
    <3>8. \A p \in P \cup {q}, f \in Upload(m.files) :
            f.name = p.name => f.rows = p.rows /\ f.version <= l.pending[t].columns
      <4> SUFFICES ASSUME NEW p \in P \cup {q}, NEW f \in Upload(m.files), f.name = p.name
                   PROVE  f.rows = p.rows /\ f.version <= l.pending[t].columns
        OBVIOUS
      <4>1. FileOf(l, t, ix) \in N BY <2>5 DEF N
      <4>2. CASE f \in N
        <5>1. p = q BY <4>2, <2>3 DEF P
        <5>2. PICK x \in C : f = FileOf(l, x, ix) BY <4>2, <1>5
        <5>3. x = t BY <5>1, <5>2, <1>4, <1>6, <3>2
        <5> QED BY <5>1, <5>2, <5>3, <1>6, <3>2, <3>3
      <4>3. CASE f \notin N
        <5>1. f \in Upload(F) /\ \A g \in N : f.name # g.name BY <4>3, <1>10
        <5>2. FileOf(l, t, ix).name = q.name BY <2>5, <1>6, <3>2
        <5>3. p # q BY <5>1, <5>2, <4>1
        <5> QED BY <5>1, <5>3, <3>3
      <4> QED BY <4>2, <4>3
    <3>9. \A p \in P \cup {q} : \A r \in p.rows : r \notin NoPart.rows BY <3>1
    <3> QED BY <2>1, <3>1, <3>3, <3>5, <3>6, <3>7, <3>8, <3>9 DEF Placed
  <2> QED BY <2>4, <2>5
<1>22. Here(m.load, m.files, k) BY <1>11, <1>12, <1>19, <1>20, <1>21 DEF Here
<1>23. AllClosed(T, m)
  <2>1. \A t \in Table : l.open[t].rows = {} => l.open[t] = NoPart BY <1>0 DEF Placed
  <2>2. \A t \in T : m.load.open[t] = IF t \in C THEN NoPart ELSE l.open[t] BY <1>14
  <2> QED BY <2>1, <2>2, <1>2 DEF AllClosed
<1>24. m = [load |-> m.load, files |-> m.files]
  <2>1. {t \in T : l.open[t].rows # {}} # {} OBVIOUS
  <2> QED BY <2>1 DEF CloseParts
<1>25. SameGuards(l, m.load)
  <2>1. PICK o, n, p : o = m.load.open /\ n = m.load.nextPart /\ p = m.load.pending OBVIOUS
  <2>2. m.load = [l EXCEPT !.open = o, !.nextPart = n, !.pending = p] BY <1>13, <2>1
  <2> QED BY <1>0, <2>2 DEF MemoryOK, SameGuards
<1> QED BY <1>22, <1>23, <1>24, <1>25 DEF After

\* The same where there may be nothing to close.
LEMMA CloseKeeps ==
  ASSUME SnowAssumption, NEW l, NEW F, NEW T \in SUBSET Table, NEW k, Here(l, F, k), cur \in Unit,
         NEW m, m = CloseParts(T, [load |-> l, files |-> F])
  PROVE  After(l, k, m) /\ AllClosed(T, m)
<1>1. CASE \E t \in T : l.open[t].rows # {} BY <1>1, CloseSomeKeeps
<1>2. CASE \A t \in T : l.open[t].rows = {}
  <2>1. {t \in T : l.open[t].rows # {}} = {} BY <1>2
  <2>2. m = [load |-> l, files |-> F] BY <2>1 DEF CloseParts
  <2>3. m.load = l /\ m.files = F /\ m = [load |-> m.load, files |-> m.files] BY <2>2
  <2>4. \A t \in T : l.open[t] = NoPart BY <1>2 DEF Here, Placed
  <2> QED BY <2>3, <2>4 DEF After, SameGuards, AllClosed
<1> QED BY <1>1, <1>2

\* The row a write adds is in the open part, and the COPY will name its columns.
LEMMA AddRowKeeps ==
  ASSUME SnowAssumption, cur \in Unit, NEW t \in Table, sent[t] \in Nat, sent[t] < Feed(cur, t),
         NEW l, NEW F, NEW k \in [Table -> Nat], k[t] = sent[t], Here(l, F, k),
         NEW m, m = AddRow(t, [load |-> l, files |-> F])
  PROVE  After(l, [k EXCEPT ![t] = @ + 1], m)
<1> DEFINE row == [unit |-> cur, n |-> sent[t] + 1]
           part == [rows |-> l.open[t].rows \cup {row}, version |-> l.tables[t]]
<1>1. m = [load |-> [l EXCEPT !.open[t] = part, !.pending[t].columns = l.tables[t]],
           files |-> F]
  BY DEF AddRow
<1>0. /\ MemoryOK(l) /\ FilesOK(Upload(F)) /\ FilesOK(F) /\ l.nextPart \in Nat
      /\ \A f \in F : f.name.index < l.nextPart
      /\ \A x \in Table : Placed(cur, x, l, Upload(F), k[x])
  BY DEF Here, MemoryOK
<1>2. PICK open, pending : /\ open = [l.open EXCEPT ![t] = part]
                           /\ pending = [l.pending EXCEPT ![t].columns = l.tables[t]]
  OBVIOUS
<1>3. m = [load |-> [l EXCEPT !.open = open, !.pending = pending], files |-> F]
  BY <1>1, <1>2
<1>4. row \in AllRows(t) /\ row.unit = cur /\ row.n = sent[t] + 1 BY NextRow
<1>5. /\ part.rows = l.open[t].rows \cup {row} /\ part.version = l.tables[t]
  OBVIOUS
<1>6. l.tables[t] \in Nat BY <1>0 DEF MemoryOK, SnowAssumption
<1> HIDE DEF row, part
<1>7. /\ l.open \in [Table -> [rows : SUBSET AnyRow, version : Nat]]
      /\ l.pending \in [Table -> [columns : Nat, parts : SUBSET [name : Name, rows : SUBSET AnyRow]]]
      /\ \A x \in Table : /\ l.open[x].rows \subseteq AllRows(x)
                          /\ \A p \in l.pending[x].parts : p.rows \subseteq AllRows(x)
  BY <1>0 DEF MemoryOK
<1>8. part \in [rows : SUBSET AnyRow, version : Nat] /\ part.rows \subseteq AllRows(t)
  <2>1. row \in AnyRow BY <1>4 DEF AnyRow
  <2>2. l.open[t].rows \subseteq AnyRow BY <1>7
  <2>3. part = [rows |-> part.rows, version |-> part.version] BY DEF part
  <2> QED BY <2>1, <2>2, <2>3, <1>4, <1>5, <1>6, <1>7
<1>9. /\ open \in [Table -> [rows : SUBSET AnyRow, version : Nat]]
      /\ open[t] = part /\ \A x \in Table : x # t => open[x] = l.open[x]
  BY <1>2, <1>7, <1>8
<1>10. /\ pending \in [Table -> [columns : Nat, parts : SUBSET [name : Name, rows : SUBSET AnyRow]]]
       /\ pending[t].columns = l.tables[t] /\ pending[t].parts = l.pending[t].parts
       /\ \A x \in Table : x # t => pending[x] = l.pending[x]
  BY <1>2, <1>6, <1>7
<1>11. /\ m.load = [l EXCEPT !.open = open, !.pending = pending] /\ m.files = F
  BY <1>3
<1>12. m.load.open = open /\ m.load.pending = pending /\ m.load.nextPart = l.nextPart
       /\ m.load.tables = l.tables
  BY <1>11, <1>0 DEF MemoryOK
<1>13. \A x \in Table : /\ open[x].rows \subseteq AllRows(x)
                        /\ \A p \in pending[x].parts : p.rows \subseteq AllRows(x)
  <2> SUFFICES ASSUME NEW x \in Table
               PROVE  /\ open[x].rows \subseteq AllRows(x)
                      /\ \A p \in pending[x].parts : p.rows \subseteq AllRows(x)
    OBVIOUS
  <2>1. CASE x = t BY <2>1, <1>7, <1>8, <1>9, <1>10
  <2>2. CASE x # t BY <2>2, <1>7, <1>9, <1>10
  <2> QED BY <2>1, <2>2
<1>14. MemoryOK(m.load) BY <1>0, <1>9, <1>10, <1>11, <1>13 DEF MemoryOK
<1>15. ASSUME NEW x \in Table
       PROVE  Placed(cur, x, m.load, Upload(m.files), [k EXCEPT ![t] = @ + 1][x])
  <2>1. CASE x # t
    <3>1. m.load.open[x] = l.open[x] /\ m.load.pending[x] = l.pending[x]
      BY <2>1, <1>9, <1>10, <1>12
    <3>2. [k EXCEPT ![t] = @ + 1][x] = k[x] BY <2>1
    <3>3. Placed(cur, x, l, Upload(F), k[x]) BY <1>0
    <3>4. m.load.nextPart = l.nextPart /\ m.load.tables[x] = l.tables[x] /\ m.files = F
      BY <1>11, <1>12
    <3>5. Placed(cur, x, m.load, Upload(F), k[x])
      <4> HIDE <3>2, <1>0, <1>1, <1>3
      <4> QED BY <3>1, <3>3, <3>4 DEF Placed
    <3> QED BY <3>2, <3>4, <3>5
  <2>2. CASE x = t
    <3>1. [k EXCEPT ![t] = @ + 1][x] = k[t] + 1 /\ k[t] \in Nat BY <2>2
    <3>2. PICK o, c, P : o = l.open[t] /\ c = l.pending[t].columns /\ P = l.pending[t].parts
      OBVIOUS
    <3>3. /\ \A r \in AllRows(t) :
                 (r \in o.rows \/ \E p \in P : r \in p.rows) <=> (r.unit = cur /\ r.n <= k[t])
          /\ \A p \in P : \A r \in p.rows : r \notin o.rows
          /\ \A p, q \in P : p.name = q.name \/ (\E r \in p.rows : r \in q.rows) => p = q
          /\ \A p \in P : p.rows # {} /\ p.name.table = t /\ p.name.index < l.nextPart
          /\ \A p \in P, f \in Upload(F) :
                 f.name = p.name => f.rows = p.rows /\ f.version <= c
          /\ c <= l.tables[t]
      <4>1. Placed(cur, t, l, Upload(F), k[t]) BY <1>0
      <4> QED BY <3>2, <4>1 DEF Placed
    <3>4. /\ m.load.open[t].rows = o.rows \cup {row} /\ m.load.open[t].version = l.tables[t]
          /\ m.load.pending[t].parts = P /\ m.load.pending[t].columns = l.tables[t]
          /\ m.load.tables[t] = l.tables[t] /\ m.load.nextPart = l.nextPart /\ m.files = F
      BY <1>5, <1>9, <1>10, <1>11, <1>12, <3>2
    <3>5. \A p \in P : row \notin p.rows
      <4> SUFFICES ASSUME NEW p \in P, row \in p.rows PROVE FALSE OBVIOUS
      <4>1. row.n <= k[t] BY <1>4, <3>3
      <4> QED BY <4>1, <1>4
    <3>6. \A r \in AllRows(t) : (r \in o.rows \cup {row} \/ \E p \in P : r \in p.rows)
                                  <=> (r.unit = cur /\ r.n <= k[t] + 1)
      <4> SUFFICES ASSUME NEW r \in AllRows(t)
                   PROVE  (r \in o.rows \cup {row} \/ \E p \in P : r \in p.rows)
                            <=> (r.unit = cur /\ r.n <= k[t] + 1)
        OBVIOUS
      <4>1. r.n \in Nat /\ r = [unit |-> r.unit, n |-> r.n]
        <5>1. /\ r.unit \in Unit /\ r.n \in 1 .. Feed(r.unit, t) /\ Feed(r.unit, t) \in Nat \ {0}
              /\ r = [unit |-> r.unit, n |-> r.n]
          BY RowOfUnit
        <5> QED BY <5>1
      <4>2. r = row <=> r.unit = cur /\ r.n = k[t] + 1 BY <4>1, <1>4 DEF row
      <4>3. (r \in o.rows \/ \E p \in P : r \in p.rows) <=> (r.unit = cur /\ r.n <= k[t])
        BY <3>3
      <4>4. r.n <= k[t] + 1 <=> r.n <= k[t] \/ r.n = k[t] + 1 BY <4>1
      <4> QED BY <4>2, <4>3, <4>4
    <3>7. \A p \in P : \A r \in p.rows : r \notin o.rows \cup {row} BY <3>3, <3>5
    <3>8. \A p \in P, f \in Upload(F) :
              f.name = p.name => f.rows = p.rows /\ f.version <= l.tables[t]
      <4> SUFFICES ASSUME NEW p \in P, NEW f \in Upload(F), f.name = p.name
                   PROVE  f.rows = p.rows /\ f.version <= l.tables[t]
        OBVIOUS
      <4>1. f.version \in Nat BY <1>0 DEF FilesOK
      <4>2. c \in Nat BY <1>7, <3>2
      <4> QED BY <3>3, <4>1, <4>2, <1>6
    <3>9. Placed(cur, t, m.load, Upload(m.files), k[t] + 1)
      <4> HIDE <3>1, <3>2, <3>5, <2>2
      <4> QED BY <1>6, <3>3, <3>4, <3>6, <3>7, <3>8 DEF Placed
    <3> QED BY <2>2, <3>1, <3>9
  <2> QED BY <2>1, <2>2
<1>16. Here(m.load, m.files, [k EXCEPT ![t] = @ + 1])
  BY <1>0, <1>11, <1>12, <1>14, <1>15 DEF Here
<1>17. SameGuards(l, m.load) BY <1>0, <1>11 DEF MemoryOK, SameGuards
<1> QED BY <1>3, <1>11, <1>16, <1>17 DEF After

-----------------------------------------------------------------------------
(* Writes, and the close before the COPY, keep every row in one place *)

\* What an upload of nothing leaves is the stage itself.
LEMMA UploadNothing == Upload({}) = remote
BY DEF Upload

\* What a write clears: what is owed, and its own target before the first row.
WriteClears(t) == load.reclearOwed \cup (IF NeedsClear(t) THEN {t} ELSE {})

\* A write leaves every row of the unit in one place, one row more.
LEMMA WriteKeeps ==
  ASSUME SnowAssumption, TypeInv, PartsInv, NEW t \in Table, Write(t)
  PROVE  /\ MemoryOK(load') /\ FilesOK(remote')
         /\ \A x \in Table : Placed(cur, x, load', remote', sent'[x])
         /\ load'.tables = load.tables /\ load'.cleared = load.cleared
         /\ load'.clearedInUnit = load.clearedInUnit \cup WriteClears(t)
         /\ load'.reclearOwed = {} /\ load'.singleUnitDone = load.singleUnitDone
         /\ tx' = WithClears(tx, WriteClears(t))
<1> DEFINE l0 == Cleared(load, WriteClears(t))
           m0 == [load |-> l0, files |-> {}]
           m1 == CloseOutgrown(t, m0)
           m2 == AddRow(t, m1)
<1>1. /\ pc = "loading" /\ sent[t] < Feed(cur, t) /\ sent' = [sent EXCEPT ![t] = @ + 1]
      /\ tx' = WithClears(tx, WriteClears(t))
  BY DEF Write, WriteClears
<1>2. PICK T \in SUBSET Table : /\ load' = CloseParts(T, m2).load
                                /\ remote' = Upload(CloseParts(T, m2).files)
  BY DEF Write, WriteClears
<1>3. cur \in Unit /\ sent \in [Table -> Nat] /\ MemoryOK(load) /\ FilesOK(remote)
      /\ \A x \in Table : Placed(cur, x, load, remote, sent[x])
  BY <1>1 DEF TypeInv, Control, PartsInv
<1>0. cur \in Unit BY <1>3
<1>4. WriteClears(t) \subseteq Table BY <1>3 DEF WriteClears, MemoryOK
<1>5. /\ MemoryOK(l0) /\ l0.open = load.open /\ l0.pending = load.pending
      /\ l0.nextPart = load.nextPart /\ l0.tables = load.tables /\ l0.cleared = load.cleared
      /\ l0.clearedInUnit = load.clearedInUnit \cup WriteClears(t)
      /\ l0.reclearOwed = {} /\ l0.singleUnitDone = load.singleUnitDone
  <2>1. PICK c \in SUBSET Table : c = WriteClears(t) BY <1>4
  <2>2. l0 = [load EXCEPT !.reclearOwed = {}, !.clearedInUnit = load.clearedInUnit \cup c]
    BY <2>1, <1>3 DEF Cleared, MemoryOK
  <2> HIDE DEF l0
  <2> QED BY <1>3, <2>1, <2>2 DEF MemoryOK
<1> HIDE DEF l0
<1>7. Here(l0, {}, sent)
  <2>1. FilesOK({}) BY DEF FilesOK
  <2>2. ASSUME NEW x \in Table PROVE Placed(cur, x, l0, remote, sent[x])
    BY <1>3, <1>5 DEF Placed
  <2> QED BY <1>3, <1>5, <2>1, <2>2, UploadNothing DEF Here
<1>8. After(l0, sent, m1)
  <2>1. CASE l0.open[t].version # l0.tables[t]
    <3>1. m1 = CloseParts({t}, [load |-> l0, files |-> {}]) BY <2>1 DEF CloseOutgrown
    <3> HIDE DEF m1
    <3>2. {t} \in SUBSET Table OBVIOUS
    <3> QED BY <1>0, <1>7, <3>1, <3>2, CloseKeeps
  <2>2. CASE l0.open[t].version = l0.tables[t]
    <3>1. m1 = m0 BY <2>2 DEF CloseOutgrown
    <3>2. m1.load = l0 /\ m1.files = {} /\ m1 = [load |-> m1.load, files |-> m1.files] BY <3>1
    <3> HIDE DEF m1
    <3> QED BY <1>7, <3>2 DEF After, SameGuards
  <2> QED BY <2>1, <2>2
<1> HIDE DEF m1
<1>9. PICK l, F : Here(l, F, sent) /\ SameGuards(l0, l) /\ m1 = [load |-> l, files |-> F]
  BY <1>8 DEF After
<1>10. m2 = AddRow(t, [load |-> l, files |-> F]) BY <1>9
<1> HIDE DEF m2
<1>11. After(l, sent', m2)
  <2>1. sent \in [Table -> Nat] /\ sent[t] \in Nat BY <1>3
  <2>2. After(l, [sent EXCEPT ![t] = @ + 1], m2)
    BY <1>0, <1>1, <1>9, <1>10, <2>1, AddRowKeeps
  <2> QED BY <1>1, <2>2
<1>12. PICK l2, F2 : Here(l2, F2, sent') /\ SameGuards(l, l2) /\ m2 = [load |-> l2, files |-> F2]
  BY <1>11 DEF After
<1>13. PICK m : m = CloseParts(T, [load |-> l2, files |-> F2]) OBVIOUS
<1>14. load' = m.load /\ remote' = Upload(m.files) BY <1>2, <1>12, <1>13
<1>15. After(l2, sent', m)
  <2>1. PICK k : k = sent' OBVIOUS
  <2>2. Here(l2, F2, k) BY <1>12, <2>1
  <2> QED BY <1>0, <1>13, <2>1, <2>2, CloseKeeps
<1>16. MemoryOK(load') /\ FilesOK(remote')
       /\ \A x \in Table : Placed(cur, x, load', remote', sent'[x])
  BY <1>14, <1>15 DEF After, Here
<1>17. SameGuards(l0, load') BY <1>9, <1>12, <1>14, <1>15 DEF After, SameGuards
<1> QED BY <1>1, <1>5, <1>16, <1>17 DEF SameGuards

\* Closing all parts leaves every row in a part that waits for the COPY.
LEMMA CloseAllKeeps ==
  ASSUME SnowAssumption, TypeInv, PartsInv, CloseAll
  PROVE  /\ MemoryOK(load') /\ FilesOK(remote')
         /\ \A x \in Table : Placed(cur, x, load', remote', sent[x])
         /\ load'.open = Fresh.open
         /\ load'.tables = load.tables /\ load'.cleared = load.cleared
         /\ load'.clearedInUnit = load.clearedInUnit
         /\ load'.reclearOwed = load.reclearOwed /\ load'.singleUnitDone = load.singleUnitDone
<1>1. PICK m : m = CloseParts(Table, [load |-> load, files |-> {}]) OBVIOUS
<1>2. pc = "publish" /\ load' = m.load /\ remote' = Upload(m.files) BY <1>1 DEF CloseAll
<1>3. cur \in Unit /\ MemoryOK(load) /\ FilesOK(remote)
      /\ \A x \in Table : Placed(cur, x, load, remote, sent[x])
  BY <1>2 DEF TypeInv, Control, PartsInv
<1>4. Here(load, {}, sent)
  <2>1. FilesOK({}) BY DEF FilesOK
  <2> QED BY <1>3, <2>1, UploadNothing DEF Here
<1>5. After(load, sent, m) /\ AllClosed(Table, m)
  <2>1. cur \in Unit BY <1>3
  <2>2. PICK T \in SUBSET Table : T = Table OBVIOUS
  <2>3. m = CloseParts(T, [load |-> load, files |-> {}]) BY <1>1, <2>2
  <2> QED BY <1>4, <2>1, <2>2, <2>3, CloseKeeps
<1>6. MemoryOK(load') /\ FilesOK(remote')
      /\ \A x \in Table : Placed(cur, x, load', remote', sent[x])
  BY <1>2, <1>5 DEF After, Here
<1>7. load'.open = Fresh.open
  <2>1. Fresh.open = [t \in Table |-> NoPart] BY DEF Fresh
  <2>2. load'.open = [t \in Table |-> load'.open[t]] BY <1>6 DEF MemoryOK
  <2>3. \A t \in Table : load'.open[t] = NoPart BY <1>2, <1>5 DEF AllClosed
  <2> QED BY <2>1, <2>2, <2>3
<1> QED BY <1>2, <1>5, <1>6, <1>7 DEF After, SameGuards

\* When the COPY counts what was written, it loaded every row of the unit once.
LEMMA LoadExact ==
  ASSUME SnowAssumption, TypeInv, PartsInv, pc = "copy", NEW t \in Table, Loaded(t) = Written(t)
  PROVE  [r \in AllRows(t) |-> Cardinality({f \in Named(t) : r \in f.rows})] = Whole(t, cur)
<1> DEFINE P == load.pending[t].parts
           N == Named(t)
           W == {r \in AllRows(t) : r.unit = cur}
<1>1. /\ cur \in Unit /\ FilesOK(remote) /\ MemoryOK(load) /\ Placed(cur, t, load, remote, sent[t])
      /\ sent[t] = Feed(cur, t) /\ load.open[t] = NoPart
  BY DEF TypeInv, Control, PartsInv, Publishing, Delivered, Fresh
<1>2. /\ \A p \in P : p.rows \subseteq AllRows(t)
      /\ \A r \in AllRows(t) : (\E p \in P : r \in p.rows) <=> (r.unit = cur /\ r.n <= Feed(cur, t))
      /\ \A p, q \in P : p.name = q.name \/ (\E r \in p.rows : r \in q.rows) => p = q
      /\ \A p \in P, f \in remote : f.name = p.name => f.rows = p.rows
  BY <1>1 DEF Placed, MemoryOK, NoPart
<1>3. \A f \in N : f \in remote /\ \E p \in P : p.name = f.name /\ p.rows = f.rows
  BY <1>2 DEF Named
<1>4. \A f, g \in N : f.name = g.name => f = g BY <1>1, <1>3 DEF FilesOK
<1>5. \A r \in AllRows(t) : (\E p \in P : r \in p.rows) <=> r.unit = cur
  <2> SUFFICES ASSUME NEW r \in AllRows(t) PROVE (\E p \in P : r \in p.rows) <=> r.unit = cur
    OBVIOUS
  <2>1. r.unit = cur => r.n <= Feed(cur, t)
    <3>1. r.n \in 1 .. Feed(r.unit, t) /\ Feed(r.unit, t) \in Nat BY RowOfUnit
    <3> QED BY <3>1
  <2>2. (\E p \in P : r \in p.rows) <=> (r.unit = cur /\ r.n <= Feed(cur, t)) BY <1>2
  <2> HIDE DEF P
  <2> QED BY <2>1, <2>2
<1>6. IsFiniteSet(W) BY <1>1, FiniteRows
<1> DEFINE R(S) == RowsIn(S)
<1>7. \A S : \A x : x \in RowsIn(S) <=> \E p \in S : x \in {p.name} \X p.rows BY DEF RowsIn
<1>8. \A S : \A p \in S : \A r \in p.rows : <<p.name, r>> \in RowsIn(S) BY <1>7
<1>9. \A S : \A x \in RowsIn(S) : \E p \in S : x[1] = p.name /\ x[2] \in p.rows /\ x = <<x[1], x[2]>>
  BY <1>7
<1> HIDE DEF P, N, W
<1>10. RowsIn(N) \subseteq RowsIn(P)
  <2> SUFFICES ASSUME NEW x \in RowsIn(N) PROVE x \in RowsIn(P) OBVIOUS
  <2>1. PICK f \in N : x[1] = f.name /\ x[2] \in f.rows /\ x = <<x[1], x[2]>> BY <1>9
  <2>2. PICK p \in P : p.name = f.name /\ p.rows = f.rows BY <1>3
  <2>3. <<p.name, x[2]>> \in RowsIn(P) BY <1>8, <2>1, <2>2
  <2> QED BY <2>1, <2>2, <2>3
<1>11. IsFiniteSet(RowsIn(P))
  <2> DEFINE at == [x \in RowsIn(P) |-> x[2]]
  <2>1. \A x \in RowsIn(P) : x[2] \in W
    <3> SUFFICES ASSUME NEW x \in RowsIn(P) PROVE x[2] \in W OBVIOUS
    <3>1. PICK p \in P : x[2] \in p.rows BY <1>9
    <3>2. x[2] \in AllRows(t) BY <1>2, <3>1 DEF P
    <3> QED BY <1>5, <3>1, <3>2 DEF W
  <2>2. \A x, y \in RowsIn(P) : x[2] = y[2] => x = y
    <3> SUFFICES ASSUME NEW x \in RowsIn(P), NEW y \in RowsIn(P), x[2] = y[2] PROVE x = y
      OBVIOUS
    <3>1. PICK p \in P : x[1] = p.name /\ x[2] \in p.rows /\ x = <<x[1], x[2]>> BY <1>9
    <3>2. PICK q \in P : y[1] = q.name /\ y[2] \in q.rows /\ y = <<y[1], y[2]>> BY <1>9
    <3>3. p = q BY <1>2, <3>1, <3>2 DEF P
    <3> QED BY <3>1, <3>2, <3>3
  <2>3. at \in Injection(RowsIn(P), W) BY <2>1, <2>2 DEF Injection, IsInjective
  <2> HIDE DEF at
  <2> QED BY <1>6, <2>3, FS_Injection
<1>12. RowsIn(N) = RowsIn(P)
  <2>1. Cardinality(RowsIn(P)) = Cardinality(RowsIn(N)) BY DEF Loaded, Written, P, N
  <2>2. RowsIn(N) \in SUBSET RowsIn(P) BY <1>10
  <2> QED BY <1>11, <2>1, <2>2, FS_Subset
<1>13. ASSUME NEW r \in AllRows(t)
       PROVE  Cardinality({f \in N : r \in f.rows}) = IF r.unit = cur THEN 1 ELSE 0
  <2>1. CASE r.unit = cur
    <3>1. PICK p \in P : r \in p.rows BY <2>1, <1>5
    <3>2. <<p.name, r>> \in RowsIn(N) BY <1>8, <1>12, <3>1
    <3>3. PICK f \in N : f.name = p.name /\ r \in f.rows BY <1>9, <3>2
    <3>4. ASSUME NEW g \in N, r \in g.rows PROVE g = f
      <4>1. PICK q \in P : q.name = g.name /\ q.rows = g.rows BY <1>3
      <4>2. q = p BY <1>2, <3>1, <3>4, <4>1 DEF P
      <4> QED BY <1>4, <3>3, <4>1, <4>2
    <3>5. {g \in N : r \in g.rows} = {f} BY <3>3, <3>4
    <3> QED BY <2>1, <3>5, FS_Singleton
  <2>2. CASE r.unit # cur
    <3>1. {f \in N : r \in f.rows} = {} BY <2>2, <1>3, <1>5
    <3> QED BY <2>2, <3>1, FS_EmptySet
  <2> QED BY <2>1, <2>2
<1> QED BY <1>13 DEF Whole, N

-----------------------------------------------------------------------------
(* Type correctness *)

\* d is what transaction x makes of the database.
Leaves(x, d) ==
  /\ d \in DatabaseType
  /\ \A t \in Table : /\ d.rows[t] \in Bag(t)
                      /\ d.rows[t] = [r \in AllRows(t) |->
                           IF t \in x.clears THEN x.adds[t][r] ELSE db.rows[t][r] + x.adds[t][r]]
  /\ d.receipts = IF x.receipt = NoUnit THEN db.receipts ELSE db.receipts \cup {x.receipt}
  /\ d.state = IF x.receipt = NoUnit THEN db.state ELSE x.receipt
  /\ d.cleared = db.cleared \cup {<<cur.load, t>> : t \in x.cleared}
  /\ d.columns = db.columns

\* What a committed transaction leaves is a database.
LEMMA CommitOK ==
  ASSUME TypeInv, cur \in Unit, NEW x, TxOK(x) PROVE Leaves(x, Commit(db, x))
<1> DEFINE d == Commit(db, x)
           rows == [t \in Table |-> [r \in AllRows(t) |->
                      IF t \in x.clears THEN x.adds[t][r] ELSE db.rows[t][r] + x.adds[t][r]]]
           cleared == {<<cur.load, t>> : t \in x.cleared}
           receipts == IF x.receipt = NoUnit THEN db.receipts ELSE db.receipts \cup {x.receipt}
           state == IF x.receipt = NoUnit THEN db.state ELSE x.receipt
<1>1. \A t \in Table : x.adds[t] \in Bag(t) /\ db.rows[t] \in Bag(t)
  BY DEF TypeInv, TxOK, DbOK
<1>2. ASSUME NEW t \in Table PROVE rows[t] \in Bag(t) /\ rows[t] \in Bags
  <2>1. rows[t] \in Bag(t) BY <1>1 DEF Bag
  <2> QED BY <2>1, NoTxOK
<1>3. rows \in [Table -> Bags] BY <1>2
<1>4. cleared \subseteq (1 .. MaxLoad) \X Table BY DEF TxOK, Unit
<1>5. receipts \subseteq Unit /\ state \in Unit \cup {NoUnit}
  BY DEF TypeInv, DbOK, DatabaseType, TxOK
<1>6. d = [db EXCEPT !.rows = rows, !.cleared = db.cleared \cup cleared, !.receipts = receipts,
                     !.state = state]
  BY DEF Commit
<1>7. \A t \in Table : rows[t] = [r \in AllRows(t) |->
        IF t \in x.clears THEN x.adds[t][r] ELSE db.rows[t][r] + x.adds[t][r]]
  OBVIOUS
<1>8. db \in DatabaseType BY DEF TypeInv, DbOK
<1> HIDE DEF d, rows, cleared, receipts, state
<1>9. /\ d.rows = rows /\ d.cleared = db.cleared \cup cleared /\ d.receipts = receipts
      /\ d.state = state /\ d.columns = db.columns
      /\ d \in DatabaseType
  BY <1>3, <1>4, <1>5, <1>6, <1>8 DEF DatabaseType
<1>10. d.receipts = IF x.receipt = NoUnit THEN db.receipts ELSE db.receipts \cup {x.receipt}
  BY <1>9 DEF receipts
<1>11. d.state = IF x.receipt = NoUnit THEN db.state ELSE x.receipt BY <1>9 DEF state
<1>12. d.cleared = db.cleared \cup {<<cur.load, t>> : t \in x.cleared} BY <1>9 DEF cleared
<1>13. ASSUME NEW t \in Table
       PROVE  /\ d.rows[t] \in Bag(t)
              /\ d.rows[t] = [r \in AllRows(t) |->
                   IF t \in x.clears THEN x.adds[t][r] ELSE db.rows[t][r] + x.adds[t][r]]
  BY <1>2, <1>7, <1>9
<1>14. Leaves(x, d) BY <1>9, <1>10, <1>11, <1>12, <1>13 DEF Leaves
<1> QED BY <1>14 DEF d

\* To commit an empty transaction, as DDL does, changes nothing.
LEMMA CommitNothing == ASSUME TypeInv, cur \in Unit PROVE Commit(db, NoTx) = db
<1>1. PICK d : d = Commit(db, NoTx) /\ Leaves(NoTx, d)
  <2>1. TxOK(NoTx) BY NoTxOK
  <2> QED BY <2>1, CommitOK
<1>2. /\ d \in DatabaseType
      /\ \A t \in Table : d.rows[t] = [r \in AllRows(t) |->
            IF t \in NoTx.clears THEN NoTx.adds[t][r] ELSE db.rows[t][r] + NoTx.adds[t][r]]
      /\ d.receipts = db.receipts /\ d.state = db.state /\ d.columns = db.columns
      /\ d.cleared = db.cleared \cup {<<cur.load, t>> : t \in NoTx.cleared}
  BY <1>1, NoTxOK DEF Leaves
<1>3. ASSUME NEW t \in Table PROVE d.rows[t] = db.rows[t]
  <2>1. db.rows[t] \in Bag(t) BY DEF TypeInv, DbOK
  <2>2. \A r \in AllRows(t) : NoTx.adds[t][r] = 0 BY NoTxOK DEF NoRows
  <2>3. d.rows[t] = [r \in AllRows(t) |-> db.rows[t][r] + NoTx.adds[t][r]] BY <1>2, NoTxOK
  <2> QED BY <2>1, <2>2, <2>3 DEF Bag
<1>4. db \in DatabaseType BY DEF TypeInv, DbOK
<1>5. d.rows = db.rows BY <1>2, <1>3, <1>4 DEF DatabaseType
<1>6. d.cleared = db.cleared BY <1>2, NoTxOK
<1> QED BY <1>1, <1>2, <1>4, <1>5, <1>6 DEF DatabaseType

\* What the invariant says of the types, ready to cite.
LEMMA Types ==
  ASSUME SnowAssumption, TypeInv
  PROVE  /\ MemoryOK(load) /\ FilesOK(remote) /\ TxOK(tx) /\ TxOK(zombie) /\ db \in DatabaseType
         /\ load.clearedInUnit = tx.cleared /\ sent \in [Table -> Nat]
         /\ pc # "none" => cur \in Unit
         /\ load.cleared \subseteq Table /\ load.clearedInUnit \subseteq Table
         /\ load.reclearOwed \subseteq Table /\ load.singleUnitDone \subseteq Table
         /\ load.tables \in [Table -> 0 .. MaxVersion] /\ db.columns \in [Table -> 0 .. MaxVersion]
<1>1. MemoryOK(load) /\ FilesOK(remote) /\ TxOK(tx) /\ TxOK(zombie) /\ db \in DatabaseType
  BY DEF TypeInv, DbOK
<1>2. load.clearedInUnit = tx.cleared /\ sent \in [Table -> Nat] /\ (pc # "none" => cur \in Unit)
  BY DEF TypeInv, Control
<1>3. /\ load.cleared \subseteq Table /\ load.clearedInUnit \subseteq Table
      /\ load.reclearOwed \subseteq Table /\ load.singleUnitDone \subseteq Table
      /\ load.tables \in [Table -> 0 .. MaxVersion]
  BY <1>1 DEF MemoryOK
<1>4. db.columns \in [Table -> 0 .. MaxVersion] BY <1>1 DEF DatabaseType
<1> QED BY <1>1, <1>2, <1>3, <1>4

MoreClears(x, T, y) ==
  /\ TxOK(y) /\ y.open = TRUE /\ y.clears = x.clears \cup T /\ y.cleared = x.cleared \cup T
  /\ y.adds = x.adds /\ y.receipt = x.receipt

\* A transaction with more clears is one.
LEMMA ClearsOK ==
  ASSUME NEW x, TxOK(x), NEW T \in SUBSET Table PROVE MoreClears(x, T, WithClears(x, T))
<1> DEFINE y == WithClears(x, T)
<1>1. y = [x EXCEPT !.open = TRUE, !.clears = x.clears \cup T, !.cleared = x.cleared \cup T]
  BY DEF WithClears, TxOK
<1> HIDE DEF y
<1>2. MoreClears(x, T, y) BY <1>1 DEF TxOK, MoreClears
<1> QED BY <1>2 DEF y

\* A memory without its staged parts is one.
LEMMA DiscardedOK ==
  ASSUME NEW l, MemoryOK(l), NEW n, n = Discarded(l)
  PROVE  /\ MemoryOK(n) /\ n.open = Fresh.open /\ n.pending = Fresh.pending
         /\ SameGuards(l, n)
<1>1. /\ Fresh.open = [t \in Table |-> NoPart] /\ Fresh.pending = [t \in Table |-> NoParts]
  BY DEF Fresh
<1>2. /\ NoPart \in [rows : SUBSET AnyRow, version : Nat] /\ NoPart.rows = {}
      /\ NoParts \in [columns : Nat, parts : SUBSET [name : Name, rows : SUBSET AnyRow]]
      /\ NoParts.parts = {}
  BY DEF NoPart, NoParts
<1>3. /\ Fresh.open \in [Table -> [rows : SUBSET AnyRow, version : Nat]]
      /\ Fresh.pending \in [Table -> [columns : Nat, parts : SUBSET [name : Name, rows : SUBSET AnyRow]]]
      /\ \A t \in Table : Fresh.open[t].rows = {} /\ Fresh.pending[t].parts = {}
  BY <1>1, <1>2
<1>4. PICK o, p : o = Fresh.open /\ p = Fresh.pending OBVIOUS
<1>5. n = [l EXCEPT !.open = o, !.pending = p] BY <1>4 DEF Discarded
<1>6. n.open = o /\ n.pending = p /\ SameGuards(l, n) BY <1>5 DEF MemoryOK, SameGuards
<1>7. MemoryOK(n) BY <1>3, <1>4, <1>5 DEF MemoryOK
<1> QED BY <1>4, <1>6, <1>7

\* The memory of a session that has just begun.
LEMMA FreshOK ==
  ASSUME SnowAssumption
  PROVE  /\ MemoryOK(Fresh) /\ Fresh.cleared = {} /\ Fresh.clearedInUnit = {}
         /\ Fresh.reclearOwed = {} /\ Fresh.tables = [t \in Table |-> 0]
<1>1. /\ Fresh.tables = [t \in Table |-> 0] /\ Fresh.cleared = {} /\ Fresh.clearedInUnit = {}
      /\ Fresh.reclearOwed = {} /\ Fresh.singleUnitDone = {} /\ Fresh.nextPart = 0
      /\ Fresh.open = [t \in Table |-> NoPart] /\ Fresh.pending = [t \in Table |-> NoParts]
      /\ Fresh = [tables |-> Fresh.tables, cleared |-> Fresh.cleared,
                  clearedInUnit |-> Fresh.clearedInUnit, reclearOwed |-> Fresh.reclearOwed,
                  open |-> Fresh.open, pending |-> Fresh.pending,
                  nextPart |-> Fresh.nextPart, singleUnitDone |-> Fresh.singleUnitDone]
  BY DEF Fresh
<1>2. Fresh.tables \in [Table -> 0 .. MaxVersion] BY <1>1 DEF SnowAssumption
<1>3. /\ NoPart \in [rows : SUBSET AnyRow, version : Nat] /\ NoPart.rows = {}
      /\ NoParts \in [columns : Nat, parts : SUBSET [name : Name, rows : SUBSET AnyRow]]
      /\ NoParts.parts = {}
  BY DEF NoPart, NoParts
<1>4. /\ Fresh.open \in [Table -> [rows : SUBSET AnyRow, version : Nat]]
      /\ Fresh.pending \in [Table -> [columns : Nat, parts : SUBSET [name : Name, rows : SUBSET AnyRow]]]
      /\ \A t \in Table : Fresh.open[t].rows = {} /\ Fresh.pending[t].parts = {}
  BY <1>1, <1>3
<1>5. MemoryOK(Fresh) BY <1>1, <1>2, <1>4 DEF MemoryOK
<1> QED BY <1>1, <1>5

\* What removing files leaves is a stage.
LEMMA FewerFiles ==
  ASSUME FilesOK(remote), NEW S, S \subseteq remote PROVE FilesOK(S)
BY DEF FilesOK

\* What ensure_table changes: one more column perhaps, and then the unit's clears
\* are owed.
LEMMA EnsureEffect ==
  ASSUME SnowAssumption, TypeInv, NEW t \in Table, NEW v \in Versions(t), EnsureTable(t, v)
  PROVE  /\ db' \in DatabaseType /\ db'.rows = db.rows /\ db'.receipts = db.receipts
         /\ db'.cleared = db.cleared /\ db'.state = db.state
         /\ \A x \in Table : db.columns[x] <= db'.columns[x] /\ load'.tables[x] <= db'.columns[x]
                             /\ load.tables[x] <= load'.tables[x]
         /\ MemoryOK(load') /\ load'.open = load.open /\ load'.pending = load.pending
         /\ load'.nextPart = load.nextPart /\ load'.cleared = load.cleared
         /\ load'.singleUnitDone = load.singleUnitDone
         /\ \/ /\ tx' = NoTx /\ load'.clearedInUnit = {}
               /\ load'.reclearOwed = load.reclearOwed \cup load.clearedInUnit
            \/ /\ tx' = tx /\ load'.clearedInUnit = load.clearedInUnit
               /\ load'.reclearOwed = load.reclearOwed
<1>1. /\ pc = "loading" /\ v > load.tables[t] /\ cur \in Unit /\ MemoryOK(load)
      /\ db \in DatabaseType /\ (~tx.open => tx = NoTx) /\ load.clearedInUnit = tx.cleared
      /\ \A x \in Table : load.tables[x] <= db.columns[x]
      /\ load.tables \in [Table -> 0 .. MaxVersion] /\ db.columns \in [Table -> 0 .. MaxVersion]
      /\ load.clearedInUnit \subseteq Table /\ load.reclearOwed \subseteq Table
  BY Types DEF EnsureTable, TypeInv, Control
<1>2. v \in 0 .. MaxVersion BY <1>1 DEF Versions, SnowAssumption
<1>3. PICK T : T = [load.tables EXCEPT ![t] = v] OBVIOUS
<1>4. /\ T \in [Table -> 0 .. MaxVersion] /\ T[t] = v
      /\ \A x \in Table : load.tables[x] <= T[x] /\ (x # t => T[x] = load.tables[x])
  BY <1>1, <1>2, <1>3 DEF SnowAssumption
<1>5. CASE v > db.columns[t]
  <2>1. load' = [EndUnitForDdl EXCEPT !.tables[t] = v] /\ tx' = NoTx
        /\ db' = [db EXCEPT !.columns[t] = v]
    BY <1>1, <1>5, CommitNothing DEF EnsureTable, TxAtDdl
  <2>2. PICK e, c, o : e = EndUnitForDdl /\ MemoryOK(e) /\ e.tables = load.tables
              /\ c = {} /\ o = load.reclearOwed \cup load.clearedInUnit
              /\ e = [load EXCEPT !.reclearOwed = o, !.clearedInUnit = c]
    <3>1. CASE tx.open
      <4>1. PICK c, o : c = {} /\ o = load.reclearOwed \cup load.clearedInUnit OBVIOUS
      <4>2. EndUnitForDdl = [load EXCEPT !.reclearOwed = o, !.clearedInUnit = c]
        BY <1>1, <3>1, <4>1 DEF EndUnitForDdl, MemoryOK
      <4>3. c \in SUBSET Table /\ o \in SUBSET Table BY <1>1, <4>1
      <4>4. MemoryOK([load EXCEPT !.reclearOwed = o, !.clearedInUnit = c])
        BY <1>1, <4>3 DEF MemoryOK
      <4>5. [load EXCEPT !.reclearOwed = o, !.clearedInUnit = c].tables = load.tables
        BY <1>1 DEF MemoryOK
      <4> QED BY <4>1, <4>2, <4>4, <4>5
    <3>2. CASE ~tx.open
      <4>1. load.clearedInUnit = {} BY <1>1, <3>2, NoTxOK
      <4>2. PICK c, o : c = load.clearedInUnit /\ o = load.reclearOwed OBVIOUS
      <4>3. load = [load EXCEPT !.reclearOwed = o, !.clearedInUnit = c] BY <1>1, <4>2 DEF MemoryOK
      <4>4. EndUnitForDdl = load BY <3>2 DEF EndUnitForDdl
      <4>5. c = {} /\ o = load.reclearOwed \cup load.clearedInUnit BY <4>1, <4>2
      <4> QED BY <1>1, <4>3, <4>4, <4>5
    <3> QED BY <3>1, <3>2
  <2>3. load' = [load EXCEPT !.reclearOwed = o, !.clearedInUnit = c, !.tables = T]
    <3>1. load' = [e EXCEPT !.tables = T] BY <1>3, <2>1, <2>2 DEF MemoryOK
    <3> QED BY <1>1, <2>2, <3>1 DEF MemoryOK
  <2>4. c \in SUBSET Table /\ o \in SUBSET Table BY <1>1, <2>2
  <2>5. MemoryOK(load') BY <1>1, <1>4, <2>3, <2>4 DEF MemoryOK
  <2>6. /\ load'.open = load.open /\ load'.pending = load.pending
        /\ load'.nextPart = load.nextPart /\ load'.cleared = load.cleared
        /\ load'.singleUnitDone = load.singleUnitDone /\ load'.tables = T
        /\ load'.clearedInUnit = c /\ load'.reclearOwed = o
    BY <1>1, <2>3 DEF MemoryOK
  <2>7. PICK K : K = [db.columns EXCEPT ![t] = v] OBVIOUS
  <2>8. K \in [Table -> 0 .. MaxVersion] /\ K[t] = v /\ \A x \in Table : x # t => K[x] = db.columns[x]
    BY <1>1, <1>2, <2>7
  <2>9. db' = [db EXCEPT !.columns = K] BY <1>1, <2>1, <2>7 DEF DatabaseType
  <2>10. /\ db' \in DatabaseType /\ db'.rows = db.rows /\ db'.receipts = db.receipts
         /\ db'.cleared = db.cleared /\ db'.state = db.state /\ db'.columns = K
    BY <1>1, <2>8, <2>9 DEF DatabaseType
  <2>11. \A x \in Table : db.columns[x] <= K[x] /\ T[x] <= K[x]
    BY <1>1, <1>2, <1>4, <1>5, <2>8 DEF SnowAssumption
  <2> QED BY <1>4, <2>1, <2>2, <2>5, <2>6, <2>10, <2>11
<1>6. CASE ~(v > db.columns[t])
  <2>1. load' = [load EXCEPT !.tables = T] /\ tx' = tx /\ db' = db
    BY <1>1, <1>3, <1>6 DEF EnsureTable, MemoryOK
  <2>2. MemoryOK(load') BY <1>1, <1>4, <2>1 DEF MemoryOK
  <2>3. /\ load'.open = load.open /\ load'.pending = load.pending
        /\ load'.nextPart = load.nextPart /\ load'.cleared = load.cleared
        /\ load'.singleUnitDone = load.singleUnitDone /\ load'.tables = T
        /\ load'.clearedInUnit = load.clearedInUnit /\ load'.reclearOwed = load.reclearOwed
    BY <1>1, <2>1 DEF MemoryOK
  <2>4. \A x \in Table : db.columns[x] <= db.columns[x] /\ T[x] <= db.columns[x]
    BY <1>1, <1>2, <1>4, <1>6 DEF SnowAssumption
  <2> QED BY <1>1, <1>4, <2>1, <2>2, <2>3, <2>4
<1> QED BY <1>5, <1>6

\* The initial state is well typed.
LEMMA TypeInit == ASSUME SnowAssumption, Init PROVE TypeInv
<1>1. /\ db = [rows |-> NoRows, receipts |-> {}, cleared |-> {}, state |-> NoUnit,
               columns |-> [t \in Table |-> 0]]
      /\ zombie = NoTx /\ remote = {} /\ cur = [load |-> 1, seq |-> 1] /\ acked = {} /\ deaths = 0
      /\ narrowed = FALSE /\ pc = "none" /\ sent = [t \in Table |-> 0] /\ tx = NoTx /\ load = Fresh
  BY DEF Init
<1>2. [t \in Table |-> 0] \in [Table -> 0 .. MaxVersion] BY DEF SnowAssumption
<1>3. DbOK BY <1>1, <1>2, NoTxOK DEF DbOK, DatabaseType
<1>4. TxOK(tx) /\ TxOK(zombie) /\ ~tx.open /\ ~zombie.open /\ tx.cleared = {} /\ tx.receipt = NoUnit
  BY <1>1, NoTxOK
<1>5. FilesOK(remote) BY <1>1 DEF FilesOK
<1>6. MemoryOK(load) /\ load.tables = [t \in Table |-> 0] /\ load.clearedInUnit = {}
  BY <1>1, FreshOK
<1>7. Engine BY <1>1 DEF Engine, Unit, SnowAssumption
<1>8. Control BY <1>1, <1>4, <1>6 DEF Control, Publishing
<1>9. \A t \in Table : load.tables[t] <= db.columns[t] BY <1>1, <1>6
<1>10. sent \in [Table -> Nat] /\ narrowed \in BOOLEAN BY <1>1
<1> QED BY <1>3, <1>4, <1>5, <1>6, <1>7, <1>8, <1>9, <1>10 DEF TypeInv

\* A session begins, and a table is ensured.
LEMMA TypeBegin ==
  ASSUME SnowAssumption, Inv,
         OpenSession \/ \E t \in Table : \E v \in Versions(t) : EnsureTable(t, v)
  PROVE  TypeInv'
<1>0. TypeInv BY DEF Inv
<1>1. CASE OpenSession
  <2>1. /\ pc = "none" /\ cur \in Unit /\ pc' = "loading" /\ remote' \in {remote, {}}
        /\ load' = [Fresh EXCEPT !.cleared = {t \in Table : <<cur.load, t>> \in db.cleared}]
        /\ db' = db /\ zombie' = zombie /\ cur' = cur /\ acked' = acked /\ deaths' = deaths
        /\ narrowed' = narrowed /\ sent' = sent /\ tx' = tx
    BY <1>1 DEF OpenSession, engineVars
  <2>2. PICK S \in SUBSET Table : S = {t \in Table : <<cur.load, t>> \in db.cleared} OBVIOUS
  <2>3. load' = [Fresh EXCEPT !.cleared = S] BY <2>1, <2>2
  <2>4. MemoryOK(load') BY <2>3, FreshOK DEF MemoryOK
  <2>5. /\ load'.tables = [t \in Table |-> 0] /\ load'.clearedInUnit = {} /\ load'.reclearOwed = {}
    <3>1. load'.tables = Fresh.tables /\ load'.clearedInUnit = Fresh.clearedInUnit
          /\ load'.reclearOwed = Fresh.reclearOwed
      BY <2>3, FreshOK DEF MemoryOK
    <3> QED BY <3>1, FreshOK
  <2>6. FilesOK(remote') BY <1>0, <2>1, FewerFiles DEF TypeInv
  <2>7. tx = NoTx /\ tx.cleared = {} /\ tx.receipt = NoUnit /\ ~tx.open
    BY <1>0, <2>1, NoTxOK DEF TypeInv, Control
  <2>8. Control' BY <1>0, <2>1, <2>5, <2>7 DEF TypeInv, Control, Publishing
  <2>9. \A t \in Table : load'.tables[t] <= db'.columns[t]
    <3>1. \A t \in Table : db.columns[t] \in Nat BY <1>0, Types DEF SnowAssumption
    <3> QED BY <2>1, <2>5, <3>1
  <2>10. DbOK' /\ Engine' BY <1>0, <2>1 DEF TypeInv, DbOK, Engine
  <2> QED BY <1>0, <2>1, <2>4, <2>6, <2>8, <2>9, <2>10 DEF TypeInv
<1>2. ASSUME NEW t \in Table, NEW v \in Versions(t), EnsureTable(t, v) PROVE TypeInv'
  <2>1. /\ pc = "loading" /\ pc' = pc /\ zombie' = zombie /\ remote' = remote /\ cur' = cur
        /\ acked' = acked /\ deaths' = deaths /\ narrowed' = narrowed /\ sent' = sent
    BY <1>2 DEF EnsureTable, engineVars
  <2>2. /\ db' \in DatabaseType /\ db'.rows = db.rows /\ MemoryOK(load')
        /\ \A x \in Table : load'.tables[x] <= db'.columns[x]
        /\ \/ tx' = NoTx /\ load'.clearedInUnit = {}
           \/ tx' = tx /\ load'.clearedInUnit = load.clearedInUnit
    BY <1>0, <1>2, EnsureEffect
  <2>3. DbOK' BY <1>0, <2>2 DEF TypeInv, DbOK
  <2>4. TxOK(tx') BY <1>0, <2>2, NoTxOK DEF TypeInv
  <2>5. Control' BY <1>0, <2>1, <2>2, NoTxOK DEF TypeInv, Control, Publishing
  <2>6. Engine' BY <1>0, <2>1 DEF TypeInv, Engine
  <2> QED BY <1>0, <2>1, <2>2, <2>3, <2>4, <2>5, <2>6 DEF TypeInv
<1> QED BY <1>1, <1>2

\* The unit's rows are written, and its open parts closed.
LEMMA TypeWrite ==
  ASSUME SnowAssumption, Inv, CloseAll \/ \E t \in Table : Write(t) PROVE TypeInv'
<1>0. TypeInv /\ PartsInv BY DEF Inv, UnitInv
<1>1. ASSUME NEW t \in Table, Write(t) PROVE TypeInv'
  <2>1. /\ pc = "loading" /\ pc' = pc /\ zombie' = zombie /\ db' = db /\ cur' = cur
        /\ acked' = acked /\ deaths' = deaths /\ narrowed' = narrowed
        /\ sent' = [sent EXCEPT ![t] = @ + 1]
    BY <1>1 DEF Write, engineVars
  <2>2. /\ MemoryOK(load') /\ FilesOK(remote') /\ load'.tables = load.tables
        /\ load'.clearedInUnit = load.clearedInUnit \cup WriteClears(t)
        /\ tx' = WithClears(tx, WriteClears(t))
    BY <1>0, <1>1, WriteKeeps
  <2>3. WriteClears(t) \in SUBSET Table BY <1>0, Types DEF WriteClears
  <2>4. /\ TxOK(tx') /\ tx'.open = TRUE /\ tx'.cleared = tx.cleared \cup WriteClears(t)
        /\ tx'.receipt = tx.receipt
    BY <1>0, <2>2, <2>3, ClearsOK DEF TypeInv, MoreClears
  <2>5. Control' BY <1>0, <2>1, <2>2, <2>4 DEF TypeInv, Control, Publishing
  <2>6. sent' \in [Table -> Nat] BY <1>0, <2>1 DEF TypeInv
  <2>7. DbOK' /\ Engine' BY <1>0, <2>1 DEF TypeInv, DbOK, Engine
  <2> QED BY <1>0, <2>1, <2>2, <2>4, <2>5, <2>6, <2>7 DEF TypeInv
<1>2. CASE CloseAll
  <2>1. /\ pc = "publish" /\ pc' = "copy" /\ zombie' = zombie /\ db' = db /\ cur' = cur
        /\ acked' = acked /\ deaths' = deaths /\ narrowed' = narrowed /\ sent' = sent /\ tx' = tx
    BY <1>2 DEF CloseAll, engineVars
  <2>2. /\ MemoryOK(load') /\ FilesOK(remote') /\ load'.tables = load.tables
        /\ load'.clearedInUnit = load.clearedInUnit /\ load'.reclearOwed = load.reclearOwed
    BY <1>0, <1>2, CloseAllKeeps
  <2>3. Control' BY <1>0, <2>1, <2>2 DEF TypeInv, Control, Publishing
  <2>4. DbOK' /\ Engine' BY <1>0, <2>1 DEF TypeInv, DbOK, Engine
  <2> QED BY <1>0, <2>1, <2>2, <2>3, <2>4 DEF TypeInv
<1> QED BY <1>1, <1>2

\* The transaction that holds the copied rows of the unit.
LEMMA LoadPartsEffect ==
  ASSUME SnowAssumption, Inv, LoadParts
  PROVE  /\ TxOK(tx') /\ \A t \in Table : tx'.adds[t] = Whole(t, cur)
         /\ tx'.open = tx.open /\ tx'.clears = tx.clears /\ tx'.cleared = tx.cleared
         /\ tx'.receipt = tx.receipt
         /\ MemoryOK(load') /\ load'.open = load.open /\ load'.pending = Fresh.pending
         /\ SameGuards(load, load')
<1>0. TypeInv /\ PartsInv BY DEF Inv, UnitInv
<1>1. TxOK(tx) /\ MemoryOK(load) BY <1>0 DEF TypeInv
<1> DEFINE adds == [t \in Table |-> [r \in AllRows(t) |->
                      Cardinality({f \in Named(t) : r \in f.rows})]]
<1>2. /\ pc = "copy" /\ \A t \in Table : Loaded(t) = Written(t)
      /\ tx' = [tx EXCEPT !.adds = adds] /\ load' = [load EXCEPT !.pending = Fresh.pending]
  BY DEF LoadParts
<1>3. \A t \in Table : adds[t] = Whole(t, cur) BY <1>0, <1>2, LoadExact
<1>4. adds = [t \in Table |-> adds[t]] OBVIOUS
<1> HIDE DEF adds
<1>5. \A t \in Table : adds[t] \in Bag(t) /\ adds[t] \in Bags
  <2>1. \A t \in Table : Whole(t, cur) \in Bag(t) BY DEF Whole, Bag
  <2> QED BY <1>3, <2>1, NoTxOK
<1>6. adds \in [Table -> Bags] BY <1>4, <1>5
<1>7. TxOK(tx') /\ tx'.adds = adds /\ tx'.open = tx.open /\ tx'.clears = tx.clears
      /\ tx'.cleared = tx.cleared /\ tx'.receipt = tx.receipt
  BY <1>1, <1>2, <1>5, <1>6 DEF TxOK
<1>8. PICK p : p = Fresh.pending OBVIOUS
<1>9. load' = [load EXCEPT !.pending = p] BY <1>2, <1>8
<1>10. /\ p \in [Table -> [columns : Nat, parts : SUBSET [name : Name, rows : SUBSET AnyRow]]]
       /\ \A t \in Table : p[t].parts = {}
  BY <1>8 DEF Fresh, NoParts
<1>11. /\ MemoryOK(load') /\ load'.open = load.open /\ load'.pending = p
       /\ SameGuards(load, load')
  BY <1>1, <1>9, <1>10 DEF MemoryOK, SameGuards
<1> QED BY <1>3, <1>7, <1>8, <1>11

\* The unit is probed for, copied and scripted.
LEMMA TypePublish ==
  ASSUME SnowAssumption, Prompt, Inv, ProbeFresh \/ LoadParts \/ RunScript PROVE TypeInv'
<1>0. TypeInv BY DEF Inv
<1>1. CASE ProbeFresh
  <2>1. /\ pc = "loading" /\ pc' = "publish" /\ ~zombie.open /\ zombie' = zombie /\ db' = db
        /\ cur' = cur /\ acked' = acked /\ deaths' = deaths /\ narrowed' = narrowed
        /\ sent' = sent /\ remote' = remote
        /\ tx' = WithClears(tx, load.reclearOwed) /\ load' = Cleared(load, load.reclearOwed)
    BY <1>1 DEF ProbeFresh, engineVars, serverVars
  <2>2. load.reclearOwed \in SUBSET Table /\ MemoryOK(load) /\ TxOK(tx) BY <1>0, Types
  <2>3. /\ TxOK(tx') /\ tx'.open = TRUE /\ tx'.cleared = tx.cleared \cup load.reclearOwed
        /\ tx'.receipt = tx.receipt
    BY <2>1, <2>2, ClearsOK DEF MoreClears
  <2>4. /\ MemoryOK(load') /\ load'.tables = load.tables
        /\ load'.clearedInUnit = load.clearedInUnit \cup load.reclearOwed /\ load'.reclearOwed = {}
    <3>1. PICK c \in SUBSET Table : c = load.clearedInUnit \cup load.reclearOwed
      BY <2>2, <1>0, Types
    <3>2. load' = [load EXCEPT !.reclearOwed = {}, !.clearedInUnit = c]
      BY <2>1, <2>2, <3>1 DEF Cleared, MemoryOK
    <3> QED BY <2>2, <3>1, <3>2 DEF MemoryOK
  <2>5. Control' BY <1>0, <2>1, <2>3, <2>4 DEF TypeInv, Control, Publishing
  <2>6. DbOK' /\ Engine' BY <1>0, <2>1 DEF TypeInv, DbOK, Engine
  <2> QED BY <1>0, <2>1, <2>3, <2>4, <2>5, <2>6 DEF TypeInv
<1>2. CASE LoadParts
  <2>1. /\ pc = "copy" /\ pc' = "script" /\ zombie' = zombie /\ db' = db /\ narrowed' \in BOOLEAN
        /\ cur' = cur /\ acked' = acked /\ deaths' = deaths /\ sent' = sent /\ remote' = remote
    BY <1>0, <1>2 DEF LoadParts, engineVars, serverVars, TypeInv
  <2>2. /\ TxOK(tx') /\ tx'.open = tx.open /\ tx'.cleared = tx.cleared /\ tx'.receipt = tx.receipt
        /\ MemoryOK(load') /\ load'.tables = load.tables /\ load'.reclearOwed = load.reclearOwed
        /\ load'.clearedInUnit = load.clearedInUnit
    BY <1>2, LoadPartsEffect DEF SameGuards
  <2>3. Control' BY <1>0, <2>1, <2>2 DEF TypeInv, Control, Publishing
  <2>4. DbOK' /\ Engine' BY <1>0, <2>1 DEF TypeInv, DbOK, Engine
  <2> QED BY <1>0, <2>1, <2>2, <2>3, <2>4 DEF TypeInv
<1>3. CASE RunScript
  <2>1. /\ pc = "script" /\ pc' = "commit" /\ zombie' = zombie /\ db' = db /\ narrowed' = narrowed
        /\ cur' = cur /\ acked' = acked /\ deaths' = deaths /\ sent' = sent /\ remote' = remote
        /\ load' = load /\ ~zombie.open
        /\ tx' = [tx EXCEPT !.clears = @ \cup StagedNonempty, !.receipt = cur]
    BY <1>3 DEF RunScript, engineVars, serverVars
  <2>2. PICK S \in SUBSET Table : S = StagedNonempty BY DEF StagedNonempty
  <2>3. TxOK(tx) /\ cur \in Unit BY <1>0, <2>1 DEF TypeInv, Control
  <2>4. tx' = [tx EXCEPT !.clears = tx.clears \cup S, !.receipt = cur] BY <2>1, <2>2, <2>3 DEF TxOK
  <2>5. /\ TxOK(tx') /\ tx'.open = tx.open /\ tx'.cleared = tx.cleared /\ tx'.receipt = cur
    BY <2>3, <2>4 DEF TxOK
  <2>6. Control' BY <1>0, <2>1, <2>5 DEF TypeInv, Control, Publishing
  <2>7. DbOK' /\ Engine' BY <1>0, <2>1 DEF TypeInv, DbOK, Engine
  <2> QED BY <1>0, <2>1, <2>5, <2>6, <2>7 DEF TypeInv
<1> QED BY <1>1, <1>2, <1>3

\* A unit that ends in the session, committed or not: its transaction is gone and
\* so are its parts.
LEMMA TypeOver ==
  ASSUME SnowAssumption, Inv, Replay \/ CommitTx \/ FailUnit,
         FailUnit => /\ UNCHANGED <<cur, acked>> /\ deaths' \in 0 .. MaxDeaths
                     /\ pc \in {"copy", "script"}
  PROVE  TypeInv'
<1>0. TypeInv /\ MemoryOK(load) /\ FilesOK(remote) /\ TxOK(tx) BY Types DEF Inv
<1>1. CASE Replay
  <2>1. /\ pc = "loading" /\ pc' = "answered" /\ cur \in db.receipts /\ zombie' = zombie /\ db' = db
        /\ cur' = cur /\ acked' = acked /\ deaths' = deaths /\ narrowed' = narrowed
        /\ sent' = sent /\ remote' = WithoutLoad(cur.load) /\ tx' = NoTx
    BY <1>1 DEF Replay, engineVars
  <2>2. PICK c, e, o : /\ c = load.cleared \cup load.clearedInUnit \cup load.reclearOwed
                       /\ e = {} /\ o = {}
    OBVIOUS
  <2>3. PICK l : l = [load EXCEPT !.cleared = c, !.clearedInUnit = e, !.reclearOwed = o] OBVIOUS
  <2>4. load' = Discarded(l) BY <1>0, <1>1, <2>2, <2>3 DEF Replay, MemoryOK
  <2>5. c \in SUBSET Table /\ e \in SUBSET Table /\ o \in SUBSET Table BY <1>0, <2>2, Types
  <2>6. MemoryOK(l) /\ l.tables = load.tables /\ l.clearedInUnit = e /\ l.reclearOwed = o
    BY <1>0, <2>3, <2>5 DEF MemoryOK
  <2>7. MemoryOK(load') /\ load'.tables = load.tables /\ load'.clearedInUnit = {}
        /\ load'.reclearOwed = {}
    BY <2>2, <2>4, <2>6, DiscardedOK DEF SameGuards
  <2>8. ~zombie.open BY <2>1 DEF Inv, UnitInv, OrderInv, TxReady
  <2>9. Control' BY <1>0, <2>1, <2>7, <2>8, NoTxOK DEF TypeInv, Control, Publishing
  <2>10. FilesOK(remote') BY <1>0, <2>1, FewerFiles DEF WithoutLoad
  <2>11. DbOK' /\ Engine' BY <1>0, <2>1 DEF TypeInv, DbOK, Engine
  <2>12. TxOK(tx') BY <2>1, NoTxOK
  <2> QED BY <1>0, <2>1, <2>7, <2>9, <2>10, <2>11, <2>12 DEF TypeInv
<1>2. CASE CommitTx
  <2>1. /\ pc = "commit" /\ pc' = "answered" /\ zombie' = zombie /\ db' = Commit(db, tx)
        /\ cur' = cur /\ acked' = acked /\ deaths' = deaths /\ narrowed' = narrowed
        /\ sent' = sent /\ remote' = WithoutLoad(cur.load) /\ tx' = NoTx
    BY <1>2 DEF CommitTx, engineVars
  <2>2. PICK c, e, s : /\ c = load.cleared \cup load.clearedInUnit /\ e = {}
                       /\ s = load.singleUnitDone \cup StagedNonempty
    OBVIOUS
  <2>3. PICK l : l = [load EXCEPT !.singleUnitDone = s, !.cleared = c, !.clearedInUnit = e] OBVIOUS
  <2>4. load' = Discarded(l) BY <1>0, <1>2, <2>2, <2>3 DEF CommitTx, MemoryOK
  <2>5. c \in SUBSET Table /\ e \in SUBSET Table /\ s \in SUBSET Table
    BY <1>0, <2>2, Types DEF StagedNonempty
  <2>6. MemoryOK(l) /\ l.tables = load.tables /\ l.clearedInUnit = e
        /\ l.reclearOwed = load.reclearOwed
    BY <1>0, <2>3, <2>5 DEF MemoryOK
  <2>7. MemoryOK(load') /\ load'.tables = load.tables /\ load'.clearedInUnit = {}
        /\ load'.reclearOwed = load.reclearOwed
    BY <2>2, <2>4, <2>6, DiscardedOK DEF SameGuards
  <2>8. Control' BY <1>0, <2>1, <2>7, NoTxOK DEF TypeInv, Control, Publishing
  <2>9. FilesOK(remote') BY <1>0, <2>1, FewerFiles DEF WithoutLoad
  <2>10. Leaves(tx, db') BY <1>0, <2>1, CommitOK DEF TypeInv, Control
  <2>11. DbOK' /\ db'.columns = db.columns BY <2>10 DEF DbOK, Leaves
  <2>12. Engine' BY <1>0, <2>1 DEF TypeInv, Engine
  <2>13. TxOK(tx') BY <2>1, NoTxOK
  <2> QED BY <1>0, <2>1, <2>7, <2>8, <2>9, <2>11, <2>12, <2>13 DEF TypeInv
<1>3. CASE FailUnit
  <2>1. /\ pc \in {"copy", "script"} /\ pc' = "loading" /\ zombie' = zombie /\ db' = db
        /\ cur' = cur /\ acked' = acked /\ deaths' \in 0 .. MaxDeaths /\ narrowed' = narrowed
        /\ sent' = [t \in Table |-> 0] /\ remote' = WithoutLoad(cur.load) /\ tx' = NoTx
    BY <1>3 DEF FailUnit
  <2>2. PICK e \in SUBSET Table : e = {} OBVIOUS
  <2>3. PICK l : l = [load EXCEPT !.clearedInUnit = e] OBVIOUS
  <2>4. load' = Discarded(l) BY <1>3, <2>2, <2>3 DEF FailUnit
  <2>5. MemoryOK(l) /\ l.tables = load.tables /\ l.clearedInUnit = e
        /\ l.reclearOwed = load.reclearOwed
    BY <1>0, <2>3 DEF MemoryOK
  <2>6. MemoryOK(load') /\ load'.tables = load.tables /\ load'.clearedInUnit = {}
        /\ load'.reclearOwed = load.reclearOwed
    BY <2>2, <2>4, <2>5, DiscardedOK DEF SameGuards
  <2>7. Control' BY <1>0, <2>1, <2>6, NoTxOK DEF TypeInv, Control, Publishing
  <2>8. FilesOK(remote') BY <1>0, <2>1, FewerFiles DEF WithoutLoad
  <2>9. DbOK' /\ Engine' BY <1>0, <2>1 DEF TypeInv, DbOK, Engine
  <2>10. TxOK(tx') BY <2>1, NoTxOK
  <2>11. sent' \in [Table -> Nat] BY <2>1
  <2> QED BY <1>0, <2>1, <2>6, <2>7, <2>8, <2>9, <2>10, <2>11 DEF TypeInv
<1> QED BY <1>1, <1>2, <1>3

\* A session ends, whatever the reason.
LEMMA TypeEnd ==
  ASSUME SnowAssumption, Inv, EndSession, UNCHANGED <<db, remote>>,
         zombie' = zombie \/ (zombie' = tx /\ tx.open /\ cur' = cur),
         zombie.open => cur' = cur, pc # "none",
         cur' \in Unit \cup {Past}, acked' \subseteq Unit, deaths' \in 0 .. MaxDeaths,
         narrowed' = narrowed
  PROVE  TypeInv'
<1>0. TypeInv /\ TxOK(tx) /\ TxOK(zombie) /\ cur \in Unit BY Types DEF Inv
<1>1. pc' = "none" /\ sent' = [t \in Table |-> 0] /\ tx' = NoTx /\ load' = Fresh BY DEF EndSession
<1>2. MemoryOK(load') /\ load'.tables = [t \in Table |-> 0] /\ load'.clearedInUnit = {}
  BY <1>1, FreshOK
<1>3. TxOK(tx') /\ TxOK(zombie') BY <1>0, <1>1, NoTxOK
<1>4. Control' BY <1>0, <1>1, <1>2, NoTxOK DEF TypeInv, Control, Publishing
<1>5. \A t \in Table : load'.tables[t] <= db'.columns[t]
  <2>1. \A t \in Table : db.columns[t] \in Nat BY <1>0, Types DEF SnowAssumption
  <2> QED BY <1>2, <2>1
<1>6. DbOK' /\ FilesOK(remote') BY <1>0 DEF TypeInv, DbOK
<1>7. sent' \in [Table -> Nat] BY <1>1
<1>8. Engine' BY DEF Engine
<1> QED BY <1>0, <1>2, <1>3, <1>4, <1>5, <1>6, <1>7, <1>8 DEF TypeInv

\* The engine goes on, and a session dies.
LEMMA TypeEngine ==
  ASSUME SnowAssumption, Inv, RefuseFeed \/ EngineAck \/ SessionDies \/ DieInCommit
  PROVE  TypeInv'
<1>0. /\ TypeInv /\ cur \in Unit \cup {Past} /\ acked \subseteq Unit /\ deaths \in 0 .. MaxDeaths
      /\ MaxLoad \in Nat /\ MaxSeq \in Nat /\ MaxDeaths \in Nat
      /\ (pc # "none" => cur \in Unit)
      /\ (zombie.open => pc \in {"none", "loading"}) /\ (pc = "commit" => tx.open)
  BY DEF Inv, TypeInv, Engine, SnowAssumption, Control, Publishing
<1>1. CASE RefuseFeed
  <2>1. /\ pc = "script" /\ EndSession /\ UNCHANGED <<db, remote>> /\ zombie' = zombie
        /\ cur' = [load |-> cur.load + 1, seq |-> 1]
        /\ acked' = acked /\ deaths' = deaths /\ narrowed' = narrowed
    BY <1>1 DEF RefuseFeed, serverVars
  <2>2. cur' \in Unit \cup {Past} BY <1>0, <2>1 DEF Unit, Past, SnowAssumption
  <2>3. ~zombie.open BY <1>0, <2>1
  <2> QED BY <1>0, <2>1, <2>2, <2>3, TypeEnd
<1>2. CASE EngineAck /\ ~(cur.seq < MaxSeq)
  <2>1. /\ pc = "answered" /\ EndSession /\ UNCHANGED <<db, remote>> /\ zombie' = zombie
        /\ cur' = [load |-> cur.load + 1, seq |-> 1]
        /\ acked' = acked \cup {cur} /\ deaths' = deaths /\ narrowed' = narrowed
    BY <1>2 DEF EngineAck, serverVars
  <2>2. cur' \in Unit \cup {Past} /\ acked' \subseteq Unit
    BY <1>0, <2>1 DEF Unit, Past, SnowAssumption
  <2>3. ~zombie.open BY <1>0, <2>1
  <2> QED BY <1>0, <2>1, <2>2, <2>3, TypeEnd
<1>3. CASE EngineAck /\ cur.seq < MaxSeq
  <2>1. /\ pc = "answered" /\ pc' = "loading" /\ sent' = [t \in Table |-> 0]
        /\ db' = db /\ remote' = remote /\ zombie' = zombie /\ tx' = tx /\ load' = load
        /\ cur' = [cur EXCEPT !.seq = @ + 1]
        /\ acked' = acked \cup {cur} /\ deaths' = deaths /\ narrowed' = narrowed
    BY <1>3 DEF EngineAck, serverVars
  <2>2. cur' \in Unit /\ acked' \subseteq Unit BY <1>0, <1>3, <2>1 DEF Unit
  <2>3. Control' BY <1>0, <2>1, <2>2, NoTxOK DEF TypeInv, Control, Publishing
  <2>4. Engine' BY <1>0, <2>1, <2>2 DEF Engine
  <2>5. sent' \in [Table -> Nat] BY <2>1
  <2>6. DbOK' BY <1>0, <2>1 DEF TypeInv, DbOK
  <2> QED BY <1>0, <2>1, <2>3, <2>4, <2>5, <2>6 DEF TypeInv
<1>4. CASE SessionDies
  <2>1. /\ pc # "none" /\ EndSession /\ UNCHANGED <<db, remote>> /\ zombie' = zombie
        /\ cur' = cur /\ acked' = acked /\ deaths' = deaths + 1 /\ deaths < MaxDeaths
        /\ narrowed' = narrowed
    BY <1>4 DEF SessionDies, MayDie
  <2>2. deaths' \in 0 .. MaxDeaths BY <1>0, <2>1
  <2> QED BY <1>0, <2>1, <2>2, TypeEnd
<1>5. CASE DieInCommit
  <2>1. /\ pc = "commit" /\ EndSession /\ UNCHANGED <<db, remote>> /\ zombie' = tx
        /\ cur' = cur /\ acked' = acked /\ deaths' = deaths + 1 /\ deaths < MaxDeaths
        /\ narrowed' = narrowed
    BY <1>5 DEF DieInCommit, MayDie
  <2>2. deaths' \in 0 .. MaxDeaths BY <1>0, <2>1
  <2> QED BY <1>0, <2>1, <2>2, TypeEnd
<1> QED BY <1>1, <1>2, <1>3, <1>4, <1>5

\* The server ends what a dead session left behind.
LEMMA TypeServer ==
  ASSUME SnowAssumption, Inv, ZombieEnds \/ StrayRemove PROVE TypeInv'
<1>0. TypeInv BY DEF Inv
<1>1. CASE ZombieEnds
  <2>1. /\ zombie.open /\ zombie' = NoTx /\ remote' = remote /\ cur' = cur /\ acked' = acked
        /\ deaths' = deaths /\ narrowed' = narrowed /\ pc' = pc /\ sent' = sent /\ tx' = tx
        /\ load' = load /\ (db' = Commit(db, zombie) \/ db' = db)
    BY <1>1 DEF ZombieEnds, engineVars
  <2>2. cur \in Unit /\ TxOK(zombie) BY <1>0, <2>1 DEF TypeInv, Control
  <2>3. DbOK' /\ db'.columns = db.columns
    <3>1. Leaves(zombie, Commit(db, zombie)) BY <1>0, <2>2, CommitOK
    <3>2. CASE db' = Commit(db, zombie) BY <3>1, <3>2 DEF DbOK, Leaves
    <3>3. CASE db' = db BY <1>0, <3>3 DEF TypeInv, DbOK
    <3> QED BY <2>1, <3>2, <3>3
  <2>4. Control' BY <1>0, <2>1, NoTxOK DEF TypeInv, Control, Publishing
  <2>5. Engine' BY <1>0, <2>1 DEF TypeInv, Engine
  <2>6. TxOK(zombie') BY <2>1, NoTxOK
  <2> QED BY <1>0, <2>1, <2>3, <2>4, <2>5, <2>6 DEF TypeInv
<1>2. CASE StrayRemove
  <2>1. /\ remote' \subseteq remote /\ db' = db /\ zombie' = zombie /\ cur' = cur /\ acked' = acked
        /\ deaths' = deaths /\ narrowed' = narrowed /\ pc' = pc /\ sent' = sent /\ tx' = tx
        /\ load' = load
    BY <1>2 DEF StrayRemove, engineVars, WithoutLoad
  <2>2. FilesOK(remote') BY <1>0, <2>1, FewerFiles DEF TypeInv
  <2>3. Control' BY <1>0, <2>1 DEF TypeInv, Control, Publishing
  <2>4. DbOK' /\ Engine' BY <1>0, <2>1 DEF TypeInv, DbOK, Engine
  <2> QED BY <1>0, <2>1, <2>2, <2>3, <2>4 DEF TypeInv
<1> QED BY <1>1, <1>2

\* Each step keeps the types.
LEMMA TypeStep == ASSUME SnowAssumption, Prompt, Inv, [Next]_vars PROVE TypeInv'
<1>1. CASE LoadShort \/ StatementFails
  <2>1. /\ FailUnit /\ UNCHANGED <<cur, acked>> /\ pc \in {"copy", "script"}
        /\ deaths' = deaths \/ (deaths' = deaths + 1 /\ deaths < MaxDeaths)
    BY <1>1 DEF LoadShort, StatementFails, engineVars
  <2>2. deaths' \in 0 .. MaxDeaths BY <2>1 DEF Inv, TypeInv, Engine, SnowAssumption
  <2> QED BY <2>1, <2>2, TypeOver
<1>2. CASE Replay BY <1>2, TypeOver DEF Replay, FailUnit
<1>3. CASE CommitTx BY <1>3, TypeOver DEF CommitTx, FailUnit
<1>4. CASE UNCHANGED vars
  <2>1. UNCHANGED <<db, zombie, remote, cur, acked, deaths, narrowed, pc, sent, tx, load>>
    BY <1>4 DEF vars, serverVars, engineVars
  <2>2. TypeInv BY DEF Inv
  <2>3. DbOK' /\ Engine' /\ Control'
    BY <2>1, <2>2 DEF TypeInv, DbOK, Engine, Control, Publishing
  <2> QED BY <2>1, <2>2, <2>3 DEF TypeInv
<1> QED BY <1>1, <1>2, <1>3, <1>4, TypeBegin, TypeWrite, TypePublish, TypeEngine, TypeServer
        DEF Next, Progress

-----------------------------------------------------------------------------
(* What readers find *)

\* Tables promise appends, or what the newest load that brought rows brought.
LEMMA PromisedModes ==
  ASSUME SnowAssumption, NEW t \in Table
  PROVE  /\ Promised[t] \in {"append", "feed"}
         /\ Promised[t] = "feed" <=> Mode[t] \in {"replace", "feed"}
BY DEF Promised, SnowAssumption

\* What is current is committed.
LEMMA CurrentCommitted ==
  ASSUME SnowAssumption, NEW t \in Table, NEW C PROVE Abstract!Current(C, t) \subseteq C
BY PromisedModes DEF Abstract!Current, Abstract!Newest

\* The view of ExactlyOnce, table by table.
LEMMA ExactView ==
  ASSUME SnowAssumption, NEW C \in SUBSET Unit
  PROVE  Abstract!Exact(C) = [t \in Table |-> View(t, C)]
<1>1. ASSUME NEW t \in Table, NEW r \in AllRows(t)
      PROVE  (\E u \in Abstract!Current(C, t) : r \in Rows(u, t)) <=> r.unit \in Abstract!Current(C, t)
  <2>1. r.unit \in Unit /\ r.n \in 1 .. Feed(r.unit, t) /\ r = [unit |-> r.unit, n |-> r.n]
    BY RowOfUnit
  <2>2. r \in Rows(r.unit, t) BY <2>1 DEF Rows
  <2>3. \A u \in Unit : r \in Rows(u, t) => r.unit = u BY DEF Rows
  <2> QED BY <2>2, <2>3, CurrentCommitted
<1>2. \A t \in Table : Abstract!AllRows(t) = AllRows(t) BY DEF Abstract!AllRows, AllRows
<1> QED BY <1>1, <1>2 DEF Abstract!Exact, View

\* The newest of a set of units to which one is added that none is newer than.
LEMMA NewestStep ==
  ASSUME NEW C \in SUBSET Unit, NEW w \in Unit, \A u \in C : u.load <= w.load
  PROVE  Abstract!Newest(C \cup {w})
           = IF \E x \in C : x.load = w.load THEN Abstract!Newest(C) \cup {w} ELSE {w}
<1>1. \A u \in Unit : u.load \in Nat BY DEF Unit
<1>2. CASE \E x \in C : x.load = w.load
  <2>1. \A u \in C : (\A x \in C : x.load <= u.load) <=> u.load = w.load BY <1>1, <1>2
  <2>2. \A u \in C \cup {w} : (\A x \in C \cup {w} : x.load <= u.load) <=> u.load = w.load
    BY <1>1
  <2> QED BY <1>2, <2>1, <2>2 DEF Abstract!Newest
<1>3. CASE ~\E x \in C : x.load = w.load
  <2>1. \A u \in C : u.load < w.load BY <1>1, <1>3
  <2>2. \A u \in C : ~(w.load <= u.load) BY <1>1, <2>1
  <2>3. \A x \in C \cup {w} : x.load <= w.load BY <1>1
  <2> QED BY <1>3, <2>2, <2>3 DEF Abstract!Newest
<1> QED BY <1>2, <1>3

\* What one unit more makes of the current ones.
LEMMA CurrentStep ==
  ASSUME SnowAssumption, NEW t \in Table, NEW C \in SUBSET Unit, NEW w \in Unit, w \notin C,
         \A u \in C : u.load <= w.load,
         NEW v \in Unit, Feed(v, t) > 0
  PROVE  v \in Abstract!Current(C \cup {w}, t)
           <=> v = w \/ (~First(t, w, C) /\ v \in Abstract!Current(C, t))
<1>2. CASE Promised[t] = "append" BY <1>2 DEF Abstract!Current, First
<1>3. CASE Promised[t] = "feed"
  <2> DEFINE F == {u \in C : Rows(u, t) # {}}
             G == {u \in C \cup {w} : Rows(u, t) # {}}
  <2>1. /\ Abstract!Current(C, t) = Abstract!Newest(F)
        /\ Abstract!Current(C \cup {w}, t) = Abstract!Newest(G)
    BY <1>3 DEF Abstract!Current
  <2>2. \A u \in Unit : Feed(u, t) \in Nat /\ (Rows(u, t) # {} <=> Feed(u, t) > 0)
    BY RowsOrNone
  <2>3. First(t, w, C) <=> Feed(w, t) > 0 /\ \A x \in C : x.load = w.load => Feed(x, t) = 0
    BY <1>3 DEF First
  <2>4. /\ F \in SUBSET Unit /\ \A u \in Unit : u \in F <=> u \in C /\ Feed(u, t) > 0
        /\ G = IF Feed(w, t) > 0 THEN F \cup {w} ELSE F
    BY <2>2
  <2> HIDE DEF F, G
  <2>5. CASE Feed(w, t) > 0
    <3>1. First(t, w, C) <=> ~\E x \in F : x.load = w.load BY <2>2, <2>3, <2>4, <2>5
    <3>2. \A u \in F : u.load <= w.load BY <2>4
    <3>3. Abstract!Newest(F \cup {w})
            = IF \E x \in F : x.load = w.load THEN Abstract!Newest(F) \cup {w} ELSE {w}
      BY <2>4, <3>2, NewestStep
    <3> QED BY <2>1, <2>4, <2>5, <3>1, <3>3
  <2>6. CASE ~(Feed(w, t) > 0) BY <2>1, <2>3, <2>4, <2>6
  <2> QED BY <2>5, <2>6
<1> QED BY <1>2, <1>3, PromisedModes

\* Ready transactions of the unit at hand leave exactly what is committed.
LEMMA CommitReady ==
  ASSUME SnowAssumption, TypeInv, RowsExact, ClearedExact, cur \in Unit,
         NEW x, TxOK(x), TxReady(x, db.receipts), x.receipt = cur, db' = Commit(db, x)
  PROVE  /\ RowsExact' /\ ClearedExact'
         /\ db'.receipts = db.receipts \cup {cur} /\ db'.state = cur
         /\ db.cleared \subseteq db'.cleared
         /\ \A t \in x.cleared : <<cur.load, t>> \in db'.cleared
<1> DEFINE C == db.receipts
           w == cur
<1>1. Leaves(x, db') BY CommitOK
<1>2. w # NoUnit BY NoUnitApart
<1>3. /\ db'.receipts = C \cup {w} /\ db'.state = w
      /\ db'.cleared = db.cleared \cup {<<w.load, t>> : t \in x.cleared}
      /\ \A t \in Table : db'.rows[t] = [r \in AllRows(t) |->
           IF t \in x.clears THEN x.adds[t][r] ELSE db.rows[t][r] + x.adds[t][r]]
  BY <1>1, <1>2 DEF Leaves
<1>4. C \in SUBSET Unit /\ w \in Unit /\ w \notin C /\ x.cleared \subseteq Table
  BY DEF TypeInv, DbOK, DatabaseType, TxReady, TxOK
<1>5. \A u \in C : u.load <= w.load BY <1>4 DEF TxReady, Before, Unit
<1>6. ASSUME NEW t \in Table PROVE db'.rows[t] = View(t, C \cup {w})
  <2>1. /\ x.adds[t] = Whole(t, w) /\ (t \in x.clears <=> First(t, w, C))
        /\ db.rows[t] = View(t, C)
    BY DEF TxReady, RowsExact
  <2>2. ASSUME NEW r \in AllRows(t)
        PROVE  r.unit \in Abstract!Current(C \cup {w}, t)
                 <=> r.unit = w \/ (~First(t, w, C) /\ r.unit \in Abstract!Current(C, t))
    <3>1. r.unit \in Unit /\ Feed(r.unit, t) > 0 BY RowOfUnit
    <3> QED BY <1>4, <1>5, <3>1, CurrentStep
  <2>3. Abstract!Current(C, t) \subseteq C BY CurrentCommitted
  <2>4. db'.rows[t] = [r \in AllRows(t) |->
           IF t \in x.clears THEN x.adds[t][r] ELSE db.rows[t][r] + x.adds[t][r]]
    BY <1>3
  <2> HIDE DEF C, w
  <2>5. CASE First(t, w, C) BY <2>1, <2>2, <2>4, <2>5 DEF Whole, View
  <2>6. CASE ~First(t, w, C)
    <3>1. db'.rows[t] = [r \in AllRows(t) |-> View(t, C)[r] + Whole(t, w)[r]] BY <2>1, <2>4, <2>6
    <3>2. \A r \in AllRows(t) : r.unit = w => r.unit \notin Abstract!Current(C, t)
      BY <1>4, <2>3
    <3> QED BY <2>2, <2>6, <3>1, <3>2 DEF View, Whole
  <2> QED BY <2>5, <2>6
<1>7. RowsExact' BY <1>3, <1>6 DEF RowsExact, View
<1>8. ASSUME NEW l \in 1 .. MaxLoad, NEW t \in Table
      PROVE  <<l, t>> \in db'.cleared
               <=> Mode[t] = "replace" /\ \E u \in db'.receipts : u.load = l /\ Feed(u, t) > 0
  <2>1. <<l, t>> \in db'.cleared <=> <<l, t>> \in db.cleared \/ (l = w.load /\ t \in x.cleared)
    BY <1>3, <1>4
  <2>2. <<l, t>> \in db.cleared
          <=> Mode[t] = "replace" /\ \E u \in C : u.load = l /\ Feed(u, t) > 0
    BY DEF ClearedExact
  <2>3. t \in x.cleared <=> Mode[t] = "replace" /\ First(t, w, C) BY DEF TxReady
  <2>4. Mode[t] = "replace" => Promised[t] = "feed" BY PromisedModes
  <2>5. \A u \in Unit : Feed(u, t) \in Nat BY DEF SnowAssumption
  <2> HIDE DEF C, w
  <2>6. Mode[t] = "replace" =>
          (First(t, w, C) <=> Feed(w, t) > 0 /\ \A v \in C : v.load = w.load => ~(Feed(v, t) > 0))
    BY <1>4, <2>4, <2>5 DEF First
  <2> QED BY <1>3, <1>4, <2>1, <2>2, <2>3, <2>6
<1>9. ClearedExact' BY <1>8 DEF ClearedExact
<1>10. \A t \in x.cleared : <<cur.load, t>> \in db'.cleared BY <1>3
<1> QED BY <1>3, <1>7, <1>9, <1>10

-----------------------------------------------------------------------------
(* The invariant holds at the start, and the unit's work keeps it *)

\* Nothing written is placed whatever the stage holds.
LEMMA PlacedNone ==
  ASSUME SnowAssumption, NEW t \in Table, NEW l, NEW files, NEW c,
         l.open = Fresh.open, l.pending = Fresh.pending, l.tables[t] \in Nat
  PROVE  Placed(c, t, l, files, 0)
<1>1. /\ l.open[t] = NoPart /\ l.pending[t] = NoParts BY DEF Fresh
<1>2. /\ l.open[t].rows = {} /\ l.pending[t].parts = {} /\ l.pending[t].columns = 0
  BY <1>1 DEF NoPart, NoParts
<1>3. \A r \in AllRows(t) : ~(r.n <= 0)
  <2> SUFFICES ASSUME NEW r \in AllRows(t) PROVE ~(r.n <= 0) OBVIOUS
  <2>1. r.n \in 1 .. Feed(r.unit, t) /\ Feed(r.unit, t) \in Nat BY RowOfUnit
  <2> QED BY <2>1
<1> QED BY <1>1, <1>2, <1>3 DEF Placed

\* Parts stay where they are when files go, when the schema grows and when the
\* guards change.
LEMMA PlacedStill ==
  ASSUME SnowAssumption, NEW t \in Table, NEW l, NEW n, NEW F, NEW G, NEW c, NEW k,
         Placed(c, t, l, F, k), G \subseteq F, n.open = l.open, n.pending = l.pending,
         n.nextPart = l.nextPart, l.tables[t] <= n.tables[t],
         l.tables[t] \in Nat, n.tables[t] \in Nat, l.pending[t].columns \in Nat
  PROVE  Placed(c, t, n, G, k)
<1>1. PICK o, q, P : o = l.open[t] /\ q = l.pending[t].columns /\ P = l.pending[t].parts
  OBVIOUS
<1>2. /\ \A r \in AllRows(t) :
           (r \in o.rows \/ \E p \in P : r \in p.rows) <=> (r.unit = c /\ r.n <= k)
      /\ \A p \in P : \A r \in p.rows : r \notin o.rows
      /\ \A p, g \in P : p.name = g.name \/ (\E r \in p.rows : r \in g.rows) => p = g
      /\ \A p \in P : p.rows # {} /\ p.name.table = t /\ p.name.index < l.nextPart
      /\ \A p \in P, f \in F : f.name = p.name => f.rows = p.rows /\ f.version <= q
      /\ IF o.rows = {} THEN o = NoPart ELSE o.version <= q
      /\ q <= l.tables[t]
  BY <1>1 DEF Placed
<1>3. q <= n.tables[t] BY <1>1, <1>2
<1>4. \A p \in P, f \in G : f.name = p.name => f.rows = p.rows /\ f.version <= q BY <1>2
<1>5. n.open[t] = o /\ n.pending[t].parts = P /\ n.pending[t].columns = q /\ n.nextPart = l.nextPart
  BY <1>1
<1> HIDE <1>1
<1> QED BY <1>2, <1>3, <1>4, <1>5 DEF Placed

\* What the parts' types say of one table.
LEMMA PartTypes ==
  ASSUME SnowAssumption, NEW l, MemoryOK(l), NEW t \in Table
  PROVE  l.tables[t] \in Nat /\ l.pending[t].columns \in Nat
<1>1. l.tables[t] \in 0 .. MaxVersion BY DEF MemoryOK
<1>2. l.pending[t] \in [columns : Nat, parts : SUBSET [name : Name, rows : SUBSET AnyRow]]
  BY DEF MemoryOK
<1> QED BY <1>1, <1>2 DEF SnowAssumption

\* Steps that leave the committed rows alone.
LEMMA DataKept ==
  ASSUME Inv, db'.rows = db.rows, db'.receipts = db.receipts, db'.cleared = db.cleared
  PROVE  RowsExact' /\ ClearedExact'
<1>1. RowsExact /\ ClearedExact BY DEF Inv, UnitInv
<1>2. RowsExact' BY <1>1 DEF RowsExact, View
<1>3. ClearedExact' BY <1>1 DEF ClearedExact
<1> QED BY <1>2, <1>3

\* Steps of the session that leave the order of commits alone.
LEMMA OrderKept ==
  ASSUME Inv, db'.receipts = db.receipts, db'.state = db.state, UNCHANGED <<zombie, cur, acked>>,
         pc' \notin {"answered", "commit"}, Publishing' => cur \notin db.receipts
  PROVE  OrderInv'
<1>1. OrderInv BY DEF Inv, UnitInv
<1> QED BY <1>1 DEF OrderInv

LEMMA FeedKept ==
  ASSUME Inv, db'.receipts = db.receipts, UNCHANGED <<zombie, cur>>,
         pc = "none" \/ (pc' # "none" /\ load.singleUnitDone \subseteq load'.singleUnitDone)
  PROVE  FeedInv'
<1>1. FeedInv BY DEF Inv, UnitInv
<1> QED BY <1>1 DEF FeedInv

\* At the start nothing is committed and nothing is on its way.
LEMMA UnitInit == ASSUME SnowAssumption, Init PROVE UnitInv
<1>1. NoTx.adds = NoRows /\ NoTx.clears = {} /\ NoTx.cleared = {} /\ ~NoTx.open BY NoTxOK
<1>2. /\ db.receipts = {} /\ db.cleared = {} /\ db.rows = NoRows /\ acked = {} /\ pc = "none"
      /\ zombie = NoTx /\ tx = NoTx /\ load = Fresh /\ narrowed = FALSE
      /\ sent = [t \in Table |-> 0]
  BY DEF Init
<1>3. /\ load.clearedInUnit = {} /\ load.reclearOwed = {} /\ load.cleared = {} BY <1>2, FreshOK
<1>4. PartsInv BY <1>1, <1>2 DEF PartsInv, NothingStaged, Publishing
<1>5. ClearInv BY <1>1, <1>2, <1>3 DEF ClearInv
<1>6. OrderInv /\ FeedInv BY <1>1, <1>2 DEF OrderInv, FeedInv, Publishing
<1>7. ASSUME NEW t \in Table PROVE db.rows[t] = View(t, db.receipts)
  <2>1. Abstract!Current({}, t) = {} BY CurrentCommitted
  <2> QED BY <1>2, <2>1 DEF View, NoRows
<1>8. /\ RowsExact /\ ClearedExact /\ ClearedIsDurable /\ NoColumnDropped
  BY <1>2, <1>3, <1>7 DEF RowsExact, ClearedExact, ClearedIsDurable, NoColumnDropped
<1> QED BY <1>4, <1>5, <1>6, <1>8 DEF UnitInv

\* A session begins with the clears of its load that are on record.
LEMMA UnitOpen == ASSUME SnowAssumption, Inv, TypeInv', OpenSession PROVE UnitInv'
<1>0. TypeInv /\ UnitInv BY DEF Inv
<1>1. /\ pc = "none" /\ cur \in Unit /\ pc' = "loading"
      /\ load' = [Fresh EXCEPT !.cleared = {t \in Table : <<cur.load, t>> \in db.cleared}]
      /\ db' = db /\ zombie' = zombie /\ cur' = cur /\ acked' = acked
      /\ narrowed' = narrowed /\ sent' = sent /\ tx' = tx
  BY DEF OpenSession, engineVars
<1>2. PICK S \in SUBSET Table : S = {t \in Table : <<cur.load, t>> \in db.cleared} OBVIOUS
<1>3. load' = [Fresh EXCEPT !.cleared = S] BY <1>1, <1>2
<1>4. /\ load'.open = Fresh.open /\ load'.pending = Fresh.pending /\ load'.cleared = S
      /\ load'.clearedInUnit = {} /\ load'.reclearOwed = {} /\ load'.tables = Fresh.tables
  BY <1>3, FreshOK DEF MemoryOK
<1>5. ASSUME NEW t \in Table PROVE sent[t] = 0
  <2>1. sent[t] > 0 => load.tables[t] # 0 BY <1>0 DEF UnitInv, PartsInv
  <2>2. load.tables[t] = 0 /\ sent[t] \in Nat BY <1>0, <1>1, FreshOK DEF TypeInv, Control
  <2> QED BY <2>1, <2>2
<1>6. \A t \in Table : Placed(cur', t, load', remote', sent'[t])
  <2> SUFFICES ASSUME NEW t \in Table PROVE Placed(cur', t, load', remote', sent'[t]) OBVIOUS
  <2>1. load'.tables[t] \in Nat BY <1>4, FreshOK
  <2>2. Placed(cur', t, load', remote', 0) BY <1>4, <2>1, PlacedNone
  <2> QED BY <1>1, <1>5, <2>2
<1>7. tx = NoTx /\ tx.clears = {} /\ tx.cleared = {} /\ tx.adds = NoRows
  BY <1>0, <1>1, NoTxOK DEF TypeInv, Control
<1>8. PartsInv' BY <1>1, <1>5, <1>6, <1>7 DEF PartsInv, Publishing
<1>9. ClearInv'
  <2>1. ASSUME NEW u \in db.receipts \ {cur}, NEW t \in Table,
               u.load = cur.load, Mode[t] = "replace", Feed(u, t) > 0
        PROVE  t \in S
    <3>1. cur.load \in 1 .. MaxLoad BY <1>1 DEF Unit
    <3>2. <<cur.load, t>> \in db.cleared BY <1>0, <2>1, <3>1 DEF UnitInv, ClearedExact
    <3> QED BY <1>2, <3>2
  <2> QED BY <1>1, <1>4, <1>5, <1>7, <2>1 DEF ClearInv
<1>10. OrderInv' BY <1>1, OrderKept DEF Publishing
<1>11. FeedInv' BY <1>1, FeedKept
<1>12. RowsExact' /\ ClearedExact' BY <1>1, DataKept
<1>13. ClearedIsDurable' BY <1>1, <1>2, <1>4 DEF ClearedIsDurable
<1>14. NoColumnDropped' BY <1>0, <1>1 DEF UnitInv, NoColumnDropped
<1> QED BY <1>8, <1>9, <1>10, <1>11, <1>12, <1>13, <1>14 DEF UnitInv

\* DDL in the middle of a unit leaves its clears owed.
LEMMA UnitEnsure ==
  ASSUME SnowAssumption, Inv, TypeInv', NEW t \in Table, NEW v \in Versions(t), EnsureTable(t, v)
  PROVE  UnitInv'
<1>0. TypeInv /\ UnitInv /\ MemoryOK(load) BY Types DEF Inv
<1>1. /\ pc = "loading" /\ pc' = pc /\ zombie' = zombie /\ remote' = remote /\ cur' = cur
      /\ acked' = acked /\ narrowed' = narrowed /\ sent' = sent
  BY DEF EnsureTable, engineVars
<1>2. /\ db'.rows = db.rows /\ db'.receipts = db.receipts
      /\ db'.cleared = db.cleared /\ db'.state = db.state
      /\ \A x \in Table : load.tables[x] <= load'.tables[x]
      /\ MemoryOK(load') /\ load'.open = load.open /\ load'.pending = load.pending
      /\ load'.nextPart = load.nextPart /\ load'.cleared = load.cleared
      /\ load'.singleUnitDone = load.singleUnitDone
      /\ \/ /\ tx' = NoTx /\ load'.clearedInUnit = {}
            /\ load'.reclearOwed = load.reclearOwed \cup load.clearedInUnit
         \/ /\ tx' = tx /\ load'.clearedInUnit = load.clearedInUnit
            /\ load'.reclearOwed = load.reclearOwed
  BY <1>0, EnsureEffect
<1>3. \A x \in Table : Placed(cur, x, load', remote', sent'[x])
  <2> SUFFICES ASSUME NEW x \in Table PROVE Placed(cur, x, load', remote', sent'[x]) OBVIOUS
  <2>1. Placed(cur, x, load, remote, sent[x]) BY <1>0, <1>1 DEF UnitInv, PartsInv
  <2>2. load.tables[x] \in Nat /\ load'.tables[x] \in Nat /\ load.pending[x].columns \in Nat
    BY <1>0, <1>2, PartTypes
  <2> QED BY <1>1, <1>2, <2>1, <2>2, PlacedStill
<1>4. \A x \in Table : sent[x] > 0 => load'.tables[x] # 0 /\ sent[x] <= Feed(cur, x)
  <2> SUFFICES ASSUME NEW x \in Table, sent[x] > 0
               PROVE  load'.tables[x] # 0 /\ sent[x] <= Feed(cur, x)
    OBVIOUS
  <2>1. load.tables[x] # 0 /\ sent[x] <= Feed(cur, x) BY <1>0 DEF UnitInv, PartsInv
  <2>2. load.tables[x] \in Nat /\ load'.tables[x] \in Nat BY <1>0, <1>2, PartTypes
  <2> QED BY <1>2, <2>1, <2>2
<1>5. tx'.adds = NoRows BY <1>0, <1>1, <1>2, NoTxOK DEF UnitInv, PartsInv
<1>6. PartsInv' BY <1>1, <1>3, <1>4, <1>5 DEF PartsInv, Publishing
<1>7. ClearInv'
  <2>1. ClearInv BY <1>0 DEF UnitInv
  <2>2. tx'.clears = tx'.cleared BY <1>1, <1>2, <2>1, NoTxOK DEF ClearInv
  <2>3. load'.clearedInUnit \cup load'.reclearOwed = load.clearedInUnit \cup load.reclearOwed
    BY <1>2
  <2> QED BY <1>1, <1>2, <2>1, <2>2, <2>3 DEF ClearInv, ClearedUnion
<1>8. OrderInv' BY <1>1, <1>2, OrderKept DEF Publishing
<1>9. FeedInv' BY <1>1, <1>2, FeedKept
<1>10. RowsExact' /\ ClearedExact' BY <1>2, DataKept
<1>11. ClearedIsDurable' BY <1>0, <1>1, <1>2 DEF UnitInv, ClearedIsDurable
<1>12. NoColumnDropped' BY <1>0, <1>1 DEF UnitInv, NoColumnDropped
<1> QED BY <1>6, <1>7, <1>8, <1>9, <1>10, <1>11, <1>12 DEF UnitInv

\* A write clears what no unit of the load had cleared.
LEMMA UnitWrite ==
  ASSUME SnowAssumption, Inv, TypeInv', NEW t \in Table, Write(t) PROVE UnitInv'
<1>0. TypeInv /\ UnitInv /\ PartsInv /\ ClearInv /\ TxOK(tx) BY Types DEF Inv, UnitInv
<1>1. /\ pc = "loading" /\ pc' = pc /\ zombie' = zombie /\ db' = db /\ cur' = cur
      /\ acked' = acked /\ narrowed' = narrowed /\ load.tables[t] # 0 /\ sent[t] < Feed(cur, t)
      /\ sent' = [sent EXCEPT ![t] = @ + 1]
  BY DEF Write, engineVars
<1>2. /\ \A x \in Table : Placed(cur, x, load', remote', sent'[x])
      /\ load'.tables = load.tables /\ load'.cleared = load.cleared
      /\ load'.clearedInUnit = load.clearedInUnit \cup WriteClears(t)
      /\ load'.reclearOwed = {} /\ load'.singleUnitDone = load.singleUnitDone
      /\ tx' = WithClears(tx, WriteClears(t))
  BY <1>0, WriteKeeps
<1>3. WriteClears(t) \in SUBSET Table BY <1>0, Types DEF WriteClears
<1>4. /\ tx'.clears = tx.clears \cup WriteClears(t) /\ tx'.cleared = tx.cleared \cup WriteClears(t)
      /\ tx'.adds = tx.adds
  BY <1>0, <1>2, <1>3, ClearsOK DEF MoreClears
<1>5. /\ cur \in Unit /\ sent \in [Table -> Nat]
      /\ \A x \in Table : Feed(cur, x) \in Nat
  BY <1>0, <1>1 DEF TypeInv, Control, SnowAssumption
<1>6. /\ sent'[t] = sent[t] + 1 /\ sent'[t] > 0 /\ sent'[t] <= Feed(cur, t)
      /\ \A x \in Table : x # t => sent'[x] = sent[x]
      /\ \A x \in Table : sent[x] > 0 => sent'[x] > 0
  <2>1. sent[t] \in Nat /\ Feed(cur, t) \in Nat BY <1>5
  <2>2. sent'[t] = sent[t] + 1 /\ \A x \in Table : x # t => sent'[x] = sent[x] BY <1>1, <1>5
  <2> QED BY <1>1, <2>1, <2>2
<1>7. PartsInv' BY <1>0, <1>1, <1>2, <1>4, <1>6 DEF PartsInv, Publishing
<1>8. NeedsClear(t) => Mode[t] = "replace" /\ (<<cur.load, t>> \notin db.cleared \/ cur \in db.receipts)
  <2> SUFFICES ASSUME NeedsClear(t), <<cur.load, t>> \in db.cleared PROVE Mode[t] = "replace" /\ cur \in db.receipts
    BY DEF NeedsClear
  <2>1. Mode[t] = "replace" /\ t \notin load.cleared BY DEF NeedsClear, ClearedUnion
  <2>2. cur.load \in 1 .. MaxLoad BY <1>5 DEF Unit
  <2>3. PICK u \in db.receipts : u.load = cur.load /\ Feed(u, t) > 0
    BY <1>0, <2>2 DEF UnitInv, ClearedExact
  <2> QED BY <1>0, <1>1, <2>1, <2>3 DEF ClearInv
<1>9. ClearInv'
  <2>1. tx'.clears = tx'.cleared BY <1>0, <1>1, <1>4 DEF ClearInv
  <2>2. ASSUME NEW x \in load'.clearedInUnit \cup load'.reclearOwed
        PROVE  /\ Mode[x] = "replace" /\ sent'[x] > 0
               /\ <<cur.load, x>> \notin db.cleared \/ cur \in db.receipts
    <3>1. x \in load.clearedInUnit \cup load.reclearOwed \/ (x = t /\ NeedsClear(t))
      BY <1>2 DEF WriteClears
    <3>2. CASE x \in load.clearedInUnit \cup load.reclearOwed
      <4>1. x \in Table BY <3>2, <1>0, Types
      <4> QED BY <3>2, <4>1, <1>0, <1>6 DEF ClearInv
    <3> QED BY <3>1, <3>2, <1>6, <1>8
  <2>3. ASSUME NEW x \in Table, Mode[x] = "replace", sent'[x] > 0
        PROVE  x \in load'.cleared \cup load'.clearedInUnit
    <3>1. CASE x = t
      BY <2>3, <3>1, <1>2 DEF WriteClears, NeedsClear, ClearedUnion
    <3>2. CASE x # t
      <4>1. x \in ClearedUnion(load) \cup load.reclearOwed BY <2>3, <3>2, <1>0, <1>6 DEF ClearInv
      <4> QED BY <4>1, <1>2 DEF ClearedUnion, WriteClears
    <3> QED BY <3>1, <3>2
  <2> QED BY <1>0, <1>1, <1>2, <2>1, <2>2, <2>3 DEF ClearInv, ClearedUnion
<1>10. OrderInv' BY <1>1, OrderKept DEF Publishing
<1>11. FeedInv' BY <1>1, <1>2, FeedKept
<1>12. RowsExact' /\ ClearedExact' BY <1>1, DataKept
<1>13. ClearedIsDurable' BY <1>0, <1>1, <1>2 DEF UnitInv, ClearedIsDurable
<1>14. NoColumnDropped' BY <1>0, <1>1 DEF UnitInv, NoColumnDropped
<1> QED BY <1>7, <1>9, <1>10, <1>11, <1>12, <1>13, <1>14 DEF UnitInv

-----------------------------------------------------------------------------
(* The commit keeps it *)

\* A unit delivered has written what it carries.
LEMMA AllSent ==
  ASSUME SnowAssumption, Inv, Delivered, cur \in Unit, NEW t \in Table
  PROVE  sent[t] = Feed(cur, t) /\ Feed(cur, t) \in Nat
BY DEF Delivered, SnowAssumption

\* The probe makes the clears that are owed.
LEMMA UnitProbe == ASSUME SnowAssumption, Prompt, Inv, TypeInv', ProbeFresh PROVE UnitInv'
<1>0. TypeInv /\ UnitInv /\ PartsInv /\ ClearInv /\ TxOK(tx) /\ MemoryOK(load)
  BY Types DEF Inv, UnitInv
<1>1. /\ pc = "loading" /\ pc' = "publish" /\ Delivered /\ cur \notin db.receipts
      /\ zombie' = zombie /\ db' = db
      /\ cur' = cur /\ acked' = acked /\ narrowed' = narrowed /\ sent' = sent /\ remote' = remote
      /\ tx' = WithClears(tx, load.reclearOwed) /\ load' = Cleared(load, load.reclearOwed)
  BY DEF ProbeFresh, engineVars, serverVars
<1>2. load.reclearOwed \in SUBSET Table /\ load.clearedInUnit \in SUBSET Table BY <1>0, Types
<1>3. /\ tx'.clears = tx.clears \cup load.reclearOwed /\ tx'.cleared = tx.cleared \cup load.reclearOwed
      /\ tx'.adds = tx.adds
  BY <1>0, <1>1, <1>2, ClearsOK DEF MoreClears
<1>4. /\ load'.tables = load.tables /\ load'.cleared = load.cleared /\ load'.open = load.open
      /\ load'.pending = load.pending /\ load'.nextPart = load.nextPart
      /\ load'.singleUnitDone = load.singleUnitDone
      /\ load'.clearedInUnit = load.clearedInUnit \cup load.reclearOwed /\ load'.reclearOwed = {}
  <2>1. PICK c \in SUBSET Table : c = load.clearedInUnit \cup load.reclearOwed BY <1>2
  <2>2. load' = [load EXCEPT !.reclearOwed = {}, !.clearedInUnit = c]
    BY <1>0, <1>1, <2>1 DEF Cleared, MemoryOK
  <2> QED BY <1>0, <2>1, <2>2 DEF MemoryOK
<1>5. \A x \in Table : Placed(cur, x, load', remote', sent'[x])
  <2> SUFFICES ASSUME NEW x \in Table PROVE Placed(cur, x, load', remote', sent'[x]) OBVIOUS
  <2>1. Placed(cur, x, load, remote, sent[x]) BY <1>0, <1>1 DEF PartsInv
  <2>2. load.tables[x] \in Nat /\ load.pending[x].columns \in Nat /\ load.tables[x] <= load.tables[x]
    BY <1>0, PartTypes
  <2> QED BY <1>1, <1>4, <2>1, <2>2, PlacedStill
<1>6. Delivered' BY <1>1, <1>4 DEF Delivered
<1>7. PartsInv' BY <1>0, <1>1, <1>3, <1>4, <1>5, <1>6 DEF PartsInv, Publishing
<1>8. ClearInv'
  <2>1. tx'.clears = tx'.cleared BY <1>0, <1>1, <1>3 DEF ClearInv
  <2>2. load'.clearedInUnit \cup load'.reclearOwed = load.clearedInUnit \cup load.reclearOwed
    BY <1>4
  <2> QED BY <1>0, <1>1, <1>4, <2>1, <2>2 DEF ClearInv, ClearedUnion
<1>9. OrderInv' BY <1>1, OrderKept
<1>10. FeedInv' BY <1>1, <1>4, FeedKept
<1>11. RowsExact' /\ ClearedExact' BY <1>1, DataKept
<1>12. ClearedIsDurable' BY <1>0, <1>1, <1>4 DEF UnitInv, ClearedIsDurable
<1>13. NoColumnDropped' BY <1>0, <1>1 DEF UnitInv, NoColumnDropped
<1> QED BY <1>7, <1>8, <1>9, <1>10, <1>11, <1>12, <1>13 DEF UnitInv

\* All rows are in closed parts.
LEMMA UnitClose == ASSUME SnowAssumption, Inv, TypeInv', CloseAll PROVE UnitInv'
<1>0. TypeInv /\ UnitInv /\ PartsInv /\ ClearInv BY DEF Inv, UnitInv
<1>1. /\ pc = "publish" /\ pc' = "copy" /\ zombie' = zombie /\ db' = db /\ cur' = cur
      /\ acked' = acked /\ narrowed' = narrowed /\ sent' = sent /\ tx' = tx
  BY DEF CloseAll, engineVars
<1>2. /\ \A x \in Table : Placed(cur, x, load', remote', sent[x])
      /\ load'.open = Fresh.open
      /\ load'.tables = load.tables /\ load'.cleared = load.cleared
      /\ load'.clearedInUnit = load.clearedInUnit
      /\ load'.reclearOwed = load.reclearOwed /\ load'.singleUnitDone = load.singleUnitDone
  BY <1>0, CloseAllKeeps
<1>3. Delivered /\ cur \notin db.receipts
  BY <1>0, <1>1 DEF PartsInv, Publishing, UnitInv, OrderInv
<1>4. Delivered' BY <1>1, <1>2, <1>3 DEF Delivered
<1>5. PartsInv' BY <1>0, <1>1, <1>2, <1>4 DEF PartsInv, Publishing, Fresh
<1>6. ClearInv' BY <1>0, <1>1, <1>2 DEF ClearInv, ClearedUnion
<1>7. OrderInv' BY <1>1, <1>3, OrderKept
<1>8. FeedInv' BY <1>1, <1>2, FeedKept
<1>9. RowsExact' /\ ClearedExact' BY <1>1, DataKept
<1>10. ClearedIsDurable' BY <1>0, <1>1, <1>2 DEF UnitInv, ClearedIsDurable
<1>11. NoColumnDropped' BY <1>0, <1>1 DEF UnitInv, NoColumnDropped
<1> QED BY <1>5, <1>6, <1>7, <1>8, <1>9, <1>10, <1>11 DEF UnitInv

\* The COPY loads every row once, and names every column of its files.
LEMMA UnitLoad == ASSUME SnowAssumption, Inv, TypeInv', LoadParts PROVE UnitInv'
<1>0. TypeInv /\ UnitInv /\ PartsInv /\ ClearInv /\ FilesOK(remote) /\ MemoryOK(load)
  BY Types DEF Inv, UnitInv
<1>1. /\ pc = "copy" /\ pc' = "script" /\ zombie' = zombie /\ db' = db
      /\ cur' = cur /\ acked' = acked /\ sent' = sent /\ remote' = remote
      /\ narrowed' = (narrowed \/ \E t \in Table : \E f \in Named(t) :
                                     f.version > load.pending[t].columns)
  BY DEF LoadParts, engineVars, serverVars
<1>2. /\ \A t \in Table : tx'.adds[t] = Whole(t, cur)
      /\ tx'.clears = tx.clears /\ tx'.cleared = tx.cleared
      /\ load'.open = load.open /\ load'.pending = Fresh.pending
      /\ load'.tables = load.tables /\ load'.cleared = load.cleared
      /\ load'.clearedInUnit = load.clearedInUnit
      /\ load'.reclearOwed = load.reclearOwed /\ load'.singleUnitDone = load.singleUnitDone
  BY LoadPartsEffect DEF SameGuards
<1>3. Delivered /\ cur \notin db.receipts /\ load.open = Fresh.open
  BY <1>0, <1>1 DEF PartsInv, Publishing, UnitInv, OrderInv
<1>4. Delivered' BY <1>1, <1>2, <1>3 DEF Delivered
<1>5. NothingStaged' BY <1>2, <1>3 DEF NothingStaged, Fresh
<1>6. PartsInv' BY <1>0, <1>1, <1>2, <1>4, <1>5 DEF PartsInv, Publishing, Whole
<1>7. ClearInv' BY <1>0, <1>1, <1>2 DEF ClearInv, ClearedUnion
<1>8. OrderInv' BY <1>1, <1>3, OrderKept
<1>9. FeedInv' BY <1>1, <1>2, FeedKept
<1>10. RowsExact' /\ ClearedExact' BY <1>1, DataKept
<1>11. ClearedIsDurable' BY <1>0, <1>1, <1>2 DEF UnitInv, ClearedIsDurable
<1>12. NoColumnDropped'
  <2>1. ASSUME NEW t \in Table, NEW f \in Named(t) PROVE ~(f.version > load.pending[t].columns)
    <3>1. PICK p \in load.pending[t].parts : p.name = f.name BY DEF Named
    <3>2. f \in remote BY DEF Named
    <3>3. f.version \in Nat BY <3>2, <1>0 DEF FilesOK
    <3>4. load.pending[t].columns \in Nat BY <1>0, PartTypes
    <3>5. Placed(cur, t, load, remote, sent[t]) BY <1>0, <1>1 DEF PartsInv
    <3>6. f.version <= load.pending[t].columns BY <3>1, <3>2, <3>5 DEF Placed
    <3> QED BY <3>3, <3>4, <3>6
  <2>2. ~narrowed BY <1>0 DEF UnitInv, NoColumnDropped
  <2>3. ~narrowed' BY <1>1, <2>1, <2>2
  <2> QED BY <2>3 DEF NoColumnDropped
<1> QED BY <1>6, <1>7, <1>8, <1>9, <1>10, <1>11, <1>12 DEF UnitInv

\* The clears of the scripted unit are those of the tables it is the first to feed.
LEMMA ScriptClears ==
  ASSUME SnowAssumption, Inv, RunScript, NEW t \in Table
  PROVE  /\ t \in tx.clears \cup StagedNonempty <=> First(t, cur, db.receipts)
         /\ t \in tx.cleared <=> Mode[t] = "replace" /\ t \in tx.clears \cup StagedNonempty
<1>0. TypeInv /\ UnitInv /\ PartsInv /\ ClearInv BY DEF Inv, UnitInv
<1>1. /\ pc = "script" /\ StagedNonempty \cap load.singleUnitDone = {} /\ cur \in Unit
      /\ load.reclearOwed = {} /\ load.clearedInUnit = tx.cleared /\ cur \notin db.receipts
      /\ Delivered /\ db.receipts \subseteq Unit
  BY <1>0 DEF RunScript, TypeInv, Control, Publishing, PartsInv, UnitInv, OrderInv, DbOK, DatabaseType
<1>2. /\ tx.adds[t] = Whole(t, cur) /\ sent[t] = Feed(cur, t) /\ Feed(cur, t) \in Nat
      /\ tx.clears = tx.cleared /\ cur.load \in 1 .. MaxLoad
  BY <1>0, <1>1, AllSent DEF PartsInv, ClearInv, Unit
<1>3. \A x \in tx.cleared : Mode[x] = "replace" /\ sent[x] > 0 /\ <<cur.load, x>> \notin db.cleared
  BY <1>0, <1>1 DEF ClearInv
<1>4. \A v \in db.receipts : Feed(v, t) \in Nat BY <1>1 DEF SnowAssumption
<1>5. <<cur.load, t>> \in db.cleared
        <=> Mode[t] = "replace" /\ \E u \in db.receipts : u.load = cur.load /\ Feed(u, t) > 0
  BY <1>0, <1>2 DEF UnitInv, ClearedExact
<1>6. t \in StagedNonempty <=> Mode[t] = "feed" /\ Feed(cur, t) > 0
  <2>1. Whole(t, cur) # NoRows[t] <=> Feed(cur, t) > 0
    <3>1. CASE Feed(cur, t) > 0
      <4>1. PICK r \in Rows(cur, t) : TRUE BY <3>1, <1>1, RowsOrNone
      <4>2. r \in AllRows(t) /\ r.unit = cur BY <1>1 DEF AllRows, Rows
      <4>3. Whole(t, cur)[r] = 1 /\ NoRows[t][r] = 0 BY <4>2 DEF Whole, NoRows
      <4> QED BY <3>1, <4>3
    <3>2. CASE ~(Feed(cur, t) > 0)
      <4>1. \A r \in AllRows(t) : r.unit # cur
        <5> SUFFICES ASSUME NEW r \in AllRows(t) PROVE r.unit # cur OBVIOUS
        <5>1. Feed(r.unit, t) \in Nat \ {0} BY RowOfUnit
        <5> QED BY <3>2, <5>1
      <4> QED BY <3>2, <4>1 DEF Whole, NoRows
    <3> QED BY <3>1, <3>2
  <2> QED BY <1>2, <2>1 DEF StagedNonempty
<1>7. CASE Mode[t] = "append"
  BY <1>2, <1>3, <1>6, <1>7, PromisedModes DEF First
<1>8. CASE Mode[t] = "replace"
  <2>1. t \notin StagedNonempty /\ Promised[t] = "feed" BY <1>6, <1>8, PromisedModes
  <2>2. t \in tx.cleared => First(t, cur, db.receipts)
    BY <1>2, <1>3, <1>4, <1>5, <1>8, <2>1 DEF First
  <2>3. First(t, cur, db.receipts) => t \in tx.cleared
    <3> SUFFICES ASSUME First(t, cur, db.receipts) PROVE t \in tx.cleared OBVIOUS
    <3>1. Feed(cur, t) > 0 /\ \A v \in db.receipts : v.load = cur.load => Feed(v, t) = 0
      BY DEF First
    <3>2. <<cur.load, t>> \notin db.cleared BY <1>4, <1>5, <3>1
    <3>3. t \notin load.cleared BY <1>0, <3>2 DEF UnitInv, ClearedIsDurable
    <3> QED BY <1>0, <1>1, <1>2, <1>8, <3>1, <3>3 DEF ClearInv, ClearedUnion
  <2> QED BY <1>2, <1>8, <2>1, <2>2, <2>3
<1>9. CASE Mode[t] = "feed"
  <2>1. t \notin tx.cleared /\ Promised[t] = "feed" BY <1>3, <1>9, PromisedModes
  <2>2. t \in StagedNonempty => \A v \in db.receipts : v.load = cur.load => Feed(v, t) = 0
    BY <1>0, <1>1, <1>4, <1>9 DEF UnitInv, FeedInv
  <2> QED BY <1>2, <1>6, <1>9, <2>1, <2>2 DEF First
<1> QED BY <1>7, <1>8, <1>9 DEF SnowAssumption

\* The scripted unit is ready to commit.
LEMMA UnitScript == ASSUME SnowAssumption, Inv, TypeInv', RunScript PROVE UnitInv'
<1>0. TypeInv /\ UnitInv /\ PartsInv /\ ClearInv /\ TxOK(tx) BY Types DEF Inv, UnitInv
<1>1. /\ pc = "script" /\ pc' = "commit" /\ zombie' = zombie /\ db' = db /\ narrowed' = narrowed
      /\ cur' = cur /\ acked' = acked /\ sent' = sent /\ remote' = remote /\ load' = load
      /\ tx' = [tx EXCEPT !.clears = @ \cup StagedNonempty, !.receipt = cur]
  BY DEF RunScript, engineVars, serverVars
<1>2. PICK S : S = tx.clears \cup StagedNonempty OBVIOUS
<1>3. /\ tx'.clears = S /\ tx'.cleared = tx.cleared /\ tx'.adds = tx.adds /\ tx'.receipt = cur
  BY <1>0, <1>1, <1>2 DEF TxOK
<1>4. cur \in Unit /\ cur \notin db.receipts /\ Delivered /\ NothingStaged
      /\ \A t \in Table : tx.adds[t] = Whole(t, cur)
  BY <1>0, <1>1 DEF TypeInv, Control, Publishing, UnitInv, OrderInv, PartsInv
<1>5. TxReady(tx', db.receipts)
  <2>1. \A u \in db.receipts : Before(u, cur) BY <1>0, <1>4 DEF UnitInv, OrderInv
  <2>2. \A t \in Table : /\ t \in S <=> First(t, cur, db.receipts)
                         /\ t \in tx.cleared <=> Mode[t] = "replace" /\ t \in S
    BY <1>2, ScriptClears
  <2> QED BY <1>3, <1>4, <2>1, <2>2 DEF TxReady
<1>6. PartsInv'
  <2>1. Delivered' /\ NothingStaged' BY <1>1, <1>4 DEF Delivered, NothingStaged, Fresh
  <2> QED BY <1>0, <1>1, <1>3, <1>4, <2>1 DEF PartsInv, Publishing
<1>7. ClearInv' BY <1>0, <1>1 DEF ClearInv, ClearedUnion
<1>8. OrderInv'
  <2>1. OrderInv BY <1>0 DEF UnitInv
  <2> QED BY <1>1, <1>4, <1>5, <2>1 DEF OrderInv, Publishing
<1>9. FeedInv' BY <1>1, FeedKept
<1>10. RowsExact' /\ ClearedExact' BY <1>1, DataKept
<1>11. ClearedIsDurable' BY <1>0, <1>1 DEF UnitInv, ClearedIsDurable
<1>12. NoColumnDropped' BY <1>0, <1>1 DEF UnitInv, NoColumnDropped
<1> QED BY <1>6, <1>7, <1>8, <1>9, <1>10, <1>11, <1>12 DEF UnitInv

\* A unit that is over, replayed or committed, has left its clears on record.
LEMMA UnitOver == ASSUME SnowAssumption, Inv, TypeInv', Replay \/ CommitTx PROVE UnitInv'
<1>0. TypeInv /\ UnitInv /\ PartsInv /\ ClearInv /\ OrderInv /\ MemoryOK(load) /\ TxOK(tx)
  BY Types DEF Inv, UnitInv
<1>1. /\ pc \in {"loading", "commit"} /\ pc' = "answered" /\ cur \in Unit /\ Delivered
      /\ cur' = cur /\ acked' = acked /\ zombie' = zombie
      /\ narrowed' = narrowed /\ sent' = sent /\ tx' = NoTx /\ ~zombie.open
  <2>1. CASE Replay
    BY <1>0, <2>1 DEF Replay, engineVars, TypeInv, Control, OrderInv, TxReady
  <2>2. CASE CommitTx
    BY <1>0, <2>2 DEF CommitTx, engineVars, TypeInv, Control, PartsInv, Publishing
  <2> QED BY <2>1, <2>2
<1>2. PICK c, s : /\ c = load.cleared \cup load.clearedInUnit \cup load.reclearOwed
                  /\ s = IF CommitTx /\ ~Replay THEN load.singleUnitDone \cup StagedNonempty
                                                ELSE load.singleUnitDone
  OBVIOUS
<1>3. c \in SUBSET Table /\ s \in SUBSET Table BY <1>0, <1>2, Types DEF StagedNonempty
<1>4. PICK l, e : e = {} /\ l = [load EXCEPT !.cleared = c, !.clearedInUnit = e, !.reclearOwed = e,
                                           !.singleUnitDone = s]
  OBVIOUS
<1>5. /\ MemoryOK(l) /\ l.tables = load.tables /\ l.cleared = c /\ l.clearedInUnit = {}
      /\ l.reclearOwed = {} /\ l.singleUnitDone = s
  BY <1>0, <1>3, <1>4 DEF MemoryOK
<1>6. load' = Discarded(l)
  <2>1. CASE Replay
    <3>1. load' = Discarded([load EXCEPT !.cleared = c, !.clearedInUnit = e, !.reclearOwed = e])
      BY <1>0, <1>2, <1>4, <2>1 DEF Replay, MemoryOK
    <3>2. l = [load EXCEPT !.cleared = c, !.clearedInUnit = e, !.reclearOwed = e]
      BY <1>0, <1>2, <1>4, <2>1 DEF MemoryOK
    <3> QED BY <3>1, <3>2
  <2>2. CASE CommitTx /\ ~Replay
    <3>1. PICK c2 : c2 = load.cleared \cup load.clearedInUnit OBVIOUS
    <3>2. load.reclearOwed = {}
      BY <1>0, <2>2 DEF CommitTx, TypeInv, Control, Publishing
    <3>3. c2 = c BY <1>2, <3>1, <3>2
    <3>4. load' = Discarded([load EXCEPT !.singleUnitDone = s, !.cleared = c2, !.clearedInUnit = e])
      BY <1>0, <1>2, <1>4, <2>2, <3>1 DEF CommitTx, MemoryOK
    <3>5. l = [load EXCEPT !.singleUnitDone = s, !.cleared = c2, !.clearedInUnit = e]
      BY <1>0, <1>4, <3>2, <3>3 DEF MemoryOK
    <3> QED BY <3>4, <3>5
  <2> QED BY <2>1, <2>2
<1>7. /\ load'.open = Fresh.open /\ load'.pending = Fresh.pending /\ load'.tables = load.tables
      /\ load'.cleared = c /\ load'.clearedInUnit = {} /\ load'.reclearOwed = {}
      /\ load'.singleUnitDone = s
  BY <1>5, <1>6, DiscardedOK DEF SameGuards
<1>8. PartsInv'
  <2>1. Delivered' /\ NothingStaged' BY <1>1, <1>7 DEF Delivered, NothingStaged, Fresh
  <2> QED BY <1>0, <1>1, <1>7, <2>1, NoTxOK DEF PartsInv, Publishing
<1>9. /\ RowsExact' /\ ClearedExact' /\ db'.receipts = db.receipts \cup {cur}
      /\ db'.state = db.state \/ db'.state = cur
      /\ db.cleared \subseteq db'.cleared
      /\ \A u \in db'.receipts : u = db'.state \/ Before(u, db'.state)
      /\ \A t \in load.clearedInUnit \cup load.reclearOwed : <<cur.load, t>> \in db'.cleared
  <2>1. CASE Replay
    <3>1. db' = db /\ cur \in db.receipts BY <2>1 DEF Replay
    <3>2. RowsExact' /\ ClearedExact' BY <3>1, DataKept
    <3>3. ASSUME NEW t \in load.clearedInUnit \cup load.reclearOwed
          PROVE  <<cur.load, t>> \in db.cleared
      <4>1. t \in Table BY <1>0, Types
      <4>2. Mode[t] = "replace" /\ sent[t] > 0 BY <1>0 DEF ClearInv
      <4>3. sent[t] = Feed(cur, t) BY <1>1, <4>1, AllSent
      <4>4. cur.load \in 1 .. MaxLoad BY <1>1 DEF Unit
      <4> QED BY <1>0, <3>1, <4>1, <4>2, <4>3, <4>4 DEF UnitInv, ClearedExact
    <3> QED BY <1>0, <3>1, <3>2, <3>3 DEF OrderInv
  <2>2. CASE CommitTx
    <3>1. db' = Commit(db, tx) /\ pc = "commit" BY <2>2 DEF CommitTx
    <3>2. /\ tx.receipt = cur /\ TxReady(tx, db.receipts) /\ RowsExact /\ ClearedExact
          /\ load.clearedInUnit = tx.cleared /\ load.reclearOwed = {}
      BY <1>0, <3>1 DEF TypeInv, Control, OrderInv, UnitInv, Publishing
    <3>3. /\ RowsExact' /\ ClearedExact'
          /\ db'.receipts = db.receipts \cup {cur} /\ db'.state = cur
          /\ db.cleared \subseteq db'.cleared
          /\ \A t \in tx.cleared : <<cur.load, t>> \in db'.cleared
      BY <1>0, <1>1, <3>1, <3>2, CommitReady
    <3>4. \A u \in db'.receipts : u = cur \/ Before(u, cur) BY <1>0, <3>3 DEF OrderInv
    <3> QED BY <3>2, <3>3, <3>4
  <2> QED BY <2>1, <2>2
<1>10. ClearInv'
  <2>1. \A t \in Table : Mode[t] = "replace" /\ sent[t] > 0 => t \in c
    BY <1>0, <1>2 DEF ClearInv, ClearedUnion
  <2>2. \A u \in db.receipts \ {cur}, t \in Table :
          u.load = cur.load /\ Mode[t] = "replace" /\ Feed(u, t) > 0 => t \in c
    BY <1>0, <1>1, <1>2 DEF ClearInv
  <2> QED BY <1>1, <1>7, <1>9, <2>1, <2>2, NoTxOK DEF ClearInv, ClearedUnion
<1>11. OrderInv'
  <2>1. \A u \in db'.receipts : u = cur \/ Before(u, cur) BY <1>0, <1>9 DEF OrderInv
  <2>2. acked \subseteq db'.receipts /\ cur \in db'.receipts BY <1>0, <1>9 DEF OrderInv
  <2> QED BY <1>1, <1>9, <2>1, <2>2 DEF OrderInv, Publishing
<1>12. FeedInv'
  <2>1. ASSUME NEW t \in Table, Mode[t] = "feed", Feed(cur, t) > 0
        PROVE  t \in s
    <3>1. CASE Replay
      <4>1. cur \in db.receipts BY <3>1 DEF Replay
      <4> QED BY <1>0, <1>2, <2>1, <3>1, <4>1 DEF UnitInv, FeedInv
    <3>2. CASE CommitTx /\ ~Replay
      <4>1. pc = "commit" /\ tx.adds[t] = Whole(t, cur) BY <1>0, <3>2 DEF CommitTx, PartsInv
      <4>2. PICK r \in Rows(cur, t) : TRUE BY <2>1, <1>1, RowsOrNone
      <4>3. r \in AllRows(t) /\ r.unit = cur BY <1>1 DEF AllRows, Rows
      <4>4. Whole(t, cur)[r] = 1 /\ NoRows[t][r] = 0 BY <4>3 DEF Whole, NoRows
      <4>5. t \in StagedNonempty BY <2>1, <4>1, <4>4 DEF StagedNonempty
      <4> QED BY <1>2, <3>2, <4>5
    <3> QED BY <3>1, <3>2
  <2>2. load.singleUnitDone \subseteq s BY <1>2
  <2> QED BY <1>0, <1>1, <1>7, <1>9, <2>1, <2>2 DEF UnitInv, FeedInv
<1>13. ClearedIsDurable'
  <2>1. \A t \in load.cleared : <<cur.load, t>> \in db.cleared BY <1>0 DEF UnitInv, ClearedIsDurable
  <2> QED BY <1>1, <1>2, <1>7, <1>9, <2>1 DEF ClearedIsDurable
<1>14. NoColumnDropped' BY <1>0, <1>1 DEF UnitInv, NoColumnDropped
<1> QED BY <1>8, <1>9, <1>10, <1>11, <1>12, <1>13, <1>14 DEF UnitInv

\* A unit that failed is begun again from nothing, its clears forgotten.
LEMMA UnitFailed ==
  ASSUME SnowAssumption, Inv, TypeInv', FailUnit, UNCHANGED <<cur, acked>>, pc \in {"copy", "script"}
  PROVE  UnitInv'
<1>0. TypeInv /\ UnitInv /\ PartsInv /\ ClearInv /\ MemoryOK(load) BY Types DEF Inv, UnitInv
<1>1. /\ pc' = "loading" /\ zombie' = zombie /\ db' = db /\ narrowed' = narrowed
      /\ sent' = [t \in Table |-> 0] /\ tx' = NoTx /\ cur' = cur /\ acked' = acked
      /\ load.reclearOwed = {}
  BY <1>0 DEF FailUnit, TypeInv, Control, Publishing
<1>2. PICK e \in SUBSET Table : e = {} OBVIOUS
<1>3. PICK l : l = [load EXCEPT !.clearedInUnit = e] OBVIOUS
<1>4. load' = Discarded(l) BY <1>2, <1>3 DEF FailUnit
<1>5. /\ MemoryOK(l) /\ l.tables = load.tables /\ l.clearedInUnit = {} /\ l.cleared = load.cleared
      /\ l.reclearOwed = {} /\ l.singleUnitDone = load.singleUnitDone
  BY <1>0, <1>1, <1>2, <1>3 DEF MemoryOK
<1>6. /\ load'.open = Fresh.open /\ load'.pending = Fresh.pending /\ MemoryOK(load')
      /\ load'.clearedInUnit = {} /\ load'.cleared = load.cleared
      /\ load'.reclearOwed = {} /\ load'.singleUnitDone = load.singleUnitDone
  BY <1>4, <1>5, DiscardedOK DEF SameGuards
<1>7. \A t \in Table : Placed(cur', t, load', remote', sent'[t])
  <2> SUFFICES ASSUME NEW t \in Table PROVE Placed(cur', t, load', remote', sent'[t]) OBVIOUS
  <2>1. load'.tables[t] \in Nat BY <1>6, PartTypes
  <2>2. Placed(cur', t, load', remote', 0) BY <1>6, <2>1, PlacedNone
  <2> QED BY <1>1, <2>2
<1>8. PartsInv' BY <1>1, <1>7, NoTxOK DEF PartsInv, Publishing
<1>9. ClearInv' BY <1>0, <1>1, <1>6, NoTxOK DEF ClearInv
<1>10. OrderInv' BY <1>1, OrderKept DEF Publishing
<1>11. FeedInv' BY <1>1, <1>6, FeedKept
<1>12. RowsExact' /\ ClearedExact' BY <1>1, DataKept
<1>13. ClearedIsDurable' BY <1>0, <1>1, <1>6 DEF UnitInv, ClearedIsDurable
<1>14. NoColumnDropped' BY <1>0, <1>1 DEF UnitInv, NoColumnDropped
<1> QED BY <1>8, <1>9, <1>10, <1>11, <1>12, <1>13, <1>14 DEF UnitInv

\* A session that ends leaves nothing but what is committed.
LEMMA EndKeeps ==
  ASSUME SnowAssumption, Inv, EndSession, db' = db, narrowed' = narrowed
  PROVE  PartsInv' /\ ClearInv' /\ RowsExact' /\ ClearedExact' /\ ClearedIsDurable' /\ NoColumnDropped'
         /\ pc' = "none"
<1>1. pc' = "none" /\ sent' = [t \in Table |-> 0] /\ tx' = NoTx /\ load' = Fresh BY DEF EndSession
<1>2. NothingStaged' BY <1>1 DEF NothingStaged, Fresh
<1>3. PartsInv' BY <1>1, <1>2, NoTxOK DEF PartsInv, Publishing
<1>4. ClearInv' BY <1>1, NoTxOK, FreshOK DEF ClearInv
<1>5. RowsExact' /\ ClearedExact' BY DataKept
<1>6. ClearedIsDurable' BY <1>1, FreshOK DEF ClearedIsDurable
<1>7. NoColumnDropped' BY DEF Inv, UnitInv, NoColumnDropped
<1> QED BY <1>1, <1>3, <1>4, <1>5, <1>6, <1>7

\* The engine's next load: what is committed is of earlier ones.
LEMMA UnitNextLoad ==
  ASSUME SnowAssumption, Inv, EndSession, db' = db, narrowed' = narrowed, zombie' = zombie,
         ~zombie.open, cur \in Unit, cur' = [load |-> cur.load + 1, seq |-> 1],
         acked' \subseteq db.receipts
  PROVE  UnitInv'
<1>0. UnitInv /\ OrderInv /\ db.receipts \subseteq Unit
  BY DEF Inv, UnitInv, TypeInv, DbOK, DatabaseType
<1>1. /\ PartsInv' /\ ClearInv' /\ RowsExact' /\ ClearedExact' /\ ClearedIsDurable' /\ NoColumnDropped'
      /\ pc' = "none"
  BY EndKeeps
<1>2. cur.load \in Nat /\ cur'.load = cur.load + 1 BY DEF Unit
<1>3. ASSUME NEW u \in db.receipts PROVE u.load < cur'.load
  <2>1. u.load \in Nat /\ (u = cur \/ Before(u, cur)) BY <1>0 DEF OrderInv, Unit
  <2> QED BY <1>2, <2>1 DEF Before
<1>4. OrderInv'
  <2>1. \A u \in db.receipts : u = cur' \/ Before(u, cur') BY <1>3 DEF Before
  <2> QED BY <1>0, <1>1, <2>1 DEF OrderInv, Publishing
<1>5. FeedInv'
  <2>1. \A u \in db.receipts : u.load # cur'.load
    <3>1. \A u \in db.receipts : u.load \in Nat BY <1>0 DEF Unit
    <3> QED BY <1>2, <1>3, <3>1
  <2> QED BY <1>1, <2>1 DEF FeedInv
<1> QED BY <1>1, <1>4, <1>5 DEF UnitInv

\* A session dies, perhaps with its unit's fate open.
LEMMA UnitDies ==
  ASSUME SnowAssumption, Inv, SessionDies \/ DieInCommit PROVE UnitInv'
<1>0. UnitInv /\ OrderInv /\ FeedInv BY DEF Inv, UnitInv
<1>1. /\ EndSession /\ MayDie /\ db' = db /\ narrowed' = narrowed /\ cur' = cur /\ acked' = acked
      /\ zombie' = zombie \/ (zombie' = tx /\ pc = "commit")
  BY DEF SessionDies, DieInCommit
<1>2. /\ PartsInv' /\ ClearInv' /\ RowsExact' /\ ClearedExact' /\ ClearedIsDurable' /\ NoColumnDropped'
      /\ pc' = "none"
  BY <1>1, EndKeeps
<1>3. pc = "commit" => TxReady(tx, db.receipts) /\ tx.receipt = cur
  BY DEF Inv, TypeInv, Control, UnitInv, OrderInv
<1>4. OrderInv' BY <1>0, <1>1, <1>2, <1>3 DEF OrderInv, Publishing
<1>5. FeedInv'
  <2>1. \A u \in db.receipts, t \in Table :
          u.load = cur.load /\ Mode[t] = "feed" => ~(Feed(u, t) > 0)
    <3>1. \A u \in db.receipts, t \in Table :
            u.load = cur.load /\ Mode[t] = "feed" => Feed(u, t) = 0
      BY <1>1 DEF MayDie
    <3> QED BY <3>1
  <2>2. pc = "commit" => \A t \in Table : Mode[t] = "feed" => Feed(cur, t) = 0
    BY <1>1 DEF MayDie
  <2> QED BY <1>0, <1>1, <1>2, <2>1, <2>2 DEF FeedInv
<1> QED BY <1>2, <1>4, <1>5 DEF UnitInv

\* The engine goes on to the next unit of the load, or to the next load.
LEMMA UnitAck == ASSUME SnowAssumption, Inv, TypeInv', EngineAck PROVE UnitInv'
<1>0. /\ TypeInv /\ UnitInv /\ PartsInv /\ ClearInv /\ OrderInv /\ FeedInv /\ MemoryOK(load)
      /\ db.receipts \subseteq Unit
  BY Types DEF Inv, UnitInv, TypeInv, DbOK, DatabaseType
<1>1. /\ pc = "answered" /\ acked' = acked \cup {cur} /\ db' = db /\ zombie' = zombie
      /\ remote' = remote /\ narrowed' = narrowed /\ cur \in Unit /\ cur \in db.receipts
      /\ ~zombie.open /\ tx = NoTx /\ load.reclearOwed = {} /\ load.clearedInUnit = {}
      /\ acked' \subseteq db.receipts
  <2>1. pc = "answered" /\ acked' = acked \cup {cur} /\ db' = db /\ zombie' = zombie
        /\ remote' = remote /\ narrowed' = narrowed
    BY DEF EngineAck, serverVars
  <2> QED BY <1>0, <2>1, NoTxOK DEF TypeInv, Control, OrderInv
<1>2. CASE ~(cur.seq < MaxSeq)
  <2>1. EndSession /\ cur' = [load |-> cur.load + 1, seq |-> 1] BY <1>2 DEF EngineAck
  <2> QED BY <1>1, <2>1, UnitNextLoad
<1>3. CASE cur.seq < MaxSeq
  <2>1. /\ cur' = [cur EXCEPT !.seq = @ + 1] /\ pc' = "loading" /\ sent' = [t \in Table |-> 0]
        /\ tx' = tx /\ load' = load
    BY <1>3 DEF EngineAck
  <2>2. cur'.load = cur.load /\ cur'.seq = cur.seq + 1 /\ cur.seq \in Nat /\ cur.load \in Nat
    BY <1>1, <2>1 DEF Unit
  <2>3. \A u \in db.receipts : Before(u, cur')
    <3> SUFFICES ASSUME NEW u \in db.receipts PROVE Before(u, cur') OBVIOUS
    <3>1. u.load \in Nat /\ u.seq \in Nat /\ (u = cur \/ Before(u, cur))
      BY <1>0 DEF OrderInv, Unit
    <3> QED BY <2>2, <3>1 DEF Before
  <2>4. \A t \in Table : Placed(cur', t, load', remote', sent'[t])
    <3> SUFFICES ASSUME NEW t \in Table PROVE Placed(cur', t, load', remote', sent'[t]) OBVIOUS
    <3>1. load.open = Fresh.open /\ load.pending = Fresh.pending
      BY <1>0, <1>1 DEF PartsInv, NothingStaged
    <3>2. load'.tables[t] \in Nat BY <1>0, <2>1, PartTypes
    <3>3. Placed(cur', t, load', remote', 0) BY <2>1, <3>1, <3>2, PlacedNone
    <3> QED BY <2>1, <3>3
  <2>5. PartsInv' BY <1>0, <1>1, <2>1, <2>4, NoTxOK DEF PartsInv, Publishing
  <2>6. ClearInv'
    <3>1. ASSUME NEW u \in db.receipts, NEW t \in Table,
                 u.load = cur.load, Mode[t] = "replace", Feed(u, t) > 0
          PROVE  t \in load.cleared
      <4>1. CASE u # cur BY <1>0, <1>1, <3>1, <4>1 DEF ClearInv
      <4>2. CASE u = cur
        <5>1. Delivered BY <1>0, <1>1 DEF PartsInv
        <5>2. sent[t] = Feed(cur, t) BY <1>1, <5>1, AllSent
        <5>3. t \in ClearedUnion(load) \cup load.reclearOwed
          BY <1>0, <3>1, <4>2, <5>2 DEF ClearInv
        <5> QED BY <1>1, <5>3 DEF ClearedUnion
      <4> QED BY <4>1, <4>2
    <3> QED BY <1>1, <2>1, <2>2, <3>1, NoTxOK DEF ClearInv
  <2>7. OrderInv' BY <1>0, <1>1, <2>1, <2>3 DEF OrderInv, Publishing
  <2>8. FeedInv' BY <1>0, <1>1, <2>1, <2>2 DEF FeedInv
  <2>9. RowsExact' /\ ClearedExact' BY <1>1, DataKept
  <2>10. ClearedIsDurable' BY <1>0, <1>1, <2>1, <2>2 DEF UnitInv, ClearedIsDurable
  <2>11. NoColumnDropped' BY <1>0, <1>1 DEF UnitInv, NoColumnDropped
  <2> QED BY <2>5, <2>6, <2>7, <2>8, <2>9, <2>10, <2>11 DEF UnitInv
<1> QED BY <1>2, <1>3

\* What the server decides of the transaction in doubt is what the next session finds.
LEMMA UnitServer == ASSUME SnowAssumption, Inv, TypeInv', ZombieEnds PROVE UnitInv'
<1>0. /\ TypeInv /\ UnitInv /\ PartsInv /\ ClearInv /\ OrderInv /\ FeedInv /\ TxOK(zombie)
  BY Types DEF Inv, UnitInv
<1>1. /\ zombie.open /\ zombie' = NoTx /\ remote' = remote /\ cur' = cur /\ acked' = acked
      /\ narrowed' = narrowed /\ pc' = pc /\ sent' = sent /\ tx' = tx
      /\ load' = load /\ (db' = Commit(db, zombie) \/ db' = db)
      /\ pc \in {"none", "loading"} /\ cur \in Unit
      /\ TxReady(zombie, db.receipts) /\ zombie.receipt = cur
  BY <1>0 DEF ZombieEnds, engineVars, TypeInv, Control, OrderInv
<1>2. PartsInv' BY <1>0, <1>1 DEF PartsInv, Publishing, NothingStaged, Fresh, Delivered
<1>3. NoColumnDropped' BY <1>0, <1>1 DEF UnitInv, NoColumnDropped
<1>4. CASE db' = db
  <2>1. RowsExact' /\ ClearedExact' BY <1>4, DataKept
  <2>2. ClearInv' BY <1>0, <1>1, <1>4 DEF ClearInv, ClearedUnion
  <2>3. OrderInv' /\ FeedInv' BY <1>0, <1>1, <1>4, NoTxOK DEF OrderInv, FeedInv, Publishing
  <2>4. ClearedIsDurable' BY <1>0, <1>1, <1>4 DEF UnitInv, ClearedIsDurable
  <2> QED BY <1>2, <1>3, <2>1, <2>2, <2>3, <2>4 DEF UnitInv
<1>5. CASE db' = Commit(db, zombie)
  <2>1. /\ RowsExact' /\ ClearedExact'
        /\ db'.receipts = db.receipts \cup {cur} /\ db'.state = cur
        /\ db.cleared \subseteq db'.cleared
    BY <1>0, <1>1, <1>5, CommitReady DEF UnitInv
  <2>2. ClearInv'
    <3>1. cur \in db'.receipts /\ db'.receipts \ {cur} = db.receipts \ {cur} BY <2>1
    <3> QED BY <1>0, <1>1, <3>1 DEF ClearInv, ClearedUnion
  <2>3. OrderInv'
    <3>1. \A u \in db'.receipts : u = cur \/ Before(u, cur) BY <1>0, <2>1 DEF OrderInv
    <3>2. acked \subseteq db'.receipts BY <1>0, <2>1 DEF OrderInv
    <3> QED BY <1>1, <2>1, <3>1, <3>2, NoTxOK DEF OrderInv, Publishing
  <2>4. FeedInv'
    <3>1. \A t \in Table : Mode[t] = "feed" => ~(Feed(cur, t) > 0)
      <4>1. \A t \in Table : Mode[t] = "feed" => Feed(cur, t) = 0 BY <1>0, <1>1 DEF FeedInv
      <4> QED BY <4>1
    <3> QED BY <1>0, <1>1, <2>1, <3>1, NoTxOK DEF FeedInv
  <2>5. ClearedIsDurable' BY <1>0, <1>1, <2>1 DEF UnitInv, ClearedIsDurable
  <2> QED BY <1>2, <1>3, <2>1, <2>2, <2>3, <2>4, <2>5 DEF UnitInv
<1> QED BY <1>1, <1>4, <1>5

\* A late REMOVE takes files, which the COPY's count finds missing.
LEMMA UnitStray == ASSUME SnowAssumption, Inv, TypeInv', StrayRemove PROVE UnitInv'
<1>0. /\ TypeInv /\ UnitInv /\ PartsInv /\ ClearInv /\ OrderInv /\ FeedInv /\ MemoryOK(load)
  BY Types DEF Inv, UnitInv
<1>1. /\ remote' \subseteq remote /\ db' = db /\ zombie' = zombie /\ cur' = cur /\ acked' = acked
      /\ narrowed' = narrowed /\ pc' = pc /\ sent' = sent /\ tx' = tx /\ load' = load
  BY DEF StrayRemove, engineVars, WithoutLoad
<1>2. ASSUME NEW t \in Table, Placed(cur, t, load, remote, sent[t])
      PROVE  Placed(cur, t, load, remote', sent[t])
  <2>1. load.tables[t] \in Nat /\ load.pending[t].columns \in Nat /\ load.tables[t] <= load.tables[t]
    BY <1>0, PartTypes
  <2> QED BY <1>1, <1>2, <2>1, PlacedStill
<1>3. PartsInv'
  BY <1>0, <1>1, <1>2 DEF PartsInv, Publishing, NothingStaged, Fresh, Delivered
<1>4. ClearInv' BY <1>0, <1>1 DEF ClearInv, ClearedUnion
<1>5. OrderInv' /\ FeedInv' BY <1>0, <1>1 DEF OrderInv, FeedInv, Publishing
<1>6. RowsExact' /\ ClearedExact' BY <1>1, DataKept
<1>7. ClearedIsDurable' /\ NoColumnDropped'
  BY <1>0, <1>1 DEF UnitInv, ClearedIsDurable, NoColumnDropped
<1> QED BY <1>3, <1>4, <1>5, <1>6, <1>7 DEF UnitInv

\* Each step keeps the invariant.
LEMMA UnitStep == ASSUME SnowAssumption, Prompt, Inv, [Next]_vars PROVE Inv'
<1>0. TypeInv' BY TypeStep
<1>1. CASE LoadShort \/ StatementFails
  <2>1. FailUnit /\ UNCHANGED <<cur, acked>> /\ pc \in {"copy", "script"}
    BY <1>1 DEF LoadShort, StatementFails, engineVars
  <2> QED BY <1>0, <2>1, UnitFailed DEF Inv
<1>2. CASE RefuseFeed
  <2>1. /\ pc = "script" /\ EndSession /\ db' = db /\ zombie' = zombie /\ narrowed' = narrowed
        /\ cur' = [load |-> cur.load + 1, seq |-> 1] /\ acked' = acked
    BY <1>2 DEF RefuseFeed, serverVars
  <2>2. cur \in Unit /\ ~zombie.open /\ acked' \subseteq db.receipts
    BY <2>1 DEF Inv, TypeInv, Control, UnitInv, OrderInv
  <2> QED BY <1>0, <2>1, <2>2, UnitNextLoad DEF Inv
<1>3. CASE UNCHANGED vars
  <2>1. UNCHANGED <<db, zombie, remote, cur, acked, deaths, narrowed, pc, sent, tx, load>>
    BY <1>3 DEF vars, serverVars, engineVars
  <2>2. UnitInv BY DEF Inv
  <2>3. PartsInv' /\ ClearInv'
    BY <2>1, <2>2 DEF UnitInv, PartsInv, ClearInv, Publishing, NothingStaged, Fresh, Delivered,
                      ClearedUnion
  <2>4. OrderInv' /\ FeedInv' BY <2>1, <2>2 DEF UnitInv, OrderInv, FeedInv, Publishing
  <2>5. RowsExact' /\ ClearedExact' BY <2>1, DataKept
  <2>6. ClearedIsDurable' /\ NoColumnDropped'
    BY <2>1, <2>2 DEF UnitInv, ClearedIsDurable, NoColumnDropped
  <2> QED BY <1>0, <2>3, <2>4, <2>5, <2>6 DEF Inv, UnitInv
<1>4. CASE Replay \/ CommitTx BY <1>0, <1>4, UnitOver DEF Inv
<1>5. CASE SessionDies \/ DieInCommit BY <1>0, <1>5, UnitDies DEF Inv
<1>6. CASE EngineAck BY <1>0, <1>6, UnitAck DEF Inv
<1>7. CASE ZombieEnds \/ StrayRemove BY <1>0, <1>7, UnitServer, UnitStray DEF Inv
<1>8. CASE OpenSession BY <1>0, <1>8, UnitOpen DEF Inv
<1>9. CASE ProbeFresh \/ CloseAll \/ LoadParts \/ RunScript
  BY <1>0, <1>9, UnitProbe, UnitClose, UnitLoad, UnitScript DEF Inv
<1>10. ASSUME NEW t \in Table, Write(t) PROVE Inv' BY <1>0, <1>10, UnitWrite DEF Inv
<1>11. ASSUME NEW t \in Table, NEW v \in Versions(t), EnsureTable(t, v) PROVE Inv'
  BY <1>0, <1>11, UnitEnsure DEF Inv
<1> QED BY <1>1, <1>2, <1>3, <1>4, <1>5, <1>6, <1>7, <1>8, <1>9, <1>10, <1>11 DEF Next, Progress

LEMMA InvAlways == ASSUME SnowAssumption, Prompt PROVE Spec => []Inv
<1>1. Init => Inv BY TypeInit, UnitInit DEF Inv
<1>2. Inv /\ [Next]_vars => Inv' BY UnitStep
<1> QED BY <1>1, <1>2, PTL DEF Spec

-----------------------------------------------------------------------------
(* The theorems *)

\* The types hold, and the session's idea of its transaction is the server's
\* (TypeOK), through rollbacks ahead of DDL, failures and deaths.
THEOREM TypeCorrect == ASSUME SnowAssumption, Prompt PROVE Spec => []TypeOK
<1>1. Inv => TypeOK
  <2> SUFFICES ASSUME Inv PROVE TypeOK OBVIOUS
  <2>1. TypeInv BY DEF Inv
  <2>2. /\ db.receipts \subseteq Unit /\ db.state \in Unit \cup {NoUnit}
        /\ db.columns \in [Table -> 0 .. MaxVersion]
    BY <2>1 DEF TypeInv, DbOK, DatabaseType
  <2>3. \A f \in remote : f.rows \subseteq AllRows(f.name.table) /\ f.rows # {}
    BY <2>1 DEF TypeInv, FilesOK
  <2>4. /\ ~tx.open => tx = NoTx
        /\ ~zombie.open => zombie = NoTx
        /\ load.clearedInUnit = tx.cleared
        /\ pc \in {"none", "loading", "publish", "copy", "script", "commit", "answered"}
    BY <2>1 DEF TypeInv, Control
  <2>5. /\ \A t \in Table : load.tables[t] <= db.columns[t]
        /\ deaths \in 0 .. MaxDeaths /\ narrowed \in BOOLEAN
    BY <2>1 DEF TypeInv, Engine
  <2> QED BY <2>2, <2>3, <2>4, <2>5 DEF TypeOK
<1> QED BY <1>1, InvAlways, PTL

\* A target the session counts as cleared has a durable clear record of its load
\* (ClearedIsDurable), promoted by a commit or by a replay.
THEOREM ClearedDurable == ASSUME SnowAssumption, Prompt PROVE Spec => []ClearedIsDurable
<1>1. Inv => ClearedIsDurable BY DEF Inv, UnitInv
<1> QED BY <1>1, InvAlways, PTL

\* No COPY leaves out a column that one of its files carries (NoColumnDropped),
\* although the schema may grow between two rows of a unit.
THEOREM ColumnsKept == ASSUME SnowAssumption, Prompt PROVE Spec => []NoColumnDropped
<1>1. Inv => NoColumnDropped BY DEF Inv, UnitInv
<1> QED BY <1>1, InvAlways, PTL

\* The state a later session reads is that of the newest committed unit
\* (StateIsNewest): no MERGE of an older unit's state lands after it.
THEOREM StateNewest == ASSUME SnowAssumption, Prompt PROVE Spec => []StateIsNewest
<1>1. Inv => StateIsNewest
  <2> SUFFICES ASSUME Inv PROVE StateIsNewest OBVIOUS
  <2>1. ASSUME NEW u \in db.receipts
        PROVE  u.load < db.state.load \/ (u.load = db.state.load /\ u.seq <= db.state.seq)
    <3>1. u = db.state \/ Before(u, db.state) BY <2>1 DEF Inv, UnitInv, OrderInv
    <3>2. u \in Unit BY <2>1 DEF Inv, TypeInv, DbOK, DatabaseType
    <3>3. u.load \in Nat /\ u.seq \in Nat BY <3>2 DEF Unit
    <3>4. db.state.seq \in Nat
      BY DEF Inv, TypeInv, DbOK, DatabaseType, Unit, NoUnit
    <3>5. CASE u = db.state BY <3>3, <3>5
    <3>6. CASE Before(u, db.state) BY <3>3, <3>4, <3>6 DEF Before
    <3> QED BY <3>1, <3>5, <3>6
  <2> QED BY <2>1 DEF StateIsNewest
<1> QED BY <1>1, InvAlways, PTL

\* Each load brings rows to every Replace table.
ReloadAssumption ==
  \A l \in 1 .. MaxLoad, t \in Table :
    Mode[t] = "replace" => \E i \in 1 .. MaxSeq : Feed([load |-> l, seq |-> i], t) > 0

\* When a load has committed whole, its Replace tables hold no row of an earlier
\* one (ReloadReplaces), although DDL rolled a clear back in the middle of a unit.
THEOREM Reload ==
  ASSUME SnowAssumption, Prompt, ReloadAssumption PROVE Spec => []ReloadReplaces
<1>1. Inv => ReloadReplaces
  <2>1. SUFFICES ASSUME Inv, NEW l \in 1 .. MaxLoad,
                        \A i \in 1 .. MaxSeq : [load |-> l, seq |-> i] \in db.receipts,
                        NEW t \in Table, Mode[t] = "replace",
                        NEW r \in AllRows(t), r.unit.load < l
                 PROVE  db.rows[t][r] = 0
    BY DEF ReloadReplaces
  <2>2. db.rows[t][r] = IF r.unit \in Abstract!Current(db.receipts, t) THEN 1 ELSE 0
    BY <2>1 DEF Inv, UnitInv, RowsExact, View
  <2>3. r.unit \in Unit /\ r.unit.load \in Nat /\ l \in Nat BY RowOfUnit DEF Unit
  <2>4. PICK i \in 1 .. MaxSeq : Feed([load |-> l, seq |-> i], t) > 0
    BY <2>1 DEF ReloadAssumption
  <2>5. [load |-> l, seq |-> i] \in Unit BY DEF Unit
  <2>6. Rows([load |-> l, seq |-> i], t) # {} BY <2>4, <2>5, RowsOrNone
  <2>7. Promised[t] = "feed" BY <2>1, PromisedModes
  <2>8. ~(l <= r.unit.load) BY <2>1, <2>3
  <2> QED BY <2>1, <2>2, <2>6, <2>7, <2>8 DEF Abstract!Current, Abstract!Newest
<1> QED BY <1>1, InvAlways, PTL

-----------------------------------------------------------------------------
(* The refinement *)

\* A ready transaction that is committed is one Commit of its unit.
LEMMA CommitIsOne ==
  ASSUME SnowAssumption, Inv, Inv', cur \in Unit, NEW x, TxOK(x), TxReady(x, db.receipts),
         x.receipt = cur, db' = Commit(db, x), acked' = acked
  PROVE  Abstract!Commit(cur)
<1>1. cur \notin db.receipts BY DEF TxReady
<1>2. db'.receipts = db.receipts \cup {cur} BY CommitReady DEF Inv, UnitInv
<1>3. db'.receipts \in SUBSET Unit /\ db'.rows \in [Table -> Bags]
  BY DEF Inv, TypeInv, DbOK, DatabaseType
<1>4. Abstract!Exact(db'.receipts) = [t \in Table |-> View(t, db'.receipts)] BY <1>3, ExactView
<1>5. \A t \in Table : db'.rows[t] = View(t, db'.receipts) BY DEF Inv, UnitInv, RowsExact, View
<1>6. db'.rows = Abstract!Exact(db'.receipts) BY <1>3, <1>4, <1>5
<1> QED BY <1>1, <1>2, <1>6 DEF Abstract!Commit

\* Each step is a step of ExactlyOnce or shows nothing.
LEMMA StepImplements ==
  ASSUME SnowAssumption, Prompt, Inv, Inv', [Next]_vars
  PROVE  [Abstract!ENext]_(Abstract!evars)
<1>1. CASE CommitTx
  <2>1. /\ TxReady(tx, db.receipts) /\ TxOK(tx) /\ db' = Commit(db, tx) /\ acked' = acked
        /\ tx.receipt = cur /\ cur \in Unit
    BY <1>1 DEF CommitTx, Inv, UnitInv, OrderInv, TypeInv, Control, engineVars
  <2>2. Abstract!Commit(cur) BY <2>1, CommitIsOne
  <2> QED BY <2>1, <2>2 DEF Abstract!ENext
<1>2. CASE ZombieEnds
  <2>1. /\ TxReady(zombie, db.receipts) /\ TxOK(zombie) /\ acked' = acked
        /\ db' = Commit(db, zombie) \/ db' = db
        /\ zombie.receipt = cur /\ cur \in Unit
    BY <1>2 DEF ZombieEnds, Inv, UnitInv, OrderInv, TypeInv, Control, engineVars
  <2>2. CASE db' = Commit(db, zombie)
    <3>1. Abstract!Commit(cur) BY <2>1, <2>2, CommitIsOne
    <3> QED BY <2>1, <3>1 DEF Abstract!ENext
  <2>3. CASE db' = db BY <2>1, <2>3 DEF Abstract!evars
  <2> QED BY <2>1, <2>2, <2>3
<1>3. CASE EngineAck
  <2>1. /\ cur \in db.receipts /\ cur \in Unit /\ db' = db /\ acked' = acked \cup {cur}
    BY <1>3 DEF EngineAck, serverVars, Inv, UnitInv, OrderInv, TypeInv, Control
  <2>2. Abstract!Ack(cur) BY <2>1 DEF Abstract!Ack
  <2> QED BY <2>1, <2>2 DEF Abstract!ENext
<1>4. CASE db'.rows = db.rows /\ db'.receipts = db.receipts /\ acked' = acked
  BY <1>4 DEF Abstract!evars
<1>5. ASSUME NEW t \in Table, NEW v \in Versions(t), EnsureTable(t, v)
      PROVE  db'.rows = db.rows /\ db'.receipts = db.receipts /\ acked' = acked
  BY <1>5, EnsureEffect DEF Inv, EnsureTable, engineVars
<1>6. ASSUME NEW t \in Table, Write(t) PROVE db' = db /\ acked' = acked
  BY <1>6 DEF Write, engineVars
<1>7. ASSUME \/ OpenSession \/ Replay \/ ProbeFresh \/ CloseAll \/ LoadParts \/ LoadShort
             \/ RefuseFeed \/ RunScript \/ StatementFails
             \/ SessionDies \/ DieInCommit \/ StrayRemove \/ UNCHANGED vars
      PROVE  db' = db /\ acked' = acked
  BY <1>7 DEF OpenSession, Replay, ProbeFresh, CloseAll, LoadParts, LoadShort, RefuseFeed,
              RunScript, StatementFails, FailUnit, SessionDies, DieInCommit, StrayRemove,
              engineVars, serverVars, vars
<1> QED BY <1>1, <1>2, <1>3, <1>4, <1>5, <1>6, <1>7 DEF Next, Progress

\* The unit takes effect once (ImplementsExactlyOnce): with parts uploaded outside
\* of any transaction, DDL in the middle of a unit, a REMOVE that lands late, a
\* session dead in COMMIT, and no key that would refuse a second receipt.
THEOREM Refinement == ASSUME SnowAssumption, Prompt PROVE Spec => ImplementsExactlyOnce
<1>1. Init => Abstract!EInit
  <2>1. SUFFICES ASSUME Init PROVE Abstract!EInit OBVIOUS
  <2>2. RowsExact /\ db.rows \in [Table -> Bags] /\ db.receipts = {} /\ acked = {}
    BY <2>1, TypeInit, UnitInit DEF UnitInv, TypeInv, DbOK, DatabaseType, Init
  <2>3. Abstract!Exact({}) = [t \in Table |-> View(t, {})] BY ExactView
  <2>4. db.rows = Abstract!Exact({}) BY <2>2, <2>3 DEF RowsExact
  <2> QED BY <2>2, <2>4 DEF Abstract!EInit
<1>2. Inv /\ Inv' /\ [Next]_vars => [Abstract!ENext]_(Abstract!evars) BY StepImplements
<1> QED BY <1>1, <1>2, InvAlways, PTL DEF Spec, ImplementsExactlyOnce, Abstract!ESpec
=============================================================================
