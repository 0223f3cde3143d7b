------------------------- MODULE IcebergLoad_proofs -------------------------
(***************************************************************************)
(* Theorems of IcebergLoad, for any tables, feeds, scopes, loads, attempts,*)
(* retention, and number of foreign commits and of deaths; and of          *)
(* IcebergTable, the schema of one table, as an instance, for any sessions *)
(* and whatever schemas they bring.                                        *)
(***************************************************************************)
EXTENDS IcebergLoad, FiniteSetTheorems, TLAPS

Past == [load |-> MaxLoad + 1, seq |-> 1]
Row == [unit : Unit, n : Nat]
Snap == [scope : Nat, unit : Unit \cup {NoUnit}, rows : SUBSET Row]
Receipt == [load : Nat, seq : 1 .. MaxSeq, scope : Nat, at : Nat]
Committing == {"converge", "plan", "sent", "stamping"}

CatalogType ==
  /\ snaps \in [Table -> Seq(Snap)]
  /\ edition \in Nat
  /\ receipts \subseteq Receipt /\ \A r \in receipts : r.at \in 1 .. edition
  /\ stateOf \in [Scope -> Unit \cup {NoUnit}]
WireType ==
  /\ inflight \subseteq [table : Table, base : Nat, snap : Snap]
  /\ late \subseteq [unit : Unit, scope : Scope, base : Nat]
EngineType ==
  /\ cur \in Unit \cup {Past} /\ acked \subseteq Unit
  /\ deaths \in Nat /\ foreign \in Nat
SessionType ==
  /\ pc \in {"none", "loading", "answered"} \cup Committing
  /\ scope \in Nat /\ (pc # "none" => scope \in Scope /\ cur \in Unit)
  /\ sent \in [Table -> Nat]
CommitType ==
  /\ todo \subseteq Table /\ target \subseteq todo /\ \A s, t \in target : s = t
  /\ target # {} => pc \in {"plan", "sent"}
  /\ base \in Nat /\ attempt \in 0 .. Attempts
  /\ attempt = 0 <=> pc \notin {"plan", "sent", "stamping"}
GhostType == dirty \in BOOLEAN /\ stamped \subseteq Unit

Types ==
  /\ CatalogType /\ WireType /\ EngineType /\ SessionType /\ CommitType /\ GhostType

-----------------------------------------------------------------------------
(* The inductive invariant *)

\* Table t has a snapshot with unit u's identity.
In(u, t) == \E i \in DOMAIN snaps[t] : snaps[t][i].unit = u

\* A table's history: whole windows of committed units and the current one,
\* among what other pipelines append; no identity twice.
History ==
  \A t \in Table :
    /\ \A i \in DOMAIN snaps[t] :
         \/ snaps[t][i] = Foreign
         \/ /\ snaps[t][i].unit \in stamped \/ (dirty /\ snaps[t][i].unit = cur)
            /\ snaps[t][i].unit \in Unit
            /\ Feed(snaps[t][i].unit, t) > 0
            /\ snaps[t][i].rows = Rows(snaps[t][i].unit, t)
    /\ \A i, j \in DOMAIN snaps[t] :
         snaps[t][i].unit = snaps[t][j].unit /\ snaps[t][i].unit \in Unit => i = j

\* What the marker says is committed is in every table it has rows for.
Whole == \A u \in stamped : \A t \in Table : Feed(u, t) > 0 => In(u, t)

\* A dead session's append can still land only while nobody appended to the
\* table since, so only if the current unit is not in it.
Appends ==
  \A r \in inflight :
    /\ r.snap.unit \in Unit /\ Feed(r.snap.unit, r.table) > 0
    /\ r.snap.rows = Rows(r.snap.unit, r.table)
    /\ r.base <= Len(snaps[r.table])
    /\ r.base = Len(snaps[r.table]) => r.snap.unit = cur /\ ~In(cur, r.table)

\* The same of a marker commit, which follows all of its unit's appends.
Stamps ==
  \A r \in late :
    /\ r.base <= edition
    /\ r.base = edition => r.unit = cur /\ pc # "answered"
    /\ \A t \in Table : Feed(r.unit, t) > 0 => In(r.unit, t)

\* The commit under way: what is no longer to do is in the table; and what the
\* history has of the unit carries the scope by which it is recognised.
Underway ==
  /\ pc \in Committing => /\ \A t \in Table : sent[t] = Feed(cur, t)
                          /\ \A t \in todo : sent[t] > 0
                          /\ \A t \in Table \ todo : sent[t] > 0 => In(cur, t)
  /\ pc # "none" => \A r \in inflight : r.snap.scope = scope
  /\ pc \in {"plan", "sent"} =>
       \A t \in target : /\ base <= Len(snaps[t])
                         /\ \A i \in DOMAIN snaps[t] : snaps[t][i].unit = cur => snaps[t][i].scope = scope
  /\ pc = "sent" => \A t \in target : \A i \in 1 .. base : snaps[t][i].unit # cur
  /\ pc = "stamping" => todo = {} /\ base <= edition
  /\ pc = "answered" => cur \in stamped
  /\ \A t \in Table : sent[t] <= IF cur \in Unit THEN Feed(cur, t) ELSE 0

\* The marker: the newest unit of each scope's state, one receipt for a load.
NotAfter(u, v) == u.load < v.load \/ (u.load = v.load /\ u.seq <= v.seq)
MarkerInv ==
  /\ \A s \in Scope : NotAfter(stateOf[s], cur)
  /\ \A u \in stamped : u.load <= cur.load
  /\ acked \subseteq stamped
  /\ dirty => cur \in Unit \ stamped
  /\ \A r, q \in receipts : r.load = q.load => r = q
  /\ \A r \in receipts : r.load <= MaxLoad => r.scope # 0
  /\ ReceiptKept

IceInv == Types /\ History /\ Whole /\ Appends /\ Stamps /\ Underway /\ MarkerInv

-----------------------------------------------------------------------------
(* What a step leaves alone *)

LEMMA Bounds ==
  ASSUME IcebergAssumption
  PROVE  /\ MaxLoad \in Nat \ {0} /\ MaxSeq \in Nat \ {0}
         /\ Attempts \in Nat \ {0}
         /\ \A u \in Unit, t \in Table : Feed(u, t) \in Nat
         /\ Scope \subseteq Nat \ {0}
         /\ \A u \in Unit : u.load \in 1 .. MaxLoad /\ u.seq \in 1 .. MaxSeq
         /\ NoUnit \notin Unit /\ Past \notin Unit
         /\ NoUnit.load = 0 /\ Past.load = MaxLoad + 1 /\ Past # NoUnit
         /\ \A u \in Unit \cup {NoUnit, Past} : u.load \in Nat /\ u.seq \in Nat
  BY DEF IcebergAssumption, Unit, NoUnit, Past

\* The rows of a unit name it.
LEMMA RowsOf ==
  ASSUME IcebergAssumption, NEW u \in Unit, NEW t \in Table
  PROVE  /\ Rows(u, t) \subseteq Row
         /\ \A r \in Rows(u, t) : r.unit = u
         /\ Feed(u, t) > 0 <=> Rows(u, t) # {}
<1>1. Feed(u, t) \in Nat BY Bounds
<1>2. Rows(u, t) \subseteq Row /\ \A r \in Rows(u, t) : r.unit = u
  BY <1>1 DEF Rows, Row
<1>3. ASSUME Feed(u, t) > 0 PROVE Rows(u, t) # {}
  <2>1. 1 \in 1 .. Feed(u, t) BY <1>1, <1>3
  <2> QED BY <2>1 DEF Rows
<1>4. ASSUME Rows(u, t) # {} PROVE Feed(u, t) > 0
  <2>1. PICK i \in 1 .. Feed(u, t) : TRUE BY <1>4 DEF Rows
  <2> QED BY <2>1, <1>1
<1> QED BY <1>2, <1>3, <1>4

\* One more snapshot at the end of a table's history.
LEMMA Appended ==
  ASSUME CatalogType, NEW t \in Table, NEW snap \in Snap, Append1(t, snap)
  PROVE  /\ snaps' \in [Table -> Seq(Snap)]
         /\ \A x \in Table \ {t} : snaps'[x] = snaps[x]
         /\ Len(snaps[t]) \in Nat /\ DOMAIN snaps[t] = 1 .. Len(snaps[t])
         /\ Len(snaps'[t]) = Len(snaps[t]) + 1
         /\ DOMAIN snaps'[t] = 1 .. Len(snaps[t]) + 1
         /\ \A i \in DOMAIN snaps[t] : snaps'[t][i] = snaps[t][i]
         /\ snaps'[t][Len(snaps[t]) + 1] = snap
         /\ \A u : \A x \in Table : In(u, x)' <=> In(u, x) \/ (x = t /\ snap.unit = u)
<1>1. snaps \in [Table -> Seq(Snap)] /\ snaps[t] \in Seq(Snap) BY DEF CatalogType
<1>2. snaps' = [snaps EXCEPT ![t] = Append(snaps[t], snap)] BY DEF Append1
<1>3. snaps'[t] = Append(snaps[t], snap) /\ \A x \in Table \ {t} : snaps'[x] = snaps[x]
  BY <1>1, <1>2
<1>4. Append(snaps[t], snap) \in Seq(Snap) BY <1>1
<1>5. snaps' \in [Table -> Seq(Snap)] BY <1>1, <1>2, <1>4
<1>6. /\ Len(snaps[t]) \in Nat /\ DOMAIN snaps[t] = 1 .. Len(snaps[t])
      /\ Len(snaps'[t]) = Len(snaps[t]) + 1
      /\ DOMAIN snaps'[t] = 1 .. Len(snaps[t]) + 1
      /\ \A i \in DOMAIN snaps[t] : snaps'[t][i] = snaps[t][i]
      /\ snaps'[t][Len(snaps[t]) + 1] = snap
  BY <1>1, <1>3
<1>7. ASSUME NEW u, NEW x \in Table
      PROVE  In(u, x)' <=> In(u, x) \/ (x = t /\ snap.unit = u)
  <2>1. CASE x # t
    BY <1>3, <2>1 DEF In
  <2>2. CASE x = t
    <3>1. In(u, x) => In(u, x)' BY <1>6, <2>2 DEF In
    <3>2. snap.unit = u => In(u, x)'
      <4>1. Len(snaps[t]) + 1 \in DOMAIN snaps'[t] BY <1>6
      <4> QED BY <4>1, <1>6, <2>2 DEF In
    <3>3. ASSUME In(u, x)' PROVE In(u, x) \/ snap.unit = u
      <4>1. PICK i \in DOMAIN snaps'[t] : snaps'[t][i].unit = u BY <3>3, <2>2 DEF In
      <4>2. CASE i \in DOMAIN snaps[t] BY <4>1, <4>2, <1>6, <2>2 DEF In
      <4>3. CASE i = Len(snaps[t]) + 1 BY <4>1, <4>3, <1>6
      <4> QED BY <4>2, <4>3, <1>6
    <3> QED BY <3>1, <3>2, <3>3, <2>2
  <2> QED BY <2>1, <2>2
<1> QED BY <1>3, <1>5, <1>6, <1>7

\* A step of the session alone: the marker, the histories and the wire keep
\* what the invariant says of them.
LEMMA Alone ==
  ASSUME IceInv, UNCHANGED <<catalogVars, wireVars, cur, acked, ghostVars>>,
         pc' = "answered" => pc = "answered"
  PROVE  /\ History' /\ Whole' /\ Appends' /\ Stamps' /\ MarkerInv'
         /\ CatalogType' /\ WireType' /\ GhostType'
<1> USE DEF catalogVars, wireVars, ghostVars
<1>1. History' /\ Whole' BY DEF IceInv, History, Whole, In
<1>2. Appends' /\ Stamps' BY DEF IceInv, Appends, Stamps, In
<1>3. MarkerInv' BY DEF IceInv, MarkerInv, ReceiptKept, ExistingReceipt, NotAfter
<1>4. CatalogType' /\ WireType' /\ GhostType' BY DEF IceInv, Types, CatalogType, WireType, GhostType
<1> QED BY <1>1, <1>2, <1>3, <1>4

\* A session that ends holds nothing.
LEMMA Ended ==
  ASSUME IcebergAssumption, IceInv, EndSession, cur' = cur
  PROVE  SessionType' /\ CommitType' /\ Underway'
<1>1. /\ pc' = "none" /\ scope' = 0 /\ sent' = [t \in Table |-> 0]
      /\ todo' = {} /\ target' = {} /\ base' = 0 /\ attempt' = 0
  BY DEF EndSession, NoCommit
<1>2. SessionType' /\ CommitType' BY <1>1, Bounds DEF SessionType, CommitType
<1>3. cur' \in Unit => \A t \in Table : Feed(cur', t) \in Nat BY Bounds
<1>4. Underway' BY <1>1, <1>3 DEF Underway, Committing
<1> QED BY <1>2, <1>4

-----------------------------------------------------------------------------
(* The steps of a session that change nothing but its own memory *)

LEMMA OpenKeeps ==
  ASSUME IcebergAssumption, IceInv, OpenSession
  PROVE  IceInv'
<1> USE Bounds DEF OpenSession
<1>1. History' /\ Whole' /\ Appends' /\ Stamps' /\ MarkerInv'
      /\ CatalogType' /\ WireType' /\ GhostType'
  BY Alone DEF engineVars
<1>2. EngineType' /\ SessionType' /\ CommitType'
  BY DEF IceInv, Types, EngineType, SessionType, CommitType, engineVars, commitVars, Committing
<1>3. Underway'
  BY DEF IceInv, Underway, Committing, catalogVars, wireVars, engineVars, commitVars, ghostVars
<1> QED BY <1>1, <1>2, <1>3 DEF IceInv, Types

LEMMA WriteKeeps ==
  ASSUME IcebergAssumption, IceInv, NEW t \in Table, Write(t)
  PROVE  IceInv'
<1> USE Bounds DEF Write
<1>1. History' /\ Whole' /\ Appends' /\ Stamps' /\ MarkerInv'
      /\ CatalogType' /\ WireType' /\ GhostType'
  BY Alone DEF engineVars
<1>2. EngineType' /\ SessionType' /\ CommitType'
  BY DEF IceInv, Types, EngineType, SessionType, CommitType, engineVars, commitVars, Committing
<1>3. cur \in Unit /\ Feed(cur, t) \in Nat /\ sent \in [Table -> Nat]
  BY DEF IceInv, Types, SessionType
<1>4. Underway'
  BY <1>3 DEF IceInv, Underway, Committing, catalogVars, wireVars, engineVars, commitVars, ghostVars
<1> QED BY <1>1, <1>2, <1>4 DEF IceInv, Types

LEMMA StartKeeps ==
  ASSUME IcebergAssumption, IceInv, StartConverge
  PROVE  IceInv'
<1> USE Bounds DEF StartConverge, Delivered
<1>1. History' /\ Whole' /\ Appends' /\ Stamps' /\ MarkerInv'
      /\ CatalogType' /\ WireType' /\ GhostType'
  BY Alone DEF engineVars
<1>2. EngineType' /\ SessionType' /\ CommitType'
  BY DEF IceInv, Types, EngineType, SessionType, CommitType, engineVars, commitVars, Committing
<1>3. Underway'
  BY DEF IceInv, Underway, Committing, catalogVars, wireVars, engineVars, commitVars, ghostVars
<1> QED BY <1>1, <1>2, <1>3 DEF IceInv, Types

LEMMA VisitKeeps ==
  ASSUME IcebergAssumption, IceInv, NEW t \in Table, Visit(t)
  PROVE  IceInv'
<1> USE Bounds DEF Visit
<1>1. History' /\ Whole' /\ Appends' /\ Stamps' /\ MarkerInv'
      /\ CatalogType' /\ WireType' /\ GhostType'
  BY Alone DEF engineVars
<1>2. /\ snaps \in [Table -> Seq(Snap)] /\ Len(snaps[t]) \in Nat
      /\ DOMAIN snaps[t] = 1 .. Len(snaps[t])
  BY DEF IceInv, Types, CatalogType
<1>3. target = {} /\ todo \subseteq Table /\ cur' = cur /\ snaps' = snaps /\ sent' = sent
  BY DEF IceInv, Types, CommitType, engineVars, catalogVars
<1>4. CASE LoadCommitted(t)
  <2>1. EngineType' /\ SessionType' /\ CommitType'
    BY <1>4 DEF IceInv, Types, EngineType, SessionType, CommitType, engineVars, Committing
  <2>2. In(cur, t) BY <1>4 DEF LoadCommitted, In
  <2>3. \A x : In(cur, x)' <=> In(cur, x) BY <1>3 DEF In
  <2>4. Underway'
    BY <1>3, <1>4, <2>2, <2>3 DEF IceInv, Underway, Committing, wireVars, engineVars, ghostVars
  <2> QED BY <1>1, <2>1, <2>4 DEF IceInv, Types
<1>5. CASE ~LoadCommitted(t)
  <2>1. EngineType' /\ SessionType' /\ CommitType'
    BY <1>2, <1>5 DEF IceInv, Types, EngineType, SessionType, CommitType, engineVars, Committing
  <2>2. \A i \in DOMAIN snaps[t] : snaps[t][i].unit # cur BY <1>5 DEF LoadCommitted
  <2>3. \A x : In(cur, x)' <=> In(cur, x) BY <1>3 DEF In
  <2>4. Underway'
    BY <1>2, <1>3, <1>5, <2>2, <2>3 DEF IceInv, Underway, Committing, wireVars, engineVars, ghostVars
  <2> QED BY <1>1, <2>1, <2>4 DEF IceInv, Types
<1> QED BY <1>4, <1>5

\* The session has one table's append under way.
LEMMA TargetIs ==
  ASSUME IceInv, NEW t \in Table, t \in target, pc \in {"plan", "sent"}
  PROVE  /\ t \in todo /\ cur \in Unit /\ Feed(cur, t) > 0 /\ scope \in Scope
         /\ Window(t) = Rows(cur, t) /\ snaps \in [Table -> Seq(Snap)]
         /\ base \in Nat /\ base <= Len(snaps[t]) /\ Len(snaps[t]) \in Nat
         /\ DOMAIN snaps[t] = 1 .. Len(snaps[t])
<1>1. snaps \in [Table -> Seq(Snap)] /\ Len(snaps[t]) \in Nat /\ DOMAIN snaps[t] = 1 .. Len(snaps[t])
  BY DEF IceInv, Types, CatalogType
<1>2. t \in todo /\ cur \in Unit /\ scope \in Scope /\ base \in Nat
  BY DEF IceInv, Types, SessionType, CommitType
<1>3. sent[t] = Feed(cur, t) /\ sent[t] > 0 /\ base <= Len(snaps[t])
  BY <1>2 DEF IceInv, Underway, Committing
<1>4. Window(t) = Rows(cur, t) BY <1>3 DEF Window, Rows
<1> QED BY <1>1, <1>2, <1>3, <1>4

LEMMA PlanKeeps ==
  ASSUME IcebergAssumption, IceInv, NEW t \in Table, PlanAppend(t)
  PROVE  IceInv'
<1> USE Bounds DEF PlanAppend
<1>1. History' /\ Whole' /\ Appends' /\ Stamps' /\ MarkerInv'
      /\ CatalogType' /\ WireType' /\ GhostType'
  BY Alone DEF engineVars
<1>2. /\ base <= Len(snaps[t]) /\ Len(snaps[t]) \in Nat /\ DOMAIN snaps[t] = 1 .. Len(snaps[t])
      /\ base \in Nat
  BY TargetIs
<1>3. cur' = cur /\ snaps' = snaps /\ sent' = sent /\ inflight' = inflight /\ scope' = scope
  BY DEF engineVars, catalogVars, wireVars
<1>4. \A x : In(cur, x)' <=> In(cur, x) BY <1>3 DEF In
<1>5. CASE AlreadyCommitted(t)
  <2>1. EngineType' /\ SessionType' /\ CommitType'
    BY <1>5 DEF IceInv, Types, EngineType, SessionType, CommitType, engineVars, Committing
  <2>2. In(cur, t) BY <1>2, <1>5 DEF AlreadyCommitted, In
  <2>4. Underway'
    BY <1>3, <1>4, <1>5, <2>2 DEF IceInv, Underway, Committing
  <2> QED BY <1>1, <2>1, <2>4 DEF IceInv, Types
<1>6. CASE ~AlreadyCommitted(t)
  <2>1. EngineType' /\ SessionType' /\ CommitType'
    BY <1>6 DEF IceInv, Types, EngineType, SessionType, CommitType, engineVars, commitVars, Committing
  <2>2. \A x \in target : \A i \in 1 .. base : snaps[x][i].unit # cur
    <3> SUFFICES ASSUME NEW x \in target, NEW i \in 1 .. base, snaps[x][i].unit = cur
                 PROVE  FALSE
      OBVIOUS
    <3>1. x = t BY DEF IceInv, Types, CommitType
    <3>2. snaps[x][i].scope = scope BY <3>1, <1>2 DEF IceInv, Underway
    <3> QED BY <3>1, <3>2, <1>6 DEF AlreadyCommitted
  <2>4. Underway'
    BY <1>3, <1>4, <1>6, <2>2 DEF IceInv, Underway, Committing, commitVars
  <2> QED BY <1>1, <2>1, <2>4 DEF IceInv, Types
<1> QED BY <1>5, <1>6

LEMMA AppendConflictsKeeps ==
  ASSUME IcebergAssumption, IceInv, NEW t \in Table, AppendConflicts(t)
  PROVE  IceInv'
<1> USE Bounds DEF AppendConflicts
<1>1. History' /\ Whole' /\ Appends' /\ Stamps' /\ MarkerInv'
      /\ CatalogType' /\ WireType' /\ GhostType'
  BY Alone DEF engineVars, EndSession
<1>2. /\ base <= Len(snaps[t]) /\ Len(snaps[t]) \in Nat /\ base \in Nat
  BY TargetIs
<1>3. cur' = cur /\ snaps' = snaps /\ inflight' = inflight
  BY DEF engineVars, catalogVars, wireVars
<1>4. \A x : In(cur, x)' <=> In(cur, x) BY <1>3 DEF In
<1>5. EngineType' BY DEF IceInv, Types, EngineType, engineVars
<1>6. CASE attempt < Attempts
  <2>1. SessionType' /\ CommitType'
    BY <1>2, <1>6 DEF IceInv, Types, SessionType, CommitType, engineVars, Committing
  <2>2. \A x \in target : x = t BY DEF IceInv, Types, CommitType
  <2>3. Underway'
    BY <1>2, <1>3, <1>4, <1>6, <2>2 DEF IceInv, Underway, Committing
  <2> QED BY <1>1, <1>5, <2>1, <2>3 DEF IceInv, Types
<1>7. CASE ~(attempt < Attempts)
  BY <1>1, <1>3, <1>5, <1>7, Ended DEF IceInv, Types
<1> QED BY <1>6, <1>7

LEMMA SendKeeps ==
  ASSUME IcebergAssumption, IceInv, SendState
  PROVE  IceInv'
<1> USE Bounds DEF SendState
<1>1. History' /\ Whole' /\ Appends' /\ Stamps' /\ MarkerInv'
      /\ CatalogType' /\ WireType' /\ GhostType'
  BY Alone DEF engineVars
<1>2. EngineType' /\ SessionType' /\ CommitType'
  BY DEF IceInv, Types, CatalogType, EngineType, SessionType, CommitType, engineVars, Committing
<1>3. edition \in Nat BY DEF IceInv, Types, CatalogType
<1>4. Underway'
  BY <1>3 DEF IceInv, Underway, Committing, catalogVars, wireVars, engineVars, ghostVars, In
<1> QED BY <1>1, <1>2, <1>4 DEF IceInv, Types

LEMMA StateConflictsKeeps ==
  ASSUME IcebergAssumption, IceInv, StateConflicts
  PROVE  IceInv'
<1> USE Bounds DEF StateConflicts
<1>1. History' /\ Whole' /\ Appends' /\ Stamps' /\ MarkerInv'
      /\ CatalogType' /\ WireType' /\ GhostType'
  BY Alone DEF engineVars, EndSession
<1>2. EngineType' BY DEF IceInv, Types, EngineType, engineVars
<1>3. edition \in Nat BY DEF IceInv, Types, CatalogType
<1>4. CASE attempt < Attempts
  <2>1. SessionType' /\ CommitType'
    BY <1>3, <1>4 DEF IceInv, Types, SessionType, CommitType, engineVars, Committing
  <2>2. Underway'
    BY <1>3, <1>4 DEF IceInv, Underway, Committing, catalogVars, wireVars, engineVars, ghostVars, In
  <2> QED BY <1>1, <1>2, <2>1, <2>2 DEF IceInv, Types
<1>5. CASE ~(attempt < Attempts)
  BY <1>1, <1>2, <1>5, Ended DEF IceInv, Types, engineVars
<1> QED BY <1>4, <1>5

LEMMA DiesKeeps ==
  ASSUME IcebergAssumption, IceInv, SessionDies
  PROVE  IceInv'
<1> USE DEF SessionDies
<1>1. History' /\ Whole' /\ Appends' /\ Stamps' /\ MarkerInv'
      /\ CatalogType' /\ WireType' /\ GhostType'
  BY Alone DEF EndSession
<1>2. EngineType' BY DEF IceInv, Types, EngineType
<1> QED BY <1>1, <1>2, Ended DEF IceInv, Types

-----------------------------------------------------------------------------
(* The engine's answer, and deaths with a request on the wire *)

\* The units a load's last commit leaves open.
LEMMA NextUnit ==
  ASSUME IcebergAssumption, cur \in Unit,
         cur' = IF cur.seq < MaxSeq THEN [cur EXCEPT !.seq = @ + 1]
                ELSE [load |-> cur.load + 1, seq |-> 1]
  PROVE  /\ cur' \in Unit \cup {Past}
         /\ cur.seq < MaxSeq => cur' \in Unit /\ cur'.load = cur.load /\ cur'.seq = cur.seq + 1
         /\ cur.seq >= MaxSeq => cur'.load = cur.load + 1 /\ cur'.seq = 1
  BY Bounds DEF Unit, Past

LEMMA AckKeeps ==
  ASSUME IcebergAssumption, IceInv, EngineAck
  PROVE  IceInv'
<1> USE Bounds
<1>1. /\ pc = "answered" /\ cur \in Unit /\ cur \in stamped /\ ~dirty
      /\ acked' = acked \cup {cur} /\ stamped' = stamped /\ dirty' = dirty
      /\ snaps' = snaps /\ receipts' = receipts /\ stateOf' = stateOf /\ edition' = edition
      /\ inflight' = inflight /\ late' = late /\ deaths' = deaths /\ foreign' = foreign
      /\ sent' = [t \in Table |-> 0]
      /\ todo' = {} /\ target' = {} /\ base' = 0 /\ attempt' = 0
      /\ pc' \in {"loading", "none"}
  BY DEF EngineAck, NoCommit, IceInv, Types, SessionType, Underway, MarkerInv,
         catalogVars, wireVars, ghostVars
<1>2. cur' = IF cur.seq < MaxSeq THEN [cur EXCEPT !.seq = @ + 1]
                ELSE [load |-> cur.load + 1, seq |-> 1]
  BY DEF EngineAck
<1>3. /\ cur' \in Unit \cup {Past}
      /\ cur.seq < MaxSeq => cur' \in Unit /\ cur'.load = cur.load /\ cur'.seq = cur.seq + 1
      /\ cur.seq >= MaxSeq => cur'.load = cur.load + 1 /\ cur'.seq = 1
  BY <1>1, <1>2, NextUnit
<1>4. cur.seq < MaxSeq => pc' = "loading" /\ scope' = scope
  BY DEF EngineAck
<1>5. cur.seq >= MaxSeq => pc' = "none" /\ scope' = 0
  BY <1>1 DEF EngineAck
<1>6. CatalogType' /\ WireType' /\ GhostType'
  BY <1>1 DEF IceInv, Types, CatalogType, WireType, GhostType
<1>7. EngineType' /\ CommitType'
  BY <1>1, <1>3 DEF IceInv, Types, EngineType, CommitType
<1>8. SessionType'
  BY <1>1, <1>3, <1>4, <1>5 DEF IceInv, Types, SessionType, Committing
<1>9. History' /\ Whole' BY <1>1 DEF IceInv, History, Whole, In
<1>10. Appends'
  <2>1. \A u, t : In(u, t)' <=> In(u, t) BY <1>1 DEF In
  <2>2. \A r \in inflight : r.base # Len(snaps[r.table])
    <3> SUFFICES ASSUME NEW r \in inflight, r.base = Len(snaps[r.table]) PROVE FALSE
      OBVIOUS
    <3>1. /\ r.table \in Table /\ r.snap.unit = cur /\ ~In(cur, r.table)
          /\ Feed(cur, r.table) > 0
      BY DEF IceInv, Types, WireType, Appends
    <3> QED BY <1>1, <3>1 DEF IceInv, Whole
  <2> QED BY <1>1, <2>1, <2>2 DEF IceInv, Appends
<1>11. Stamps' BY <1>1 DEF IceInv, Stamps, In
<1>12. Underway'
  BY <1>1, <1>3, <1>4, <1>5 DEF IceInv, Underway, Committing
<1>13. MarkerInv'
  <2>1. \A s \in Scope : stateOf[s] \in Unit \cup {NoUnit}
    BY DEF IceInv, Types, CatalogType
  <2>2. \A s \in Scope : NotAfter(stateOf'[s], cur')
    BY <1>1, <1>3, <2>1 DEF IceInv, MarkerInv, NotAfter
  <2>3. \A u \in stamped' : u.load <= cur'.load
    BY <1>1, <1>3 DEF IceInv, MarkerInv, Types, GhostType
  <2>4. ReceiptKept'
    <3> SUFFICES ASSUME NEW u \in stamped, u.load = cur'.load PROVE ExistingReceipt(u)'
      BY <1>1 DEF ReceiptKept
    <3>1. u.load <= cur.load /\ u \in Unit BY DEF IceInv, MarkerInv, Types, GhostType
    <3>2. u.load = cur.load BY <1>1, <1>3, <3>1
    <3> QED BY <1>1, <3>2 DEF IceInv, MarkerInv, ReceiptKept, ExistingReceipt
  <2> QED BY <1>1, <2>2, <2>3, <2>4 DEF IceInv, MarkerInv
<1> QED BY <1>6, <1>7, <1>8, <1>9, <1>10, <1>11, <1>12, <1>13 DEF IceInv, Types

LEMMA DieInAppendKeeps ==
  ASSUME IcebergAssumption, IceInv, DieInAppend
  PROVE  IceInv'
<1> USE Bounds
<1> DEFINE Request(t) == [table |-> t, base |-> base, snap |-> Snapshot(scope, cur, Window(t))]
<1>1. /\ pc = "sent" /\ pc' = "none" /\ deaths' = deaths + 1
      /\ inflight' = inflight \cup {Request(t) : t \in target}
      /\ UNCHANGED <<catalogVars, late, cur, acked, foreign, ghostVars>>
      /\ EndSession
  BY DEF DieInAppend, EndSession
<1>2. UNCHANGED <<snaps, receipts, stateOf, edition, late, cur, acked, foreign, dirty, stamped>>
  BY <1>1 DEF catalogVars, ghostVars
<1>3. \A t \in target :
        /\ Request(t) \in [table : Table, base : Nat, snap : Snap]
        /\ Request(t).snap.unit = cur /\ Request(t).snap.rows = Rows(cur, t)
        /\ Request(t).table = t /\ Request(t).base = base
        /\ cur \in Unit /\ Feed(cur, t) > 0 /\ base <= Len(snaps[t])
        /\ base = Len(snaps[t]) => ~In(cur, t)
  <2> SUFFICES ASSUME NEW t \in target
               PROVE  /\ Request(t) \in [table : Table, base : Nat, snap : Snap]
                      /\ Request(t).snap.unit = cur /\ Request(t).snap.rows = Rows(cur, t)
                      /\ Request(t).table = t /\ Request(t).base = base
                      /\ cur \in Unit /\ Feed(cur, t) > 0 /\ base <= Len(snaps[t])
                      /\ base = Len(snaps[t]) => ~In(cur, t)
    OBVIOUS
  <2>1. t \in Table BY DEF IceInv, Types, CommitType
  <2>2. /\ cur \in Unit /\ Feed(cur, t) > 0 /\ scope \in Scope
        /\ Window(t) = Rows(cur, t)
        /\ base \in Nat /\ base <= Len(snaps[t])
        /\ DOMAIN snaps[t] = 1 .. Len(snaps[t])
    BY <1>1, <2>1, TargetIs
  <2>3. Rows(cur, t) \subseteq Row BY <2>1, <2>2, RowsOf
  <2>4. Snapshot(scope, cur, Window(t)) \in Snap
    BY <2>2, <2>3 DEF Snapshot, Snap
  <2>5. base = Len(snaps[t]) => ~In(cur, t)
    BY <1>1, <2>2 DEF IceInv, Underway, In
  <2> QED BY <2>1, <2>2, <2>4, <2>5 DEF Snapshot
<1> HIDE DEF Request
<1>4. CatalogType' /\ GhostType' /\ EngineType'
  BY <1>1, <1>2 DEF IceInv, Types, CatalogType, GhostType, EngineType
<1>5. WireType' BY <1>1, <1>2, <1>3 DEF IceInv, Types, WireType
<1>6. SessionType' /\ CommitType' /\ Underway' BY <1>1, <1>2, Ended
<1>7. History' /\ Whole' BY <1>2 DEF IceInv, History, Whole, In
<1>8. Appends'
  <2>1. \A u, t : In(u, t)' <=> In(u, t) BY <1>2 DEF In
  <2> QED BY <1>1, <1>2, <1>3, <2>1 DEF IceInv, Appends
<1>9. Stamps' BY <1>1, <1>2 DEF IceInv, Stamps, In
<1>10. MarkerInv'
  BY <1>2 DEF IceInv, MarkerInv, ReceiptKept, ExistingReceipt, NotAfter
<1> QED BY <1>4, <1>5, <1>6, <1>7, <1>8, <1>9, <1>10 DEF IceInv, Types

LEMMA DieInPersistKeeps ==
  ASSUME IcebergAssumption, IceInv, DieInPersist
  PROVE  IceInv'
<1> USE Bounds
<1> DEFINE request == [unit |-> cur, scope |-> scope, base |-> base]
<1>1. /\ pc = "stamping" /\ pc' = "none" /\ deaths' = deaths + 1
      /\ late' = late \cup {request}
      /\ UNCHANGED <<catalogVars, inflight, cur, acked, foreign, ghostVars>>
      /\ EndSession
  BY DEF DieInPersist, EndSession
<1>2. UNCHANGED <<snaps, receipts, stateOf, edition, inflight, cur, acked, foreign, dirty, stamped>>
  BY <1>1 DEF catalogVars, ghostVars
<1>3. /\ request \in [unit : Unit, scope : Scope, base : Nat]
      /\ request.unit = cur /\ request.base <= edition
      /\ \A t \in Table : Feed(cur, t) > 0 => In(cur, t)
  BY <1>1 DEF IceInv, Types, SessionType, CommitType, Underway, Committing
<1> HIDE DEF request
<1>4. CatalogType' /\ GhostType' /\ EngineType'
  BY <1>1, <1>2 DEF IceInv, Types, CatalogType, GhostType, EngineType
<1>5. WireType' BY <1>1, <1>2, <1>3 DEF IceInv, Types, WireType
<1>6. SessionType' /\ CommitType' /\ Underway' BY <1>1, <1>2, Ended
<1>7. History' /\ Whole' BY <1>2 DEF IceInv, History, Whole, In
<1>8. Appends' BY <1>2 DEF IceInv, Appends, In
<1>9. Stamps'
  <2>1. \A u, t : In(u, t)' <=> In(u, t) BY <1>2 DEF In
  <2> QED BY <1>1, <1>2, <1>3, <2>1 DEF IceInv, Stamps
<1>10. MarkerInv'
  BY <1>2 DEF IceInv, MarkerInv, ReceiptKept, ExistingReceipt, NotAfter
<1> QED BY <1>4, <1>5, <1>6, <1>7, <1>8, <1>9, <1>10 DEF IceInv, Types

-----------------------------------------------------------------------------
(* Appends: the session's, a dead session's, another pipeline's *)

\* What the invariant says of histories, requests and marker survives one more
\* snapshot: the current unit's, where the table has none, or a foreign one.
LEMMA Grown ==
  ASSUME IcebergAssumption, IceInv, NEW t \in Table, NEW snap \in Snap, Append1(t, snap),
         \/ snap = Foreign /\ dirty' = dirty
         \/ /\ cur \in Unit /\ snap.unit = cur /\ ~In(cur, t) /\ dirty' = TRUE
            /\ Feed(cur, t) > 0 /\ snap.rows = Rows(cur, t),
         UNCHANGED <<receipts, stateOf, edition, late, cur, acked, stamped>>,
         inflight' \subseteq inflight,
         pc' = "answered" => pc = "answered"
  PROVE  /\ CatalogType' /\ WireType' /\ GhostType'
         /\ History' /\ Whole' /\ Appends' /\ Stamps' /\ MarkerInv'
         /\ \A u : \A x \in Table : In(u, x) => In(u, x)'
<1> USE Bounds
<1>1. CatalogType BY DEF IceInv, Types
<1>2. /\ snaps' \in [Table -> Seq(Snap)]
      /\ \A x \in Table \ {t} : snaps'[x] = snaps[x]
      /\ Len(snaps[t]) \in Nat /\ DOMAIN snaps[t] = 1 .. Len(snaps[t])
      /\ Len(snaps'[t]) = Len(snaps[t]) + 1
      /\ DOMAIN snaps'[t] = 1 .. Len(snaps[t]) + 1
      /\ \A i \in DOMAIN snaps[t] : snaps'[t][i] = snaps[t][i]
      /\ snaps'[t][Len(snaps[t]) + 1] = snap
      /\ \A u : \A x \in Table : In(u, x)' <=> In(u, x) \/ (x = t /\ snap.unit = u)
  BY <1>1, Appended
<1>3. Foreign.unit \notin Unit /\ Foreign.unit # cur
  BY DEF Foreign, IceInv, Types, EngineType
<1>4. CatalogType' BY <1>1, <1>2 DEF CatalogType
<1>5. WireType' BY DEF IceInv, Types, WireType
<1>6. GhostType' BY DEF IceInv, Types, GhostType
<1>7. \A u : \A x \in Table : In(u, x) => In(u, x)' BY <1>2
<1>8. Whole' BY <1>7 DEF IceInv, Whole
<1>9. History'
  <2> SUFFICES ASSUME NEW x \in Table
               PROVE  /\ \A i \in DOMAIN snaps'[x] :
                           \/ snaps'[x][i] = Foreign
                           \/ /\ snaps'[x][i].unit \in stamped \/ (dirty' /\ snaps'[x][i].unit = cur)
                              /\ snaps'[x][i].unit \in Unit
                              /\ Feed(snaps'[x][i].unit, x) > 0
                              /\ snaps'[x][i].rows = Rows(snaps'[x][i].unit, x)
                      /\ \A i, j \in DOMAIN snaps'[x] :
                           snaps'[x][i].unit = snaps'[x][j].unit /\ snaps'[x][i].unit \in Unit => i = j
    BY DEF History
  <2>0. dirty => dirty' BY DEF IceInv, Types, GhostType
  <2>1. CASE x # t BY <1>2, <2>0, <2>1 DEF IceInv, History
  <2>2. CASE x = t
    <3>1. \A i \in DOMAIN snaps[t] :
            \/ snaps[t][i] = Foreign
            \/ /\ snaps[t][i].unit \in stamped \/ (dirty' /\ snaps[t][i].unit = cur)
               /\ snaps[t][i].unit \in Unit
               /\ Feed(snaps[t][i].unit, t) > 0
               /\ snaps[t][i].rows = Rows(snaps[t][i].unit, t)
      BY <2>0 DEF IceInv, History
    <3>2. \A i, j \in DOMAIN snaps[t] :
            snaps[t][i].unit = snaps[t][j].unit /\ snaps[t][i].unit \in Unit => i = j
      BY DEF IceInv, History
    <3>3. \A i \in DOMAIN snaps[t] : snap.unit \in Unit => snaps[t][i].unit # snap.unit
      BY <1>3 DEF In
    <3>4. \A i \in 1 .. Len(snaps[t]) + 1 : i \in DOMAIN snaps[t] \/ i = Len(snaps[t]) + 1
      BY <1>2
    <3>5. \A i \in DOMAIN snaps'[t] :
            \/ snaps'[t][i] = Foreign
            \/ /\ snaps'[t][i].unit \in stamped \/ (dirty' /\ snaps'[t][i].unit = cur)
               /\ snaps'[t][i].unit \in Unit
               /\ Feed(snaps'[t][i].unit, t) > 0
               /\ snaps'[t][i].rows = Rows(snaps'[t][i].unit, t)
      BY <1>2, <3>1, <3>4
    <3>6. \A i, j \in DOMAIN snaps'[t] :
            snaps'[t][i].unit = snaps'[t][j].unit /\ snaps'[t][i].unit \in Unit => i = j
      <4> SUFFICES ASSUME NEW i \in DOMAIN snaps'[t], NEW j \in DOMAIN snaps'[t],
                          snaps'[t][i].unit = snaps'[t][j].unit, snaps'[t][i].unit \in Unit
                   PROVE  i = j
        OBVIOUS
      <4>1. CASE i \in DOMAIN snaps[t] /\ j \in DOMAIN snaps[t] BY <1>2, <3>2, <4>1
      <4>2. CASE i \in DOMAIN snaps[t] /\ j = Len(snaps[t]) + 1
        <5>1. snaps[t][i].unit = snap.unit /\ snap.unit \in Unit BY <1>2, <4>2
        <5> QED BY <3>3, <4>2, <5>1
      <4>3. CASE j \in DOMAIN snaps[t] /\ i = Len(snaps[t]) + 1
        <5>1. snaps[t][j].unit = snap.unit /\ snap.unit \in Unit BY <1>2, <4>3
        <5> QED BY <3>3, <4>3, <5>1
      <4> QED BY <1>2, <3>4, <4>1, <4>2, <4>3
    <3> QED BY <2>2, <3>5, <3>6
  <2> QED BY <2>1, <2>2
<1>10. Appends'
  <2> SUFFICES ASSUME NEW r \in inflight'
               PROVE  /\ r.snap.unit \in Unit /\ Feed(r.snap.unit, r.table) > 0
                      /\ r.snap.rows = Rows(r.snap.unit, r.table)
                      /\ r.base <= Len(snaps'[r.table])
                      /\ r.base = Len(snaps'[r.table]) => r.snap.unit = cur /\ ~In(cur, r.table)'
    BY DEF Appends, In
  <2>1. /\ r \in inflight /\ r.table \in Table /\ r.base \in Nat
        /\ r.snap.unit \in Unit /\ Feed(r.snap.unit, r.table) > 0
        /\ r.snap.rows = Rows(r.snap.unit, r.table)
        /\ r.base <= Len(snaps[r.table])
        /\ r.base = Len(snaps[r.table]) => r.snap.unit = cur /\ ~In(cur, r.table)
    BY DEF IceInv, Types, WireType, Appends
  <2>2. CASE r.table = t BY <1>2, <2>1, <2>2
  <2>3. CASE r.table # t
    <3>1. snaps'[r.table] = snaps[r.table] BY <1>2, <2>1, <2>3
    <3>2. In(cur, r.table)' <=> In(cur, r.table) BY <1>2, <2>1, <2>3
    <3> QED BY <2>1, <3>1, <3>2
  <2> QED BY <2>2, <2>3
<1>11. Stamps'
  <2>1. \A r \in late : r.unit \in Unit BY DEF IceInv, Types, WireType
  <2> QED BY <1>7, <2>1 DEF IceInv, Stamps
<1>12. MarkerInv'
  <2>1. dirty' => cur \in Unit \ stamped
    <3>1. CASE dirty' = dirty BY <3>1 DEF IceInv, MarkerInv
    <3>2. CASE cur \in Unit /\ ~In(cur, t) /\ Feed(cur, t) > 0
      BY <3>2 DEF IceInv, Whole
    <3> QED BY <3>1, <3>2
  <2> QED BY <2>1 DEF IceInv, MarkerInv, ReceiptKept, ExistingReceipt, NotAfter
<1> QED BY <1>4, <1>5, <1>6, <1>7, <1>8, <1>9, <1>10, <1>11, <1>12

LEMMA AppendLandsKeeps ==
  ASSUME IcebergAssumption, IceInv, NEW t \in Table, AppendLands(t)
  PROVE  IceInv'
<1> USE Bounds
<1> DEFINE snap == Snapshot(scope, cur, Window(t))
<1>1. /\ pc = "sent" /\ t \in target /\ base = Len(snaps[t])
      /\ Append1(t, snap) /\ dirty' = TRUE
      /\ pc' = "converge" /\ todo' = todo \ {t} /\ target' = {} /\ base' = 0 /\ attempt' = 0
      /\ UNCHANGED <<receipts, stateOf, edition, inflight, late, cur, acked, deaths, foreign,
                     scope, sent, stamped>>
  BY DEF AppendLands, wireVars, engineVars
<1>2. /\ t \in todo /\ cur \in Unit /\ Feed(cur, t) > 0 /\ scope \in Scope
      /\ Window(t) = Rows(cur, t) /\ snaps \in [Table -> Seq(Snap)]
      /\ DOMAIN snaps[t] = 1 .. Len(snaps[t])
  BY <1>1, TargetIs
<1>3. snap \in Snap /\ snap.unit = cur /\ snap.rows = Rows(cur, t)
  <2>1. Rows(cur, t) \subseteq Row BY <1>2, RowsOf
  <2> QED BY <1>2, <2>1 DEF Snapshot, Snap
<1>4. ~In(cur, t) BY <1>1, <1>2 DEF IceInv, Underway, In
<1> HIDE DEF snap
<1>5. /\ CatalogType' /\ WireType' /\ GhostType'
      /\ History' /\ Whole' /\ Appends' /\ Stamps' /\ MarkerInv'
      /\ \A u : \A x \in Table : In(u, x) => In(u, x)'
  BY <1>1, <1>2, <1>3, <1>4, Grown
<1>6. EngineType' /\ SessionType' /\ CommitType'
  BY <1>1 DEF IceInv, Types, EngineType, SessionType, CommitType, Committing
<1>7. In(cur, t)'
  BY <1>1, <1>2, <1>3, Appended DEF IceInv, Types
<1>8. Underway'
  BY <1>1, <1>5, <1>7 DEF IceInv, Underway, Committing
<1> QED BY <1>5, <1>6, <1>8 DEF IceInv, Types

LEMMA ForeignAppendKeeps ==
  ASSUME IcebergAssumption, IceInv, NEW t \in Table, ForeignAppend(t)
  PROVE  IceInv'
<1> USE Bounds
<1>1. /\ Append1(t, Foreign) /\ foreign' = foreign + 1
      /\ UNCHANGED <<receipts, stateOf, edition, inflight, late, cur, acked, deaths, pc, scope, sent,
                     todo, target, base, attempt, dirty, stamped>>
  BY DEF ForeignAppend, wireVars, commitVars, ghostVars
<1>2. Foreign \in Snap /\ Foreign.unit # cur
  BY DEF Foreign, Snap, IceInv, Types, EngineType
<1>3. /\ CatalogType' /\ WireType' /\ GhostType'
      /\ History' /\ Whole' /\ Appends' /\ Stamps' /\ MarkerInv'
      /\ \A u : \A x \in Table : In(u, x) => In(u, x)'
  BY <1>1, <1>2, Grown
<1>4. EngineType' /\ SessionType' /\ CommitType'
  BY <1>1 DEF IceInv, Types, EngineType, SessionType, CommitType, Committing
<1>5. /\ \A x \in Table \ {t} : snaps'[x] = snaps[x]
      /\ Len(snaps[t]) \in Nat /\ DOMAIN snaps[t] = 1 .. Len(snaps[t])
      /\ Len(snaps'[t]) = Len(snaps[t]) + 1
      /\ DOMAIN snaps'[t] = 1 .. Len(snaps[t]) + 1
      /\ \A i \in DOMAIN snaps[t] : snaps'[t][i] = snaps[t][i]
      /\ snaps'[t][Len(snaps[t]) + 1] = Foreign
  BY <1>1, <1>2, Appended DEF IceInv, Types
<1>6. ASSUME pc \in {"plan", "sent"}, NEW x \in target
      PROVE  /\ base <= Len(snaps'[x])
             /\ \A i \in DOMAIN snaps'[x] : snaps'[x][i].unit = cur => snaps'[x][i].scope = scope
             /\ pc = "sent" => \A i \in 1 .. base : snaps'[x][i].unit # cur
  <2>1. /\ x \in Table /\ base <= Len(snaps[x]) /\ base \in Nat
        /\ \A i \in DOMAIN snaps[x] : snaps[x][i].unit = cur => snaps[x][i].scope = scope
        /\ pc = "sent" => \A i \in 1 .. base : snaps[x][i].unit # cur
    BY <1>6 DEF IceInv, Types, CommitType, Underway
  <2>2. CASE x # t BY <1>5, <2>1, <2>2
  <2>3. CASE x = t
    <3>1. \A i \in 1 .. base : i \in DOMAIN snaps[t] BY <1>5, <2>1, <2>3
    <3>2. \A i \in DOMAIN snaps'[t] : i \in DOMAIN snaps[t] \/ i = Len(snaps[t]) + 1
      BY <1>5
    <3>3. base <= Len(snaps'[t]) BY <1>5, <2>1, <2>3
    <3>4. \A i \in DOMAIN snaps'[t] : snaps'[t][i].unit = cur => snaps'[t][i].scope = scope
      BY <1>2, <1>5, <2>1, <2>3, <3>2
    <3>5. pc = "sent" => \A i \in 1 .. base : snaps'[t][i].unit # cur
      BY <1>5, <2>1, <2>3, <3>1
    <3> QED BY <2>3, <3>3, <3>4, <3>5
  <2> QED BY <2>2, <2>3
<1>7. Underway'
  BY <1>1, <1>3, <1>6 DEF IceInv, Underway, Committing
<1> QED BY <1>3, <1>4, <1>7 DEF IceInv, Types

LEMMA InflightEndsKeeps ==
  ASSUME IcebergAssumption, IceInv, NEW r \in inflight, InflightEnds(r)
  PROVE  IceInv'
<1> USE Bounds
<1>1. /\ inflight' = inflight \ {r}
      /\ UNCHANGED <<receipts, stateOf, edition, late, cur, acked, deaths, foreign, pc, scope, sent,
                     todo, target, base, attempt, stamped>>
  BY DEF InflightEnds, engineVars, commitVars
<1>2. /\ r.table \in Table /\ r.snap \in Snap /\ r.snap.unit \in Unit
      /\ Feed(r.snap.unit, r.table) > 0 /\ r.snap.rows = Rows(r.snap.unit, r.table)
      /\ r.base = Len(snaps[r.table]) => r.snap.unit = cur /\ ~In(cur, r.table)
  BY DEF IceInv, Types, WireType, Appends
<1>3. EngineType' /\ SessionType' /\ CommitType'
  BY <1>1 DEF IceInv, Types, EngineType, SessionType, CommitType, Committing
<1>4. CASE /\ r.base = Len(snaps[r.table]) /\ Append1(r.table, r.snap) /\ dirty' = TRUE
  <2> DEFINE t == r.table
  <2>1. /\ CatalogType' /\ WireType' /\ GhostType'
        /\ History' /\ Whole' /\ Appends' /\ Stamps' /\ MarkerInv'
        /\ \A u : \A x \in Table : In(u, x) => In(u, x)'
    BY <1>1, <1>2, <1>4, Grown
  <2>2. /\ \A x \in Table \ {t} : snaps'[x] = snaps[x]
        /\ Len(snaps[t]) \in Nat /\ DOMAIN snaps[t] = 1 .. Len(snaps[t])
        /\ Len(snaps'[t]) = Len(snaps[t]) + 1
        /\ DOMAIN snaps'[t] = 1 .. Len(snaps[t]) + 1
        /\ \A i \in DOMAIN snaps[t] : snaps'[t][i] = snaps[t][i]
        /\ snaps'[t][Len(snaps[t]) + 1] = r.snap
    BY <1>2, <1>4, Appended DEF IceInv, Types
  <2>3. pc # "none" => r.snap.scope = scope BY DEF IceInv, Underway
  <2>4. ASSUME pc \in {"plan", "sent"}, NEW x \in target
        PROVE  /\ base <= Len(snaps'[x])
               /\ \A i \in DOMAIN snaps'[x] : snaps'[x][i].unit = cur => snaps'[x][i].scope = scope
               /\ pc = "sent" => \A i \in 1 .. base : snaps'[x][i].unit # cur
    <3>1. /\ x \in Table /\ base <= Len(snaps[x]) /\ base \in Nat
          /\ \A i \in DOMAIN snaps[x] : snaps[x][i].unit = cur => snaps[x][i].scope = scope
          /\ pc = "sent" => \A i \in 1 .. base : snaps[x][i].unit # cur
      BY <2>4 DEF IceInv, Types, CommitType, Underway
    <3>2. CASE x # t BY <2>2, <3>1, <3>2
    <3>3. CASE x = t
      <4>1. \A i \in 1 .. base : i \in DOMAIN snaps[t] BY <2>2, <3>1, <3>3
      <4>2. \A i \in DOMAIN snaps'[t] : i \in DOMAIN snaps[t] \/ i = Len(snaps[t]) + 1
        BY <2>2
      <4>3. base <= Len(snaps'[t]) BY <2>2, <3>1, <3>3
      <4>4. \A i \in DOMAIN snaps'[t] : snaps'[t][i].unit = cur => snaps'[t][i].scope = scope
        BY <2>2, <2>3, <2>4, <3>1, <3>3, <4>2
      <4>5. pc = "sent" => \A i \in 1 .. base : snaps'[t][i].unit # cur
        BY <2>2, <3>1, <3>3, <4>1
      <4> QED BY <3>3, <4>3, <4>4, <4>5
    <3> QED BY <3>2, <3>3
  <2>5. Underway'
    BY <1>1, <2>1, <2>4 DEF IceInv, Underway, Committing
  <2> QED BY <1>3, <2>1, <2>5 DEF IceInv, Types
<1>5. CASE UNCHANGED <<snaps, dirty>>
  <2>1. /\ CatalogType' /\ WireType' /\ GhostType'
    BY <1>1, <1>5 DEF IceInv, Types, CatalogType, WireType, GhostType
  <2>2. History' /\ Whole' BY <1>1, <1>5 DEF IceInv, History, Whole, In
  <2>3. Appends' /\ Stamps'
    <3>1. \A u, x : In(u, x)' <=> In(u, x) BY <1>5 DEF In
    <3>2. Appends' BY <1>1, <1>5, <3>1 DEF IceInv, Appends
    <3>3. Stamps' BY <1>1, <3>1 DEF IceInv, Stamps
    <3> QED BY <3>2, <3>3
  <2>4. MarkerInv'
    BY <1>1, <1>5 DEF IceInv, MarkerInv, ReceiptKept, ExistingReceipt, NotAfter
  <2>5. \A u, x : In(u, x)' <=> In(u, x) BY <1>5 DEF In
  <2>6. Underway' BY <1>1, <1>5, <2>5 DEF IceInv, Underway, Committing
  <2> QED BY <1>3, <2>1, <2>2, <2>3, <2>4, <2>6 DEF IceInv, Types
<1> QED BY <1>4, <1>5 DEF InflightEnds

-----------------------------------------------------------------------------
(* Stamps of the marker: the session's, a dead session's, another pipeline's *)

\* The receipt of a load only grows: a stamp for load l and scope s leaves the
\* receipts of other loads that other scopes made, and covers what l's did.
LEMMA Merged ==
  ASSUME CatalogType, NEW l \in Nat, NEW n \in 1 .. MaxSeq, NEW s \in Nat, MaxSeq \in Nat,
         \A r, q \in receipts : r.load = q.load => r = q
  PROVE  /\ ReceiptDelta(l, n, s) \subseteq Receipt
         /\ \A r \in ReceiptDelta(l, n, s) : r.at \in 1 .. edition + 1
         /\ \A r \in ReceiptDelta(l, n, s) : r.load # l => r \in receipts
         /\ \A r \in ReceiptDelta(l, n, s) : r.load = l => r.scope = s
         /\ \A r, q \in ReceiptDelta(l, n, s) : r.load = q.load => r = q
         /\ \E r \in ReceiptDelta(l, n, s) :
              /\ r.load = l /\ n <= r.seq
              /\ \A q \in receipts : q.load = l => q.seq <= r.seq
         /\ \A r \in receipts : r.load # l /\ r.scope # s => r \in ReceiptDelta(l, n, s)
<1> DEFINE own == {r \in receipts : r.load = l}
           seq == IF \E r \in own : r.seq > n THEN (CHOOSE r \in own : TRUE).seq ELSE n
           new == [load |-> l, seq |-> seq, scope |-> s, at |-> edition + 1]
<1>1. ReceiptDelta(l, n, s) = ((receipts \ own) \ Stale(receipts, l, s)) \cup {new}
  BY DEF ReceiptDelta
<1>2. \A r \in own : r \in Receipt /\ r = CHOOSE q \in own : TRUE
  BY DEF CatalogType
<1>3. seq \in 1 .. MaxSeq /\ n <= seq /\ \A r \in own : r.seq <= seq
  <2>1. CASE \E r \in own : r.seq > n BY <1>2, <2>1 DEF Receipt
  <2>2. CASE ~\E r \in own : r.seq > n BY <1>2, <2>2 DEF Receipt
  <2> QED BY <2>1, <2>2
<1> HIDE DEF seq
<1>4. new \in Receipt /\ new.load = l /\ new.seq = seq /\ new.scope = s /\ new.at = edition + 1
  BY <1>3 DEF Receipt, CatalogType
<1> HIDE DEF new
<1>5. \A r \in Stale(receipts, l, s) : r.load # l /\ r.scope = s BY DEF Stale
<1>6. edition \in Nat /\ \A r \in receipts : r \in Receipt /\ r.at \in 1 .. edition
  BY DEF CatalogType
<1>7. \A r \in ReceiptDelta(l, n, s) : r = new \/ (r \in receipts /\ r.load # l)
  BY <1>1
<1>8. /\ ReceiptDelta(l, n, s) \subseteq Receipt
      /\ \A r \in ReceiptDelta(l, n, s) : r.at \in 1 .. edition + 1
  BY <1>4, <1>6, <1>7
<1>9. /\ \A r \in ReceiptDelta(l, n, s) : r.load # l => r \in receipts
      /\ \A r \in ReceiptDelta(l, n, s) : r.load = l => r.scope = s
      /\ \A r, q \in ReceiptDelta(l, n, s) : r.load = q.load => r = q
  BY <1>4, <1>7
<1>10. new \in ReceiptDelta(l, n, s) /\ \A q \in receipts : q.load = l => q.seq <= new.seq
  BY <1>1, <1>3, <1>4
<1>11. \A r \in receipts : r.load # l /\ r.scope # s => r \in ReceiptDelta(l, n, s)
  BY <1>1, <1>5
<1> QED BY <1>3, <1>4, <1>8, <1>9, <1>10, <1>11

\* A stamp of the current unit, whose rows are in every table.
LEMMA Stamped ==
  ASSUME IcebergAssumption, IceInv, NEW s \in Scope, cur \in Unit,
         \A t \in Table : Feed(cur, t) > 0 => In(cur, t),
         Stamp(cur, s), late' \subseteq late,
         UNCHANGED <<snaps, inflight, cur, acked>>
  PROVE  /\ CatalogType' /\ WireType' /\ GhostType'
         /\ History' /\ Whole' /\ Appends' /\ Stamps' /\ MarkerInv'
         /\ \A u, t : In(u, t)' <=> In(u, t)
         /\ stamped' = stamped \cup {cur} /\ edition' = edition + 1
<1> USE Bounds
<1>1. /\ stateOf' = [stateOf EXCEPT ![s] = cur]
      /\ receipts' = ReceiptDelta(cur.load, cur.seq, s)
      /\ edition' = edition + 1 /\ stamped' = stamped \cup {cur} /\ dirty' = FALSE
  BY DEF Stamp
<1>2. CatalogType /\ \A r, q \in receipts : r.load = q.load => r = q
  BY DEF IceInv, Types, MarkerInv
<1>3. /\ cur.load \in Nat /\ cur.load \in 1 .. MaxLoad /\ cur.seq \in 1 .. MaxSeq
      /\ s \in Nat /\ s # 0 /\ MaxSeq \in Nat
  OBVIOUS
<1>4. /\ receipts' \subseteq Receipt
      /\ \A r \in receipts' : r.at \in 1 .. edition + 1
      /\ \A r \in receipts' : r.load # cur.load => r \in receipts
      /\ \A r \in receipts' : r.load = cur.load => r.scope = s
      /\ \A r, q \in receipts' : r.load = q.load => r = q
      /\ \E r \in receipts' : /\ r.load = cur.load /\ cur.seq <= r.seq
                              /\ \A q \in receipts : q.load = cur.load => q.seq <= r.seq
  <2>1. PICK l \in Nat, n \in 1 .. MaxSeq : l = cur.load /\ n = cur.seq BY <1>3
  <2>2. receipts' = ReceiptDelta(l, n, s) BY <1>1, <2>1
  <2>3. PICK x \in Nat : x = s BY <1>3
  <2>4. /\ ReceiptDelta(l, n, x) \subseteq Receipt
        /\ \A r \in ReceiptDelta(l, n, x) : r.at \in 1 .. edition + 1
        /\ \A r \in ReceiptDelta(l, n, x) : r.load # l => r \in receipts
        /\ \A r \in ReceiptDelta(l, n, x) : r.load = l => r.scope = x
        /\ \A r, q \in ReceiptDelta(l, n, x) : r.load = q.load => r = q
        /\ \E r \in ReceiptDelta(l, n, x) :
             /\ r.load = l /\ n <= r.seq
             /\ \A q \in receipts : q.load = l => q.seq <= r.seq
    <3> HIDE Bounds
    <3>1. CatalogType BY <1>2
    <3>2. \A r, q \in receipts : r.load = q.load => r = q BY <1>2
    <3>3. MaxSeq \in Nat BY <1>3
    <3> QED BY <3>1, <3>2, <3>3, Merged, Zenon
  <2> QED BY <2>1, <2>2, <2>3, <2>4
<1>5. CatalogType' BY <1>1, <1>2, <1>4 DEF CatalogType
<1>6. WireType' /\ GhostType' BY <1>1 DEF IceInv, Types, WireType, GhostType
<1>7. \A u, t : In(u, t)' <=> In(u, t) BY DEF In
<1>8. History'
  <2>1. snaps' = snaps BY <1>1
  <2>2. ASSUME NEW t \in Table, NEW i \in DOMAIN snaps[t]
        PROVE  \/ snaps[t][i] = Foreign
               \/ /\ snaps[t][i].unit \in stamped'
                  /\ snaps[t][i].unit \in Unit
                  /\ Feed(snaps[t][i].unit, t) > 0
                  /\ snaps[t][i].rows = Rows(snaps[t][i].unit, t)
    BY <1>1 DEF IceInv, History
  <2>3. \A t \in Table : \A i, j \in DOMAIN snaps[t] :
          snaps[t][i].unit = snaps[t][j].unit /\ snaps[t][i].unit \in Unit => i = j
    BY DEF IceInv, History
  <2> QED BY <2>1, <2>2, <2>3 DEF History
<1>9. Whole' BY <1>1, <1>7 DEF IceInv, Whole
<1>10. Appends' BY <1>7 DEF IceInv, Appends
<1>11. Stamps'
  <2>1. \A r \in late : r.base \in Nat /\ r.base <= edition
    BY DEF IceInv, Types, WireType, Stamps
  <2>2. edition \in Nat BY <1>2 DEF CatalogType
  <2> QED BY <1>1, <1>7, <2>1, <2>2 DEF IceInv, Stamps
<1>12. MarkerInv'
  <2>1. \A x \in Scope : NotAfter(stateOf'[x], cur)
    BY <1>1, <1>2, <1>3 DEF IceInv, MarkerInv, NotAfter, CatalogType
  <2>2. \A u \in stamped' : u.load <= cur.load
    BY <1>1, <1>3 DEF IceInv, MarkerInv
  <2>3. \A r \in receipts' : r.load <= MaxLoad => r.scope # 0
    BY <1>3, <1>4 DEF IceInv, MarkerInv
  <2>4. ASSUME NEW u \in stamped', u.load = cur.load
        PROVE  \E r \in receipts' : r.load = u.load /\ u.seq <= r.seq
    <3>1. PICK r \in receipts' : /\ r.load = cur.load /\ cur.seq <= r.seq
                                 /\ \A q \in receipts : q.load = cur.load => q.seq <= r.seq
      BY <1>4
    <3>2. CASE u = cur BY <2>4, <3>1, <3>2
    <3>3. CASE u \in stamped
      <4>1. PICK q \in receipts : q.load = u.load /\ u.seq <= q.seq
        BY <2>4, <3>3 DEF IceInv, MarkerInv, ReceiptKept, ExistingReceipt
      <4>2. q.seq <= r.seq BY <2>4, <3>1, <4>1
      <4>3. u.seq \in Nat /\ q.seq \in Nat /\ r.seq \in Nat
        <5>1. u \in Unit BY <3>3 DEF IceInv, Types, GhostType
        <5> QED BY <1>2, <1>4, <3>1, <4>1, <5>1 DEF CatalogType, Receipt
      <4> QED BY <2>4, <3>1, <4>1, <4>2, <4>3
    <3> QED BY <1>1, <3>2, <3>3
  <2>5. ReceiptKept' BY <2>4 DEF ReceiptKept, ExistingReceipt
  <2>6. acked' \subseteq stamped' BY <1>1 DEF IceInv, MarkerInv
  <2> QED BY <1>1, <1>4, <2>1, <2>2, <2>3, <2>5, <2>6 DEF MarkerInv
<1> QED BY <1>1, <1>5, <1>6, <1>7, <1>8, <1>9, <1>10, <1>11, <1>12

LEMMA StateLandsKeeps ==
  ASSUME IcebergAssumption, IceInv, StateLands
  PROVE  IceInv'
<1> USE Bounds
<1>1. /\ pc = "stamping" /\ pc' = "answered" /\ base = edition
      /\ Stamp(cur, scope) /\ base' = 0 /\ attempt' = 0
      /\ UNCHANGED <<snaps, inflight, late, cur, acked, deaths, foreign, scope, sent, todo, target>>
  BY DEF StateLands, wireVars, engineVars
<1>2. /\ cur \in Unit /\ scope \in Scope /\ todo = {} /\ target = {}
      /\ \A t \in Table : Feed(cur, t) > 0 => In(cur, t)
  BY <1>1 DEF IceInv, Types, SessionType, CommitType, Underway, Committing
<1>3. /\ CatalogType' /\ WireType' /\ GhostType'
      /\ History' /\ Whole' /\ Appends' /\ MarkerInv' /\ Stamps'
      /\ \A u, t : In(u, t)' <=> In(u, t)
      /\ stamped' = stamped \cup {cur} /\ edition' = edition + 1
  BY <1>1, <1>2, Stamped
<1>4. EngineType' /\ SessionType' /\ CommitType'
  BY <1>1, <1>2 DEF IceInv, Types, EngineType, SessionType, CommitType, Committing
<1>5. Underway'
  BY <1>1, <1>2, <1>3 DEF IceInv, Underway, Committing
<1> QED BY <1>3, <1>4, <1>5 DEF IceInv, Types

LEMMA LateEndsKeeps ==
  ASSUME IcebergAssumption, IceInv, NEW r \in late, LateEnds(r)
  PROVE  IceInv'
<1> USE Bounds
<1>1. /\ late' = late \ {r}
      /\ UNCHANGED <<snaps, inflight, cur, acked, deaths, foreign, pc, scope, sent, todo, target,
                     base, attempt>>
  BY DEF LateEnds, engineVars, commitVars
<1>2. EngineType' /\ SessionType' /\ CommitType'
  BY <1>1 DEF IceInv, Types, EngineType, SessionType, CommitType
<1>3. CASE r.base = edition /\ Stamp(r.unit, r.scope)
  <2>1. /\ r.unit = cur /\ cur \in Unit /\ r.scope \in Scope
        /\ \A t \in Table : Feed(cur, t) > 0 => In(cur, t)
    BY <1>3 DEF IceInv, Types, WireType, Stamps
  <2>2. /\ CatalogType' /\ WireType' /\ GhostType'
        /\ History' /\ Whole' /\ Appends' /\ MarkerInv' /\ Stamps'
        /\ \A u, t : In(u, t)' <=> In(u, t)
        /\ stamped' = stamped \cup {cur} /\ edition' = edition + 1
    BY <1>1, <1>3, <2>1, Stamped
  <2>3. edition \in Nat /\ base \in Nat BY DEF IceInv, Types, CatalogType, CommitType
  <2>4. Underway'
    BY <1>1, <2>2, <2>3 DEF IceInv, Underway, Committing
  <2> QED BY <1>2, <2>2, <2>4 DEF IceInv, Types
<1>4. CASE UNCHANGED <<receipts, stateOf, edition, ghostVars>>
  <2>0. UNCHANGED <<receipts, stateOf, edition, dirty, stamped>> BY <1>4 DEF ghostVars
  <2>1. CatalogType' /\ WireType' /\ GhostType'
    BY <1>1, <2>0 DEF IceInv, Types, CatalogType, WireType, GhostType
  <2>2. \A u, x : In(u, x)' <=> In(u, x) BY <1>1 DEF In
  <2>3. History' /\ Whole' BY <1>1, <2>0, <2>2 DEF IceInv, History, Whole
  <2>4. Appends' BY <1>1, <2>2 DEF IceInv, Appends
  <2>5. Stamps' BY <1>1, <2>0, <2>2 DEF IceInv, Stamps
  <2>6. MarkerInv'
    BY <1>1, <2>0 DEF IceInv, MarkerInv, ReceiptKept, ExistingReceipt, NotAfter
  <2>7. Underway' BY <1>1, <2>0, <2>2 DEF IceInv, Underway, Committing
  <2> QED BY <1>2, <2>1, <2>3, <2>4, <2>5, <2>6, <2>7 DEF IceInv, Types
<1> QED BY <1>3, <1>4 DEF LateEnds

LEMMA ForeignStampKeeps ==
  ASSUME IcebergAssumption, IceInv, ForeignStamp
  PROVE  IceInv'
<1> USE Bounds
<1> DEFINE l == MaxLoad + foreign + 1
<1>1. /\ receipts' = ReceiptDelta(l, 1, 0) /\ edition' = edition + 1 /\ foreign' = foreign + 1
      /\ UNCHANGED <<snaps, stateOf, inflight, late, cur, acked, deaths, pc, scope, sent, todo, target,
                     base, attempt, dirty, stamped>>
  BY DEF ForeignStamp, wireVars, commitVars, ghostVars
<1>2. CatalogType /\ \A r, q \in receipts : r.load = q.load => r = q
  BY DEF IceInv, Types, MarkerInv
<1>3. l \in Nat /\ l > MaxLoad /\ 1 \in 1 .. MaxSeq
  BY DEF IceInv, Types, EngineType
<1> HIDE DEF l
<1>4. /\ receipts' \subseteq Receipt
      /\ \A r \in receipts' : r.at \in 1 .. edition + 1
      /\ \A r \in receipts' : r.load # l => r \in receipts
      /\ \A r, q \in receipts' : r.load = q.load => r = q
      /\ \A r \in receipts : r.load # l /\ r.scope # 0 => r \in receipts'
  BY <1>1, <1>2, <1>3, Merged
<1>5. CatalogType' BY <1>1, <1>2, <1>4 DEF CatalogType
<1>6. WireType' /\ GhostType' /\ EngineType' /\ SessionType' /\ CommitType'
  BY <1>1 DEF IceInv, Types, WireType, GhostType, EngineType, SessionType, CommitType
<1>7. \A u, t : In(u, t)' <=> In(u, t) BY <1>1 DEF In
<1>8. History' /\ Whole' BY <1>1, <1>7 DEF IceInv, History, Whole
<1>9. Appends' BY <1>1, <1>7 DEF IceInv, Appends
<1>10. edition \in Nat /\ base \in Nat BY DEF IceInv, Types, CatalogType, CommitType
<1>11. Stamps'
  <2>1. \A r \in late : r.base \in Nat /\ r.base <= edition
    BY DEF IceInv, Types, WireType, Stamps
  <2> QED BY <1>1, <1>7, <1>10, <2>1 DEF IceInv, Stamps
<1>12. Underway' BY <1>1, <1>7, <1>10 DEF IceInv, Underway, Committing
<1>13. MarkerInv'
  <2>1. \A r \in receipts' : r.load <= MaxLoad => r.scope # 0
    BY <1>3, <1>4 DEF IceInv, MarkerInv
  <2>2. ReceiptKept'
    <3> SUFFICES ASSUME NEW u \in stamped, u.load = cur.load
                 PROVE  \E r \in receipts' : r.load = u.load /\ u.seq <= r.seq
      BY <1>1 DEF ReceiptKept, ExistingReceipt
    <3>1. PICK r \in receipts : r.load = u.load /\ u.seq <= r.seq
      BY DEF IceInv, MarkerInv, ReceiptKept, ExistingReceipt
    <3>2. u.load \in 1 .. MaxLoad BY DEF IceInv, Types, GhostType
    <3>3. r.load # l /\ r.scope # 0 BY <1>3, <3>1, <3>2 DEF IceInv, MarkerInv
    <3> QED BY <1>4, <3>1, <3>3
  <2> QED BY <1>1, <1>4, <2>1, <2>2 DEF IceInv, MarkerInv, NotAfter
<1> QED BY <1>5, <1>6, <1>8, <1>9, <1>11, <1>12, <1>13 DEF IceInv, Types

-----------------------------------------------------------------------------
(* The invariant *)

LEMMA Initial ==
  ASSUME IcebergAssumption, Init
  PROVE  IceInv
<1> USE Bounds DEF Init
<1>1. cur \in Unit BY DEF Unit
<1>2. CatalogType
  <2>1. <<>> \in Seq(Snap) OBVIOUS
  <2> QED BY <2>1 DEF CatalogType
<1>3. WireType /\ EngineType /\ GhostType
  BY <1>1 DEF WireType, EngineType, GhostType
<1>4. SessionType /\ CommitType BY DEF SessionType, CommitType
<1>5. History /\ Whole BY DEF History, Whole
<1>6. Appends /\ Stamps BY DEF Appends, Stamps
<1>7. Underway BY <1>1 DEF Underway, Committing
<1>8. MarkerInv
  <2>1. \A s \in Scope : NotAfter(stateOf[s], cur)
    BY DEF NotAfter, NoUnit
  <2> QED BY <2>1 DEF MarkerInv, ReceiptKept
<1> QED BY <1>2, <1>3, <1>4, <1>5, <1>6, <1>7, <1>8 DEF IceInv, Types

LEMMA Stutters ==
  ASSUME IceInv, UNCHANGED vars
  PROVE  IceInv'
<1>1. /\ UNCHANGED <<snaps, receipts, stateOf, edition, inflight, late, cur, acked, deaths, foreign>>
      /\ UNCHANGED <<pc, scope, sent, todo, target, base, attempt, dirty, stamped>>
  BY DEF vars, catalogVars, wireVars, engineVars, commitVars, ghostVars
<1>2. UNCHANGED <<catalogVars, wireVars, cur, acked, ghostVars>>
  BY <1>1 DEF catalogVars, wireVars, ghostVars
<1>3. /\ History' /\ Whole' /\ Appends' /\ Stamps' /\ MarkerInv'
      /\ CatalogType' /\ WireType' /\ GhostType'
  BY <1>1, <1>2, Alone
<1>4. EngineType' /\ SessionType' /\ CommitType'
  BY <1>1 DEF IceInv, Types, EngineType, SessionType, CommitType
<1>5. Underway' BY <1>1 DEF IceInv, Underway, In
<1> QED BY <1>3, <1>4, <1>5 DEF IceInv, Types

\* Every step of any of the parties preserves the invariant.
LEMMA Preserved ==
  ASSUME IcebergAssumption, IceInv, [Next]_vars
  PROVE  IceInv'
<1>1. CASE UNCHANGED vars BY <1>1, Stutters
<1>2. CASE OpenSession BY <1>2, OpenKeeps
<1>3. CASE StartConverge BY <1>3, StartKeeps
<1>4. CASE SendState BY <1>4, SendKeeps
<1>5. CASE StateLands BY <1>5, StateLandsKeeps
<1>6. CASE StateConflicts BY <1>6, StateConflictsKeeps
<1>7. CASE EngineAck BY <1>7, AckKeeps
<1>8. CASE \E t \in Table :
             \/ Write(t) \/ Visit(t) \/ PlanAppend(t) \/ AppendLands(t) \/ AppendConflicts(t)
             \/ ForeignAppend(t)
  BY <1>8, WriteKeeps, VisitKeeps, PlanKeeps, AppendLandsKeeps, AppendConflictsKeeps,
     ForeignAppendKeeps
<1>9. CASE SessionDies BY <1>9, DiesKeeps
<1>10. CASE DieInAppend BY <1>10, DieInAppendKeeps
<1>11. CASE DieInPersist BY <1>11, DieInPersistKeeps
<1>12. CASE ForeignStamp BY <1>12, ForeignStampKeeps
<1>13. CASE \E r \in inflight : InflightEnds(r) BY <1>13, InflightEndsKeeps
<1>14. CASE \E r \in late : LateEnds(r) BY <1>14, LateEndsKeeps
<1> QED
  BY <1>1, <1>2, <1>3, <1>4, <1>5, <1>6, <1>7, <1>8, <1>9, <1>10, <1>11, <1>12, <1>13, <1>14
  DEF Next

LEMMA Invariant == ASSUME IcebergAssumption PROVE Spec => []IceInv
<1>1. Init => IceInv BY Initial
<1>2. IceInv /\ [Next]_vars => IceInv' BY Preserved
<1> QED BY <1>1, <1>2, PTL DEF Spec

\* IcebergLoad!TypeOK: the types of the destination's tables, marker and
\* session; a request is planned against a history there was.
THEOREM TypeCorrect == ASSUME IcebergAssumption PROVE Spec => []TypeOK
<1>1. ASSUME IceInv PROVE TypeOK
  <2> USE <1>1, Bounds
  <2>1. ASSUME NEW t \in Table, NEW i \in DOMAIN snaps[t]
        PROVE  /\ snaps[t][i].unit \in Unit \cup {NoUnit}
               /\ snaps[t][i].rows = {} <=> snaps[t][i] = Foreign
    <3>1. CASE snaps[t][i] = Foreign BY <3>1 DEF Foreign
    <3>2. CASE /\ snaps[t][i].unit \in Unit
               /\ Feed(snaps[t][i].unit, t) > 0
               /\ snaps[t][i].rows = Rows(snaps[t][i].unit, t)
      <4>1. snaps[t][i].rows # {} BY <3>2, RowsOf
      <4> QED BY <3>2, <4>1 DEF Foreign
    <3> QED BY <3>1, <3>2 DEF IceInv, History
  <2>2. \A r \in receipts : r.load \in Nat /\ r.seq \in 1 .. MaxSeq /\ r.at \in 1 .. edition
    BY DEF IceInv, Types, CatalogType, Receipt
  <2>3. /\ stateOf \in [Scope -> Unit \cup {NoUnit}]
        /\ cur \in Unit \cup {[load |-> MaxLoad + 1, seq |-> 1]} /\ acked \subseteq stamped
    BY DEF IceInv, Types, CatalogType, EngineType, MarkerInv, Past
  <2>4. /\ pc \in {"none", "loading", "converge", "plan", "sent", "stamping", "answered"}
        /\ todo \subseteq Table /\ target \subseteq todo
        /\ attempt \in 0 .. Attempts /\ (attempt = 0 <=> pc \notin {"plan", "sent", "stamping"})
    BY DEF IceInv, Types, SessionType, CommitType, Committing
  <2>5. \A t \in target : base <= Len(snaps[t])
    BY DEF IceInv, Types, CommitType, Underway
  <2>6. \A r \in inflight : r.base <= Len(snaps[r.table]) BY DEF IceInv, Appends
  <2> QED BY <2>1, <2>2, <2>3, <2>4, <2>5, <2>6 DEF TypeOK
<1> QED BY <1>1, Invariant, PTL

\* IcebergLoad!ReceiptKept: no stamp, whoever made it and whatever it prunes,
\* takes the receipt of a unit the engine may still deliver again
\* (receipt_delta's retention is per scope).
THEOREM Kept == ASSUME IcebergAssumption PROVE Spec => []ReceiptKept
<1>1. IceInv => ReceiptKept BY DEF IceInv, MarkerInv
<1> QED BY <1>1, Invariant, PTL

-----------------------------------------------------------------------------
(* What a step may never do *)

\* Who writes a scope's state document writes the current unit.
LEMMA StampsForward ==
  ASSUME IcebergAssumption, IceInv, [Next]_vars
  PROVE  \A s \in Scope : stateOf'[s] # stateOf[s] => stateOf'[s] = cur
<1> SUFFICES ASSUME NEW x \in Scope, stateOf'[x] # stateOf[x]
             PROVE  stateOf'[x] = cur
  OBVIOUS
<1>1. stateOf \in [Scope -> Unit \cup {NoUnit}] BY DEF IceInv, Types, CatalogType
<1>2. CASE UNCHANGED vars BY <1>2 DEF vars, catalogVars
<1>3. CASE StateLands
  <2>1. \E s : stateOf' = [stateOf EXCEPT ![s] = cur] BY <1>3 DEF StateLands, Stamp
  <2> QED BY <1>1, <2>1
<1>4. CASE \E r \in late : LateEnds(r)
  <2>1. PICK r \in late : LateEnds(r) BY <1>4
  <2>2. CASE r.base = edition /\ Stamp(r.unit, r.scope)
    <3>1. r.unit = cur BY <2>2 DEF IceInv, Stamps
    <3>2. stateOf' = [stateOf EXCEPT ![r.scope] = cur] BY <2>2, <3>1 DEF Stamp
    <3> QED BY <1>1, <3>2
  <2>3. CASE UNCHANGED <<receipts, stateOf, edition, ghostVars>> BY <2>3
  <2> QED BY <2>1, <2>2, <2>3 DEF LateEnds
<1>5. CASE \/ OpenSession \/ StartConverge \/ SendState \/ StateConflicts \/ EngineAck
           \/ SessionDies \/ DieInAppend \/ DieInPersist
  BY <1>5 DEF OpenSession, StartConverge, SendState, StateConflicts, EngineAck, SessionDies,
              DieInAppend, DieInPersist, catalogVars
<1>6. CASE ForeignStamp BY <1>6 DEF ForeignStamp
<1>7. CASE \E t \in Table :
             \/ Write(t) \/ Visit(t) \/ PlanAppend(t) \/ AppendLands(t) \/ AppendConflicts(t)
             \/ ForeignAppend(t)
  BY <1>7 DEF Write, Visit, PlanAppend, AppendLands, AppendConflicts, ForeignAppend, catalogVars
<1>8. CASE \E r \in inflight : InflightEnds(r) BY <1>8 DEF InflightEnds
<1> QED BY <1>2, <1>3, <1>4, <1>5, <1>6, <1>7, <1>8 DEF Next

\* IcebergLoad!StateNeverGoesBack: a scope's state document goes to a later
\* unit or stays, however late a dead session's property commit is applied
\* (write_state's compare-and-swap on the marker).
THEOREM StateForward == ASSUME IcebergAssumption PROVE Spec => StateNeverGoesBack
<1>1. IceInv /\ [Next]_vars =>
        [\A s \in Scope : stateOf'[s] # stateOf[s] =>
           \/ stateOf'[s].load > stateOf[s].load
           \/ stateOf'[s].load = stateOf[s].load /\ stateOf'[s].seq > stateOf[s].seq]_vars
  <2> SUFFICES ASSUME IceInv, [Next]_vars, NEW s \in Scope, stateOf'[s] # stateOf[s]
               PROVE  \/ stateOf'[s].load > stateOf[s].load
                      \/ stateOf'[s].load = stateOf[s].load /\ stateOf'[s].seq > stateOf[s].seq
    OBVIOUS
  <2>1. stateOf'[s] = cur BY StampsForward
  <2>2. NotAfter(stateOf[s], cur) BY DEF IceInv, MarkerInv
  <2>3. stateOf[s] \in Unit \cup {NoUnit} /\ cur \in Unit \cup {Past}
    BY DEF IceInv, Types, CatalogType, EngineType
  <2>4. ~(stateOf[s].load = cur.load /\ stateOf[s].seq = cur.seq)
    BY <2>1, <2>3 DEF Unit, NoUnit, Past
  <2> QED BY <2>1, <2>2, <2>3, <2>4, Bounds DEF NotAfter
<1> QED BY <1>1, Invariant, PTL DEF Spec, StateNeverGoesBack

-----------------------------------------------------------------------------
(* Snapshots, history scans and receipts implement ExactlyOnce *)

\* What a reader finds: outside of an attempt every committed unit's rows, each
\* once, and nothing else.
Shown == View = IF dirty THEN Abstract!InDoubt ELSE Abstract!Exact(stamped)

LEMMA ShownAlways ==
  ASSUME IcebergAssumption, IceInv
  PROVE  Shown
<1>1. CASE dirty BY <1>1 DEF Shown, View, Abstract!InDoubt
<1>2. CASE ~dirty
  <2> DEFINE Find(t, r) == {i \in DOMAIN snaps[t] : r \in snaps[t][i].rows}
  <2>1. ASSUME NEW t \in Table, NEW r \in UNION {Rows(u, t) : u \in Unit}
        PROVE  Found(t, r) = IF \E u \in stamped : r \in Rows(u, t) THEN 1 ELSE 0
    <3>1. PICK u \in Unit : r \in Rows(u, t) OBVIOUS
    <3>2. r.unit = u BY <3>1, RowsOf
    <3>3. \A v \in Unit : r \in Rows(v, t) => v = u BY <3>2, RowsOf
    <3>4. Feed(u, t) > 0 BY <3>1, RowsOf
    <3>5. \A i \in Find(t, r) : snaps[t][i].unit = u /\ u \in stamped
      <4> SUFFICES ASSUME NEW i \in DOMAIN snaps[t], r \in snaps[t][i].rows
                   PROVE  snaps[t][i].unit = u /\ u \in stamped
        OBVIOUS
      <4>1. snaps[t][i] # Foreign BY DEF Foreign
      <4>2. /\ snaps[t][i].unit \in stamped /\ snaps[t][i].unit \in Unit
            /\ snaps[t][i].rows = Rows(snaps[t][i].unit, t)
        BY <1>2, <4>1 DEF IceInv, History
      <4> QED BY <3>3, <4>2
    <3>6. CASE u \in stamped
      <4>1. PICK i \in DOMAIN snaps[t] : snaps[t][i].unit = u
        BY <3>4, <3>6 DEF IceInv, Whole, In
      <4>2. snaps[t][i].rows = Rows(u, t)
        BY <4>1, Bounds DEF IceInv, History, Foreign
      <4>3. \A j \in Find(t, r) : j = i BY <3>5, <4>1 DEF IceInv, History
      <4>4. Find(t, r) = {i} BY <3>1, <4>2, <4>3
      <4>5. Cardinality({i}) = 1 BY FS_Singleton
      <4> QED BY <3>1, <3>6, <4>4, <4>5 DEF Found
    <3>7. CASE u \notin stamped
      <4>1. Find(t, r) = {} BY <3>5, <3>7
      <4>2. Found(t, r) = 0 BY <4>1, FS_EmptySet DEF Found
      <4>3. ~\E v \in stamped : r \in Rows(v, t)
        BY <3>3, <3>7 DEF IceInv, Types, GhostType
      <4> QED BY <4>2, <4>3
    <3> QED BY <3>6, <3>7
  <2>2. \A t \in Table : Abstract!Current(stamped, t) = stamped
    BY DEF Abstract!Current
  <2>3. Abstract!Exact(stamped) =
          [t \in Table |-> [r \in UNION {Rows(u, t) : u \in Unit} |->
             IF \E u \in stamped : r \in Rows(u, t) THEN 1 ELSE 0]]
    BY <2>2 DEF Abstract!Exact, Abstract!AllRows
  <2> HIDE DEF Find
  <2>4. View = [t \in Table |-> [r \in UNION {Rows(u, t) : u \in Unit} |->
             IF \E u \in stamped : r \in Rows(u, t) THEN 1 ELSE 0]]
    BY <1>2, <2>1 DEF View
  <2> QED BY <1>2, <2>3, <2>4 DEF Shown
<1> QED BY <1>1, <1>2

\* A stamp of the current unit commits it, or has been made before.
LEMMA StampCommits ==
  ASSUME IceInv, NEW s, Stamp(cur, s), cur \in Unit, acked' = acked, Shown, Shown'
  PROVE  [Abstract!ENext]_(Abstract!evars)
<1>1. stamped' = stamped \cup {cur} /\ ~dirty' BY DEF Stamp
<1>2. View' = Abstract!Exact(stamped)' BY <1>1 DEF Shown
<1>3. CASE cur \in stamped
  <2>1. ~dirty /\ stamped' = stamped BY <1>1, <1>3 DEF IceInv, MarkerInv
  <2>2. View = Abstract!Exact(stamped) BY <2>1 DEF Shown
  <2>3. Abstract!Exact(stamped)' = Abstract!Exact(stamped)
    BY <2>1 DEF Abstract!Exact, Abstract!Current
  <2> QED BY <1>2, <2>1, <2>2, <2>3 DEF Abstract!evars
<1>4. CASE cur \notin stamped
  <2>1. Abstract!Commit(cur) BY <1>1, <1>2, <1>4 DEF Abstract!Commit
  <2> QED BY <2>1 DEF Abstract!ENext
<1> QED BY <1>3, <1>4

\* One of the unit's windows begins to show.
LEMMA AttemptShows ==
  ASSUME IceInv, dirty', cur \in Unit, cur \notin stamped, Shown',
         UNCHANGED <<stamped, acked>>
  PROVE  [Abstract!ENext]_(Abstract!evars)
<1>1. View' = Abstract!InDoubt BY DEF Shown, Abstract!InDoubt
<1>2. stamped # Unit OBVIOUS
<1>3. Abstract!Attempt BY <1>1, <1>2 DEF Abstract!Attempt
<1> QED BY <1>3 DEF Abstract!ENext

\* A step that moves neither the marker's units nor the doubt shows nothing.
LEMMA NothingShows ==
  ASSUME UNCHANGED <<stamped, acked, dirty>>, Shown, Shown'
  PROVE  [Abstract!ENext]_(Abstract!evars)
<1>1. Abstract!Exact(stamped)' = Abstract!Exact(stamped)
  BY DEF Abstract!Exact, Abstract!Current
<1>2. View' = View BY <1>1 DEF Shown, Abstract!InDoubt
<1> QED BY <1>2 DEF Abstract!evars

LEMMA StepRefines ==
  ASSUME IcebergAssumption, IceInv, [Next]_vars, Shown, Shown'
  PROVE  [Abstract!ENext]_(Abstract!evars)
<1>1. CASE UNCHANGED vars
  BY <1>1, NothingShows DEF vars, engineVars, ghostVars
<1>2. CASE StateLands
  <2>1. cur \in Unit BY <1>2 DEF StateLands, IceInv, Types, SessionType
  <2> QED BY <1>2, <2>1, StampCommits DEF StateLands, engineVars
<1>3. CASE \E r \in late : LateEnds(r)
  <2>1. PICK r \in late : LateEnds(r) BY <1>3
  <2>2. CASE r.base = edition /\ Stamp(r.unit, r.scope)
    <3>1. r.unit = cur /\ cur \in Unit BY <2>2 DEF IceInv, Types, WireType, Stamps
    <3> QED BY <2>1, <2>2, <3>1, StampCommits DEF LateEnds, engineVars
  <2>3. CASE UNCHANGED <<receipts, stateOf, edition, ghostVars>>
    BY <2>1, <2>3, NothingShows DEF LateEnds, engineVars, ghostVars
  <2> QED BY <2>1, <2>2, <2>3 DEF LateEnds
<1>4. CASE EngineAck
  <2>1. cur \in stamped /\ cur \in Unit
    BY <1>4 DEF EngineAck, IceInv, Types, SessionType, Underway
  <2>2. acked' = acked \cup {cur} /\ UNCHANGED <<dirty, stamped>>
    BY <1>4 DEF EngineAck, ghostVars
  <2>3. Abstract!Exact(stamped)' = Abstract!Exact(stamped)
    BY <2>2 DEF Abstract!Exact, Abstract!Current
  <2>4. View' = View BY <2>2, <2>3 DEF Shown, Abstract!InDoubt
  <2>5. Abstract!Ack(cur) BY <2>1, <2>2, <2>4 DEF Abstract!Ack
  <2> QED BY <2>1, <2>5 DEF Abstract!ENext
<1>5. CASE \E t \in Table : AppendLands(t)
  <2>1. PICK t \in Table : AppendLands(t) BY <1>5
  <2>2. cur \in Unit /\ Feed(cur, t) > 0 /\ DOMAIN snaps[t] = 1 .. Len(snaps[t])
    BY <2>1, TargetIs DEF AppendLands
  <2>3. ~In(cur, t) BY <2>1, <2>2 DEF AppendLands, IceInv, Underway, In
  <2>4. cur \notin stamped BY <2>2, <2>3 DEF IceInv, Whole
  <2> QED BY <2>1, <2>2, <2>4, AttemptShows DEF AppendLands, engineVars
<1>6. CASE \E r \in inflight : InflightEnds(r)
  <2>1. PICK r \in inflight : InflightEnds(r) BY <1>6
  <2>2. CASE r.base = Len(snaps[r.table]) /\ dirty' = TRUE
    <3>1. /\ r.table \in Table /\ r.snap.unit = cur /\ cur \in Unit
          /\ ~In(cur, r.table) /\ Feed(cur, r.table) > 0
      BY <2>2 DEF IceInv, Types, WireType, Appends
    <3>2. cur \notin stamped BY <3>1 DEF IceInv, Whole
    <3> QED BY <2>1, <2>2, <3>1, <3>2, AttemptShows DEF InflightEnds, engineVars
  <2>3. CASE UNCHANGED <<snaps, dirty>>
    BY <2>1, <2>3, NothingShows DEF InflightEnds, engineVars
  <2> QED BY <2>1, <2>2, <2>3 DEF InflightEnds
<1>7. CASE \/ OpenSession \/ StartConverge \/ SendState \/ StateConflicts
           \/ SessionDies \/ DieInAppend \/ DieInPersist \/ ForeignStamp
  BY <1>7, NothingShows
  DEF OpenSession, StartConverge, SendState, StateConflicts, SessionDies, DieInAppend, DieInPersist,
      ForeignStamp, engineVars, ghostVars
<1>8. CASE \E t \in Table :
             Write(t) \/ Visit(t) \/ PlanAppend(t) \/ AppendConflicts(t) \/ ForeignAppend(t)
  BY <1>8, NothingShows
  DEF Write, Visit, PlanAppend, AppendConflicts, ForeignAppend, engineVars, ghostVars
<1> QED BY <1>1, <1>2, <1>3, <1>4, <1>5, <1>6, <1>7, <1>8 DEF Next

\* IcebergLoad!ImplementsExactlyOnce: one snapshot per table, scans of the
\* histories and the marker's receipt make each unit take effect once, whatever
\* dies where and whenever a dead session's request is applied.
THEOREM Refinement == ASSUME IcebergAssumption PROVE Spec => ImplementsExactlyOnce
<1>1. Init => Abstract!EInit
  <2> SUFFICES ASSUME Init PROVE Abstract!EInit OBVIOUS
  <2>1. stamped = {} /\ acked = {} /\ ~dirty BY DEF Init
  <2>2. Shown BY Initial, ShownAlways
  <2>3. View = Abstract!Exact({}) BY <2>1, <2>2 DEF Shown
  <2> QED BY <2>1, <2>3 DEF Abstract!EInit
<1>2. IceInv => Shown BY ShownAlways
<1>3. IceInv /\ Shown /\ Shown' /\ [Next]_vars => [Abstract!ENext]_(Abstract!evars)
  BY StepRefines
<1> QED BY <1>1, <1>2, <1>3, Invariant, PTL DEF Spec, ImplementsExactlyOnce, Abstract!ESpec

-----------------------------------------------------------------------------
(***************************************************************************)
(* IcebergTable                                                            *)
(***************************************************************************)
CONSTANTS Session, Wanted(_), PartitionBy(_), MaxRows
VARIABLES exists, live, tspec, version, data, tpc, ask, seen, tattempt, ttarget, writer,
          pending, tsent

T == INSTANCE IcebergTable
     WITH spec <- tspec, pc <- tpc, attempt <- tattempt, target <- ttarget, sent <- tsent

-----------------------------------------------------------------------------
(* The inductive invariant *)

\* cols is what a session may know of schema l: some of its columns, as they
\* are, and every one it requires.
PartOf(cols, l) ==
  /\ DOMAIN cols \subseteq DOMAIN l
  /\ \A c \in DOMAIN cols : cols[c] = l[c]
  /\ \A c \in DOMAIN l : l[c].required => c \in DOMAIN cols

\* A batch of the columns want lands whole in a table of the columns cols.
Receives(cols, want) ==
  /\ DOMAIN want \subseteq DOMAIN cols
  /\ \A c \in DOMAIN want : cols[c].required => want[c].required

\* Row r keeps what it was given, and can be read under schema l.
Readable(r, l) ==
  /\ r.has = r.row.has
  /\ r.has \subseteq DOMAIN l
  /\ \A c \in DOMAIN l : l[c].required => c \in r.has

\* The rows of R under the k-th schema are n, with numbers of their own.
Numbered(R, k, n) ==
  /\ \A r \in R : r.row.ask = k => r.row.n \in 1 .. n
  /\ \A i \in 1 .. n : \E r \in R : r.row.ask = k /\ r.row.n = i
  /\ \A q, r \in R : q.row.ask = k /\ r.row.ask = k /\ q.row.n = r.row.n => q = r

\* R has rows under every schema before the k-th.
Earlier(R, k) == \A j \in 1 .. k - 1 : \E r \in R : r.row.ask = j

\* The rows a session has written and not published.
Held(s) == writer[s].rows \cup pending[s]
Published(s) == {r \in data : r.row.who = s}

Ensuring == {"start", "create", "load", "plan", "evolve"}
States == Ensuring \cup {"loading", "append", "done", "refused"}

Shape ==
  /\ DOMAIN tpc = Session /\ DOMAIN ask = Session /\ DOMAIN seen = Session
  /\ DOMAIN ttarget = Session /\ DOMAIN writer = Session
  /\ DOMAIN pending = Session /\ DOMAIN tsent = Session
  /\ version \in Nat
  /\ \A s \in Session : /\ tpc[s] \in States
                        /\ ask[s] \in Nat /\ ask[s] > 0
                        /\ tsent[s] \in Nat

\* What a session knows of the table.
Knows(s) ==
  /\ exists \/ (tpc[s] \in {"start", "create", "refused"} /\ Held(s) = {})
  /\ tpc[s] \in {"plan", "evolve", "append"} =>
       /\ PartOf(seen[s].cols, live)
       /\ seen[s].version \in Nat /\ seen[s].version <= version
       /\ seen[s].version = version => seen[s].cols = live
  /\ tpc[s] = "evolve" => ~T!Contradicts(T!Want(s), seen[s].cols)
  /\ tpc[s] = "loading" => PartOf(ttarget[s], live) /\ Receives(ttarget[s], T!Want(s))

\* What a session holds.
Holds(s) ==
  /\ \A r \in Held(s) : /\ Readable(r, live)
                        /\ r.row.who = s /\ r.row.ask \in Nat /\ r.row.ask <= ask[s]
  /\ (~writer[s].open \/ tpc[s] \in {"append", "done"}) => writer[s].rows = {}
  /\ tpc[s] \notin {"done", "refused"} => Earlier(Held(s), ask[s])
  /\ tpc[s] \in Ensuring => \A r \in Held(s) : r.row.ask < ask[s]
  /\ tpc[s] \in {"loading", "append"} => Numbered(Held(s), ask[s], tsent[s])
  /\ tpc[s] = "append" => tsent[s] > 0

\* What has been published.
DataWhole ==
  /\ \A r \in data : Readable(r, live) /\ r.row.who \in Session /\ tpc[r.row.who] = "done"
  /\ \A s \in Session : tpc[s] = "done" =>
       /\ Earlier(Published(s), ask[s])
       /\ Numbered(Published(s), ask[s], tsent[s])
       /\ tsent[s] > 0

TableInv == Shape /\ (\A s \in Session : Knows(s) /\ Holds(s)) /\ DataWhole

LEMMA TableInit == T!Init => TableInv
<1> SUFFICES ASSUME T!Init PROVE TableInv OBVIOUS
<1>1. Shape BY DEF T!Init, Shape, States, Ensuring
<1>2. ASSUME NEW s \in Session PROVE Knows(s) /\ Holds(s)
  <2>1. tpc[s] = "start" /\ ask[s] = 1 /\ Held(s) = {} /\ writer[s].rows = {}
    BY DEF T!Init, Held, T!Shut
  <2> QED BY <2>1 DEF Knows, Holds, Earlier, Ensuring
<1>3. DataWhole BY DEF T!Init, DataWhole
<1> QED BY <1>1, <1>2, <1>3 DEF TableInv

-----------------------------------------------------------------------------
(* The schema *)

\* A schema commit leaves the columns that are there and adds optional ones.
Extends(l, m) ==
  /\ DOMAIN l \subseteq DOMAIN m
  /\ \A c \in DOMAIN l : m[c] = l[c]
  /\ \A c \in DOMAIN m : m[c].required => c \in DOMAIN l

LEMMA Extended ==
  ASSUME NEW l, NEW m, Extends(l, m)
  PROVE  /\ \A cols : PartOf(cols, l) => PartOf(cols, m)
         /\ \A r : Readable(r, l) => Readable(r, m)
BY DEF Extends, PartOf, Readable

LEMMA EvolvedExtends ==
  ASSUME NEW s, NEW cols, ~T!Contradicts(T!Want(s), cols)
  PROVE  /\ Extends(cols, T!Evolved(T!Want(s), cols))
         /\ Receives(T!Evolved(T!Want(s), cols), T!Want(s))
<1> DEFINE w == T!Want(s)
           m == T!Evolved(w, cols)
<1>1. DOMAIN m = DOMAIN cols \cup DOMAIN w BY DEF T!Evolved, T!Additions
<1>2. \A c \in DOMAIN cols : m[c] = cols[c] BY DEF T!Evolved, T!Additions
<1>3. ASSUME NEW c \in DOMAIN w, c \notin DOMAIN cols PROVE m[c].required = FALSE
  <2>1. m[c] = [w[c] EXCEPT !.required = FALSE] BY <1>3 DEF T!Evolved, T!Additions
  <2>2. "required" \in DOMAIN w[c] BY <1>3 DEF T!Want, T!BuildField
  <2> QED BY <2>1, <2>2
<1>4. \A c \in DOMAIN w \cap DOMAIN cols : cols[c].required => w[c].required
  BY DEF T!Contradicts, T!Agrees
<1> HIDE DEF w, m
<1>5. Extends(cols, m) BY <1>1, <1>2, <1>3 DEF Extends
<1>6. Receives(m, w) BY <1>1, <1>2, <1>3, <1>4 DEF Receives
<1> QED BY <1>5, <1>6 DEF m, w

-----------------------------------------------------------------------------
(* What one session's step leaves of the others *)

Still(s) ==
  /\ tpc'[s] = tpc[s] /\ ask'[s] = ask[s] /\ seen'[s] = seen[s] /\ ttarget'[s] = ttarget[s]
  /\ writer'[s] = writer[s] /\ pending'[s] = pending[s] /\ tsent'[s] = tsent[s]

TableMoves ==
  /\ exists => exists' /\ Extends(live, live')
  /\ version' \in Nat /\ version <= version'
  /\ version' = version => live' = live

LEMMA StillSame ==
  ASSUME NEW s, Still(s)
  PROVE  /\ Held(s)' = Held(s)
         /\ T!Want(s)' = T!Want(s)
BY DEF Still, Held, T!Want

LEMMA OthersKeep ==
  ASSUME TableInv, TableMoves, NEW s \in Session, Still(s)
  PROVE  Knows(s)' /\ Holds(s)'
<1>1. PICK w : w = T!Want(s) OBVIOUS
<1>2. T!Want(s)' = w BY <1>1, StillSame
<1>3. PICK H : H = Held(s) OBVIOUS
<1>4. Held(s)' = H BY <1>3, StillSame
<1>5. Knows(s) /\ Holds(s) /\ version \in Nat BY DEF TableInv, Shape
<1>6. CASE exists
  <2>1. PICK l, m : l = live /\ m = live' OBVIOUS
  <2>2. Extends(l, m) BY <1>6, <2>1 DEF TableMoves
  <2>3. PICK c, v, t : c = seen[s].cols /\ v = seen[s].version /\ t = ttarget[s] OBVIOUS
  <2>4. seen'[s].cols = c /\ seen'[s].version = v /\ ttarget'[s] = t BY <2>3 DEF Still
  <2>5. /\ tpc[s] \in {"plan", "evolve", "append"} =>
             /\ PartOf(c, l) /\ v \in Nat /\ v <= version /\ (v = version => c = l)
        /\ tpc[s] = "evolve" => ~T!Contradicts(w, c)
        /\ tpc[s] = "loading" => PartOf(t, l) /\ Receives(t, w)
    BY <1>1, <1>5, <2>1, <2>3 DEF Knows
  <2>6. (v \in Nat /\ v <= version /\ v = version') => version' = version /\ m = l
    BY <1>5, <2>1 DEF TableMoves
  <2>7. Knows(s)'
    <3>1. exists' BY <1>6 DEF TableMoves
    <3>2. tpc[s] \in {"plan", "evolve", "append"} =>
            /\ PartOf(c, m) /\ v \in Nat /\ v <= version' /\ (v = version' => c = m)
      BY <1>5, <2>2, <2>5, <2>6, Extended DEF TableMoves
    <3>3. tpc[s] = "loading" => PartOf(t, m) /\ Receives(t, w) BY <2>2, <2>5, Extended
    <3>4. tpc'[s] = tpc[s] BY DEF Still
    <3>5. (tpc[s] = "evolve" => ~T!Contradicts(T!Want(s), seen[s].cols))'
      BY <1>2, <2>4, <2>5, <3>4 DEF T!Contradicts
    <3>6. (tpc[s] \in {"plan", "evolve", "append"} =>
              /\ PartOf(seen[s].cols, live)
              /\ seen[s].version \in Nat /\ seen[s].version <= version
              /\ seen[s].version = version => seen[s].cols = live)'
      BY <2>1, <2>4, <3>2, <3>4
    <3>7. (tpc[s] = "loading" => PartOf(ttarget[s], live) /\ Receives(ttarget[s], T!Want(s)))'
      BY <1>2, <2>1, <2>4, <3>3, <3>4
    <3> QED BY <3>1, <3>5, <3>6, <3>7 DEF Knows
  <2>8. Holds(s)'
    <3>1. \A r \in H : Readable(r, m) BY <1>3, <1>5, <2>1, <2>2, Extended DEF Holds
    <3> QED BY <1>3, <1>4, <1>5, <2>1, <3>1 DEF Holds, Still
  <2> QED BY <2>7, <2>8
<1>7. CASE ~exists
  <2>1. tpc[s] \in {"start", "create", "refused"} /\ H = {} BY <1>3, <1>5, <1>7 DEF Knows
  <2>2. Knows(s)' BY <1>4, <2>1 DEF Knows, Still
  <2>3. Holds(s)' BY <1>3, <1>4, <1>5, <2>1 DEF Holds, Still
  <2> QED BY <2>2, <2>3
<1> QED BY <1>6, <1>7

LEMMA PublishedKeeps ==
  ASSUME TableInv, TableMoves, data' = data, NEW s \in Session,
         tpc[s] # "done", tpc'[s] # "done", \A o \in Session \ {s} : Still(o)
  PROVE  DataWhole'
<1>1. DataWhole /\ (\A o \in Session : Knows(o)) BY DEF TableInv
<1>2. ASSUME NEW r \in data
      PROVE Readable(r, live') /\ r.row.who \in Session /\ tpc'[r.row.who] = "done"
  <2>1. r.row.who \in Session \ {s} /\ tpc[r.row.who] = "done" /\ Readable(r, live)
    BY <1>1, <1>2 DEF DataWhole
  <2>2. exists BY <1>1, <2>1 DEF Knows
  <2>3. PICK l, m : l = live /\ m = live' OBVIOUS
  <2>4. Extends(l, m) BY <2>2, <2>3 DEF TableMoves
  <2>5. Readable(r, m) BY <2>1, <2>3, <2>4, Extended
  <2> QED BY <2>1, <2>3, <2>5 DEF Still
<1>3. ASSUME NEW o \in Session, tpc'[o] = "done"
      PROVE  /\ Earlier(Published(o), ask'[o]) /\ Numbered(Published(o), ask'[o], tsent'[o])
             /\ tsent'[o] > 0
  <2>1. Still(o) /\ tpc[o] = "done" BY <1>3 DEF Still
  <2> QED BY <1>1, <2>1 DEF DataWhole, Still
<1>4. \A o : Published(o)' = Published(o) BY DEF Published
<1> QED BY <1>2, <1>3, <1>4 DEF DataWhole

-----------------------------------------------------------------------------
(* The steps of a session *)

LEMMA TableStays ==
  ASSUME TableInv, UNCHANGED T!tableVars
  PROVE  TableMoves /\ version' \in Nat
BY DEF TableInv, Shape, T!tableVars, TableMoves, Extends

LEMMA SchemaOnly ==
  ASSUME TableInv, NEW s \in Session, UNCHANGED <<data, exists>>, exists,
         live' = T!Evolved(T!Want(s), live), version' = version + 1,
         ~T!Contradicts(T!Want(s), live)
  PROVE  TableMoves /\ Receives(live', T!Want(s)) /\ Extends(live, live')
<1>1. PICK l : l = live OBVIOUS
<1>2. Extends(l, T!Evolved(T!Want(s), l)) /\ Receives(T!Evolved(T!Want(s), l), T!Want(s))
  BY <1>1, EvolvedExtends
<1>3. version \in Nat BY DEF TableInv, Shape
<1> QED BY <1>1, <1>2, <1>3 DEF TableMoves

\* The other sessions and what is published, when s publishes nothing.
LEMMA StepKeeps ==
  ASSUME TableInv, TableMoves, data' = data, NEW s \in Session,
         tpc[s] # "done", tpc'[s] # "done", \A o \in Session \ {s} : Still(o),
         Shape', Knows(s)', Holds(s)'
  PROVE  TableInv'
<1>1. \A o \in Session : Knows(o)' /\ Holds(o)' BY OthersKeep
<1>2. DataWhole' BY PublishedKeeps
<1> QED BY <1>1, <1>2 DEF TableInv

\* Reinstalling a table in the session: nothing held is lost, and nothing held is
\* of the schema just ensured.
LEMMA Reinstalls ==
  ASSUME TableInv, TableMoves, data' = data, NEW s \in Session, NEW cols,
         tpc[s] \in Ensuring, ask' = ask, exists',
         seen' = seen \/ \E x : seen' = [seen EXCEPT ![s] = x],
         T!Reinstall(s, cols), PartOf(cols, live'), Receives(cols, T!Want(s))
  PROVE  TableInv'
<1>1. Shape /\ Knows(s) /\ Holds(s) BY DEF TableInv
<1>2. /\ ttarget'[s] = cols /\ tpc'[s] = "loading" /\ tsent'[s] = 0
      /\ writer'[s].rows \cup pending'[s] = Held(s)
      /\ ~writer'[s].open => writer'[s].rows = {}
  <2>1. CASE writer[s].open /\ ttarget[s] # cols
    <3>1. writer'[s] = T!Shut /\ pending'[s] = pending[s] \cup writer[s].rows
      BY <1>1, <2>1 DEF T!Reinstall, Shape
    <3> QED BY <1>1, <3>1 DEF T!Reinstall, Shape, Held, T!Shut
  <2>2. CASE ~(writer[s].open /\ ttarget[s] # cols)
    <3>1. writer'[s] = writer[s] /\ pending'[s] = pending[s]
      BY <1>1, <2>2 DEF T!Reinstall, Shape
    <3> QED BY <1>1, <3>1 DEF T!Reinstall, Shape, Held, Holds
  <2> QED BY <2>1, <2>2
<1>3. Shape'
  BY <1>1 DEF T!Reinstall, Shape, States, TableMoves
<1>4. \A o \in Session \ {s} : Still(o) BY <1>1 DEF T!Reinstall, Shape, Still
<1>5. PICK w, m, H : w = T!Want(s) /\ m = live' /\ H = Held(s) OBVIOUS
<1>6. T!Want(s)' = w /\ Held(s)' = H BY <1>2, <1>5 DEF T!Want, Held
<1>7. Knows(s)'
  <2>1. (tpc[s] = "loading" => PartOf(ttarget[s], live) /\ Receives(ttarget[s], T!Want(s)))'
    BY <1>2, <1>5, <1>6
  <2> QED BY <1>2, <2>1 DEF Knows
<1>8. Holds(s)'
  <2>1. \A r \in H : Readable(r, m)
    <3>1. CASE exists
      <4>1. PICK l : l = live OBVIOUS
      <4>2. Extends(l, m) BY <1>5, <3>1, <4>1 DEF TableMoves
      <4> QED BY <1>1, <1>5, <4>1, <4>2, Extended DEF Holds
    <3>2. CASE ~exists BY <1>1, <1>5, <3>2 DEF Knows
    <3> QED BY <3>1, <3>2
  <2>2. \A r \in H : r.row.ask < ask[s] BY <1>1, <1>5 DEF Holds
  <2>3. Earlier(H, ask[s]) BY <1>1, <1>5 DEF Holds, Ensuring
  <2>4. Numbered(H, ask[s], 0) BY <1>1, <1>5, <2>2 DEF Numbered, Holds, Shape
  <2>5. \A r \in H : r.row.who = s /\ r.row.ask \in Nat /\ r.row.ask <= ask[s]
    BY <1>1, <1>5 DEF Holds
  <2> QED BY <1>2, <1>5, <1>6, <2>1, <2>3, <2>4, <2>5 DEF Holds, Ensuring
<1> QED BY <1>2, <1>3, <1>4, <1>7, <1>8, StepKeeps DEF Ensuring

\* A step that only moves a session on, or ends it.
LEMMA MovesOn ==
  ASSUME TableInv, NEW s \in Session, NEW p \in States \ {"done", "append"},
         tpc[s] \notin {"done", "loading", "refused"} \/ p = "refused", tpc[s] # "done",
         tpc' = [tpc EXCEPT ![s] = p],
         seen' = seen \/ \E x : seen' = [seen EXCEPT ![s] = x],
         UNCHANGED <<T!tableVars, ask, ttarget, writer, pending, tsent>>,
         tpc[s] = "append" => p = "refused", p # "loading",
         exists \/ p \in {"start", "create", "refused"},
         p = "evolve" => ~T!Contradicts(T!Want(s), seen'[s].cols),
         p \in {"plan", "evolve"} =>
           /\ PartOf(seen'[s].cols, live)
           /\ seen'[s].version \in Nat /\ seen'[s].version <= version
           /\ seen'[s].version = version => seen'[s].cols = live
  PROVE  TableInv'
<1>1. Shape /\ Knows(s) /\ Holds(s) BY DEF TableInv
<1>2. TableMoves /\ version' \in Nat BY TableStays
<1>3. Shape' BY <1>1, <1>2 DEF Shape
<1>4. \A o \in Session \ {s} : Still(o) BY <1>1 DEF Shape, Still
<1>5. tpc'[s] = p /\ Held(s)' = Held(s) /\ T!Want(s)' = T!Want(s) BY <1>1 DEF Shape, Held, T!Want
<1>6. Knows(s)'
  <2>1. (tpc[s] = "evolve" => ~T!Contradicts(T!Want(s), seen[s].cols))' BY <1>5 DEF T!Contradicts
  <2>2. exists \/ Held(s) = {} BY <1>1 DEF Knows
  <2> QED BY <1>5, <2>1, <2>2 DEF Knows, T!tableVars
<1>7. Holds(s)'
  <2>1. p \in {"start", "create", "load", "plan", "evolve"} => tpc[s] \in Ensuring
    BY <1>1 DEF Shape, States, Ensuring
  <2> QED BY <1>1, <1>5, <2>1 DEF Holds, States, Ensuring, T!tableVars
<1> QED BY <1>2, <1>3, <1>4, <1>5, <1>6, <1>7, StepKeeps DEF T!tableVars

LEMMA ProbeKeepsTable == ASSUME TableInv, NEW s \in Session, T!Probe(s) PROVE TableInv'
<1>1. PICK p \in {"load", "create"} : tpc' = [tpc EXCEPT ![s] = p] /\ (p = "load" => exists)
  BY DEF T!Probe
<1>2. Shape /\ Knows(s) BY DEF TableInv
<1> QED BY <1>1, <1>2, MovesOn DEF T!Probe, States, Ensuring

LEMMA RefuseKeepsTable ==
  ASSUME TableInv, NEW s \in Session, tpc[s] # "done", T!Refuse(s),
         UNCHANGED <<T!tableVars, ask, seen>>
  PROVE  TableInv'
<1>1. tpc' = [tpc EXCEPT ![s] = "refused"] BY DEF T!Refuse
<1> QED BY <1>1, MovesOn DEF T!Refuse, States

LEMMA CreateKeepsTable == ASSUME TableInv, NEW s \in Session, T!Create(s) PROVE TableInv'
<1>1. CASE exists
  <2>1. tpc' = [tpc EXCEPT ![s] = "load"] /\ tpc[s] = "create" BY <1>1 DEF T!Create
  <2> QED BY <1>1, <2>1, MovesOn DEF T!Create, States, Ensuring
<1>2. CASE ~exists /\ ~T!Partitionable(PartitionBy(s), T!Want(s))
  BY <1>2, RefuseKeepsTable DEF T!Create
<1>3. CASE ~exists /\ T!Partitionable(PartitionBy(s), T!Want(s))
  <2>1. /\ exists' /\ live' = T!Want(s) /\ version' = version + 1 /\ data' = data
        /\ \E x : seen' = [seen EXCEPT ![s] = x]
        /\ T!Reinstall(s, T!Want(s)) /\ tpc[s] = "create" /\ ask' = ask
    BY <1>3 DEF T!Create
  <2>2. version \in Nat BY DEF TableInv, Shape
  <2>3. TableMoves BY <1>3, <2>1, <2>2 DEF TableMoves
  <2>4. PICK w : w = T!Want(s) OBVIOUS
  <2>5. PartOf(w, live') /\ Receives(w, T!Want(s)) BY <2>1, <2>4 DEF PartOf, Receives
  <2>6. T!Reinstall(s, w) BY <2>1, <2>4
  <2>7. tpc[s] \in Ensuring BY <2>1 DEF Ensuring
  <2> QED BY <2>1, <2>3, <2>5, <2>6, <2>7, Reinstalls
<1> QED BY <1>1, <1>2, <1>3

LEMMA LoadKeepsTable == ASSUME TableInv, NEW s \in Session, T!LoadTable(s) PROVE TableInv'
<1>1. /\ tpc[s] = "load" /\ tpc' = [tpc EXCEPT ![s] = "plan"]
      /\ seen' = [seen EXCEPT ![s] = [version |-> version, cols |-> live]]
      /\ UNCHANGED <<T!tableVars, ask, ttarget, writer, pending, tsent>>
  BY DEF T!LoadTable, T!Load1
<1>2. Shape /\ Knows(s) BY DEF TableInv
<1>3. seen'[s].version = version /\ seen'[s].cols = live BY <1>1, <1>2 DEF Shape
<1>4. PartOf(live, live) BY DEF PartOf
<1>5. exists /\ version \in Nat BY <1>1, <1>2 DEF Knows, Shape
<1>6. "plan" \in States \ {"done", "append"} BY DEF States, Ensuring
<1>7. \E x : seen' = [seen EXCEPT ![s] = x] BY <1>1
<1>8. PartOf(seen'[s].cols, live) /\ seen'[s].version \in Nat /\ seen'[s].version <= version
  BY <1>3, <1>4, <1>5
<1> QED BY <1>1, <1>3, <1>5, <1>6, <1>7, <1>8, MovesOn

LEMMA PlanKeepsTable == ASSUME TableInv, NEW s \in Session, T!Plan(s) PROVE TableInv'
<1>1. Shape /\ Knows(s) /\ tpc[s] = "plan" BY DEF TableInv, T!Plan
<1>2. PICK cols : cols = seen[s].cols OBVIOUS
<1>3. exists /\ PartOf(cols, live) BY <1>1, <1>2 DEF Knows
<1>4. UNCHANGED <<T!tableVars, ask, seen>> BY DEF T!Plan
<1>5. CASE T!Refuse(s) BY <1>1, <1>4, <1>5, RefuseKeepsTable
<1>6. CASE ~T!Contradicts(T!Want(s), cols) /\ T!Additions(T!Want(s), cols) = {} /\ T!Reinstall(s, cols)
  <2>1. Receives(cols, T!Want(s)) BY <1>6 DEF Receives, T!Additions, T!Contradicts, T!Agrees
  <2>2. TableMoves BY <1>4, TableStays
  <2>3. exists' /\ live' = live /\ data' = data /\ ask' = ask /\ seen' = seen
    BY <1>3, <1>4 DEF T!tableVars
  <2>4. PartOf(cols, live') BY <1>3, <2>3
  <2> QED BY <1>1, <1>6, <2>1, <2>2, <2>3, <2>4, Reinstalls DEF Ensuring
<1>7. CASE /\ ~T!Contradicts(T!Want(s), cols) /\ tpc' = [tpc EXCEPT ![s] = "evolve"]
           /\ UNCHANGED <<ttarget, writer, pending, tsent>>
  <2>1. /\ seen[s].version \in Nat /\ seen[s].version <= version
        /\ seen[s].version = version => cols = live
    BY <1>1, <1>2 DEF Knows
  <2> QED BY <1>1, <1>2, <1>3, <1>4, <1>7, <2>1, MovesOn DEF States, Ensuring
<1> QED BY <1>2, <1>5, <1>6, <1>7 DEF T!Plan

LEMMA EvolveKeepsTable == ASSUME TableInv, NEW s \in Session, T!Evolve(s) PROVE TableInv'
<1>1. Shape /\ Knows(s) /\ tpc[s] = "evolve" /\ version = seen[s].version BY DEF TableInv, T!Evolve
<1>2. PICK l : l = live OBVIOUS
<1>3. exists /\ seen[s].cols = l /\ ~T!Contradicts(T!Want(s), l) BY <1>1, <1>2 DEF Knows
<1>4. PICK m : m = T!Evolved(T!Want(s), l) OBVIOUS
<1>5. /\ live' = m /\ version' = version + 1 /\ T!Reinstall(s, m)
      /\ UNCHANGED <<exists, data, ask, seen>>
  BY <1>3, <1>4 DEF T!Evolve, T!Reinstall
<1>6. TableMoves /\ Receives(m, T!Want(s)) BY <1>2, <1>3, <1>4, <1>5, SchemaOnly
<1>7. PartOf(m, live') BY <1>5 DEF PartOf
<1> QED BY <1>1, <1>3, <1>5, <1>6, <1>7, Reinstalls DEF Ensuring

LEMMA ConflictKeepsTable == ASSUME TableInv, NEW s \in Session, T!Conflict(s) PROVE TableInv'
<1>1. /\ Shape /\ Knows(s) /\ Holds(s) /\ tpc[s] \in {"evolve", "append"}
      /\ UNCHANGED <<T!tableVars, ask>>
  BY DEF TableInv, T!Conflict
<1>2. exists /\ version \in Nat BY <1>1 DEF Knows, Shape
<1>3. CASE T!Refuse(s) /\ seen' = seen BY <1>1, <1>3, RefuseKeepsTable
<1>4. CASE /\ T!Load1(s) /\ tpc' = [tpc EXCEPT ![s] = IF @ = "evolve" THEN "plan" ELSE @]
           /\ UNCHANGED <<ttarget, writer, pending, tsent>>
  <2>1. seen' = [seen EXCEPT ![s] = [version |-> version, cols |-> live]]
    BY <1>4 DEF T!Load1
  <2>2. seen'[s].version = version /\ seen'[s].cols = live BY <1>1, <2>1 DEF Shape
  <2>3. PartOf(seen'[s].cols, live) BY <2>2 DEF PartOf
  <2>4. CASE tpc[s] = "evolve"
    <3>1. tpc' = [tpc EXCEPT ![s] = "plan"] BY <1>4, <2>4
    <3>2. "plan" \in States \ {"done", "append"} BY DEF States, Ensuring
    <3>3. \E x : seen' = [seen EXCEPT ![s] = x] BY <2>1
    <3>4. seen'[s].version \in Nat /\ seen'[s].version <= version BY <1>2, <2>2
    <3> QED BY <1>1, <1>2, <1>4, <2>2, <2>3, <2>4, <3>1, <3>2, <3>3, <3>4, MovesOn
  <2>5. CASE tpc[s] = "append"
    <3>1. tpc'[s] = "append" /\ DOMAIN tpc' = Session BY <1>1, <1>4, <2>5 DEF Shape
    <3>2. TableMoves /\ version' \in Nat BY <1>1, TableStays
    <3>3. \A o \in Session \ {s} : Still(o) BY <1>1, <1>4, <2>1 DEF Shape, Still
    <3>4. Shape'
      <4>1. \A o \in Session : tpc'[o] \in States BY <1>1, <1>4, <3>1 DEF Shape, States
      <4> QED BY <1>1, <1>4, <2>1, <3>1, <3>2, <4>1 DEF Shape
    <3>5. Held(s)' = Held(s) /\ T!Want(s)' = T!Want(s) BY <1>1, <1>4 DEF Held, T!Want
    <3>6. Knows(s)' BY <1>1, <1>2, <2>2, <2>3, <3>1, <3>2, <3>5 DEF Knows, T!tableVars
    <3>7. Holds(s)' BY <1>1, <1>4, <2>5, <3>1, <3>5 DEF Holds, T!tableVars
    <3> QED BY <1>1, <2>5, <3>1, <3>2, <3>3, <3>4, <3>6, <3>7, StepKeeps DEF T!tableVars
  <2> QED BY <1>1, <2>4, <2>5
<1> QED BY <1>3, <1>4 DEF T!Conflict

LEMMA EnsureAgainKeepsTable == ASSUME TableInv, NEW s \in Session, T!EnsureAgain(s) PROVE TableInv'
<1>1. /\ Shape /\ Knows(s) /\ Holds(s) /\ tpc[s] = "loading" /\ tsent[s] > 0
      /\ ask' = [ask EXCEPT ![s] = @ + 1] /\ tpc' = [tpc EXCEPT ![s] = "start"]
      /\ UNCHANGED <<T!tableVars, seen, ttarget, writer, pending, tsent>>
  BY DEF TableInv, T!EnsureAgain
<1>2. TableMoves /\ version' \in Nat BY <1>1, TableStays
<1>3. tpc'[s] = "start" /\ ask'[s] = ask[s] + 1 /\ ask[s] \in Nat /\ ask[s] > 0 /\ tsent[s] \in Nat
  BY <1>1 DEF Shape
<1>4. Shape' BY <1>1, <1>2 DEF Shape, States, Ensuring
<1>5. \A o \in Session \ {s} : Still(o) BY <1>1 DEF Shape, Still
<1>6. PICK H, k : H = Held(s) /\ k = ask[s] OBVIOUS
<1>7. Held(s)' = H BY <1>1, <1>6 DEF Held
<1>8. Knows(s)' BY <1>1, <1>3 DEF Knows, T!tableVars
<1>9. Holds(s)'
  <2>1. /\ \A r \in H : r.row.who = s /\ r.row.ask \in Nat /\ r.row.ask <= k /\ Readable(r, live)
        /\ Earlier(H, k) /\ Numbered(H, k, tsent[s])
    BY <1>1, <1>6 DEF Holds
  <2>2. \E r \in H : r.row.ask = k
    <3>1. 1 \in 1 .. tsent[s] BY <1>1, <1>3
    <3> QED BY <2>1, <3>1 DEF Numbered
  <2>3. Earlier(H, k + 1)
    <3> SUFFICES ASSUME NEW j \in 1 .. k PROVE \E r \in H : r.row.ask = j
      BY <1>3, <1>6 DEF Earlier
    <3>1. j = k \/ j \in 1 .. k - 1 BY <1>3, <1>6
    <3> QED BY <2>1, <2>2, <3>1 DEF Earlier
  <2>4. \A r \in H : r.row.ask < k + 1 /\ r.row.ask <= k + 1 BY <1>3, <1>6, <2>1
  <2>5. ~writer[s].open => writer[s].rows = {} BY <1>1 DEF Holds
  <2>6. live' = live /\ writer' = writer BY <1>1 DEF T!tableVars
  <2> QED BY <1>3, <1>6, <1>7, <2>1, <2>3, <2>4, <2>5, <2>6 DEF Holds
<1> QED BY <1>1, <1>2, <1>3, <1>4, <1>5, <1>8, <1>9, StepKeeps DEF T!tableVars

\* One more row of the present schema.
LEMMA NumberedOneMore ==
  ASSUME NEW R, NEW k, NEW n \in Nat, NEW x, Numbered(R, k, n),
         x.row.ask = k, x.row.n = n + 1
  PROVE  Numbered(R \cup {x}, k, n + 1)
<1>1. \A r \in R : r.row.ask = k => r.row.n \in 1 .. n + 1 /\ r.row.n # n + 1
  BY DEF Numbered
<1>2. x.row.n \in 1 .. n + 1 OBVIOUS
<1>3. \A i \in 1 .. n + 1 : i \in 1 .. n \/ i = n + 1 OBVIOUS
<1>4. \A i \in 1 .. n + 1 : \E r \in R \cup {x} : r.row.ask = k /\ r.row.n = i
  BY <1>3 DEF Numbered
<1>5. ASSUME NEW q \in R \cup {x}, NEW r \in R \cup {x},
             q.row.ask = k, r.row.ask = k, q.row.n = r.row.n
      PROVE  q = r
  BY <1>1, <1>5 DEF Numbered
<1> QED BY <1>1, <1>2, <1>4, <1>5 DEF Numbered

LEMMA WriteKeepsTable == ASSUME TableInv, NEW s \in Session, T!Write(s) PROVE TableInv'
<1>1. /\ Shape /\ Knows(s) /\ Holds(s) /\ tpc[s] = "loading"
      /\ UNCHANGED <<T!tableVars, ask, seen>>
  BY DEF TableInv, T!Write
<1>2. CASE T!Refuse(s) BY <1>1, <1>2, RefuseKeepsTable
<1>3. CASE T!Unfilled(s) = {} /\ ~T!Refuse(s)
  <2>1. PICK row \in T!Given(s), aged \in BOOLEAN :
          LET rolls == aged /\ writer[s].open
              kept  == IF writer[s].open /\ ~rolls THEN writer[s].rows ELSE {}
          IN /\ pending' = [pending EXCEPT ![s] = IF rolls THEN @ \cup writer[s].rows ELSE @]
             /\ writer' = [writer EXCEPT ![s] = [open |-> TRUE, cols |-> ttarget[s],
                                                 rows |-> kept \cup {T!Aligned(s, row)}]]
             /\ tsent' = [tsent EXCEPT ![s] = @ + 1]
             /\ UNCHANGED <<tpc, tattempt, ttarget>>
    BY <1>3 DEF T!Write
  <2>2. PICK x, H : x = T!Aligned(s, row) /\ H = Held(s) OBVIOUS
  <2>3. PICK w, t : w = T!Want(s) /\ t = ttarget[s] OBVIOUS
  <2>4. PICK h \in SUBSET DOMAIN w :
          /\ row = [who |-> s, ask |-> ask[s], n |-> tsent[s] + 1, has |-> h]
          /\ \A c \in DOMAIN w : w[c].required => c \in h
    BY <2>3 DEF T!Given
  <2>5. PartOf(t, live) /\ Receives(t, w) BY <1>1, <2>3 DEF Knows
  <2>6. x = [row |-> row, has |-> h]
    <3>1. row.has \cap DOMAIN t = h BY <2>4, <2>5 DEF Receives
    <3> QED BY <2>2, <2>3, <2>4, <3>1 DEF T!Aligned
  <2>7. Readable(x, live)
    <3>1. x.has = h /\ x.row.has = h BY <2>4, <2>6
    <3>2. h \subseteq DOMAIN live BY <2>4, <2>5 DEF Receives, PartOf
    <3>3. ASSUME NEW c \in DOMAIN live, live[c].required PROVE c \in h
      <4>1. c \in DOMAIN t /\ t[c].required BY <2>5, <3>3 DEF PartOf
      <4>2. c \in DOMAIN w BY <1>3, <2>3, <4>1 DEF T!Unfilled
      <4> QED BY <2>4, <2>5, <4>1, <4>2 DEF Receives
    <3> QED BY <3>1, <3>2, <3>3 DEF Readable
  <2>8. x.row.who = s /\ x.row.ask = ask[s] /\ x.row.n = tsent[s] + 1 BY <2>4, <2>6
  <2>9. Held(s)' = H \cup {x} /\ writer'[s].open
    BY <1>1, <2>1, <2>2 DEF Shape, Held, Holds
  <2>10. TableMoves /\ version' \in Nat BY <1>1, TableStays
  <2>11. tsent'[s] = tsent[s] + 1 /\ tsent[s] \in Nat /\ tpc' = tpc /\ ttarget' = ttarget
    BY <1>1, <2>1 DEF Shape
  <2>12. Shape' BY <1>1, <2>1, <2>10, <2>11 DEF Shape
  <2>13. \A o \in Session \ {s} : Still(o) BY <1>1, <2>1 DEF Shape, Still
  <2>14. Knows(s)'
    <3>1. T!Want(s)' = T!Want(s) BY <1>1 DEF T!Want
    <3>2. exists BY <1>1 DEF Knows
    <3> QED BY <1>1, <2>11, <3>1, <3>2 DEF Knows, T!tableVars
  <2>15. Holds(s)'
    <3>1. PICK k, n : k = ask[s] /\ n = tsent[s] OBVIOUS
    <3>2. /\ Numbered(H, k, n) /\ Earlier(H, k)
          /\ \A r \in H : /\ Readable(r, live)
                          /\ r.row.who = s /\ r.row.ask \in Nat /\ r.row.ask <= k
      BY <1>1, <2>2, <3>1 DEF Holds
    <3>3. n \in Nat /\ k \in Nat BY <1>1, <3>1 DEF Shape
    <3>4. Numbered(H \cup {x}, k, n + 1) BY <2>8, <3>1, <3>2, <3>3, NumberedOneMore
    <3>5. Earlier(H \cup {x}, k) BY <3>2 DEF Earlier
    <3>6. /\ \A r \in H \cup {x} : Readable(r, live)
          /\ \A r \in H \cup {x} : r.row.who = s /\ r.row.ask \in Nat /\ r.row.ask <= k
      BY <2>7, <2>8, <3>1, <3>2, <3>3
    <3>7. live' = live /\ ask' = ask /\ tpc'[s] = "loading" BY <1>1, <2>11 DEF T!tableVars
    <3> QED BY <2>9, <2>11, <3>1, <3>4, <3>5, <3>6, <3>7 DEF Holds, Ensuring
  <2> QED BY <1>1, <2>10, <2>11, <2>12, <2>13, <2>14, <2>15, StepKeeps DEF T!tableVars
<1> QED BY <1>2, <1>3 DEF T!Write

LEMMA StartPublishKeepsTable == ASSUME TableInv, NEW s \in Session, T!StartPublish(s) PROVE TableInv'
<1>1. /\ Shape /\ Knows(s) /\ Holds(s) /\ tpc[s] = "loading" /\ tsent[s] > 0
      /\ pending' = [pending EXCEPT ![s] = @ \cup writer[s].rows]
      /\ writer' = [writer EXCEPT ![s] = T!Shut]
      /\ seen' = [seen EXCEPT ![s] = [version |-> version, cols |-> live]]
      /\ tpc' = [tpc EXCEPT ![s] = "append"]
      /\ UNCHANGED <<T!tableVars, ask, ttarget, tsent>>
  BY DEF TableInv, T!StartPublish, T!Load1
<1>2. TableMoves /\ version' \in Nat BY <1>1, TableStays
<1>3. seen'[s].version = version /\ seen'[s].cols = live /\ tpc'[s] = "append"
  BY <1>1 DEF Shape
<1>4. Shape' BY <1>1, <1>2 DEF Shape, States
<1>5. \A o \in Session \ {s} : Still(o) BY <1>1 DEF Shape, Still
<1>6. Held(s)' = Held(s) /\ writer'[s].rows = {} BY <1>1 DEF Shape, Held, T!Shut
<1>7. PartOf(live, live) BY DEF PartOf
<1>8. exists /\ version \in Nat BY <1>1 DEF Knows, Shape
<1>9. Knows(s)' BY <1>1, <1>3, <1>7, <1>8 DEF Knows, T!tableVars
<1>10. Holds(s)' BY <1>1, <1>3, <1>6 DEF Holds, T!tableVars, Ensuring
<1> QED BY <1>1, <1>2, <1>3, <1>4, <1>5, <1>9, <1>10, StepKeeps DEF T!tableVars

LEMMA AppendKeepsTable == ASSUME TableInv, NEW s \in Session, T!AppendLands(s) PROVE TableInv'
<1>1. /\ Shape /\ Knows(s) /\ Holds(s) /\ DataWhole /\ tpc[s] = "append"
      /\ data' = data \cup pending[s] /\ version' = version + 1
      /\ ttarget' = [ttarget EXCEPT ![s] = live] /\ pending' = [pending EXCEPT ![s] = {}]
      /\ tpc' = [tpc EXCEPT ![s] = "done"]
      /\ UNCHANGED <<exists, live, ask, seen, writer, tsent>>
  BY DEF TableInv, T!AppendLands
<1>2. TableMoves BY <1>1 DEF TableMoves, Shape, Extends
<1>3. Shape' BY <1>1 DEF Shape, States
<1>4. \A o \in Session \ {s} : Still(o) BY <1>1 DEF Shape, Still
<1>5. tpc'[s] = "done" /\ pending'[s] = {} /\ Held(s) = pending[s] /\ Held(s)' = {}
  BY <1>1 DEF Shape, Held, Holds
<1>6. Knows(s)' BY <1>1, <1>5 DEF Knows
<1>7. Holds(s)' BY <1>1, <1>5 DEF Holds, Ensuring
<1>8. DataWhole'
  <2>1. \A r \in pending[s] : Readable(r, live) /\ r.row.who = s BY <1>1, <1>5 DEF Holds
  <2>2. ASSUME NEW r \in data'
        PROVE  Readable(r, live) /\ r.row.who \in Session /\ tpc'[r.row.who] = "done"
    <3>1. CASE r \in pending[s] BY <1>5, <2>1, <3>1
    <3>2. CASE r \in data
      <4>1. Readable(r, live) /\ r.row.who \in Session /\ tpc[r.row.who] = "done"
        BY <1>1, <3>2 DEF DataWhole
      <4> QED BY <1>1, <1>4, <4>1 DEF Still
    <3> QED BY <1>1, <3>1, <3>2
  <2>3. \A r \in data : r.row.who # s BY <1>1 DEF DataWhole
  <2>4. Published(s)' = Held(s) BY <1>1, <1>5, <2>1, <2>3 DEF Published
  <2>5. \A o \in Session \ {s} : Published(o)' = Published(o)
    BY <1>1, <2>1 DEF Published
  <2>6. ASSUME NEW o \in Session, tpc'[o] = "done"
        PROVE  /\ Earlier(Published(o)', ask[o]) /\ Numbered(Published(o)', ask[o], tsent[o])
               /\ tsent[o] > 0
    <3>1. CASE o = s BY <1>1, <2>4, <3>1 DEF Holds
    <3>2. CASE o # s
      <4>1. tpc[o] = "done" BY <1>4, <2>6, <3>2 DEF Still
      <4> QED BY <1>1, <2>5, <3>2, <4>1 DEF DataWhole
    <3> QED BY <3>1, <3>2
  <2>7. live' = live /\ ask' = ask /\ tsent' = tsent BY <1>1
  <2> QED BY <2>2, <2>6, <2>7 DEF DataWhole
<1>9. \A o \in Session : Knows(o)' /\ Holds(o)' BY <1>2, <1>4, <1>6, <1>7, OthersKeep
<1> QED BY <1>3, <1>8, <1>9 DEF TableInv

LEMMA TableStep == ASSUME TableInv, [T!Next]_T!vars PROVE TableInv'
<1>1. CASE UNCHANGED T!vars
  <2>1. TableInv BY DEF TableInv
  <2>2. TableMoves /\ version' \in Nat BY <1>1, TableStays DEF T!vars
  <2>3. \A s \in Session : Still(s) BY <1>1 DEF T!vars, T!sessionVars, Still
  <2>4. \A s \in Session : Knows(s)' /\ Holds(s)' BY <2>2, <2>3, OthersKeep
  <2>5. Shape' BY <1>1 DEF TableInv, Shape, T!vars, T!sessionVars, T!tableVars
  <2>6. DataWhole' BY <1>1 DEF TableInv, DataWhole, Published, T!vars, T!sessionVars, T!tableVars
  <2> QED BY <2>4, <2>5, <2>6 DEF TableInv
<1>2. ASSUME NEW s \in Session,
             \/ T!Probe(s) \/ T!Create(s) \/ T!LoadTable(s) \/ T!Plan(s) \/ T!Evolve(s) \/ T!Conflict(s)
             \/ T!EnsureAgain(s) \/ T!Write(s) \/ T!StartPublish(s) \/ T!AppendLands(s)
      PROVE  TableInv'
  BY <1>2, ProbeKeepsTable, CreateKeepsTable, LoadKeepsTable, PlanKeepsTable, EvolveKeepsTable, ConflictKeepsTable,
     EnsureAgainKeepsTable, WriteKeepsTable, StartPublishKeepsTable, AppendKeepsTable
<1> QED BY <1>1, <1>2 DEF T!Next

-----------------------------------------------------------------------------
(* Rows published *)

\* Numbered rows are as many as their numbers.
LEMMA NumberedCount ==
  ASSUME NEW R, NEW k, NEW n \in Nat, Numbered(R, k, n)
  PROVE  Cardinality({r \in R : r.row.ask = k}) = n
<1> DEFINE Q == {r \in R : r.row.ask = k}
           g == [i \in 1 .. n |-> CHOOSE r \in Q : r.row.n = i]
<1>1. \A i \in 1 .. n : g[i] \in Q /\ g[i].row.n = i
  <2> TAKE i \in 1 .. n
  <2>1. \E r \in Q : r.row.n = i BY DEF Numbered
  <2> QED BY <2>1
<1>2. \A r \in Q : r.row.n \in 1 .. n /\ g[r.row.n] = r
  <2> TAKE r \in Q
  <2>1. r.row.n \in 1 .. n BY DEF Numbered
  <2>2. g[r.row.n] \in Q /\ g[r.row.n].row.n = r.row.n BY <1>1, <2>1
  <2> QED BY <2>1, <2>2 DEF Numbered
<1>3. DOMAIN g = 1 .. n /\ g \in [1 .. n -> Q] BY <1>1
<1> HIDE DEF g, Q
<1>4. IsInjective(g) BY <1>1, <1>3 DEF IsInjective
<1>5. g \in Bijection(1 .. n, Q) BY <1>2, <1>3, <1>4 DEF Bijection, Injection, Surjection
<1>6. Cardinality(Q) = n BY <1>5, FS_CountingElements DEF ExistsBijection
<1> QED BY <1>6 DEF Q

\* The instance counts as FiniteSets does.
LEMMA SameCount == ASSUME NEW S PROVE T!Cardinality(S) = Cardinality(S)
BY DEF T!Cardinality, Cardinality

\* Whatever columns the sessions bring, and however their schema commits, appends and
\* retries interleave: every batch of a window that was appended is in the table, with
\* every value it was given, and can be read under the schema the table has by now
\* (IcebergTable's RowsWhole; reconcile, align, reinstall and commit_with_retry).
THEOREM TableRows == T!Spec => []T!RowsWhole
<1>1. TableInv => T!RowsWhole
  <2> SUFFICES ASSUME TableInv PROVE T!RowsWhole OBVIOUS
  <2>1. DataWhole /\ Shape BY DEF TableInv
  <2>2. \A r \in data : Readable(r, live) BY <2>1 DEF DataWhole
  <2>3. ASSUME NEW s \in Session, tpc[s] = "done"
        PROVE  /\ \A k \in 1 .. ask[s] : \E r \in data : r.row.who = s /\ r.row.ask = k
               /\ tsent[s] = Cardinality({r \in data : r.row.who = s /\ r.row.ask = ask[s]})
    <3>1. PICK k, n : k = ask[s] /\ n = tsent[s] OBVIOUS
    <3>2. k \in Nat /\ k > 0 /\ n \in Nat BY <2>1, <3>1 DEF Shape
    <3>3. Earlier(Published(s), k) /\ Numbered(Published(s), k, n) /\ n > 0
      BY <2>1, <2>3, <3>1 DEF DataWhole
    <3>4. \E r \in Published(s) : r.row.ask = k
      <4>1. 1 \in 1 .. n BY <3>2, <3>3
      <4> QED BY <3>3, <4>1 DEF Numbered
    <3>5. \A j \in 1 .. k : \E r \in Published(s) : r.row.ask = j
      <4> TAKE j \in 1 .. k
      <4>1. j = k \/ j \in 1 .. k - 1 BY <3>2
      <4> QED BY <3>3, <3>4, <4>1 DEF Earlier
    <3>6. {r \in data : r.row.who = s /\ r.row.ask = k} = {r \in Published(s) : r.row.ask = k}
      BY DEF Published
    <3>7. Cardinality({r \in Published(s) : r.row.ask = k}) = n BY <3>2, <3>3, NumberedCount
    <3> QED BY <3>1, <3>5, <3>6, <3>7 DEF Published
  <2>4. \A s \in Session : tpc[s] = "done" =>
          tsent[s] = T!Cardinality({r \in data : r.row.who = s /\ r.row.ask = ask[s]})
    BY <2>3, SameCount
  <2> QED BY <2>2, <2>3, <2>4 DEF T!RowsWhole, Readable
<1> QED BY <1>1, TableInit, TableStep, PTL DEF T!Spec

=============================================================================
