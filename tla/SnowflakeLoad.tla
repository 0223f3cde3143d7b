---------------------------- MODULE SnowflakeLoad ----------------------------
(***************************************************************************)
(* The load session of the Snowflake destination.  Rows join an open part  *)
(* per table; a closed part is uploaded to the pipeline's stage at once,   *)
(* outside of any transaction, and the COPY that names it waits for the    *)
(* commit.  The unit's transaction holds the Replace clears, and at the    *)
(* end the copied rows, the state and the receipt.                         *)
(*                                                                         *)
(* Three facts of the service shape the code.  Any DDL commits the open    *)
(* transaction, so a schema change in the middle of a unit rolls it back   *)
(* first, and the clears it held are owed.  Uploads survive a rollback.    *)
(* No primary key is enforced, so nothing but the probe for the receipt    *)
(* keeps a unit from being committed twice.                                *)
(***************************************************************************)
EXTENDS Naturals, FiniteSets, Functions

CONSTANTS
  Table,
  Mode,       \* Mode[t] \in {"append", "replace", "feed"}
  MaxLoad,    \* bound: loads are 1 .. MaxLoad
  MaxSeq,     \* bound: commits of a load are 1 .. MaxSeq
  Feed(_, _), \* Feed(u, t): how many rows unit u carries for table t
  Late,       \* tables that may be ensured after the load's first commit
  Evolving,   \* tables whose schema gains a column at any time
  MaxVersion, \* bound: schema versions are 1 .. MaxVersion
  Prompt,     \* the server decides a dead session's COMMIT before the next probe
  MaxDeaths   \* bound: errors and deaths of sessions

Unit == [load : 1 .. MaxLoad, seq : 1 .. MaxSeq]
NoUnit == [load |-> 0, seq |-> 0]
Rows(u, t) == {[unit |-> u, n |-> i] : i \in 1 .. Feed(u, t)}
AllRows(t) == UNION {Rows(u, t) : u \in Unit}

SnowAssumption ==
  /\ IsFiniteSet(Table) /\ Mode \in [Table -> {"append", "replace", "feed"}]
  /\ MaxLoad \in Nat \ {0} /\ MaxSeq \in Nat \ {0}
  /\ MaxVersion \in Nat \ {0} /\ MaxDeaths \in Nat
  /\ \A u \in Unit, t \in Table : Feed(u, t) \in Nat

VARIABLES
  db,       \* what is committed: rows, receipts, clear records, state, columns
  zombie,   \* the transaction a dead session left in COMMIT, or NoTx
  remote,   \* files on the stage
  strays,   \* loads whose prefix a dead session's REMOVE is about to empty
  cur,      \* the unit the engine delivers
  acked,    \* units the engine knows committed
  deaths,   \* bound counter
  narrowed, \* a COPY named fewer columns than one of its files has
  pc,       \* where the session is
  sent,     \* sent[t]: rows of cur written so far
  tx,       \* the unit's transaction on the server, or NoTx
  load      \* the session's memory (struct Load)

serverVars == <<db, zombie, remote, strays>>
engineVars == <<cur, acked, deaths>>
vars == <<serverVars, engineVars, narrowed, pc, sent, tx, load>>

-----------------------------------------------------------------------------
(* Tables as bags of rows; transactions as changes to them *)

NoRows == [t \in Table |-> [r \in AllRows(t) |-> 0]]
NoTx == [open |-> FALSE, clears |-> {}, adds |-> NoRows, cleared |-> {}, receipt |-> NoUnit]

Commit(d, x) ==
  [d EXCEPT
    !.rows = [t \in Table |-> [r \in AllRows(t) |->
                IF t \in x.clears THEN x.adds[t][r] ELSE @[t][r] + x.adds[t][r]]],
    !.cleared = @ \cup {<<cur.load, t>> : t \in x.cleared},
    !.receipts = IF x.receipt = NoUnit THEN @ ELSE @ \cup {x.receipt},
    !.state = IF x.receipt = NoUnit THEN @ ELSE x.receipt]

(* The session's memory *)

NoPart == [rows |-> {}, version |-> 0]
NoParts == [columns |-> 0, parts |-> {}]
Fresh ==
  [tables |-> [t \in Table |-> 0], cleared |-> {}, clearedInUnit |-> {}, reclearOwed |-> {},
   open |-> [t \in Table |-> NoPart], pending |-> [t \in Table |-> NoParts],
   nextPart |-> 0, singleUnitDone |-> {}]

ClearedUnion(s) == s.cleared \cup s.clearedInUnit

Init ==
  /\ db = [rows |-> NoRows, receipts |-> {}, cleared |-> {}, state |-> NoUnit,
           columns |-> [t \in Table |-> 0]]
  /\ zombie = NoTx /\ remote = {} /\ strays = {}
  /\ cur = [load |-> 1, seq |-> 1] /\ acked = {} /\ deaths = 0
  /\ narrowed = FALSE
  /\ pc = "none" /\ sent = [t \in Table |-> 0] /\ tx = NoTx /\ load = Fresh

-----------------------------------------------------------------------------
(* Opening a session, and schema work *)

\* connect: old parts are reclaimed by age, the durable clears of this load
\* seed the guard.
OpenSession ==
  /\ pc = "none" /\ cur \in Unit
  /\ pc' = "loading"
  /\ load' = [Fresh EXCEPT !.cleared = {t \in Table : <<cur.load, t>> \in db.cleared}]
  /\ remote' \in {remote, {}}
  /\ UNCHANGED <<db, zombie, strays, engineVars, narrowed, sent, tx>>

\* A variant: the clears go with the rollback.
EndUnitForDdlForgets ==
  IF tx.open THEN [load EXCEPT !.clearedInUnit = {}] ELSE load

\* What a session knows when it has ended its open unit by ROLLBACK, ahead of
\* DDL: the clears that rollback took back are owed.
EndUnitForDdl ==
  IF tx.open
  THEN [load EXCEPT !.reclearOwed = @ \cup load.clearedInUnit, !.clearedInUnit = {}]
  ELSE load
TxAtDdl == NoTx

\* ensure_table for version v of t's schema, which may ask for DDL.  The service
\* commits whatever is open when DDL runs.
EnsureTable(t, v) ==
  /\ pc = "loading" /\ v > load.tables[t]
  /\ IF v > db.columns[t]
     THEN /\ load' = [EndUnitForDdl EXCEPT !.tables[t] = v]
          /\ db' = [Commit(db, TxAtDdl) EXCEPT !.columns[t] = v]
          /\ tx' = NoTx
     ELSE /\ load' = [load EXCEPT !.tables[t] = v]
          /\ UNCHANGED <<db, tx>>
  /\ UNCHANGED <<zombie, remote, strays, engineVars, narrowed, pc, sent>>

\* The engine asks for the schema as it stands, or for one more column.
Versions(t) ==
  LET v == IF db.columns[t] = 0 THEN 1 ELSE db.columns[t]
  IN {v} \cup (IF t \in Evolving /\ v < MaxVersion THEN {v + 1} ELSE {})

-----------------------------------------------------------------------------
(* Writing *)

\* open_unit: BEGIN if closed, and the owed clears; then further clears.
WithClears(x, T) ==
  [x EXCEPT !.open = TRUE, !.clears = @ \cup T, !.cleared = @ \cup T]
Cleared(s, T) ==
  [s EXCEPT !.reclearOwed = {}, !.clearedInUnit = @ \cup T]

\* prepare_target: the clear a Replace target needs before its first row.
NeedsClear(t) ==
  Mode[t] = "replace" /\ t \notin ClearedUnion(load) \cup load.reclearOwed

\* Files by name: an upload overwrites, so each name is on the stage once.
Upload(files) == {f \in remote : \A g \in files : g.name # f.name} \cup files
WithoutLoad(l) == {f \in remote : f.name.load # l}

\* close_part for those open parts of T that have rows, one after the other: each
\* gets its name, is uploaded and recorded for the COPY.  m = [load, files]: the
\* session's memory, and what it uploads.
CloseParts(T, m) ==
  LET closed == {t \in T : m.load.open[t].rows # {}}
      order  == CHOOSE f \in Injection(closed, 1 .. Cardinality(closed)) : TRUE
      name   == [t \in closed |-> [load |-> cur.load, table |-> t,
                                  index |-> m.load.nextPart + order[t] - 1]]
      part   == m.load.open
  IN IF closed = {} THEN m ELSE
     [load |-> [m.load EXCEPT
        !.open = [t \in Table |-> IF t \in closed THEN NoPart ELSE part[t]],
        !.nextPart = @ + Cardinality(closed),
        !.pending = [t \in Table |-> [columns |-> @[t].columns, parts |-> @[t].parts \cup
                      {[name |-> name[x], rows |-> part[x].rows] : x \in closed \cap {t}}]]],
      files |-> m.files \cup
        {[name |-> name[t], rows |-> part[t].rows, version |-> part[t].version] : t \in closed}]

\* A parquet file holds one schema: the part of an older one is closed first.
CloseOutgrown(t, m) ==
  IF m.load.open[t].version # m.load.tables[t] THEN CloseParts({t}, m) ELSE m

\* A variant: the first write's column list stays.
AddRowFirstColumns(t, m) ==
  [m EXCEPT
    !.load.open[t] = [rows |-> @.rows \cup {[unit |-> cur, n |-> sent[t] + 1]},
                      version |-> m.load.tables[t]],
    !.load.pending[t].columns = IF @ = 0 THEN m.load.tables[t] ELSE @]

AddRow(t, m) ==
  [m EXCEPT
    !.load.open[t] = [rows |-> @.rows \cup {[unit |-> cur, n |-> sent[t] + 1]},
                      version |-> m.load.tables[t]],
    !.load.pending[t].columns = m.load.tables[t]]

\* write: clears, the row, then whatever parts the limits on size, age and open
\* memory close.
Write(t) ==
  /\ pc = "loading" /\ load.tables[t] # 0 /\ sent[t] < Feed(cur, t)
  /\ LET clears == load.reclearOwed \cup (IF NeedsClear(t) THEN {t} ELSE {})
         begun  == [load |-> Cleared(load, clears), files |-> {}]
     IN /\ zombie.open => clears \cap zombie.clears = {}
        /\ tx' = WithClears(tx, clears)
        /\ \E closed \in SUBSET {x \in Table : x = t \/ load.open[x].rows # {}} :
             LET m == CloseParts(closed, AddRow(t, CloseOutgrown(t, begun)))
             IN load' = m.load /\ remote' = Upload(m.files)
  /\ sent' = [sent EXCEPT ![t] = @ + 1]
  /\ UNCHANGED <<db, zombie, strays, engineVars, narrowed, pc>>

Delivered ==
  /\ \A t \in Table : sent[t] = Feed(cur, t)
  /\ \A t \in Table \ Late : load.tables[t] # 0

-----------------------------------------------------------------------------
(* commit: existing_receipt, then replay or publish *)

\* discard_staged: this load's whole prefix is removed.
Discarded(s) == [s EXCEPT !.open = Fresh.open, !.pending = Fresh.pending]

EndSession ==
  /\ pc' = "none" /\ sent' = [t \in Table |-> 0] /\ tx' = NoTx /\ load' = Fresh

\* A variant: the receipt is taken for a failure, and the session gives up.
ReplayRefused ==
  /\ pc = "loading" /\ Delivered /\ cur \in db.receipts
  /\ EndSession
  /\ UNCHANGED <<serverVars, engineVars, narrowed>>

\* The receipt is there: rollback, but its clears are known to be durable.
Replay ==
  /\ pc = "loading" /\ Delivered /\ cur \in db.receipts
  /\ load' = Discarded([load EXCEPT !.cleared = @ \cup load.clearedInUnit \cup load.reclearOwed,
                                    !.clearedInUnit = {}, !.reclearOwed = {}])
  /\ remote' = WithoutLoad(cur.load)
  /\ tx' = NoTx /\ pc' = "answered"
  /\ UNCHANGED <<db, zombie, strays, engineVars, narrowed, sent>>

ProbeFresh ==
  /\ pc = "loading" /\ Delivered /\ cur \notin db.receipts
  /\ Prompt => ~zombie.open
  /\ tx' = WithClears(tx, load.reclearOwed)
  /\ load' = Cleared(load, load.reclearOwed)
  /\ pc' = "publish"
  /\ UNCHANGED <<serverVars, engineVars, narrowed, sent>>

\* close_all_parts: no part spans a commit.
CloseAll ==
  /\ pc = "publish"
  /\ LET m == CloseParts(Table, [load |-> load, files |-> {}])
     IN load' = m.load /\ remote' = Upload(m.files)
  /\ pc' = "copy"
  /\ UNCHANGED <<db, zombie, strays, engineVars, narrowed, sent, tx>>

\* The files a COPY names and finds, and its two row counts: what was written
\* and what the service loaded, a row of two files counting twice.
Named(t) == {f \in remote : \E p \in load.pending[t].parts : p.name = f.name}
RowsIn(parts) == UNION {{p.name} \X p.rows : p \in parts}
Written(t) == Cardinality(RowsIn(load.pending[t].parts))
\* A variant: the count is not checked.
LoadedUnchecked(t) == Written(t)
Loaded(t) == Cardinality(RowsIn(Named(t)))

\* A variant: the clears of the failed unit are promoted.
FailUnitPromotes ==
  /\ tx' = NoTx /\ pc' = "loading" /\ sent' = [t \in Table |-> 0]
  /\ load' = Discarded([load EXCEPT !.cleared = @ \cup load.clearedInUnit, !.clearedInUnit = {}])
  /\ remote' = WithoutLoad(cur.load)
  /\ UNCHANGED <<db, zombie, strays, narrowed>>

\* A failure in publish: rollback, in-unit clears forgotten, parts discarded;
\* the unit is delivered again.
FailUnit ==
  /\ tx' = NoTx /\ pc' = "loading" /\ sent' = [t \in Table |-> 0]
  /\ load' = Discarded([load EXCEPT !.clearedInUnit = {}])
  /\ remote' = WithoutLoad(cur.load)
  /\ UNCHANGED <<db, zombie, strays, narrowed>>

\* load_staged_parts: one COPY per table, its count checked.
LoadParts ==
  /\ pc = "copy" /\ \A t \in Table : Loaded(t) = Written(t)
  /\ tx' = [tx EXCEPT !.adds = [t \in Table |-> [r \in AllRows(t) |->
              Cardinality({f \in Named(t) : r \in f.rows})]]]
  /\ narrowed' = (narrowed \/ \E t \in Table : \E f \in Named(t) :
                                 f.version > load.pending[t].columns)
  /\ load' = [load EXCEPT !.pending = Fresh.pending]
  /\ pc' = "script"
  /\ UNCHANGED <<serverVars, engineVars, sent>>

LoadShort ==
  /\ pc = "copy" /\ \E t \in Table : Loaded(t) # Written(t)
  /\ FailUnit /\ UNCHANGED engineVars

StatementFails ==
  /\ pc \in {"copy", "script"} /\ deaths < MaxDeaths
  /\ deaths' = deaths + 1
  /\ FailUnit /\ UNCHANGED <<cur, acked>>

StagedNonempty == {t \in Table : Mode[t] = "feed" /\ tx.adds[t] # NoRows[t]}

\* plan_commit refuses a second feed of the load; the session ends with its
\* transaction open, and the load is given up.
RefuseFeed ==
  /\ pc = "script" /\ StagedNonempty \cap load.singleUnitDone # {}
  /\ EndSession
  /\ cur' = [load |-> cur.load + 1, seq |-> 1]
  /\ UNCHANGED <<serverVars, acked, deaths, narrowed>>

\* The planned steps: the scope of a feed is emptied, state and receipt are
\* written.  The MERGE of the state row waits for a zombie's; no key refuses
\* the receipt.
RunScript ==
  /\ pc = "script" /\ StagedNonempty \cap load.singleUnitDone = {}
  /\ ~zombie.open
  /\ tx' = [tx EXCEPT !.clears = @ \cup StagedNonempty, !.receipt = cur]
  /\ pc' = "commit"
  /\ UNCHANGED <<serverVars, engineVars, narrowed, sent, load>>

\* COMMIT is answered; only now do the guards remember, and the parts go.
CommitTx ==
  /\ pc = "commit"
  /\ db' = Commit(db, tx)
  /\ load' = Discarded([load EXCEPT
                !.singleUnitDone = @ \cup StagedNonempty,
                !.cleared = @ \cup load.clearedInUnit, !.clearedInUnit = {}])
  /\ remote' = WithoutLoad(cur.load)
  /\ tx' = NoTx /\ pc' = "answered"
  /\ UNCHANGED <<zombie, strays, engineVars, narrowed, sent>>

-----------------------------------------------------------------------------
(* The engine, and what goes wrong *)

EngineAck ==
  /\ pc = "answered"
  /\ acked' = acked \cup {cur}
  /\ IF cur.seq < MaxSeq
     THEN /\ cur' = [cur EXCEPT !.seq = @ + 1]
          /\ pc' = "loading" /\ sent' = [t \in Table |-> 0]
          /\ UNCHANGED <<tx, load>>
     ELSE /\ cur' = [load |-> cur.load + 1, seq |-> 1]
          /\ EndSession
  /\ UNCHANGED <<serverVars, deaths, narrowed>>

\* The memory of a feed's unit dies with the session, and a replay does not bring
\* it back: once such a unit may have committed, the load is not resumed.
MayDie ==
  /\ deaths < MaxDeaths
  /\ \A u \in db.receipts \cup {v \in {cur} : pc = "commit"}, t \in Table :
       u.load = cur.load /\ Mode[t] = "feed" => Feed(u, t) = 0

\* A session dies; the REMOVE it may have sent after its commit lands later.
SessionDies ==
  /\ pc # "none" /\ MayDie
  /\ deaths' = deaths + 1
  /\ strays' \in {strays, strays \cup {l \in {cur.load} : pc = "answered"}}
  /\ EndSession
  /\ UNCHANGED <<db, zombie, remote, cur, acked, narrowed>>

\* Dead with COMMIT sent: the outcome is the server's.
DieInCommit ==
  /\ pc = "commit" /\ ~zombie.open /\ MayDie
  /\ deaths' = deaths + 1
  /\ zombie' = tx
  /\ EndSession
  /\ UNCHANGED <<db, remote, strays, cur, acked, narrowed>>

ZombieEnds ==
  /\ zombie.open
  /\ db' = Commit(db, zombie) \/ db' = db
  /\ zombie' = NoTx
  /\ UNCHANGED <<remote, strays, engineVars, narrowed, pc, sent, tx, load>>

StrayRemove ==
  /\ \E l \in strays : strays' = strays \ {l} /\ remote' = WithoutLoad(l)
  /\ UNCHANGED <<db, zombie, engineVars, narrowed, pc, sent, tx, load>>

Progress ==
  \/ OpenSession
  \/ \E t \in Table : Write(t) \/ \E v \in Versions(t) : EnsureTable(t, v)
  \/ Replay \/ ProbeFresh \/ CloseAll \/ LoadParts \/ LoadShort
  \/ RefuseFeed \/ RunScript \/ CommitTx \/ EngineAck

Next ==
  Progress \/ StatementFails \/ SessionDies \/ DieInCommit \/ ZombieEnds \/ StrayRemove

Spec == Init /\ [][Next]_vars

\* The engine keeps driving its session; the server ends a transaction whose
\* client is gone.
FairSpec == Spec /\ WF_vars(Progress) /\ WF_vars(ZombieEnds)

-----------------------------------------------------------------------------
(* Properties *)

\* Types, and that the session's idea of its transaction is the server's.
TypeOK ==
  /\ db.receipts \subseteq Unit /\ db.state \in Unit \cup {NoUnit}
  /\ db.columns \in [Table -> 0 .. MaxVersion]
  /\ \A f \in remote : f.rows \subseteq AllRows(f.name.table) /\ f.rows # {}
  /\ \A x \in {tx, zombie} : ~x.open => x = NoTx
  /\ load.clearedInUnit = tx.cleared
  /\ \A t \in Table : load.tables[t] <= db.columns[t]
  /\ pc \in {"none", "loading", "publish", "copy", "script", "commit", "answered"}
  /\ deaths \in 0 .. MaxDeaths /\ narrowed \in BOOLEAN

\* A Replace target is cleared at its first write, so until a reload brings
\* rows the previous load's are still there.
Promised == [t \in Table |-> IF Mode[t] = "replace" THEN "feed" ELSE Mode[t]]

Abstract == INSTANCE ExactlyOnce WITH
  Mode <- Promised, committed <- db.receipts, view <- db.rows

\* The unit implements ExactlyOnce: whatever dies where, also with parts on the
\* stage, a schema change in the middle or a REMOVE that lands late, each unit's
\* rows are found exactly once (publish, with the COPY's count check).
ImplementsExactlyOnce == Abstract!ESpec

\* When all units of a Replace load have committed no row of an earlier load is
\* left, although a schema change took the clear back in the middle of a unit
\* (reclear_owed).
ReloadReplaces ==
  \A l \in 1 .. MaxLoad :
    (\A i \in 1 .. MaxSeq : [load |-> l, seq |-> i] \in db.receipts) =>
      \A t \in {x \in Table : Mode[x] = "replace"} :
        \A r \in AllRows(t) : r.unit.load < l => db.rows[t][r] = 0

\* A target the session counts as cleared has a durable clear record of this
\* load, also the one a replay promoted without a commit of its own (replay).
ClearedIsDurable == \A t \in load.cleared : <<cur.load, t>> \in db.cleared

\* The state a later session reads is that of the newest committed unit, whatever
\* a dead session's COMMIT still did (the MERGE of the state row).
StateIsNewest ==
  \A u \in db.receipts :
    u.load < db.state.load \/ (u.load = db.state.load /\ u.seq <= db.state.seq)

\* No COPY leaves out a column one of its files carries, so a column added in
\* the middle of a unit keeps its values (write records the newest columns).
NoColumnDropped == ~narrowed

\* What holds in the end if sessions stop dying: every load has completed, or
\* was given up.
LoadsOver == cur.load > MaxLoad

=============================================================================
