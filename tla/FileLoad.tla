------------------------------- MODULE FileLoad -------------------------------
(***************************************************************************)
(* One pipeline's loads into the file destination (destination/load.rs,    *)
(* truncate.rs, layout.rs): parts are written, rolled and staged, and a    *)
(* commit moves them to deterministic final names in phases: truncation,   *)
(* sweep of a crashed attempt's leftovers, manifest, publish, fsync,       *)
(* state, receipt.  A session may die between any two storage operations;  *)
(* the engine then opens another one and delivers the same unit again,     *)
(* whose parts may be cut differently.  One session is alive at a time     *)
(* (FileLease is about that).                                              *)
(***************************************************************************)
EXTENDS Naturals, Sequences, FiniteSets, SequencesExt

CONSTANTS
  Table,
  Mode,       \* Mode[t] \in {"append", "replace"}: the WriteMode of each table
  MaxLoad,    \* bound: loads are 1 .. MaxLoad
  MaxSeq,     \* bound: commits of a load are 1 .. MaxSeq
  Feed(_, _), \* Feed(u, t): how many rows unit u carries for table t
  Arm,        \* "local" or "s3"
  Late,       \* tables that may be ensured after the load's first commit
  Power,      \* does power loss happen (it undoes what was not fsynced)?
  MaxDeaths   \* bound: sessions that die before their commit is acknowledged

Unit == [load : 1 .. MaxLoad, seq : 1 .. MaxSeq]
Rows(u, t) == {[unit |-> u, n |-> i] : i \in 1 .. Feed(u, t)}

LoadAssumption ==
  /\ Mode \in [Table -> {"append", "replace"}]
  /\ MaxLoad \in Nat \ {0} /\ MaxSeq \in Nat \ {0} /\ MaxDeaths \in Nat
  /\ \A u \in Unit, t \in Table : Feed(u, t) \in Nat
  /\ Arm \in {"local", "s3"} /\ Late \subseteq Table /\ Power \in BOOLEAN

VARIABLES
  finals,     \* published files, as a reader finds them
  durable,    \* published files, as a power loss would leave them
  manifest,   \* the convergence manifest, or NoManifest
  receipts,   \* the commit log: units with a receipt
  stateDoc,   \* the unit whose state document was written last, or NoUnit
  cur,        \* the unit the engine delivers (its write-ahead log's head)
  acked,      \* units the engine knows committed
  pc,         \* where the session is
  tables,     \* Load.tables: tables ensured in this session
  sent,       \* sent[t]: rows of cur written so far in this session
  open,       \* Load.open: rows of the part still being written
  staged,     \* Load.staged: parts closed and staged, in order
  touched,    \* publish's touched directories
  dirty,      \* history: an unfinished attempt at cur changed a table
  deaths      \* bound counter

diskVars    == <<finals, durable, manifest, receipts, stateDoc>>
engineVars  == <<cur, acked, deaths>>
sessionVars == <<pc, tables, sent, open, staged, touched>>
vars        == <<diskVars, engineVars, sessionVars, dirty>>

NoManifest == [load |-> 0, seq |-> 0, names |-> {}]
NoUnit == [load |-> 0, seq |-> 0]

-----------------------------------------------------------------------------
(* Names *)

\* final_tail: the name a part gets depends on the commit and its index only.
FinalName(t, u, i) == [table |-> t, load |-> u.load, seq |-> u.seq, index |-> i]
File(t, u, i, rows) == [name |-> FinalName(t, u, i), rows |-> rows]
Without(files, names) == {f \in files : f.name \notin names}
Put(files, f) == Without(files, {f.name}) \cup {f}
NamesOf(files) == {f.name : f \in files}

\* The names the staged parts of the current commit will be published under.
NewNames == {FinalName(staged[k].table, cur, staged[k].index) : k \in DOMAIN staged}

\* Storage changes of a table: immediate on S3, until fsynced only visible on
\* a local disk.
SetFinals(new) ==
  /\ finals' = new
  /\ durable' = IF Arm = "s3" THEN new ELSE durable

Init ==
  /\ finals = {} /\ durable = {}
  /\ manifest = NoManifest /\ receipts = {} /\ stateDoc = NoUnit
  /\ cur = [load |-> 1, seq |-> 1] /\ acked = {} /\ deaths = 0
  /\ pc = "none" /\ tables = {} /\ staged = <<>> /\ touched = {}
  /\ sent = [t \in Table |-> 0] /\ open = [t \in Table |-> {}]
  /\ dirty = FALSE

-----------------------------------------------------------------------------
(* The session takes a unit's rows *)

FreshUnit ==
  /\ sent' = [t \in Table |-> 0]
  /\ open' = [t \in Table |-> {}]
  /\ staged' = <<>> /\ touched' = {}

\* Load::open: the lease is won and staging wiped; nothing is ensured yet.
OpenSession ==
  /\ pc = "none" /\ cur \in Unit
  /\ pc' = "loading" /\ tables' = {}
  /\ FreshUnit
  /\ UNCHANGED <<diskVars, engineVars, dirty>>

EnsureTable(t) ==
  /\ pc = "loading" /\ t \notin tables
  /\ tables' = tables \cup {t}
  /\ UNCHANGED <<diskVars, engineVars, pc, sent, open, staged, touched, dirty>>

\* close_part: the index counts this commit's parts of the same table.
PartIndex(s, t) == Cardinality({k \in DOMAIN s : s[k].table = t})
ClosePart(s, t, rows) ==
  IF rows = {} THEN s
  ELSE Append(s, [table |-> t, index |-> PartIndex(s, t), rows |-> rows])

\* write: append to the table's open part; size, time, schema or the memory
\* budget may roll it.
Write(t) ==
  /\ pc = "loading" /\ t \in tables /\ sent[t] < Feed(cur, t)
  /\ sent' = [sent EXCEPT ![t] = @ + 1]
  /\ LET rows == open[t] \cup {[unit |-> cur, n |-> sent[t] + 1]}
     IN \/ /\ open' = [open EXCEPT ![t] = rows]
           /\ UNCHANGED staged
        \/ /\ open' = [open EXCEPT ![t] = {}]
           /\ staged' = ClosePart(staged, t, rows)
  /\ UNCHANGED <<diskVars, engineVars, pc, tables, touched, dirty>>

\* The engine ensures the tables of a load at its start, or (Late) when it
\* first has rows for them.
Delivered ==
  /\ \A t \in Table : sent[t] = Feed(cur, t)
  /\ Table \ Late \subseteq tables

-----------------------------------------------------------------------------
(* commit *)

\* close_all_parts: a table has at most one part open here, so the order of the
\* tables shows nowhere.
CloseAll ==
  LET last == SetToSeq({t \in Table : open[t] # {}})
  IN staged \o [k \in DOMAIN last |->
                 [table |-> last[k], index |-> PartIndex(staged, last[k]), rows |-> open[last[k]]]]

\* A variant: a redelivery that already rolled a part is not recognised.
ReplayUnrolled ==
  /\ pc = "loading" /\ Delivered /\ cur \in receipts /\ staged = <<>>
  /\ pc' = "answered"
  /\ FreshUnit
  /\ UNCHANGED <<diskVars, engineVars, tables, dirty>>

\* The receipt is there: drop what was delivered again and answer with it.
Replay ==
  /\ pc = "loading" /\ Delivered /\ cur \in receipts
  /\ pc' = "answered"
  /\ FreshUnit
  /\ UNCHANGED <<diskVars, engineVars, tables, dirty>>

\* A variant: every commit truncates.
EveryCommitFirst == TRUE

\* publish begins: no part spans a commit; truncation is once per load, by the
\* durable receipts.
FirstCommitOfLoad == \A u \in receipts : u.load # cur.load

BeginPublish ==
  /\ pc = "loading" /\ Delivered /\ cur \notin receipts
  /\ staged' = CloseAll
  /\ open' = [t \in Table |-> {}]
  /\ pc' = IF FirstCommitOfLoad THEN "truncate" ELSE "sweep"
  /\ UNCHANGED <<diskVars, engineVars, tables, sent, touched, dirty>>

\* truncate_table, one file at a time, over the Replace tables ensured so far.
Replaced == {f \in finals : f.name.table \in tables /\ Mode[f.name.table] = "replace"}

TruncateFile ==
  /\ pc = "truncate" /\ Replaced # {}
  /\ \E f \in Replaced : SetFinals(finals \ {f})
  /\ dirty' = TRUE
  /\ UNCHANGED <<manifest, receipts, stateDoc, engineVars, sessionVars>>

TruncateDone ==
  /\ pc = "truncate" /\ Replaced = {}
  /\ pc' = "sweep"
  /\ UNCHANGED <<diskVars, engineVars, tables, sent, open, staged, touched, dirty>>

\* A variant: the leftovers of an earlier attempt are left.
StaleForgotten == {}

\* Phase 3a.  What an earlier attempt at this same commit meant to publish and
\* this one will not: removed while that attempt's manifest is on record.
Stale ==
  IF manifest.load = cur.load /\ manifest.seq = cur.seq
  THEN manifest.names \ NewNames ELSE {}

SweepFile ==
  /\ pc = "sweep" /\ Stale \cap NamesOf(finals) # {}
  /\ \E n \in Stale \cap NamesOf(finals) : SetFinals(Without(finals, {n}))
  /\ dirty' = TRUE
  /\ UNCHANGED <<manifest, receipts, stateDoc, engineVars, sessionVars>>

\* A variant: the manifest is replaced before the sweep is over.
WriteManifestUnswept ==
  /\ pc = "sweep"
  /\ touched' = {n.table : n \in Stale}
  /\ manifest' = [load |-> cur.load, seq |-> cur.seq, names |-> NewNames]
  /\ pc' = "publish"
  /\ UNCHANGED <<finals, durable, receipts, stateDoc, engineVars, tables, sent, open, staged, dirty>>

WriteManifest ==
  /\ pc = "sweep" /\ Stale \cap NamesOf(finals) = {}
  /\ touched' = {n.table : n \in Stale}
  /\ manifest' = [load |-> cur.load, seq |-> cur.seq, names |-> NewNames]
  /\ pc' = "publish"
  /\ UNCHANGED <<finals, durable, receipts, stateDoc, engineVars, tables, sent, open, staged, dirty>>

\* Phase 3: rename (local) or copy (S3) over the final name.
PublishPart ==
  /\ pc = "publish" /\ staged # <<>>
  /\ LET part == Head(staged)
     IN /\ SetFinals(Put(finals, File(part.table, cur, part.index, part.rows)))
        /\ touched' = touched \cup {part.table}
  /\ staged' = Tail(staged)
  /\ dirty' = TRUE
  /\ UNCHANGED <<manifest, receipts, stateDoc, engineVars, pc, tables, sent, open>>

\* A variant: the renames are never fsynced.
SyncNothing ==
  /\ pc = "publish" /\ staged = <<>>
  /\ pc' = "state"
  /\ UNCHANGED <<diskVars, engineVars, tables, sent, open, staged, touched, dirty>>

\* fsync of the touched directories; nothing to do on S3.
SyncDirs ==
  /\ pc = "publish" /\ staged = <<>>
  /\ durable' = {f \in durable : f.name.table \notin touched}
                \cup {f \in finals : f.name.table \in touched}
  /\ pc' = "state"
  /\ UNCHANGED <<finals, manifest, receipts, stateDoc, engineVars, tables, sent, open, staged,
                 touched, dirty>>

\* Phase 4: the state document, then the receipt last.
WriteState ==
  /\ pc = "state"
  /\ stateDoc' = cur
  /\ pc' = "receipt"
  /\ UNCHANGED <<finals, durable, manifest, receipts, engineVars, tables, sent, open, staged,
                 touched, dirty>>

WriteReceipt ==
  /\ pc = "receipt"
  /\ receipts' = receipts \cup {cur}
  /\ dirty' = FALSE
  /\ pc' = "answered"
  /\ UNCHANGED <<finals, durable, manifest, stateDoc, engineVars, tables, sent, open, staged,
                 touched>>

-----------------------------------------------------------------------------
(* The engine, and what goes wrong *)

\* The engine learns the receipt and moves on: the same session takes the next
\* commit of the load; after the last one the session is closed.
EngineAck ==
  /\ pc = "answered"
  /\ acked' = acked \cup {cur}
  /\ FreshUnit
  /\ IF cur.seq < MaxSeq
     THEN /\ cur' = [cur EXCEPT !.seq = @ + 1]
          /\ pc' = "loading" /\ UNCHANGED tables
     ELSE /\ cur' = [load |-> cur.load + 1, seq |-> 1]
          /\ pc' = "none" /\ tables' = {}
  /\ UNCHANGED <<diskVars, deaths, dirty>>

\* An error or a dead process: the session and all it held in memory is gone.
SessionDies ==
  /\ pc # "none" /\ deaths < MaxDeaths
  /\ deaths' = deaths + 1
  /\ pc' = "none" /\ tables' = {}
  /\ FreshUnit
  /\ UNCHANGED <<diskVars, cur, acked, dirty>>

\* Power loss: of the changes to table directories not yet fsynced, any may be
\* undone.  Documents are written with fsync of file and directory.
PowerLoss ==
  /\ Power /\ Arm = "local" /\ deaths < MaxDeaths
  /\ deaths' = deaths + 1
  /\ \E undone \in SUBSET NamesOf((finals \ durable) \cup (durable \ finals)) :
       LET left == Without(finals, undone) \cup {f \in durable : f.name \in undone}
       IN finals' = left /\ durable' = left
  /\ pc' = "none" /\ tables' = {}
  /\ FreshUnit
  /\ UNCHANGED <<manifest, receipts, stateDoc, cur, acked, dirty>>

Publish ==
  \/ BeginPublish \/ TruncateFile \/ TruncateDone \/ SweepFile \/ WriteManifest
  \/ PublishPart \/ SyncDirs \/ WriteState \/ WriteReceipt

Progress ==
  \/ OpenSession \/ (\E t \in Table : EnsureTable(t) \/ Write(t))
  \/ Replay \/ Publish \/ EngineAck

Next == Progress \/ SessionDies \/ PowerLoss

Spec == Init /\ [][Next]_vars

\* The engine keeps driving a session, and storage answers.
FairSpec == Spec /\ WF_vars(Progress)

-----------------------------------------------------------------------------
(* Properties *)

\* Types of the documents and of the session's progress.
TypeOK ==
  /\ receipts \subseteq Unit /\ acked \subseteq Unit
  /\ cur \in Unit \cup {[load |-> MaxLoad + 1, seq |-> 1]}
  /\ stateDoc \in Unit \cup {NoUnit}
  /\ pc \in {"none", "loading", "truncate", "sweep", "publish", "state", "receipt", "answered"}
  /\ tables \subseteq Table /\ touched \subseteq Table
  /\ \A t \in Table : sent[t] \in Nat /\ sent[t] <= (IF cur \in Unit THEN Feed(cur, t) ELSE 0)
  /\ \A f \in finals \cup durable : f.name.table \in Table /\ f.rows # {}
  /\ dirty \in BOOLEAN /\ deaths \in 0 .. MaxDeaths

\* How often a reader of t finds row r.
Found(t, r) == Cardinality({f \in finals : f.name.table = t /\ r \in f.rows})

\* How often a reader finds each row, when no attempt is half done.
View ==
  IF dirty THEN <<>>
  ELSE [t \in Table |-> [r \in UNION {Rows(u, t) : u \in Unit} |-> Found(t, r)]]

Abstract == INSTANCE ExactlyOnce WITH committed <- receipts, view <- View

\* The commit protocol implements ExactlyOnce: whatever dies where, a unit
\* takes effect once, exactly, and only committed units are acknowledged.
ImplementsExactlyOnce == Abstract!ESpec

\* No file of an uncommitted attempt is outside the manifest on record, so the
\* next attempt can find it (publish phase 3a).
ManifestCovers ==
  \A f \in finals :
    [load |-> f.name.load, seq |-> f.name.seq] \notin receipts =>
      /\ manifest.load = f.name.load /\ manifest.seq = f.name.seq
      /\ f.name \in manifest.names

\* With a receipt the rows of its tables are on stable storage: power loss
\* between commits takes nothing and brings nothing back.
ReceiptIsDurable == pc = "answered" /\ cur \in receipts => durable = finals

\* What holds in the end if sessions stop dying: every load has completed.
AllCommitted == acked = Unit

=============================================================================
