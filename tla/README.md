# A formal model of rdlt-connectors

`rdlt-connectors` is a workspace of connector crates for the rdlt engine: sources
(postgres, oracle, rest, file) that read tables and checkpoint a cursor, and destinations
(file, postgres, duckdb, iceberg, snowflake) that land batches and commit them together
with that cursor. The engine drives a destination in *commit units*: it delivers the rows
of unit (load, commit sequence), asks for the commit, and delivers the unit again, often
in a new session, whenever it did not learn the outcome. The engine is not part of the
repository; it appears here as far as the crates rely on it.

The model is about what such code gets wrong where tests hardly reach: two sessions in one
scope, a death between any two storage calls, an answer lost after its request took effect,
a redelivery cut into other parts, a position acknowledged too early, a cursor that covers a
row nobody delivered, a table whose columns changed between two runs.

Paths are relative to `src/crates/`, with the `rdlt-connector-` prefix left off.

## 1. The system

| component | source | state it keeps | operations | what makes it correct | modelled in |
|---|---|---|---|---|---|
| session lease | `file/src/destination/lease.rs`, `location/kind.rs`, `location/s3.rs` | one JSON document per pipeline scope; `lost`, `last_ok_ms`, the heartbeat task | acquire (create, wait out a torn document, take over a stale one, reacquire), heartbeat, `check_still_held`, release, drop | two sessions never touch a scope together; a live holder is not displaced; a newer build's document is left alone; a dead holder's lease can be reclaimed | `FileLease` |
| file load | `file/src/destination/{load,truncate,layout}.rs` | final files, staging, manifest, commit log, state document | ensure, write, commit = truncate, sweep, manifest, publish, fsync, state, receipt; replay | every unit's rows visible once whatever dies where; nothing published is unmanifested; a receipt means durable files | `FileLoad` (partly) |
| file parts | `file/src/destination/{load,stage,parts,layout}.rs` | open parts per table and partition, staged parts | split a batch, append, close by schema, size, age or budget | every row in exactly one part, with rows of its partition and schema | `FileParts` |
| SQL planner | `sqlcore/src/protocol/*`, `names.rs`, `ensure.rs` | session memory: cleared targets, single-unit marks | plan write, plan commit, receipt probe, replay | exactly once; a Replace target cleared once per load; a full feed never merged in two halves | `SqlCommit` |
| merge arms | `sqlcore/src/plan/*`, `options.rs` | none beyond the target | upsert, delete-insert, scd2; deduplication, hard deletes, scopes, children | a reader sees one current row per key, the one the unit speaks for | `MergeTable` |
| postgres destination | `postgres/src/destination/*` | `_rdlt_*` bookkeeping tables, the open unit transaction, a catalog image | as planned, on the *direct* path; transactional DDL | the same, with COMMIT in doubt; no value changed by a schema change | `SqlCommit`, `TableEvolution` |
| duckdb destination | `duckdb/src/destination/*` | stage tables, a catalog image | as planned, on the *staged* path | the same | `SqlCommit`, `TableEvolution` |
| snowflake destination | `snowflake/src/destination/*` | unit transaction, owed clears, parts on the stage, a catalog image | as postgres, with COPY of staged files and DDL that commits implicitly | the same, without an enforced key | `SnowflakeLoad`, `TableEvolution` |
| iceberg destination | `iceberg/src/destination/*` | snapshots per table, marker properties (state, receipts), writers | reconcile schema and partitions, converge each table, stamp the marker, retry on conflict, prune receipts | each unit once in each table; receipts kept while needed; state never goes back; a published row is whole | `IcebergLoad`, `IcebergTable` |
| postgres CDC source | `postgres/src/source/cdc/*` | replication slot; per-run `RunState`; per-stream cursor | ensure slot, snapshot pass, change pass, complete and acknowledge, tail; decode and apply | no commit below a cursor is missing; the slot never passes the destination; one run ends at one instant; the destination is the source at the cursor | `PgCdc`, `PgApply` |
| postgres COPY | `postgres/src/source/copy.rs`, `types/binary.rs` | a partial frame | decode chunks, cut batches | a stream that was cut is not a complete read | `PgCopy` |
| postgres values | `postgres/src/types/*` | none | map, decode binary and text, encode, render literals | a value has one form whichever way it travels | `PgValues` (partly) |
| postgres cursor | `postgres/src/source/{cursor,plan,sql,connector}` | watermark and boundary keys | window, lag, NULL policy, checkpoint | no row skipped at a boundary, none delivered twice but those the lag asks for | `PgCursor` (partly) |
| rest source | `rest/src/source/{read,http}/*` | page, cursor, retries, the shared token | paginate, retry, declared actions; fan out over parents | the cursor covers no undelivered record; the token is fetched once; the read ends | `RestRead`, `RestFanout` |
| file source | `file/src/source/*` | progress per path | list, plan, read, resume check | progress vouches for delivered units only | `FileRead` (partly) |
| oracle source | `oracle/src/{cursor,read,batch}.rs` | watermark text and ROWID tie | chunked keyset read | skips nothing, repeats nothing its watermark's text can tell apart | `OraCursor` (partly) |
| value conversion of snowflake and oracle, configuration, TLS | `snowflake/…/encode.rs`, `oracle/…/batch.rs`, `config*`, `tls/` | none | conversion, validation | no protocol state | not modelled |

How they interact: a file session is `lease acquire → staging wipe → load → lease release`,
with the heartbeat as a second task. The SQL destinations execute the steps the planner
returns and report back what they promoted. A source hands batches and checkpoints to the
engine; the destination commits the checkpoint as its *state* in the same unit as the rows,
which is how the cursor a source is given back always belongs to committed data. The CDC
streams of one run share a `RunState` behind a mutex, one snapshot transaction and one slot;
the children of a REST fan-out share a token behind a mutex and one bounded channel.

What is hard: concurrent sessions on a storage without transactions or (locally) without
compare-and-swap; clocks of two hosts; deaths between storage calls; power loss undoing
renames; COMMIT in doubt with the server finishing the transaction later; requests of a dead
session applied later; retries inside a run that keep some of the run's memory and drop the
rest; data that changes under a read; boundaries of cursors. `PROJECT.json` lists these
hazards at their lines with the properties that catch them.

## 2. Modules

| module | models | with |
|---|---|---|
| `ExactlyOnce` | what a destination promises the engine (abstract) | refined by the four loads below |
| `FileLease` | lease, both storage arms | `MCFileLease`, `MCLeases`, `FileLease_proofs` |
| `FileLoad`, `FileParts` | file load and its commit phases; the parts before them | `MCCommits`, `MCFileLoad`; `MCTables` for the parts; `FileLoad_proofs` |
| `SqlCommit` | planner with the postgres and the duckdb executor | `MCCommits`, `SqlCommit_proofs` |
| `SnowflakeLoad` | snowflake's session | `MCCommits`, `SnowflakeLoad_proofs` |
| `IcebergLoad`, `IcebergTable` | iceberg commit; iceberg schema, partitions, writers | `MCTables`, `IcebergLoad_proofs` |
| `KeyedView`, `MergeTable` | what a merge promises a reader (abstract); the merge arms | `MCTables`, `SqlCommit_proofs` |
| `TableEvolution` | schema changes by the three SQL catalogs | `MCTables`, `MCTableEvolution` |
| `PgCdc`, `PgApply`, `PgValues` | change capture: slot and runs; messages and rows; values | `MCPostgresCdc`, `MCPgCdc`, `PgCdc_proofs` |
| `PgCursor`, `PgCopy` | incremental read; the COPY decoder | `MCSources`; `PgCursor_proofs` |
| `RestRead`, `RestFanout` | one paginated stream; a fan-out and its token | `MCSources`, `MCRestFanout`, `RestFanout_proofs` |
| `FileRead`, `OraCursor` | file source; oracle source | `MCSources` |

`MCLeases`, `MCCommits`, `MCTables`, `MCPostgresCdc` and `MCSources` hold several instances side
by side: `which` names the one that runs, the others stay as they began, so a behaviour of the
composed module is a behaviour of one instance and a property of the composed module speaks of
each. Where a component has theorems, the composed module extends it for its first instance
(`SqlCommit` in `MCCommits`, `IcebergLoad` in `MCTables`, `PgCdc` in `MCPostgresCdc`,
`RestFanout` in `MCSources`), so that the run checks the very formulas the theorems state; the
cfg gives that instance its values. The theorems about the other instances (`FileLease`,
`FileLoad`, `SnowflakeLoad`, `PgCursor`) state the definitions of that module which the composed
module's properties join. Six modules are proved about as instances beside the component they
are next to, the way the composed modules check them: `SqlCommit_proofs` ends with the merge arms
(`M == INSTANCE MergeTable`), `IcebergLoad_proofs` with the shared table
(`T == INSTANCE IcebergTable`), `FileLoad_proofs` with the parts (`P == INSTANCE FileParts`),
`RestFanout_proofs` with the stream without a parent (`R == INSTANCE RestRead`),
`PgCursor_proofs` with the oracle's keyset read (`O == INSTANCE OraCursor`) and `PgCdc_proofs`
with the messages of a pass (`A == INSTANCE PgApply`).

Operators whose comment begins with *A variant* are faulty forms of the definition next to
them. No specification uses them; substituting one shows that a property notices.

### ExactlyOnce
State: committed units, acknowledged units, and the *view* (how often a reader finds each
row of each table). A commit makes the view exactly what the committed units say, by the
table's mode: `append` keeps all units, `replace` the newest load, `feed` the newest load
that brought any rows. A destination without transactions may leave the view *in doubt*
while an attempt at an uncommitted unit is under way; only the next commit ends that, and
nothing else may begin it.

### FileLease
A session has two threads, main (`pc`) and heartbeat (`beat`). Each storage call is a step.
Acquire follows `acquire_with_wait`: stamp the clock at the loop top, exclusive create; on
refusal read; a torn document is waited on and read again, a newer version refuses, an own
document is reacquired, a stale one (older than TTL on the reader's clock) is taken over,
by compare-and-swap on S3 and by recheck, unlink and create on a local directory.
`check_still_held` is the guard of every write: not `lost` and `last_ok_ms` younger than
TTL − 2 heartbeats. Faults are a failing call (which on S3 may have taken effect all the
same), a crash, and a heartbeat write that outlives its session (`stray`).

Three constants describe the deployment rather than the code: `Skew` per host, `MaxStall`
(how long a write may run past the check that admitted it), `MaxOpen` (how long an open may
run past the stamp it wrote). `Closed` names the pairs of storage calls taken to be
undisturbed, see section 5.

### FileLoad and FileParts
`Write` appends a row and may roll the part. Commit is one action per storage operation, in
the order of `publish`. Final names depend only on the unit and the part's index, so a retry
overwrites its predecessor's files; a retry that rolls fewer parts leaves some behind, which
is what manifest and sweep are for. On a local disk a change is visible at once and durable
only after the directory sync; `PowerLoss` undoes any set of unsynced changes. Abstracted:
file contents, the ownership test that keeps truncation off files the connector did not write.

`FileParts` has what `Write` leaves open: a batch split by its partition column, the open part
per table and partition, the four reasons to close one, and the names the closed parts get.

### SqlCommit
A unit is a transaction: targets cleared, rows added, clear records, receipt and state.
`Path = "direct"` is postgres: rows go into the target inside the transaction, a Replace
target is cleared by its first write, recorded in `_rdlt_cleared`. `Path = "staged"` is
duckdb: rows wait in a stage and one transaction publishes them. A session that dies with
COMMIT on the wire leaves a *zombie* transaction, which holds its locks and ends either way
at any later time; the recovery session may find the receipt, or fail on its key. Merge is
represented by its full-feed case, the only one the planner keeps memory for; that memory
(`single_unit_done`) is the session's, so a load that delivered a feed is not resumed by
another session once the feed's unit is acknowledged (postgres README, line 404).

### SnowflakeLoad
The same unit without two helps: DDL commits the open transaction, so an ensure in the middle
of a unit rolls it back first and *owes* the clears it held (`reclear_owed`); and no key is
enforced, so only the probe stands between a unit and its second commit. Closed parts are
uploaded outside of any transaction, under names a recovery session uses again; a removal sent
by the dead session may arrive late (`StrayRemove`), and COPY counts what it loaded.

### IcebergLoad and IcebergTable
Per table an append is a compare-and-swap on the history it was planned against, stamped
with scope, load and sequence; a conflict re-plans, at most `Attempts` times, and the plan
looks for this identity first. After all tables, state and receipt go into the marker's
properties in one compare-and-swap. A dying session may leave an append or a marker request
on the wire. Other pipelines append and stamp. The wall clock in a receipt is taken not to
go back between commits. A pipeline may come back under another scope, but not while an
append of a dead session is on the wire (section 5).

`IcebergTable` is the table several sessions share: each creates or reconciles it for the
columns and the partition it wants, retries schema commits and appends that lost a race, aligns
batches to the schema it last saw and parks the files of a writer the schema retired.

### KeyedView and MergeTable
`MergeTable` executes the planned statements of one unit on a target, for every combination of
options that validation accepts: strategy, retire or keep, marker for the open end,
hard-delete flag, deduplication order with NULL, merge scope, and a shredded child table.
`KeyedView` takes the same rows one at a time as they arrive, keeping for each key the row that
survives so far, and says what a reader should find; the refinement maps a target to its current
rows and a stage to the survivors of what has been delivered.

### TableEvolution
A run opens, builds its image of the catalog, ensures a schema (possibly colliding with another
stream's), writes, commits or crashes between any two statements. The column `c` changes type
between and within runs, `d` appears later. What a value is after a statement (kept, cast,
rounded, garbled) is all a value is here. `c` is the merge key of a table that merges: an
upsert has a unique index over it, which DuckDB's session drops ahead of a widen, a
delete-and-insert a plain one, which it does not drop and which makes DuckDB refuse the widen
(`load.rs:375-388`).

### PgCdc, PgApply, PgValues
`PgCdc`: the log is a sequence of commits, a position an index into it. The two kinds of pass
are decided under the state lock after `slot::ensure`; the target is pinned by the run's first
change pass. `Complete` removes the stream from `pending`, and the last one acknowledges the
least floor. `AttemptFails` ends the passes but keeps the run's memory, `Crash` loses it,
`DropSlot` is the operator's. The server promise taken over from the comment at
`runtime.rs:123-129` is that a commit at or below the write position read before the snapshot is
visible in it. `PgApply` is one table: a snapshot pass reads a position, the server goes on, the
copy sees the table as it is by then and is checkpointed at the position; a change pass goes
message by message: the server encodes its transactions
under the replica identity, the pass decodes relations and tuples (unchanged TOAST values left
out), holds an unappliable record until its commit, cuts batches and offers cursors; the
engine commits, a pass may crash anywhere and a reset empties state and destination for a
fresh snapshot. `PgValues` follows one
value of one column through the catalog mapping, a hint, the binary face (snapshot), the text
face (changes), the encoder and back, and into a cursor literal.

### The other sources
`PgCursor`, `OraCursor` and `FileRead` have the same frame: data that changes between and
during runs, a read that pushes rows and offers states, an engine that commits some prefix of
them, a run that fails anywhere. `RestRead` has that frame over a list of items that stays as
the first state chose it: what varies is the paginator, the request, the answers and their
failures. `PgCopy` decodes a stream whose chunks are cut anywhere and which may end early or be
lost. `RestFanout` runs one sequence per parent record, at most `Limit` at once, over one
bounded channel; tokens are fetched under the mutex, with a generation that says whose
rejection is still news.

## 3. Checks

Six runs must pass, six show a disagreement between code and documentation. Bounds are
small, and chosen so that the interesting case needs no more; each property has a faulty
variant of the code that violates it within the same bounds.

| run | instances and bounds | distinct states |
|---|---|---|
| `lease_s3` | S3, 2 builds with skewed clocks, TTL 3, 6 ticks, 1 late beat, crashes, lost answers | 405,893 |
| `leases` | a directory: the same with each pair of calls undisturbed; and one clock, all windows open, crashes, for liveness | 126,898 |
| `commits` | file: 2 × 2 units, 2 crashes, and one row a unit with 3 power losses; postgres: one table of each kind, 2 × 2 units, 3 deaths; duckdb: 3 × 2 units, 4 deaths; snowflake: 2 × 2 units, 1 death, one table gaining a column | 111,902 |
| `tables` | merge: 2 keys, 2 rows a unit, 3 units, the third of a scoped scd2 history of at most one row, every strategy with at most one option beside it; evolution: 3 catalogs, 2 runs, any change of type between runs (on Postgres into text), three strategies; iceberg commit: 2 tables, 2 × 2 units, one death and one foreign commit, or two deaths and none; iceberg table: 3 sessions, 2 schemas each, 2 attempts; parts: 2 partitioned tables, 3 batches | 1,237,858 |
| `cdc` | slot: 2 streams, 2 commits with one failure, crash and drop, 3 commits with crash and drop, tail with a bad commit or a failure; apply: 2 keys, 2 changes, one of each disturbance, copies of a table that moves on; values: 21 column types × 13 hints | 901,059 |
| `sources` | cursor: 2 rows, 3 values, every boundary and NULL policy, one second version at its stamp; oracle: 2 rows, values of either sign and values finer than their text; file: 3 units, 2 edits; rest: 4 records, 4 pages, every paginator, 2 troubles; fan-out: 3 parents 2 at a time, and 2 parents with more pages than the channel; COPY: 3 rows | 2,319,045 |
| `load_power_truncate` | finding: a removal that is never synced | violation |
| `load_power_sweep` | finding: a manifest durable before the removals it stands for | violation |
| `cdc_recreated_slot` | finding: the run after a refused gap resumes across it | violation |
| `rest_fanout_wedge` | finding: a closed feed, a full channel | violation |
| `pg_copy_garbled` | finding: a batch copied into a column of another type | violation |
| `cdc_value_forms` | finding: one value in two forms | violation |

Why the bounds are enough. A lease race needs two sessions, since every judgement concerns
one document and one predecessor; 6 ticks let a lease go stale, be taken over and the old
holder's margin pass. Two loads of two units give every relation of two units (same load
earlier, same load later, other load), and two rows a unit allow two cuts into parts. Two
deaths let the recovery of a recovery die. In change capture two streams are needed to
disagree on anything; three commits put one below, one inside and one above a range; the
streams being interchangeable, the first commit is taken to be "a"'s. Two rows and three
values put a row below, at and above a watermark; two pages of two records give a page inside
a run of equal cursors. A fan-out needs two children in flight to race for the token, a third
to wait, and more pages than `2 × Limit` to fill the channel. The numeric codec runs with 2
digits a group and 6 in all where the code has 4 and 38, so that every alignment, padding and
overflow of the groups occurs.

Deadlock is not checked: every model stops when its units are committed, its clock or its
counters are used up.

The properties:

* `MutualExclusion`: two sessions are never both inside a call that wipes or writes.
* `FreshHolderKept`: while no host's clock finds a live session's document expired, no step
  of anyone removes or replaces it.
* `NewerFormatRespected`: no document is replaced by one of an older format, or removed by a
  build that does not understand it. `LocalHoldersKept` is both on a local directory.
* `OustedSessionStops`: a session whose document is gone or foreign comes to a stop
  (leads-to), and no later step of that session starts it again (action properties): not at
  all with the residual windows closed, and only by a heartbeat already past its read, which
  puts the session's own document back, with them open.
* `DeadLeaseReclaimed`: the lease of a dead session is taken over in the end.
* `FilesRecoverable`: the manifest on record names every file of an unfinished attempt, which
  is what the next attempt removes; with power loss, a receipt means files that survive it.
* `ImplementsExactlyOnce` (postgres, and in `tables` iceberg), `StagedExactlyOnce` (duckdb,
  snowflake) and `FilesExactlyOnce` (file): each destination implements `ExactlyOnce`.
* `StateIsNewest`, `StateNeverGoesBack`: a late transaction or request never takes the
  pipeline's position back.
* `ReloadReplaces`, and `ReloadsStand` for the other destinations: a completed Replace load
  leaves none of its predecessor's rows, and a target believed cleared is recorded as cleared.
* `NoColumnDropped`: a part written before a column came is not taken for one that has it.
* `ReceiptKept`: retention never evicts the receipt of the load being delivered.
* `EveryLoadEnds`: every unit is acknowledged in the end, or its load is given up where the
  planner refuses it.
* `OneCurrentRow`, `ImplementsKeyedView`: a reader of a merge target sees one current row per
  key, and the row the keyed view has, under every strategy.
* `CommittedKept`: no statement of an ensure changes a committed value; an scd2 history is
  only added to.
* `WritesFindTheirTables`: what a session believes of its table holds of it, and on DuckDB
  neither a committed value nor an upsert's own index ever bars a widen; the plain index of
  another strategy does, loudly.
* `LandedAsDelivered`: a value lands as delivered or as a cast of it, unless Postgres reads its
  bytes as another type (`pg_copy_garbled`); an iceberg row has all its values.
* `PartsSound`: no part of a file unit loses a row or mixes partitions or schemas.
* `NoGap`, `NoGapUndropped`, `GapNeedsUntoldRun`, `AckBehindDestination`, `OneInstant`,
  `AllCaughtUp`: no change is lost unless the slot was dropped, and then in no run that was told
  it made the slot anew; the server keeps what a stream still needs, the tables of
  a run end at one instant, every change arrives.
* `SinkIsHistory`, `ValuesKept`: each row of the destination is the source's as it was at the
  cursor, or, while the cursor is before what the snapshot saw, the snapshot's, so that the
  overlap has converged once the cursor has passed it; both faces of a value agree and survive
  encoding.
* `NothingSkipped`, `NothingRepeated`, `StateAdvances`: no committed cursor covers a row that
  was not delivered; what a resumed read delivers again is what the code says it does.
* `TokenShared`, `FreshTokenKept`, `ReadGoesOn`: a token is fetched once and evicted only when
  rejected; a read has bounded requests and is never stuck on its own channel.

Fairness. `leases`: tokio runs the heartbeat and the session's calls, storage answers,
the clock goes on; nothing is assumed of abandoned writes, crashes or closing. `commits`: in
the three instances with a liveness property the engine keeps delivering (weak fairness of
progress, deaths being bounded) and a server ends the transaction of a vanished client.
`cdc`: in the two tail instances the tasks of a run are scheduled, the engine commits what it
was given, runs are started again, and a stream that met a commit it cannot apply is reset, as
its error message asks. `rest_fanout_wedge`: the runtime polls a future that can go on, and a
request is answered or times out.

## 4. Proofs

`FileLease_proofs`, for any number of sessions, any clocks and any constants that satisfy
`ConstantsAssumption`:

* `TypeCorrect`: `Spec => []TypeOK`.
* `S3Invariant`: in an `S3Deployment`, `Spec => []S3Inv`.
* `S3MutualExclusion`: in an `S3Deployment`, `Spec => []MutualExclusion`.
* `S3FreshHolderKept`: in an `S3Deployment`, `Spec => FreshHolderKept`.
* `S3NewerFormatRespected`: in an `S3Deployment`, `Spec => NewerFormatRespected`.
* `LocalMutualExclusion`, `LocalFreshHolderKept`, `LocalNewerFormatRespected`: the three
  guarantees in a `LocalDeployment`.

`S3Deployment` is the price list of the guarantee: the S3 arm; release's read and delete not
separated; distinct tokens; a write's stall and the clock difference together within the two
heartbeats of the margin (`SelfExpiry + MaxStall + Skew[p] <= TTL + Skew[o]`); and an open no
longer than the TTL less the clock difference.

The argument. Exclusion is not inductive: nothing in two sessions' control states says why
the second cannot enter. `S3Inv` says it through the document. A live session either still
owns the document, and then its evidence is no younger than the document (`HoldInv`), or some
host's clock has passed its evidence by the TTL, and then the admission margin has run out
for it (`BusyInv`). An acquirer sits in a compare-and-swap with a document it judged stale
(`OpenInv`), so if the swap succeeds, whoever owned that document is beyond the margin.
Heartbeats and abandoned heartbeat writes carry the document they read (`BeatInv`,
`StrayInv`), so they succeed only on it and never revive another's. `DocInv` bounds the
renewal stamp by the owner's clock, `ReleaseInv` says a session about to delete owns what it
deletes. TLC checks `S3Inv` in `lease_s3`, whose constants are an `S3Deployment`.
`FreshHolderKept` follows from the same invariant and from what steps do to the document at
all (`DocSteps`): renew it, delete it from a release that owns it, or write a fresh one over a
document judged stale or one's own. `NewerFormatRespected` needs one fact beside it,
`FormatInv`: a document has the format of the build that owns it, and what a session judged it
could read.

A `LocalDeployment` is a directory on which the pairs of calls listed in `Windows` are
undisturbed, with the same margins and distinct tokens. Nothing there compares and swaps, so
`LocalInv` argues the other way round: what a session judged is still so when it acts
(`LocalOpenInv`: the document it unlinks is still torn or stale, the one it fills in is still
its own empty one), and a beat's write finds the document its read found (`LocalBeatInv`).
`HoldInv`, `ReleaseInv` and `BusyInv` are those of S3. TLC checks `LocalInv` in `leases`. The
windows are a real premise: with any of them open, section 5, the code promises no more.

`SqlCommit_proofs`, for both paths, any tables, modes, feeds and number of loads and deaths,
from `SqlAssumption` (types of the constants) and `LateAssumption` (on the staged path no
Replace table is first ensured in the middle of a load, see section 5):

* `TypeCorrect`: `Spec => []TypeOK`.
* `StateNewest`: `Spec => []StateIsNewest`.
* `ClearedDurable`: `Spec => []ClearedIsDurable`.
* `Reload`: `Spec => []ReloadReplaces`, when on the direct path every load brings rows to the
  targets it reloads (`ReloadAssumption`).
* `Refinement`: `Spec => ImplementsExactlyOnce`.

The argument is one invariant, `UnitInv`. What the session wrote of its unit is in the
transaction or in the stage, and nowhere else (`DeliverInv`). A transaction that waits for
COMMIT, the session's own or a zombie's, is *ready*: it has all rows of its unit, empties a
table exactly when its unit is the first of its load to replace what is there, and no unit
newer than it has committed (`TxReady`, in `OrderInv`). So whichever of them the server
applies, the tables go from what the committed units say to what they and one more say
(`ApplyReady`, which rests on `CurrentStep` about the abstract view). That the planner clears
neither too little nor too much takes three more parts: `ClearInv` and `ClearedExact` (the
record of clears says which loads brought rows to a target, and the session's memory is no
ahead of it), and `FeedInv` (a feed that counted is remembered as long as the load may go
on, which is where the limit on deaths after an acknowledged feed comes in). Every conjunct is
needed: without `FeedInv` a second feed of the load would clear the first's rows, without the
order a zombie would.

`RestFanout_proofs`, for any lists of parents and pages and any bounds of the faults:
`TypeCorrect`, `TokenInvariant`, and from it `TokenFetchedOnce`, `RevocationForgiven`,
`FreshTokenStays` (the code's generation check, against rejections that arrive late); and
`CheckpointCovers`: the only checkpoint of a fan-out comes after every page of every child.
`TokenInv` ties what a child holds, what is cached and what the issuer has taken back;
`FeedInv` ties pages sent, pages in the channel and pages forwarded.

The module goes on with a stream that has no parent (`RestRead`), for any list, page size, bounds
and configurations, from `RestAssumption` (types of the constants):

* `CursorKept`: `R!Spec => []R!CursorCovers`.
* `StreamWhole`: `R!Spec => []R!WholeStreamOnce`.
* `RequestsBounded`: `R!Spec => []R!BoundedRequests`.

The list is ordered, so what a start parameter leaves is a tail of it (`After`), the page at hand
is the part of that tail the request asked for (`PageOK`), and a record at or below the greatest
value seen, the checkpoint, the committed value or the parameter, and listed before the place
the read has come to, has arrived or is pushed (`CoverOK`). A read without trouble has sent
exactly the list up to the place it asks next, and whatever stops it, a short page, a count, a
page number or a missing token, implies that this is the end (`WholeOK`, lemma `Stops`: each
stop rule against each paginator). `SendOK` counts the requests of one call of the send loop,
`StuckOK` remembers the token that came back.

`SqlCommit_proofs` goes on with the merge arms (`MergeTable`), for any keys, ranks, scopes and
children, any set of options that validation may be asked about, and any number of units and
reconfigurations, from `MergeAssumption` (types of the constants; NULL and the open-end marker
are no value, NULL is no row, and children are finitely many):

* `MergeTypeCorrect`: `M!Spec => []M!TypeOK`.
* `OneRow`: `M!Spec => []M!OneCurrentRow`.
* `Subtree`: `M!Spec => []M!SubtreeWhole`.
* `Supported`: `M!Spec => []M!ArmSupported`.
* `HistoryStays`: `M!Spec => M!HistoryKept`.
* `ViewRefinement`: `M!Spec => M!ImplementsKeyedView`.

The argument. `MergeInv` has seven parts. The options are ones validation accepted, and the
index their arm relies on exists (`OptsOK`); the stages hold rows of the table, deduplication
leaves one of every key in them, and the children staged are those of the roots staged
(`RowsOK`); the target holds versions of such rows (`TargetOK`), current from a statement
time until a later one under scd2 and without times otherwise (`TimesOK`); a key has one current
row (`OneCurrentRow`), whose children are in the child table and nobody else's are
(`SubtreeWhole`); and under scd2 the open version of a key is no older than its closed ones
(`Ordered`), without which a version could be closed at a time before it opened. One lemma per arm says which
versions a statement closes, removes and adds; the rest of each proof reads off those. For the
refinement, the rows that the deduplicating query keeps of a stage are compared with those one
pass in arrival order keeps, by what one more row at the end of the stage changes in either, so
no induction over the stage is needed: the survivor of a stage with a row more is the later of
the row and the survivor before. `KeyedView` therefore takes one row per step.

`FileLoad_proofs`, for both storage arms, any tables, feeds, cuts of the rows into parts and
number of deaths, from `Sane` (types of the constants, finitely many tables):

* `TypeCorrect`: `Spec => []TypeOK`, with power loss too.
* `NoOrphans`: `Spec => []ManifestCovers`.
* `Durable`: `Spec => []ReceiptIsDurable`, with power loss too, when the first commit of a load
  brings rows to the tables it reloads (`ReloadBrings`).
* `Refinement`: `Spec => ImplementsExactlyOnce`.

`NoOrphans` and `Refinement` also take `NoPowerLoss` and `LateAssumption` (no reloaded table is
first ensured in the middle of a load); both are needed, as the two `load_power` runs and `Late`
in section 5 show. The argument has two halves. While rows come in, each is in one open or
staged part (`Cut`), and two staged parts of a table have different indexes (`Indexed`,
`Distinct`); so when the commit starts, the parts hold the unit's rows once (`Whole`). From the
manifest on, what is published under this manifest's names and what is still to be published
hold them once together (`Parts`), because the names the manifest leaves out were swept before
it was written (`Announced`). The other files belong to committed units (`FileOf`, `Committed`),
and those a reload replaces are gone before its first unit publishes (`Reloaded`). So whenever
nothing is in doubt the reader's view is the abstract one (`ViewExact`), and the receipt,
written last, is the abstract commit.

`Durable` rests on an invariant of its own, `SyncInv`, that survives power loss. What is not on disk
yet is of a table for which the current unit has rows (`Owed`): so is what a publish writes or a
sweep removes (`Named`), and what a truncation removes, which only the first commit of a load does
(`Earlier`). Each such table has a part staged when the commit begins and is among the touched
directories when the last part is published (`ToSync`); so the sync leaves nothing owed.
`ReloadBrings` is where `load_power_truncate` bites: without rows, a reloaded table's directory is
emptied and not synced.

The module goes on with the parts (`FileParts`), for any tables, values of the partition column,
sizes, ages and number of batches, from `PartsAssumption`: finitely many values, sizes that are
numbers, and no value of the column that goes into a name as it is equals another's encoded form:

* `PartRows`: `P!Spec => []P!PartsSound`.

`PartsSound` says nothing while a batch is being written, and nothing of why a name is new.
`PartsInv` does. Staging areas, open parts and the groups of the batch still to append hold the
delivered rows, each once and under the key of its table and partition (`Sound`, stated of any
areas and parts, so that each way to close a part and the append are lemmas about it); the
numbers staged for a key are all below the next one, which is their count (`NamesOK`), so a name
is never put twice; a new batch's rows are none of the earlier ones (`GivenOK`); and what waits
in the queue is of this batch's table (`QueueOK`). That two values never share a name
(`EncodesApart`) is where the assumption on encodings comes in.

`IcebergLoad_proofs`, for any tables, feeds, scopes, attempts, retention and numbers of deaths
and foreign commits, from `IcebergAssumption` (types of the constants):

* `TypeCorrect`: `Spec => []TypeOK`.
* `Kept`: `Spec => []ReceiptKept`.
* `StateForward`: `Spec => StateNeverGoesBack`.
* `Refinement`: `Spec => ImplementsExactlyOnce`.

The invariant is `IceInv`. A history holds whole windows of committed units and of the current
one, no identity twice (`History`), and all the marker calls committed (`Whole`). What a dead
session left on the wire can still be applied only while the table is as it was when the
request was planned, and then the current unit is not in it yet (`Appends`); a marker commit
left there follows all appends of its unit (`Stamps`). `Underway` follows one commit through
its tables: what is no longer to do is in the table, and what a planned append is about to add
is not. `MarkerInv` keeps states and receipts in the order of the units: the receipt of the
load being delivered is the newest of its scope, so no retention reaches it. The marker's
commit is the abstract one; between a unit's first append and it the view is in doubt
(`Shown`).

The module goes on with the table that several sessions share (`IcebergTable`), for any sessions
and whatever schemas and partitions they bring, without any assumption:

* `TableRows`: `T!Spec => []T!RowsWhole`.

In `TableInv` a session that has looked at the table knows a part of its present schema, with
all the columns that are required, and knows all of it as long as the version has not moved
(`Knows`): schema commits only add columns, and only optional ones, and a commit planned against
an older version fails. What a session holds, in its writer or parked when the schema moved on,
can be read under the schema the table has by now, has every value the session was asked to land
and is numbered without gap (`Holds`); what it publishes is that, once (`DataWhole`).

`SnowflakeLoad_proofs`, for any tables, modes, feeds, schema versions and number of loads and
deaths, from `SnowAssumption` (types of the constants, finitely many tables) and `Prompt`:

* `TypeCorrect`: `Spec => []TypeOK`.
* `ClearedDurable`: `Spec => []ClearedIsDurable`.
* `ColumnsKept`: `Spec => []NoColumnDropped`.
* `StateNewest`: `Spec => []StateIsNewest`.
* `Reload`: `Spec => []ReloadReplaces`, when every load brings rows to the tables it reloads
  (`ReloadAssumption`).
* `Refinement`: `Spec => ImplementsExactlyOnce`.

`Prompt` says that a dead session's COMMIT has landed or failed when the recovery probes for
the receipt. It is needed: no key refuses the second receipt, so that without it the unit may
be committed twice (section 5). The argument follows `SqlCommit_proofs` for transactions
(`TxReady`, `OrderInv`, `FeedInv`, `RowsExact`, `ClearedExact`) and adds what happens outside
of them. `PartsInv` says of each row written so far that it is in the open part or in exactly
one pending part, that a file found under a pending part's name has that part's rows, whoever
uploaded it, and no column younger than the list the COPY will name (`Placed`). The row counts
the COPY checks then leave one outcome: each file is there, and each row is loaded once
(`Whole`). A late removal can only make the counts differ, and the unit is delivered again.
`ClearInv` follows a clear from the write that asks for it through a rollback ahead of DDL,
where it is owed again, to the commit or replay that makes it durable.

`PgCdc_proofs`, for any streams, log and numbers of failures, crashes and drops, from
`CdcAssumption` (types of the constants): `TypeCorrect`; `AckBehind` (`AckBehindDestination`);
`Gapless` (`[]NoGap` while nobody drops the slot); `UntoldRun` (`GapNeedsUntoldRun`: with
drops, a run that was told it made the slot opens no gap); `Instant` (`[]OneInstant`). The
invariant ties, stream by stream, the position read to, what was pushed under it, the floor it
may acknowledge and the cursor it would resume from, in every state of its pass (`RuntimeOf`,
`FloorOf`): a floor is never above the cursor, nor above the snapshot a stream without a
cursor would take again. That is what makes the floors left by a failed attempt, which a retry
in the same run keeps, safe to acknowledge.

The module goes on with what a pass makes of the messages (`PgApply`), for any keys, values,
batch size, log and number of crashes and snapshots, from `ApplyAssumption` (types of the
constants, finitely many keys; the markers `Null` and `Toast` are no key, value or tuple):

* `SinkOfHistory`: `A!Spec => []A!SinkIsHistory`.

`ApplyInv` gives each transaction in the log the tables between its messages (`Leads`): whatever
the server wrote, under either replica identity, the rows the pass makes of the message take the
one table to the next, unless the pass holds the message back (`Carries`, proved operation by
operation in `InsertCarries`, `UpdateCarries` and `DeleteCarries`; `BadCarries` for what is held
back). The rest follows the rows: those of the open transaction continue its first table up to
the message read, unless it is marked as faulty; those that are ready continue what was
delivered up to the last commit read (`PassInv`); and those delivered take the destination from
the committed cursor to the checkpoint that came with them (`SinkInv`). Merging two lists one
after the other is merging them at once (`MergeBoth`), so where the pass cuts its batches does
not matter. A snapshot breaks that chain, since the copy may be newer than the position its
cursor starts at. So the destination only *fits* a position: each row is the source's there, or
still the snapshot's (`Fits`). What makes the overlap converge is that rows between two
positions leave out only keys which nothing changed in between (`Still`): a row they leave out
and that still is the snapshot's is the source's as soon as the position has reached what the
snapshot saw. A crash falls back to the committed cursor, where `SinkInv` speaks of the
destination alone; the transactions read again up to it are dropped, faulty or not.

`PgCursor_proofs`, for any keys, cursor values, batch sizes and cursor configurations, from
`CursorAssumption` (types of the constants):

* `TypeCorrect`: `Spec => []TypeOK`.
* `Skips`: `Spec => []NothingSkipped`.
* `Delivered`: `Spec => []DeliveredOnce`.
* `StateForward`: `Spec => StateAdvances`.

Neither property is inductive, since a run commits between batches and rows come in behind its
back. `SkipInv` says where each row asked for is while a run reads: delivered, pushed, still in
the stream, or late, that is, near enough to all that is still to be read that any state this
run may offer leaves it to the next (`Nothing`, `Late`). What a state offered does not cover,
the run after it reads again (`Covers`, lemma `Reread`); that needs the stream's order
(`Ordered`) and that the boundary keys of a state are of rows delivered under it
(`Boundaries`), so that what is dropped as a duplicate has arrived. `OnceInv` bounds what the
destination has by the committed watermark and its keys (`Once`) and the rest of the stream
from below (`OnceReading`): what the two share are duplicates by key. The assumption on writers
is in the model, in `InTime`: a stamp becomes visible at most the lag after a higher one, and
strictly increases under an exclusive boundary, as the two options demand. What has arrived is a
version with the row's stamp, not its content (`Holds`): see section 5. TLC checked both
invariants before, on instances with all configurations and with three keys.

The module goes on with the oracle source (`OraCursor`), for any values in hundredths, rows and
batch sizes, from `OraAssumption` (types of the constants; no position is Null):

* `NeverLost`: `O!Spec => []O!SkipsNoneRepeatsFiner`.
* `TextIsOrder`: `O!Spec => []O!CheckpointFollowsRead`.

The checkpoint carries a number as text, without trailing zeros, and the code compares the texts.
`TextOrder` proves that this is the order of the numbers, sign, whole part and digits, and that a
text reads back as its number (`ReadsBack`); so a row past the position always moves the
checkpoint (`AdvanceMoves`). The text of a timestamp finer than microseconds stands for its unit,
and cutting to units keeps the order (`KeptOrder`). A mark *splits* the table if the destination
has nothing in a later unit (nothing beyond the mark at all, where the text keeps the whole
value), lacks nothing up to it, and rows that come after some row of the table come beyond it
(`Splits`). The
committed mark splits the table at what has been committed, the position of a read at that and
what is pushed (`OraInv`), through a chunk cut anywhere (`ChunkSplits`) and a stamp that moves a
row to the end while the read goes on (`StampSplits`). The premise on writers is in the model,
in `Stamp`: rows appear, and move, in (cursor, ROWID) order.

Only model-checked: everything in the other modules, among it the schema changes, the file
source and the COPY decoder; and the exactly-once effect of the file destination under power loss. Liveness under fairness and
ENABLED are out of the prover's reach, as is induction over data: what the folds over rows and
the recursive functions compute (numeric codec, decoder) is checked by TLC on bounded inputs.

## 5. Where code and documentation part

Shown by runs:

* `cdc_recreated_slot`: after an operator drops the slot, the run that makes the new one
  refuses a stream that would skip changes (`cdc/read.rs:97-102`), but the slot stays, and
  the next run finds it existing, does not compare, and resumes: the gap is silent. The same
  happens within one run when the server makes the slot and the answer is lost: the retry
  finds a slot (`slot.rs:173-204`), is told it existed, and resumes. `GapNeedsUntoldRun` says
  that these are the only two ways.
* `load_power_truncate`: Replace removes files without adding their directory to those that
  are synced, so a table that receives no part comes back after a power loss.
* `load_power_sweep`: the sweep's removals are synced after the publishes (`load.rs:560`), the
  manifest that forgets their names is durable before (`load.rs:525`). Power lost in between
  brings back files of an abandoned attempt that no manifest names, and whose rows are
  published again in other parts. The power instance of `commits` has one row a unit and
  table, hence one way to cut it, so that nothing is ever swept there.
* `rest_fanout_wedge`: `read_children`'s forward block borrows the receiver, so it is not
  dropped when the block ends on cancellation (`read/fanout.rs:68`); with the channel full the
  children wait in `send` for ever, and the read never returns.
* `pg_copy_garbled`: the COPY encodes by the batch's type, not by the column's
  (`destination/write.rs:42`); an Int64 batch in a double precision column of an earlier run
  is stored as other numbers, and so is a text of exactly eight bytes in a bigint or double
  precision column. An earlier run is not needed: a session that dies between the ALTER of the
  target and that of the stage leaves a stage nobody widens any more.
* `cdc_value_forms`: the snapshot reads arrays, composites and ranges as JSON and hinted
  columns through the server's cast, change rows bring the server's text: one value in two
  forms, or a value that one accepts and the other refuses.

Seen while modelling, and excluded from the passing runs by a named parameter or guard:

* `Closed` (lease). The pairs of storage calls are not atomic in the code. Release reads and
  then deletes without naming a version (`lease.rs:766`); on a directory, recheck and unlink
  (`lease.rs:396`), a create's open and write (`kind.rs:337`), a beat's read and write
  (`lease.rs:863`), and reacquire's read and write are pairs too. The comments at
  `lease.rs:357-366` accept part of this. The liveness instance of `leases` runs
  with every window open.
* Token and stall (lease). `mint_owner` is pid and a counter (`connector.rs:39`): two
  containers can mint the same. A write that outlasts the margin is not stopped. Both are
  assumptions of the theorem.
* `Late`. A Replace table first ensured after its load's first commit is not truncated by the
  file destination (`load.rs:433`), nor cleared by the staged path (`script.rs:254`); in the
  passing runs only tables of other modes come late there, and the SQL theorems assume it. On
  the direct path the clear rides on the first write, so a load without rows for the table
  leaves the old ones; the abstract mode of such a table is therefore `feed`.
* Scope (iceberg). The first check for a redelivered commit ignores the scope, the re-check
  after a conflict compares it (`commit.rs:191`): a re-scoped recovery that loses a race to
  its predecessor's own late append appends again. `OpenSession` excludes it.
* `Prompt` (snowflake). No key is enforced, so a dead session's COMMIT that lands after the
  recovery's probe commits the unit twice (`load.rs:819`). Replay does not mark a feed as done
  (`load.rs:799-801`), where the planner's own driver does (`script.rs:206-208`).
* DuckDB widening. Run 1 commits 2^53+1 as BIGINT; run 2 ensures int, then widens to float;
  the ALTER goes unfiltered (`catalog.rs:115-118` against `:201-209`) and rounds the committed
  value. `Widens` holds only changes into text.
* Files. A genuine append can be refused by the plain jsonl resume (`jsonl.rs:204`,
  `source/connector.rs:196` against `cursor.rs:246-278`). A local parquet file replaced under a
  read is excluded, as `checks.rs:2-4` says; stamps are assumed to move with every edit; a
  rewrite before the last 4096 bytes of an appended file is not seen.
* REST. A wildcard path over a single record is refused (`read/extract.rs:79-90` against
  `README.md:106`). The cursor is a running maximum, so `README.md:150` fails for an API that
  lists newest first: the list is assumed ordered by the cursor. A record of a child that
  arrives late below the run's maximum is skipped by the next run.
* Numerics. `decode_numeric` (`types/binary.rs:66-117`) gathers base-10000 groups, padding
  included, in an i128: values of some 36 digits with a scale that is not a multiple of 4
  overflow and are refused, though `README.md:325` promises 38. The models' `AtNumericLimit`
  names them.
* Cursors. A `time` cursor at 24:00:00 is rendered as `TIME '00:00' + interval`, which wraps
  (`types/literal.rs:28-30`), and the table is read again; a watermark of infinity makes a
  predicate the server refuses on every run; a text cursor column with an integer hint is
  accepted (`source/plan.rs:69`) and refused by the server at the first resume. Oracle compares
  watermarks as text: -1.5 and -1.50 differ (`cursor.rs:175-177`), and rows that take the
  watermark's value at a lower ROWID are passed.
* Same stamp. A row updated again at the stamp it was delivered with, while that stamp is the
  watermark, is dropped by key as a duplicate (`cursor/tracker.rs:209-211`) and never delivered,
  though `README.md:201` of the crate calls the inclusive boundary safe for a timestamp. `coarse`
  in `PgCursor` lets it happen; `NothingSkipped` therefore promises the stamp, not the content.
* Finer timestamps. Oracle's `TIMESTAMP(7..9)` is accepted (`schema.rs:70-75`) and the watermark
  rendered in microseconds (`batch.rs:249-264`): every statement selects the rows in the
  watermark's microsecond again, against `read.rs:13-15`, and where a microsecond holds as many
  rows as a batch the read selects the same batch for ever. `finer` in `OraCursor` lets it
  happen; `SkipsNoneRepeatsFiner` says that nothing else is repeated and nothing is lost.
* Apply. ADD COLUMN with changes still unread in the old shape is refused (`cdc/apply.rs:183`),
  though the comment at `:101-106` speaks of the current relation; a replica identity changed in
  the middle of a stream leaves the old row of an update that changes its key.

## 6. Not modelled, and what is left

* The wipe of the staging area by a second session that got a lease it should not have, and a
  late upload of a dead snowflake session: both need lease and load, or stage and load,
  composed over faults the present runs exclude.
* Merge: a root delivered again with fewer children, a marker removed or a strategy changed
  between runs, a configured boundary timestamp.
* Schema changes: an index over a merge scope (it bars a DuckDB widen as a plain key index
  does), a strategy changed between runs, lists and structs.
* `PgCursor`: tables without a key, whose rows are told apart by a hash; the descending
  direction, which mirrors the ascending one. `OraCursor`: reads without a cursor, which are
  not one snapshot. `FileRead`: more than one file, since progress is recorded path by path and
  one refusal ends the run.
* Change capture: creation of the publication, and one connector process serving several
  runs (the contract of `runtime.rs:55-85`).
* Iceberg: the names a writer gives its files, what a partition transform computes, the catalog
  client's own retries, expiry of snapshots by maintenance.
* Values: uuid and bytea bytes, the server's casts, conversion in the snowflake and oracle
  crates; configuration, TLS and connection strings. They have no state the protocols above
  depend on.

Next would be a module `FileSession` that composes lease and load.
