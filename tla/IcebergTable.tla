----------------------------- MODULE IcebergTable -----------------------------
(***************************************************************************)
(* How iceberg sessions share one table's schema (destination/load.rs,     *)
(* schema.rs, partition.rs, parts.rs): every session creates or reconciles *)
(* the table for the columns it brings, aligns its batches to the schema   *)
(* it last saw, parks the files of a writer the schema or the clock        *)
(* retired, and publishes the window as one append.  Schema commits and    *)
(* appends are compare-and-swaps on the same metadata, retried against the *)
(* competitor's, so another session's columns may appear between any two   *)
(* of a session's steps.  Exactly-once is IcebergLoad's subject, not this. *)
(***************************************************************************)
EXTENDS Naturals, FiniteSets, Sequences

CONSTANTS
  Session,
  Wanted(_),        \* Wanted(s): the schemas s asks for, one after the other;
                    \* a schema maps names to columns [type, nullable, inner]
  PartitionBy(_),   \* PartitionBy(s): the [column, transform] pairs s is
                    \* configured to partition by; a transform is <<kind, width>>
  Attempts,         \* COMMIT_ATTEMPTS
  MaxRows           \* bound: batches a session writes under one schema

\* scalar_type: Iceberg has no json, and keeps it as a string.
ScalarType ==
  [bool |-> "boolean", int64 |-> "long", float64 |-> "double",
   decimal |-> "decimal", utf8 |-> "string", binary |-> "binary",
   timestamp_tz |-> "timestamptz", timestamp_naive |-> "timestamp",
   date |-> "date", time |-> "time", uuid |-> "uuid", json |-> "string"]

\* build_field.  A field is [required, kind, inner]; inner maps the children of
\* a struct, or the element of a list (never required), to [required, kind],
\* and is empty for a scalar.
BuildField(col) ==
  LET kind(type) == IF type \in DOMAIN ScalarType THEN ScalarType[type] ELSE type
  IN [required |-> ~col.nullable, kind |-> kind(col.type),
      inner |-> [c \in DOMAIN col.inner |->
                   [required |-> col.type # "list" /\ ~col.inner[c].nullable,
                    kind |-> kind(col.inner[c].type)]]]

VARIABLES
  exists,   \* the table is in the catalog
  live,     \* its schema: column names to fields
  spec,     \* its partition fields, fixed at creation
  version,  \* metadata versions so far: what a compare-and-swap compares
  data,     \* rows of the snapshots
  pc,       \* where each session is
  ask,      \* index into Wanted(s) of the schema being or last ensured
  seen,     \* the metadata the session last loaded: [version, cols]
  attempt,  \* number of the commit attempt, 0 outside commit_with_retry
  target,   \* arrow_target: the columns batches are aligned to
  writer,   \* the open writer: the columns of its files and its rows, or Shut
  pending,  \* pending_files: rows of the retired writers
  sent      \* batches written under the present schema

tableVars   == <<exists, live, spec, version, data>>
sessionVars == <<pc, ask, seen, attempt, target, writer, pending, sent>>
vars        == <<tableVars, sessionVars>>

NoCols == [c \in {} |-> {}]
Shut == [cols |-> NoCols, rows |-> {}, open |-> FALSE]
Want(s) ==
  LET schema == Wanted(s)[ask[s]] IN [c \in DOMAIN schema |-> BuildField(schema[c])]

Init ==
  /\ exists = FALSE /\ live = NoCols /\ spec = << >> /\ version = 0 /\ data = {}
  /\ pc = [s \in Session |-> "start"] /\ ask = [s \in Session |-> 1]
  /\ seen = [s \in Session |-> [version |-> 0, cols |-> NoCols]]
  /\ attempt = [s \in Session |-> 0]
  /\ target = [s \in Session |-> NoCols] /\ writer = [s \in Session |-> Shut]
  /\ pending = [s \in Session |-> {}] /\ sent = [s \in Session |-> 0]

-----------------------------------------------------------------------------
(* Schemas *)

\* compare_type on children: by name, kinds equal, and no child required in the
\* table that the stream may leave out.
InnerAgrees(want, have) ==
  /\ DOMAIN want = DOMAIN have
  /\ \A c \in DOMAIN want :
       want[c].kind = have[c].kind /\ (have[c].required => want[c].required)

\* compare_field: structural, and asymmetric in nullability.
Agrees(want, have) ==
  /\ have.required => want.required
  /\ want.kind = have.kind
  /\ InnerAgrees(want.inner, have.inner)

Contradicts(want, cols) ==
  \E c \in DOMAIN want \cap DOMAIN cols : ~Agrees(want[c], cols[c])

Additions(want, cols) == DOMAIN want \ DOMAIN cols

\* A variant: a new column keeps the nullability the stream declares.
EvolvedRequired(want, cols) ==
  [c \in DOMAIN cols \cup Additions(want, cols) |->
     IF c \in DOMAIN cols THEN cols[c] ELSE want[c]]

\* AddColumn::optional: rows already there have no value for a new column.
Evolved(want, cols) ==
  [c \in DOMAIN cols \cup Additions(want, cols) |->
     IF c \in DOMAIN cols THEN cols[c] ELSE [want[c] EXCEPT !.required = FALSE]]

-----------------------------------------------------------------------------
(* Partitions *)

\* field_name: the column's own name, or the column and its transform; two
\* widths of one transform share a name.
FieldName(f) ==
  IF f.transform[1] = "identity" THEN <<f.column>> ELSE <<f.column, f.transform[1]>>

\* to_partition_spec: the fields in order, each on a column the schema has, and
\* under a name of its own (the library's check).
Partitionable(fields, cols) ==
  /\ \A i \in DOMAIN fields : fields[i].column \in DOMAIN cols
  /\ \A i, j \in DOMAIN fields : FieldName(fields[i]) = FieldName(fields[j]) => i = j

ToPartitionSpec(fields) ==
  [i \in DOMAIN fields |->
     [id |-> 1000 + i - 1, name |-> FieldName(fields[i]),
      source |-> fields[i].column, transform |-> fields[i].transform]]

\* check_live_spec: the same columns and transforms, in the same order.
LiveSpecAgrees(fields) ==
  [i \in DOMAIN spec |-> [column |-> spec[i].source, transform |-> spec[i].transform]]
  = fields

-----------------------------------------------------------------------------
(* Ensuring the table *)

\* A variant: a re-ensure drops what the retired writer had closed.
ReinstallForgets(s, cols) ==
  /\ target' = [target EXCEPT ![s] = cols]
  /\ writer' = [writer EXCEPT ![s] = IF @.open /\ target[s] # cols THEN Shut ELSE @]
  /\ pc' = [pc EXCEPT ![s] = "loading"] /\ attempt' = [attempt EXCEPT ![s] = 0]
  /\ sent' = [sent EXCEPT ![s] = 0]
  /\ UNCHANGED pending

\* reinstall: a writer of another schema is closed and its files parked.
Reinstall(s, cols) ==
  LET retired == writer[s].open /\ target[s] # cols
  IN /\ target' = [target EXCEPT ![s] = cols]
     /\ pending' = [pending EXCEPT ![s] = IF retired THEN @ \cup writer[s].rows ELSE @]
     /\ writer' = [writer EXCEPT ![s] = IF retired THEN Shut ELSE @]
     /\ pc' = [pc EXCEPT ![s] = "loading"] /\ attempt' = [attempt EXCEPT ![s] = 0]
     /\ sent' = [sent EXCEPT ![s] = 0]

Load1(s) == seen' = [seen EXCEPT ![s] = [version |-> version, cols |-> live]]

Refuse(s) ==
  /\ pc' = [pc EXCEPT ![s] = "refused"] /\ attempt' = [attempt EXCEPT ![s] = 0]
  /\ UNCHANGED <<target, writer, pending, sent>>

\* ensure_stream_table: is there a table?
Probe(s) ==
  /\ pc[s] = "start"
  /\ pc' = [pc EXCEPT ![s] = IF exists THEN "load" ELSE "create"]
  /\ UNCHANGED <<tableVars, ask, seen, attempt, target, writer, pending, sent>>

\* create_table; a concurrent creator's table is reconciled instead.
Create(s) ==
  /\ pc[s] = "create" /\ UNCHANGED ask
  /\ IF exists
     THEN /\ pc' = [pc EXCEPT ![s] = "load"]
          /\ UNCHANGED <<tableVars, seen, attempt, target, writer, pending, sent>>
     ELSE IF ~Partitionable(PartitionBy(s), Want(s))
     THEN Refuse(s) /\ UNCHANGED <<tableVars, seen>>
     ELSE /\ exists' = TRUE /\ live' = Want(s)
          /\ spec' = ToPartitionSpec(PartitionBy(s))
          /\ version' = version + 1
          /\ seen' = [seen EXCEPT ![s] = [version |-> version + 1, cols |-> Want(s)]]
          /\ Reinstall(s, Want(s)) /\ UNCHANGED data

\* reconcile loads the table.
LoadTable(s) ==
  /\ pc[s] = "load"
  /\ Load1(s)
  /\ pc' = [pc EXCEPT ![s] = "plan"] /\ attempt' = [attempt EXCEPT ![s] = 1]
  /\ UNCHANGED <<tableVars, ask, target, writer, pending, sent>>

\* reconcile's plan, on what was loaded: the partition spec must be the
\* configured one, a present column must agree, an absent one is added.
Plan(s) ==
  LET cols == seen[s].cols
  IN /\ pc[s] = "plan" /\ UNCHANGED <<tableVars, ask, seen>>
     /\ IF ~LiveSpecAgrees(PartitionBy(s)) \/ Contradicts(Want(s), cols) THEN Refuse(s)
        ELSE IF Additions(Want(s), cols) = {} THEN Reinstall(s, cols)
        ELSE /\ pc' = [pc EXCEPT ![s] = "evolve"]
             /\ UNCHANGED <<attempt, target, writer, pending, sent>>

\* A variant: the schema commit does not compare versions.
EvolveBlind(s) ==
  /\ pc[s] = "evolve"
  /\ live' = Evolved(Want(s), seen[s].cols) /\ version' = version + 1
  /\ Reinstall(s, live')
  /\ UNCHANGED <<exists, spec, data, ask, seen>>

Evolve(s) ==
  /\ pc[s] = "evolve" /\ version = seen[s].version
  /\ live' = Evolved(Want(s), seen[s].cols) /\ version' = version + 1
  /\ Reinstall(s, live')
  /\ UNCHANGED <<exists, spec, data, ask, seen>>

\* A conflict: back off, reload, plan again; after the last attempt, an error.
Conflict(s) ==
  /\ pc[s] \in {"evolve", "append"} /\ version # seen[s].version
  /\ IF attempt[s] < Attempts
     THEN /\ Load1(s)
          /\ attempt' = [attempt EXCEPT ![s] = @ + 1]
          /\ pc' = [pc EXCEPT ![s] = IF @ = "evolve" THEN "plan" ELSE @]
          /\ UNCHANGED <<target, writer, pending, sent>>
     ELSE Refuse(s) /\ UNCHANGED seen
  /\ UNCHANGED <<tableVars, ask>>

\* The engine brings a schema with more columns, in the middle of a window.
EnsureAgain(s) ==
  /\ pc[s] = "loading" /\ ask[s] < Len(Wanted(s)) /\ sent[s] > 0
  /\ ask' = [ask EXCEPT ![s] = @ + 1]
  /\ pc' = [pc EXCEPT ![s] = "start"]
  /\ UNCHANGED <<tableVars, seen, attempt, target, writer, pending, sent>>

-----------------------------------------------------------------------------
(* Writing and publishing *)

\* A batch carries the columns asked for; a nullable one may hold a null.
Given(s) == {[who |-> s, ask |-> ask[s], n |-> sent[s] + 1, has |-> h] :
               h \in {x \in SUBSET DOMAIN Want(s) :
                        \A c \in DOMAIN Want(s) : Want(s)[c].required => c \in x}}

\* align: by name; what the target has and the batch lacks is null, or an
\* error where the table requires it.
Unfilled(s) == {c \in DOMAIN target[s] : target[s][c].required /\ c \notin DOMAIN Want(s)}
Aligned(s, row) == [row |-> row, has |-> row.has \cap DOMAIN target[s]]

\* write: past roll_after_seconds the old writer is retired first; without a
\* writer one is opened on the table's present metadata.
Write(s) ==
  /\ pc[s] = "loading" /\ sent[s] < MaxRows
  /\ IF Unfilled(s) # {} THEN Refuse(s)
     ELSE \E row \in Given(s), aged \in BOOLEAN :
       LET rolls == aged /\ writer[s].open
           kept  == IF writer[s].open /\ ~rolls THEN writer[s].rows ELSE {}
       IN /\ pending' = [pending EXCEPT ![s] = IF rolls THEN @ \cup writer[s].rows ELSE @]
          /\ writer' = [writer EXCEPT ![s] =
                          [open |-> TRUE, cols |-> target[s], rows |-> kept \cup {Aligned(s, row)}]]
          /\ sent' = [sent EXCEPT ![s] = @ + 1]
          /\ UNCHANGED <<pc, attempt, target>>
  /\ UNCHANGED <<tableVars, ask, seen>>

\* converge_tables: close the writer, reload, append.
StartPublish(s) ==
  /\ pc[s] = "loading" /\ ask[s] = Len(Wanted(s)) /\ sent[s] > 0
  /\ pending' = [pending EXCEPT ![s] = @ \cup writer[s].rows]
  /\ writer' = [writer EXCEPT ![s] = Shut]
  /\ Load1(s)
  /\ attempt' = [attempt EXCEPT ![s] = 1]
  /\ pc' = [pc EXCEPT ![s] = "append"]
  /\ UNCHANGED <<tableVars, ask, target, sent>>

\* append_commit lands; the target follows the refreshed table.
AppendLands(s) ==
  /\ pc[s] = "append" /\ version = seen[s].version
  /\ data' = data \cup pending[s] /\ version' = version + 1
  /\ target' = [target EXCEPT ![s] = live] /\ pending' = [pending EXCEPT ![s] = {}]
  /\ pc' = [pc EXCEPT ![s] = "done"] /\ attempt' = [attempt EXCEPT ![s] = 0]
  /\ UNCHANGED <<exists, live, spec, ask, seen, writer, sent>>

Next == \E s \in Session :
  \/ Probe(s) \/ Create(s) \/ LoadTable(s) \/ Plan(s) \/ Evolve(s) \/ Conflict(s)
  \/ EnsureAgain(s) \/ Write(s) \/ StartPublish(s) \/ AppendLands(s)

Spec == Init /\ [][Next]_vars

-----------------------------------------------------------------------------
(* Properties *)

\* Whatever columns the sessions bring and in whatever order their schema
\* commits and appends win: a published row keeps every value it was given, all
\* batches of a published window are there, and each row can be read under the
\* present schema, which requires no column the row has no value for.
RowsWhole ==
  /\ \A r \in data : r.has = r.row.has
  /\ \A s \in Session : pc[s] = "done" =>
       \A k \in 1 .. ask[s] : \E r \in data : r.row.who = s /\ r.row.ask = k
  /\ \A s \in Session : pc[s] = "done" =>
       sent[s] = Cardinality({r \in data : r.row.who = s /\ r.row.ask = ask[s]})
  /\ \A r \in data : r.has \subseteq DOMAIN live
  /\ \A r \in data, c \in DOMAIN live : live[c].required => c \in r.has

=============================================================================
