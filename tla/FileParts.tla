------------------------------- MODULE FileParts -------------------------------
(***************************************************************************)
(* The parts a file load builds before it publishes (destination/load.rs,  *)
(* stage.rs, parts.rs, layout.rs).  A batch is split by the partition      *)
(* column; each group goes into the open part of its table and partition,  *)
(* which closes when its schema changes, when it reached its size or age,  *)
(* when all open parts together outgrow their memory ceiling, and at the   *)
(* latest at the commit.  A closed part is put under a name built from     *)
(* table, partition and its number in the commit; putting a name twice     *)
(* overwrites the first part's bytes.  FileLoad takes over from there.     *)
(***************************************************************************)
EXTENDS Naturals, Sequences, FiniteSets

CONSTANTS
  Table,
  Values,      \* values of the partition column, Null among them
  Null,
  Partitioned, \* partition_by is configured
  OneSchema,   \* the format's files have one schema (parquet, not jsonl)
  TargetBytes, \* parts.target_bytes; a row is one byte
  MaxOpenBytes,\* parts.max_open_bytes
  MaxBatches   \* bound: batches of a commit

VARIABLES
  open,    \* the open parts, by key; Shut where there is none
  staged,  \* the session's list of staged parts
  area,    \* the staging area: names to rows
  queue,   \* groups of the batch being written: keys still to append
  batch,   \* that batch: [table, schema, rows], rows are [n, value, schema]
  given,   \* history: rows the engine delivered in this commit
  batches, \* bound counter
  pc

vars == <<open, staged, area, queue, batch, given, batches, pc>>

\* The strings that do not survive as they are: they begin with _ or .
Unsafe == {"__null__", "__empty__", ".."}

\* A variant: the sentinel is not told from the string that spells it.
EncodePartitionValueRaw(v) ==
  CASE v = Null -> "__null__" [] v = "" -> "__empty__" [] OTHER -> v

\* encode_partition_value and the null sentinel beside it.
EncodePartitionValue(v) ==
  CASE v = Null -> "__null__"
    [] v = "" -> "__empty__"
    [] v \in Unsafe -> "%" \o v
    [] OTHER -> v

\* Where the strings that are encoded go, no value of the column goes as it is.
PartsAssumption ==
  /\ IsFiniteSet(Values) /\ TargetBytes \in Nat /\ MaxOpenBytes \in Nat
  /\ Null \notin Unsafe \cup {""}
  /\ \A v \in Values \cap Unsafe : "%" \o v \notin Values \cup Unsafe
  /\ \A v, w \in Values \cap Unsafe : "%" \o v = "%" \o w => v = w

Slug == {EncodePartitionValue(v) : v \in Values} \cup {"all"}
Key  == Table \X Slug
Shut == [rows |-> {}, schema |-> 0, open |-> FALSE]
NoBatch == [table |-> "", schema |-> 0, rows |-> {}]

\* validate: nothing is zero, and a part can reach its target in memory.
Valid == TargetBytes > 0 /\ MaxOpenBytes > 0 /\ TargetBytes <= MaxOpenBytes

Init ==
  /\ open = [k \in Key |-> Shut] /\ staged = {} /\ area = [x \in {} |-> {}]
  /\ queue = {} /\ batch = NoBatch /\ given = {} /\ batches = 0
  /\ pc = IF Valid THEN "idle" ELSE "refused"

-----------------------------------------------------------------------------
(* Parts *)

\* encoded_len
Bytes(part) == Cardinality(part.rows)

\* split_partitions: the encoded value, or the one group "all".
SlugOf(row) == IF Partitioned THEN EncodePartitionValue(row.value) ELSE "all"
Group(k) == {r \in batch.rows : SlugOf(r) = k[2]}

\* A variant: the table is not a segment of the name.
StagedNameFlat(k, index) == <<k[2], index>>

\* staged_name
StagedName(k, index) == <<k[1], k[2], index>>

\* The number of the next part of a table and partition in this commit.
PartIndex(k) == Cardinality({s \in staged : s.key = k})

\* close_part for the part now holding `rows`: encode, put, remember.
\* (stage_put replaces whatever the name held.)
Stage(k, rows) ==
  LET name == StagedName(k, PartIndex(k))
  IN /\ area' = [x \in DOMAIN area \cup {name} |-> IF x = name THEN rows ELSE area[x]]
     /\ staged' = staged \cup {[key |-> k, index |-> PartIndex(k)]}

\* should_roll: the target reached, or old enough.
ShouldRoll(rows, aged) == Cardinality(rows) >= TargetBytes \/ (rows # {} /\ aged)

Differs(k) == OneSchema /\ open[k].open /\ open[k].schema # batch.schema

-----------------------------------------------------------------------------
(* write *)

Deliver(t, schema, values) ==
  /\ pc = "idle" /\ batches < MaxBatches
  /\ LET rows == {[n |-> batches + 1, value |-> v, table |-> t, schema |-> schema] : v \in values}
     IN /\ batch' = [table |-> t, schema |-> schema, rows |-> rows]
        /\ queue' = {<<t, s>> : s \in {SlugOf(r) : r \in rows}}
        /\ given' = given \cup rows
  /\ batches' = batches + 1 /\ pc' = "writing"
  /\ UNCHANGED <<open, staged, area>>

\* A variant: rows of another schema join the open part.
CloseChangedNever(k) ==
  /\ pc = "writing" /\ k \in queue /\ Differs(k)
  /\ open' = [open EXCEPT ![k].schema = batch.schema]
  /\ UNCHANGED <<staged, area, queue, batch, given, batches, pc>>

\* A group whose schema differs from its part's closes the part first.
CloseChanged(k) ==
  /\ pc = "writing" /\ k \in queue /\ Differs(k)
  /\ Stage(k, open[k].rows)
  /\ open' = [open EXCEPT ![k] = Shut]
  /\ UNCHANGED <<queue, batch, given, batches, pc>>

\* Append the group, and roll the part when it is due.
AppendGroup(k) ==
  /\ pc = "writing" /\ k \in queue /\ ~Differs(k)
  /\ LET rows == open[k].rows \cup Group(k)
     IN \E aged \in BOOLEAN :
          IF ShouldRoll(rows, aged)
          THEN Stage(k, rows) /\ open' = [open EXCEPT ![k] = Shut]
          ELSE /\ open' = [open EXCEPT ![k] =
                             [rows |-> rows, schema |-> batch.schema, open |-> TRUE]]
               /\ UNCHANGED <<staged, area>>
  /\ queue' = queue \ {k}
  /\ pc' = IF queue = {k} THEN "budget" ELSE "writing"
  /\ UNCHANGED <<batch, given, batches>>

Total(o) == Cardinality(UNION {o[k].rows : k \in Key})

\* A variant: the ceiling is held against each part alone.
OverBudgetEach(o) == \E k \in Key : Bytes(o[k]) > MaxOpenBytes

\* over_budget: across all open parts.
OverBudget(o) == Total(o) > MaxOpenBytes

\* enforce_open_budget: the largest part goes, until the rest fits.
CloseLargest(k) ==
  /\ pc = "budget" /\ OverBudget(open)
  /\ \A j \in Key : Bytes(open[j]) <= Bytes(open[k])
  /\ Stage(k, open[k].rows) /\ open' = [open EXCEPT ![k] = Shut]
  /\ UNCHANGED <<queue, batch, given, batches, pc>>

WithinBudget ==
  /\ pc = "budget" /\ ~OverBudget(open)
  /\ pc' = "idle" /\ batch' = NoBatch
  /\ UNCHANGED <<open, staged, area, queue, given, batches>>

-----------------------------------------------------------------------------
(* The commit, the session's end, and a new session's *)

\* publish, phase 0: every open part is closed.
CloseForCommit(k) ==
  /\ pc \in {"idle", "closing"} /\ open[k].open
  /\ Stage(k, open[k].rows) /\ open' = [open EXCEPT ![k] = Shut]
  /\ pc' = "closing"
  /\ UNCHANGED <<queue, batch, given, batches>>

\* The staged parts are published and the next commit starts its numbers anew.
Published ==
  /\ pc \in {"idle", "closing"} /\ given # {} /\ \A k \in Key : ~open[k].open
  /\ staged' = {} /\ area' = [x \in {} |-> {}] /\ given' = {} /\ batches' = 0 /\ pc' = "idle"
  /\ UNCHANGED <<open, queue, batch>>

\* replay: open parts are dropped, staged ones removed.
Replay ==
  /\ pc = "idle" /\ given # {}
  /\ open' = [k \in Key |-> Shut] /\ staged' = {} /\ area' = [x \in {} |-> {}]
  /\ given' = {} /\ batches' = 0
  /\ UNCHANGED <<queue, batch, pc>>

Next ==
  \/ \E t \in Table, schema \in {1, 2}, values \in SUBSET Values \ {{}} : Deliver(t, schema, values)
  \/ \E k \in Key : CloseChanged(k) \/ AppendGroup(k) \/ CloseLargest(k) \/ CloseForCommit(k)
  \/ WithinBudget \/ Published \/ Replay

Spec == Init /\ [][Next]_vars

-----------------------------------------------------------------------------
(* Properties *)

InArea == UNION {area[x] : x \in DOMAIN area}
InOpen == UNION {open[k].rows : k \in Key}

\* Between two writes every row of the commit is in exactly one part, open or
\* staged, however schema changes, sizes, ages and the ceiling split them; a
\* part holds rows of one table, one partition and, where the format needs it,
\* one schema; and the open parts together stay within the ceiling.
PartsSound ==
  /\ pc \in {"idle", "closing"} => InArea \cup InOpen = given /\ InArea \cap InOpen = {}
  /\ \A x, y \in DOMAIN area : x # y => area[x] \cap area[y] = {}
  /\ \A rows \in {area[x] : x \in DOMAIN area} \cup {open[k].rows : k \in Key} :
       \A r, q \in rows :
         /\ r.table = q.table /\ (Partitioned => r.value = q.value)
         /\ OneSchema => r.schema = q.schema
  /\ pc = "idle" => Total(open) <= MaxOpenBytes
=============================================================================
