------------------------------ MODULE MCTables ------------------------------
(***************************************************************************)
(* What the destinations make of their tables: what one unit merges into   *)
(* them (MergeTable), how their columns follow the stream (TableEvolution, *)
(* and IcebergTable for the sessions of one iceberg table), the parts a    *)
(* file load builds (FileParts), and the snapshots and properties of the   *)
(* iceberg tables a load commits, which is the IcebergLoad this module     *)
(* extends. A behaviour is one of the instances.                           *)
(***************************************************************************)
EXTENDS IcebergLoad, TLC

CONSTANTS Null, Marker

\* The iceberg load: the second table gets rows with a load's first commit only,
\* its window is empty in the second.
TwoTables == {"log", "dim"}
FirstOnly(u, t) == IF t = "dim" THEN 2 - u.seq ELSE 1

VARIABLE which \* the instance that runs

-----------------------------------------------------------------------------
(* The merge arms, under every option record that matters. *)
\* Every strategy, with at most one option beside it; the ordering column with
\* the keyed strategies, the marker with an scd2 history that does not retire.
Extras(o) == {x \in {"hard_delete", "asc", "desc", "scope"} :
                \/ x = "hard_delete" /\ o.hard_delete
                \/ x = o.dedup
                \/ x = "scope" /\ o.scope}
MergeOptions ==
  {o \in [shredded : BOOLEAN, strategy : {"delete_insert", "upsert", "scd2"},
          retire : BOOLEAN, marker : BOOLEAN, hard_delete : BOOLEAN,
          dedup : {"none", "asc", "desc"}, scope : BOOLEAN] :
     /\ Cardinality(Extras(o)) <= 1
     /\ o.dedup # "none" => o.strategy # "scd2"
     /\ o.dedup = "asc" => o.strategy = "upsert"
     /\ o.marker => o.strategy = "scd2" /\ ~o.retire
     /\ ~o.shredded /\ Extras(o) = {} => o.strategy = "scd2"}
\* Bound: the third unit of a scoped history has at most one row.
ShortEnd(o, now, root) == o.scope /\ now = 3 => Len(root) <= 1

VARIABLES merge_opts, merge_indexes, merge_stage, merge_target, merge_clock

mergeVars == <<merge_opts, merge_indexes, merge_stage, merge_target,
               merge_clock>>
Merge == INSTANCE MergeTable WITH
  Keys <- {1, 2}, Ranks <- {1, 2}, Scopes <- {"s"}, Kids <- {1}, Null <- Null,
  Marker <- Marker, Options <- MergeOptions, MaxStage <- 2, MaxClock <- 4,
  opts <- merge_opts, indexes <- merge_indexes, stage <- merge_stage, target
  <- merge_target, clock <- merge_clock

-----------------------------------------------------------------------------
(* Tables brought into line, with every engine. *)
Destinations == {"duckdb", "postgres", "snowflake"}
ColumnTypes == {"int", "float", "text"}
\* Between runs c may change to any other type; on Postgres into text, whose bytes
\* then go over a number's (the other changes: MCTableEvolution).
AnyType == [k \in Destinations |->
             {e \in ColumnTypes \X ColumnTypes : e[1] # e[2] /\ (k = "postgres" => e[2] = "text")}]
\* Within a run c widens into text.
IntoText == [k \in Destinations |-> {<<"int", "text">>, <<"float", "text">>}]

VARIABLES evo_kind, evo_strategy, evo_db, evo_before, evo_memory, evo_image,
          evo_wanted, evo_todo, evo_sent, evo_open, evo_runs, evo_foreign,
          evo_stopped

evoVars == <<evo_kind, evo_strategy, evo_db, evo_before, evo_memory,
             evo_image, evo_wanted, evo_todo, evo_sent, evo_open, evo_runs,
             evo_foreign, evo_stopped>>
Evolution == INSTANCE TableEvolution WITH
  Kinds <- Destinations, Drift <- AnyType, Widens <- IntoText, MaxRuns <- 2,
  MaxRows <- 1, MaxForeign <- 1, Null <- Null,
  kind <- evo_kind, strategy <- evo_strategy, db <- evo_db, before <-
  evo_before, memory <- evo_memory, image <- evo_image, wanted <- evo_wanted,
  todo <- evo_todo, sent <- evo_sent, open <- evo_open, runs <- evo_runs,
  foreign <- evo_foreign, stopped <- evo_stopped

-----------------------------------------------------------------------------
(* Three iceberg sessions that share a table. *)
Scalar(type, nullable) == [type |-> type, nullable |-> nullable, inner |-> <<>>]
Tags == [type |-> "list", nullable |-> TRUE,
         inner |-> [element |-> [type |-> "utf8", nullable |-> TRUE]]]
Id == Scalar("int64", FALSE)
\* Two sessions add b, as json and as text, and the list c; the third ends
\* with an optional id, which contradicts the table.
EngineSchemas(s) ==
  CASE s = 1 -> <<[id |-> Id], [id |-> Id, b |-> Scalar("json", FALSE), c |-> Tags]>>
    [] s = 2 -> <<[id |-> Id, c |-> Tags],
                  [id |-> Id, c |-> Tags, b |-> Scalar("utf8", TRUE)]>>
    [] s = 3 -> <<[id |-> Id, c |-> Tags], [id |-> Scalar("int64", TRUE)]>>
ById(s) ==
  <<[column |-> "id", transform |-> <<"bucket", 4>>],
    [column |-> "id", transform |-> <<"identity">>]>>

VARIABLES ice_exists, ice_live, ice_spec, ice_version, ice_data, ice_pc,
          ice_ask, ice_seen, ice_attempt, ice_target, ice_writer, ice_pending,
          ice_sent

iceVars == <<ice_exists, ice_live, ice_spec, ice_version, ice_data, ice_pc,
             ice_ask, ice_seen, ice_attempt, ice_target, ice_writer,
             ice_pending, ice_sent>>
Iceberg == INSTANCE IcebergTable WITH
  Session <- {1, 2, 3}, Wanted <- EngineSchemas, PartitionBy <- ById, Attempts
  <- 2, MaxRows <- 1,
  exists <- ice_exists, live <- ice_live, spec <- ice_spec, version <-
  ice_version, data <- ice_data, pc <- ice_pc, ask <- ice_ask, seen <-
  ice_seen, attempt <- ice_attempt, target <- ice_target, writer <-
  ice_writer, pending <- ice_pending, sent <- ice_sent

-----------------------------------------------------------------------------
(* The parts of a parquet load of two partitioned tables. *)
NullAndItsSpelling == {Null, "__null__"}

VARIABLES parts_open, parts_staged, parts_area, parts_queue, parts_batch,
          parts_given, parts_batches, parts_pc

partsVars == <<parts_open, parts_staged, parts_area, parts_queue, parts_batch,
               parts_given, parts_batches, parts_pc>>
Parts == INSTANCE FileParts WITH
  Table <- {"t", "u"}, Values <- NullAndItsSpelling, Null <- Null, Partitioned
  <- TRUE, OneSchema <- TRUE, TargetBytes <- 2, MaxOpenBytes <- 2, MaxBatches
  <- 3,
  open <- parts_open, staged <- parts_staged, area <- parts_area, queue <-
  parts_queue, batch <- parts_batch, given <- parts_given, batches <-
  parts_batches, pc <- parts_pc

-----------------------------------------------------------------------------
(* The assumptions of the modules hold of these instances. *)
ASSUME InstancesSane ==
  /\ Merge!MergeAssumption /\ Parts!PartsAssumption

allVars == <<which, mergeVars, evoVars, iceVars, vars, partsVars>>

(* What an instance that does not run would have chosen. *)
MCInit ==
  /\ which \in {"merge", "evo", "ice", "load", "parts"}
  /\ Merge!Init
  /\ which # "merge" => merge_opts = CHOOSE o \in MergeOptions : Merge!Accepts(o)
  /\ Evolution!Init
  /\ which # "evo" => evo_kind = "duckdb" /\ evo_strategy = "upsert"
  /\ Iceberg!Init
  /\ Init
  /\ Parts!Init

MCNext ==
  \/ which = "merge" /\ Merge!Next /\ ShortEnd(merge_opts, merge_clock, merge_stage'["root"])
       /\ UNCHANGED <<which, evoVars, iceVars, vars, partsVars>>
  \/ which = "evo" /\ Evolution!Next
       /\ UNCHANGED <<which, mergeVars, iceVars, vars, partsVars>>
  \/ which = "ice" /\ Iceberg!Next
       /\ UNCHANGED <<which, mergeVars, evoVars, vars, partsVars>>
  \/ which = "load" /\ Next
       /\ UNCHANGED <<which, mergeVars, evoVars, iceVars, partsVars>>
  \/ which = "parts" /\ Parts!Next
       /\ UNCHANGED <<which, mergeVars, evoVars, iceVars, vars>>

MCSpec == MCInit /\ [][MCNext]_allVars

-----------------------------------------------------------------------------
(* What is checked: the properties of the modules, under names of their own. *)

\* A key has one current row, and a root its whole subtree
\* (MergeTable!OneCurrentRow, SubtreeWhole).
OneCurrentRow == Merge!TypeOK /\ Merge!OneCurrentRow /\ Merge!SubtreeWhole

\* Every strategy shows a reader the keyed view (MergeTable!ImplementsKeyedView).
ImplementsKeyedView == Merge!ImplementsKeyedView

\* What a write believes of its table holds of it: an upsert finds its index
\* (MergeTable!ArmSupported), an ensured table its columns
\* (TableEvolution!ReadyIsWhole), and what a table holds never bars its
\* evolution (TableEvolution!NeverStuckOnData).
WritesFindTheirTables ==
  Merge!ArmSupported /\ Evolution!ReadyIsWhole /\ Evolution!NeverStuckOnData

\* A value lands as delivered or as a cast of it, unless Postgres reads its bytes as
\* another type (TableEvolution!LandedUnlessMistyped), and whatever columns other
\* sessions add, a published row of an iceberg table has every value it was given
\* and can be read (IcebergTable!RowsWhole).
LandedAsDelivered == Evolution!LandedUnlessMistyped /\ Iceberg!RowsWhole

\* Every row of a file commit is in one part, with rows of its like
\* (FileParts!PartsSound).
PartsSound == Parts!PartsSound

\* What is committed stays: no statement of an ensure changes a value
\* (TableEvolution!CommittedKept), and an scd2 history is only ever added to
\* (MergeTable!HistoryKept).
CommittedKept == Evolution!CommittedKept /\ Merge!HistoryKept
=============================================================================
