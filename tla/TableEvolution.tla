--------------------------- MODULE TableEvolution ---------------------------
(***************************************************************************)
(* How a SQL destination brings a table into line with the schema a run    *)
(* asks for: the shared plan of sqlcore's ensure.rs, and what DuckDB,      *)
(* Postgres and Snowflake make of it against rows committed by earlier     *)
(* runs.  The column "c" changes type between and within runs, "d" is a    *)
(* column added later; a run may crash between any two statements.         *)
(*                                                                         *)
(* A value is what a reader could tell apart: "one" fits every number,     *)
(* "big" is an integer that no float holds and whose eight bytes spell a   *)
(* text, "half" a fraction, "word" a text of eight bytes, "padded"         *)
(* ("01234") one of five; "rounded" and "stripped" are what a lossy cast   *)
(* leaves of them and "garbled" the bytes of one type read as another.     *)
(***************************************************************************)
EXTENDS Naturals, FiniteSets, SequencesExt

CONSTANTS
  Kinds,      \* the destinations compared: "duckdb", "postgres", "snowflake"
  Drift,      \* per kind, the <<from, to>> types c may change by between runs
  Widens,     \* per kind, the <<from, to>> types the engine widens c by in a run
  MaxRuns,    \* bound: sessions opened
  MaxRows,    \* bound: rows published
  MaxForeign, \* bound: schemas of another stream colliding on the table
  Null

VARIABLES
  kind, strategy, \* chosen once: the destination, and how the mode merges, or "none"
  db,          \* the physical table: its legs, the index over its key c, its rows
  before,      \* Postgres: db as the open unit found it, Null when none is open
  memory,      \* the schema this session last ensured (`previous`)
  image,       \* Snowflake: the session's picture of the catalog
  wanted, todo,\* the schema being ensured and the statements still to run
  sent,        \* the values of this run the engine has checked
  open, runs, foreign, stopped

vars == <<kind, strategy, db, before, memory, image, wanted, todo, sent,
          open, runs, foreign, stopped>>

Legs == {"target", "stage"}
Column(name, type) == [name |-> name, type |-> type]
Types == {"int", "float", "text"}

(* The schemas a stream may declare. *)
Schemas == LET D == Column("d", "int")
           IN UNION {{<<Column("c", t)>>, <<Column("c", t), D>>, <<D, Column("c", t)>>} : t \in Types}

Names(columns) == [i \in DOMAIN columns |-> columns[i].name]
TypesOf(columns) == [i \in DOMAIN columns |-> columns[i].type]
Holds(columns, name) == \E i \in DOMAIN columns : columns[i].name = name
TypeIn(columns, name) == columns[SelectInSeq(columns, LAMBDA col : col.name = name)].type

(* The values a batch column of a type carries. *)
ValuesOf(type) == CASE type = "int" -> {"one", "big"}
                    [] type = "float" -> {"one", "half"}
                    [] type = "text" -> {"padded", "word"}

(* A cast as the three engines perform it; Null is a conversion error. *)
Cast(value, type) ==
  CASE type = "text" \/ value = "one" -> value
    [] value = "word" -> Null
    [] value = "padded" -> "stripped"
    [] value = "big" /\ type = "float" -> "rounded"
    [] value = "half" /\ type = "int" -> "rounded"
    [] OTHER -> value

(* Does the destination stage this table?  (ensure.rs `uses_stage`) *)
Merges == strategy # "none"
UsesStage == Merges \/ kind = "duckdb"

-----------------------------------------------------------------------------
(* The shared plan. *)

Op(op, leg, name) == [op |-> op, leg |-> leg, name |-> name]

(* ensure.rs `schema_steps`: per leg the relation, then every column, and a *)
(* widen where the remembered type is another.                              *)
SchemaSteps(schema, previous) ==
  LET Of(leg, col) ==
        <<Op("column", leg, col.name)>> \o
        IF previous # Null /\ Holds(previous, col.name) /\ TypeIn(previous, col.name) # col.type
          THEN <<Op("widen", leg, col.name)>> ELSE <<>>
      LegSteps(leg) == <<Op("table", leg, Null)>> \o
                       FlattenSeq([i \in DOMAIN schema |-> Of(leg, schema[i])])
  IN LegSteps("target") \o IF UsesStage THEN LegSteps("stage") ELSE <<>>

(* index.rs `index_plan`: the unique arbiter of an upsert, else a plain one. *)
KeyIndex == CASE strategy = "upsert" -> "unique"
              [] strategy = "delete_insert" -> "plain"
              [] OTHER -> "none"

(* ensure.rs `merge_steps`, phase 2: the index over the key c. *)
IndexSteps == IF Merges THEN <<Op("index", "target", "c")>> ELSE <<>>

-----------------------------------------------------------------------------
(* DuckDB: the catalog image of a fresh session, filtered. *)

(* catalog.rs `is_widening`: into text only; int to float is deliberately   *)
(* no edge, committed rows are not value-checked.                           *)
IsWidening(from, to) == to = "text" /\ from # "text"

(* A variant: the raw catalog image, unfiltered, feeds the planner. *)
PrefilterRaw(live, schema) == live

(* catalog.rs `prefilter`: anything but a genuine widen adopts the incoming *)
(* type, so that the planner sees no difference.                            *)
Prefilter(live, schema) ==
  [i \in DOMAIN live |->
    LET col == live[i]
    IN IF Holds(schema, col.name) /\ ~IsWidening(col.type, TypeIn(schema, col.name))
         THEN Column(col.name, TypeIn(schema, col.name)) ELSE col]

(* Session memory first, the filtered catalog image of a fresh session else. *)
PlanningPrevious(schema) ==
  IF memory # Null THEN memory
  ELSE IF kind = "duckdb" /\ db.target # Null THEN Prefilter(db.target, schema) ELSE Null

(* A variant: the key is widened under its index. *)
PreAlterIndexDropsNone(schema) == <<>>

(* catalog.rs `pre_alter_index_drops`: a widen of the key clears the        *)
(* arbiter on it; a plain index stays where it is.                          *)
PreAlterIndexDrops(schema) ==
  LET previous == PlanningPrevious(schema)
  IN IF strategy = "upsert" /\ previous # Null /\ Holds(previous, "c")
        /\ TypeIn(previous, "c") # TypeIn(schema, "c")
       THEN <<Op("dropIndex", "target", "c")>> ELSE <<>>

(* A variant: the guard refuses a dropped column and lets a reorder through. *)
AppendsOrReorders(schema) == memory = Null \/ Range(Names(memory)) \subseteq Range(Names(schema))

(* load.rs `ensure_table`: columns once ensured reappear as a prefix. *)
Appends(schema) == memory = Null \/ IsPrefix(Names(memory), Names(schema))

-----------------------------------------------------------------------------
(* Snowflake: the catalog is read once, and only what it lacks is issued. *)

(* load.rs `observe`: a leg is read once per session. *)
Observed == [leg \in Legs |->
              IF memory # Null \/ db[leg] = Null THEN image[leg]
              ELSE image[leg] \cup Range(Names(db[leg]))]

(* ddl.rs `table_ddl_stmts`: skip what the image already holds. *)
Owed(seen, step) ==
  CASE step.op = "table" -> seen[step.leg] = {}
    [] step.op = "column" -> seen[step.leg] # {} /\ step.name \notin seen[step.leg]
    [] OTHER -> TRUE

(* A variant: the stage leg of a merge table is left "read, absent". *)
FoldedTargetOnly(seen, schema) == [seen EXCEPT !["target"] = @ \cup Range(Names(schema))]

(* catalog.rs `record_created`, both legs of a merge table. *)
Folded(seen, schema) ==
  [leg \in Legs |-> IF leg = "target" \/ Merges
                      THEN seen[leg] \cup Range(Names(schema)) ELSE seen[leg]]

(* The statements one ensure issues, in order. *)
Plan(schema) ==
  CASE kind = "duckdb" ->
         PreAlterIndexDrops(schema) \o SchemaSteps(schema, PlanningPrevious(schema)) \o IndexSteps
    [] kind = "postgres" -> SchemaSteps(schema, PlanningPrevious(schema)) \o IndexSteps
    [] kind = "snowflake" ->
         SelectSeq(SchemaSteps(schema, PlanningPrevious(schema)),
                   LAMBDA step : Owed(Observed, step))

-----------------------------------------------------------------------------
Init ==
  /\ kind \in Kinds
  /\ strategy \in {"none", "upsert", "delete_insert"}
  /\ db = [target |-> Null, stage |-> Null, index |-> "none", rows |-> {}, staged |-> {}]
  /\ before = Null
  /\ memory = Null
  /\ image = [leg \in Legs |-> {}]
  /\ wanted = Null
  /\ todo = <<>>
  /\ sent = {}
  /\ open = FALSE
  /\ runs = 0
  /\ foreign = 0
  /\ stopped = {}

(* A session opens with no memory of the table. *)
OpenSession ==
  /\ ~open
  /\ runs < MaxRuns
  /\ open' = TRUE
  /\ runs' = runs + 1
  /\ UNCHANGED <<kind, strategy, db, before, memory, image, wanted, todo, sent, foreign, stopped>>

(* The session is gone: memory, image and DuckDB's TEMP stage with it; an   *)
(* open Postgres unit rolls back, its DDL included.                         *)
SessionEnds(why) ==
  /\ open' = FALSE
  /\ stopped' = stopped \cup why
  /\ db' = CASE before # Null -> before
             [] kind = "duckdb" -> [db EXCEPT !.stage = Null, !.staged = {}]
             [] OTHER -> [db EXCEPT !.staged = {}]
  /\ before' = Null
  /\ memory' = Null
  /\ image' = [leg \in Legs |-> {}]
  /\ wanted' = Null
  /\ todo' = <<>>
  /\ sent' = {}
  /\ UNCHANGED <<kind, strategy, runs>>

(* The engine's evolution contract.  First ensure of a run: whatever this   *)
(* run's data looked like.  Later: columns append and types widen, the int  *)
(* to float edge only when every value this run saw is exact in a float.    *)
EngineAsks(schema) ==
  LET type == TypeIn(schema, "c")
      From(columns, edges) == TypeIn(columns, "c") = type \/ <<TypeIn(columns, "c"), type>> \in edges
  IN IF memory = Null
       THEN db.target # Null => From(db.target, Drift[kind])
       ELSE /\ IsPrefix(Names(memory), Names(schema))
            /\ From(memory, Widens[kind])
            /\ type = "float" => "big" \notin sent

(* Two streams on one table: the second one's columns, not this one's.      *)
OtherStreamAsks(schema) == memory # Null /\ TypeIn(memory, "c") = TypeIn(schema, "c")

(* The guard before any DDL, then the plan. *)
EnsureTable(schema) ==
  /\ open
  /\ wanted = Null
  /\ schema # memory
  /\ foreign' = IF EngineAsks(schema) THEN foreign ELSE foreign + 1
  /\ EngineAsks(schema) \/ (OtherStreamAsks(schema) /\ foreign < MaxForeign)
  /\ IF kind = "duckdb" /\ ~Appends(schema) THEN SessionEnds({"collision"})
     ELSE /\ wanted' = schema
          /\ todo' = Plan(schema)
          /\ image' = IF kind = "snowflake" THEN Observed ELSE image
          /\ UNCHANGED <<kind, strategy, db, before, memory, sent, open, runs, stopped>>

(* A widened row.  Null when a value does not convert. *)
Converted(row, name, type) ==
  IF name \notin DOMAIN row.held THEN row
  ELSE [row EXCEPT !.held[name] = Cast(@, type)]

(* Why the engine refuses a statement: Snowflake changes no type, DuckDB    *)
(* none that an index of any kind depends on, and a cast may fail.          *)
Refused(step) ==
  CASE step.op # "widen" -> {}
    [] kind = "snowflake" /\ TypeIn(db[step.leg], step.name) # TypeIn(wanted, step.name) -> {"service"}
    [] kind = "duckdb" /\ step.leg = "target" /\ db.index # "none" /\ step.name = "c" -> {"index"}
    [] \E row \in IF step.leg = "target" THEN db.rows ELSE db.staged :
         step.name \in DOMAIN row.held /\ Cast(row.held[step.name], TypeIn(wanted, step.name)) = Null -> {"cast"}
    [] OTHER -> {}

(* What one statement does to the database. *)
Applied(step) ==
  LET leg == step.leg
      type == TypeIn(wanted, step.name)
      Retyped(columns) == [i \in DOMAIN columns |->
                            IF columns[i].name = step.name THEN Column(step.name, type) ELSE columns[i]]
  IN CASE step.op = "dropIndex" -> [db EXCEPT !.index = "none"]
       [] step.op = "index" -> [db EXCEPT !.index = KeyIndex]
       [] step.op = "table" -> IF db[leg] = Null THEN [db EXCEPT ![leg] = wanted] ELSE db
       [] step.op = "column" ->
            IF Holds(db[leg], step.name) THEN db
            ELSE [db EXCEPT ![leg] = Append(@, Column(step.name, type))]
       [] step.op = "widen" /\ leg = "target" ->
            [db EXCEPT !.target = Retyped(@), !.rows = {Converted(row, step.name, type) : row \in @}]
       [] step.op = "widen" /\ leg = "stage" ->
            [db EXCEPT !.stage = Retyped(@), !.staged = {Converted(row, step.name, type) : row \in @}]

Statement ==
  /\ todo # <<>>
  /\ IF Refused(Head(todo)) # {} THEN SessionEnds(Refused(Head(todo)))
     ELSE /\ db' = Applied(Head(todo))
          /\ todo' = Tail(todo)
          /\ UNCHANGED <<kind, strategy, before, memory, image, wanted, sent, open, runs, stopped>>
  /\ UNCHANGED foreign

(* The plan ran: the session remembers the schema, Snowflake's image it.    *)
Ensured ==
  /\ wanted # Null
  /\ todo = <<>>
  /\ memory' = wanted
  /\ wanted' = Null
  /\ image' = IF kind = "snowflake" THEN Folded(image, wanted) ELSE image
  /\ UNCHANGED <<kind, strategy, db, before, todo, sent, open, runs, foreign, stopped>>

-----------------------------------------------------------------------------
(* Rows. *)

(* Postgres binary COPY (write.rs): a field is its bytes, read as the       *)
(* column's type.  A number is any eight bytes, a text any bytes that spell *)
(* one; what is neither is refused.                                         *)
CopyBinary(value, from, to) ==
  CASE from = to -> value
    [] "text" \notin {from, to} \/ value \in {"word", "big"} -> "garbled"
    [] OTHER -> Null

(* Postgres converts text to a number only when told to; the others try.    *)
Assigned(value, from, to) == IF kind = "postgres" /\ from = "text" /\ to # "text"
                               THEN Null ELSE Cast(value, to)

(* The relation rows land in first.  Snowflake's parts are files. *)
Landing == IF UsesStage THEN "stage" ELSE "target"

(* One row under a batch that carries `columns`; DuckDB's appender is       *)
(* positional, the others name their columns.                               *)
Landed(sentRow, columns) ==
  LET Field(i) == sentRow[columns[i].name]
      At(name) == columns[SelectInSeq(columns, LAMBDA col : col.name = name)]
  IN CASE kind = "duckdb" -> [name \in Range(Names(db.stage)) |->
            Field(SelectInSeq(db.stage, LAMBDA col : col.name = name))]
       [] kind = "postgres" -> [name \in DOMAIN sentRow |->
            CopyBinary(sentRow[name], At(name).type, TypeIn(db[Landing], name))]
       [] kind = "snowflake" -> sentRow

(* The columns whose bytes Postgres reads as another type than the batch's. *)
Mistyped(columns) ==
  {col.name : col \in {c \in Range(columns) :
                         kind = "postgres" /\ TypeIn(db[Landing], c.name) # c.type}}

(* load.rs `write`: DuckDB refuses a batch whose columns are not the        *)
(* ensured ones in their order; its appender one whose types are not.       *)
WriteRefused(columns) ==
  kind = "duckdb" /\ (Names(columns) # Names(memory) \/ TypesOf(columns) # TypesOf(db.stage))

Write(columns) ==
  /\ open
  /\ memory # Null
  /\ wanted = Null
  /\ Cardinality(db.rows) + Cardinality(db.staged) < MaxRows
  /\ \E sentRow \in [Range(Names(columns)) -> UNION {ValuesOf(t) : t \in Types}] :
       LET row == [id |-> Cardinality(db.rows) + Cardinality(db.staged),
                   sent |-> sentRow, held |-> Landed(sentRow, columns), over |-> Mistyped(columns)]
       IN /\ \A i \in DOMAIN columns : sentRow[columns[i].name] \in ValuesOf(columns[i].type)
          /\ "d" \in DOMAIN sentRow => sentRow["d"] = "one"
          /\ IF WriteRefused(columns) \/ Null \in Range(row.held)
               THEN SessionEnds({"write"})
               ELSE /\ before' = IF kind = "postgres" /\ before = Null THEN db ELSE before
                    /\ db' = IF UsesStage \/ kind = "snowflake" THEN [db EXCEPT !.staged = @ \cup {row}]
                             ELSE [db EXCEPT !.rows = @ \cup {row}]
                    /\ sent' = sent \cup Range(sentRow)
                    /\ UNCHANGED <<kind, strategy, memory, image, wanted, todo, open, runs, stopped>>
  /\ UNCHANGED foreign

(* The batches a stream may hand over: the ensured columns, in their order  *)
(* or, out of a defect, in another.                                         *)
Batches == {memory, Reverse(memory)}

(* The unit's transaction: staged rows move into the target by name.        *)
Published(row) ==
  [row EXCEPT !.held = [name \in DOMAIN row.held |->
     LET from == IF kind = "snowflake" THEN TypeIn(memory, name) ELSE TypeIn(db.stage, name)
     IN Assigned(row.held[name], from, TypeIn(db.target, name))]]

Commit ==
  /\ open
  /\ wanted = Null
  /\ memory # Null
  /\ LET moved == {Published(row) : row \in db.staged}
     IN IF \E row \in moved : Null \in Range(row.held)
          THEN SessionEnds({"publish"})
          ELSE /\ db.staged # {} \/ before # Null
               /\ db' = [db EXCEPT !.rows = @ \cup moved, !.staged = {}]
               /\ before' = Null
               /\ UNCHANGED <<kind, strategy, memory, image, wanted, todo, sent, open, runs, stopped>>
  /\ UNCHANGED foreign

(* The run ends, or the process dies between two statements. *)
Crash == open /\ SessionEnds({}) /\ UNCHANGED foreign

Next ==
  \/ OpenSession
  \/ \E schema \in Schemas : EnsureTable(schema)
  \/ Statement
  \/ Ensured
  \/ memory # Null /\ \E columns \in Batches : Write(columns)
  \/ Commit
  \/ Crash

Spec == Init /\ [][Next]_vars

-----------------------------------------------------------------------------
(* Properties. *)

Committed == IF before = Null THEN db.rows ELSE before.rows

(* Bringing a table into line never changes a value an earlier commit left  *)
(* in it: no statement of an ensure, and no crash within one, rounds,       *)
(* strips or drops a committed row (catalog.rs `prefilter`).                *)
CommittedKept == [][Committed \subseteq Committed']_vars

(* A session that believes a table ensured writes into legs that hold every *)
(* column it remembers, DuckDB's stage in the remembered order and under    *)
(* the remembered types, with the index over its merge key in place,        *)
(* whatever an earlier session left half done (load.rs `ensure_table`).     *)
ReadyIsWhole ==
  memory # Null /\ wanted = Null =>
    /\ \A leg \in IF UsesStage THEN Legs ELSE {"target"} :
         db[leg] # Null /\ Range(Names(memory)) \subseteq Range(Names(db[leg]))
    /\ kind = "duckdb" => db.stage = memory
    /\ kind # "snowflake" => db.index = KeyIndex

(* A published value is the one delivered for that column, or what a cast   *)
(* makes of it: never another column's, never one type's bytes read as      *)
(* another's (load.rs `write`'s positional check, write.rs `copy_batch`).   *)
AsDelivered(row, name) ==
  \/ row.held[name] = row.sent[name]
  \/ \E t \in Types : row.held[name] = Cast(row.sent[name], t)

LandedAsDelivered == \A row \in db.rows : \A name \in DOMAIN row.held : AsDelivered(row, name)

(* On Postgres that fails in one way only: the bytes were laid over a       *)
(* column that still has another type (write.rs `copy_batch`).              *)
LandedUnlessMistyped ==
  \A row \in db.rows : \A name \in DOMAIN row.held : AsDelivered(row, name) \/ name \in row.over

(* DuckDB's evolution is never refused for what a table already holds: no   *)
(* committed value fails a cast, and an upsert's own arbiter never bars a   *)
(* widen of its key; the plain index of another strategy does, every time   *)
(* (catalog.rs `prefilter`, `pre_alter_index_drops`, load.rs).              *)
NeverStuckOnData ==
  kind = "duckdb" => "cast" \notin stopped /\ ("index" \in stopped => strategy = "delete_insert")
=============================================================================
