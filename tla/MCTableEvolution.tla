------------------------- MODULE MCTableEvolution -------------------------
(* Small instances of TableEvolution. *)
EXTENDS TableEvolution

MCKinds == {"duckdb", "postgres", "snowflake"}

(* Within a run c widens into text. *)
MCWidens == [k \in MCKinds |-> {<<"int", "text">>, <<"float", "text">>}]

(* Between runs c may change to any other type. *)
MCAnyDrift == [k \in MCKinds |-> {e \in Types \X Types : e[1] # e[2]}]
MCPostgres == {"postgres"}
=============================================================================
