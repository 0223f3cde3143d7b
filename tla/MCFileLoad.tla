---------------------------- MODULE MCFileLoad ----------------------------
(* Instances of FileLoad for TLC. *)
EXTENDS FileLoad, TLC

\* One append and one replace table.
TwoTables == {"log", "dim"}
BothModes == "log" :> "append" @@ "dim" :> "replace"

\* The replace table of the second load is empty: the source has no rows left.
EmptyReplace(u, t) == IF t = "dim" /\ u.load = 2 THEN 0 ELSE 1

\* One append table, of two rows: one part or two, as the clock rolls them.
OneTable == {"log"}
AppendOnly == "log" :> "append"
TwoRows(u, t) == 2

=============================================================================
