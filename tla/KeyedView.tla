----------------------------- MODULE KeyedView -----------------------------
(***************************************************************************)
(* What every merge strategy of rdlt promises a reader of the target: one  *)
(* row per key, and a unit replaces exactly the keys (and, with a          *)
(* merge_scope or absent: retire, the absent keys) it speaks for.  The     *)
(* rows of a unit are taken one by one as they arrive, so this is the      *)
(* reference for the set-oriented SQL of MergeTable.                       *)
(***************************************************************************)
EXTENDS Integers

CONSTANTS Keys,    \* the merge keys
          Ranks,   \* values of the ordering column
          Scopes,  \* values of the merge_scope column
          Kids,    \* child rows a root may carry
          Null     \* SQL's NULL, and the absence of a row

VARIABLES opts,    \* the table's options
          kept,    \* what the open unit says of every key so far, or Null
          scopes,  \* the scopes it has rows of
          spoken,  \* it has any row
          view     \* the current row of every key, or Null

vars == <<opts, kept, scopes, spoken, view>>

\* The rows a table with these options is sent.
Row == [key   : Keys,
        rank  : IF opts.dedup = "none" THEN Ranks ELSE Ranks \cup {Null},
        scope : IF opts.scope THEN Scopes \cup {Null} ELSE {Null},
        flag  : IF opts.hard_delete THEN BOOLEAN ELSE {FALSE},
        kids  : IF opts.shredded THEN SUBSET Kids ELSE {{}}]

(***************************************************************************)
(* The row that survives when row follows old: the ordering column         *)
(* decides, a value beats NULL, and a tie goes to the later row.           *)
(***************************************************************************)
Later(old, row) ==
    IF old = Null \/ opts.dedup = "none" THEN row
    ELSE IF row.rank = Null THEN IF old.rank = Null THEN row ELSE old
    ELSE IF old.rank = Null THEN row
    ELSE IF opts.dedup = "asc" THEN IF row.rank <= old.rank THEN row ELSE old
    ELSE IF row.rank >= old.rank THEN row ELSE old

(***************************************************************************)
(* Whether the unit claims to hold all that exists beside row.             *)
(***************************************************************************)
Complete(row) == spoken /\ IF opts.scope THEN row.scope \in scopes ELSE opts.retire

Merged(k) ==
    IF kept[k] # Null THEN IF opts.hard_delete /\ kept[k].flag THEN Null ELSE kept[k]
    ELSE IF view[k] # Null /\ Complete(view[k]) THEN Null ELSE view[k]

Nothing == [k \in Keys |-> Null]

Init == /\ kept = Nothing
        /\ scopes = {}
        /\ spoken = FALSE
        /\ view = Nothing

Deliver == /\ spoken' = TRUE
           /\ UNCHANGED <<opts, view>>
           /\ \E row \in Row :
                /\ scopes' = scopes \cup ({row.scope} \ {Null})
                /\ kept' = [kept EXCEPT ![row.key] = Later(kept[row.key], row)]

Publish == /\ spoken' = FALSE
           /\ scopes' = {}
           /\ kept' = Nothing
           /\ view' = [k \in Keys |-> Merged(k)]
           /\ UNCHANGED opts

Reconfigure == ~spoken /\ UNCHANGED <<kept, scopes, spoken, view>>

Next == Deliver \/ Publish \/ Reconfigure

Spec == Init /\ [][Next]_vars
=============================================================================
