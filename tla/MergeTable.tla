----------------------------- MODULE MergeTable -----------------------------
(***************************************************************************)
(* The merge arms of the shared SQL planner (rdlt-connector-sqlcore): what *)
(* the statements planned for one commit unit do to a merge target, for    *)
(* every combination of options that validation accepts.  The rows of a    *)
(* unit are staged in arrival order; Publish runs the planned script in    *)
(* one transaction (SqlCommit models the transaction, receipts, replays    *)
(* and failures around it).                                                *)
(*                                                                         *)
(* A shredded stream has a root table and a child table that merge on the  *)
(* engine's lineage ids; a structured stream has one table with a key.     *)
(***************************************************************************)
EXTENDS Integers, Sequences, FiniteSets, SequencesExt

CONSTANTS Keys,       \* merge keys, or root ids of a shredded stream
          Ranks,      \* values of the ordering (and payload) column, integers
          Scopes,     \* values of the merge_scope column
          Kids,       \* child rows a root may carry
          Null,       \* SQL's NULL
          Marker,     \* active_record_timestamp
          Options,    \* the option records tried: see Option
          MaxStage,   \* rows of one unit
          MaxClock    \* bounds the units of an scd2 table, whose history grows

VARIABLES opts,     \* the table's options
          indexes,  \* the supporting indexes ensured so far
          stage,    \* stage relation of each table, in arrival order
          target,   \* target relation of each table
          clock     \* transaction timestamps

vars == <<opts, indexes, stage, target, clock>>

Tables == {"root", "child"}

(***************************************************************************)
(* The options of one table.  shredded is a fact of the stream's schema;   *)
(* dedup is "none", "asc" or "desc"; retire is absent: retire; marker says *)
(* whether active_record_timestamp is set.                                 *)
(***************************************************************************)
Option == [shredded : BOOLEAN, strategy : {"delete_insert", "upsert", "scd2"},
           retire : BOOLEAN, marker : BOOLEAN, hard_delete : BOOLEAN,
           dedup : {"none", "asc", "desc"}, scope : BOOLEAN]

\* A variant: upsert is taken with any options.
CheckUpsertNever(o) == TRUE

(***************************************************************************)
(* Validation of the option document, and of the options against the       *)
(* table's schema when the table is ensured.                               *)
(***************************************************************************)
CheckHardDelete(o) == o.hard_delete => o.strategy # "scd2"
CheckDedupSort(o) == o.dedup # "none" => ~o.shredded
CheckMergeScope(o) == o.scope => ~o.shredded /\ (o.strategy = "scd2" => o.retire)
CheckUpsert(o) == o.strategy = "upsert" => ~o.shredded
CheckScd2(o) == IF o.strategy = "scd2" THEN ~o.shredded
                                        ELSE ~o.retire /\ ~o.marker

Accepts(o) == /\ CheckHardDelete(o)
              /\ CheckDedupSort(o)
              /\ CheckMergeScope(o)
              /\ CheckUpsert(o)
              /\ CheckScd2(o)

IndexPlan(o) ==
    IF o.shredded
      THEN {[unique |-> FALSE, on |-> "id"], [unique |-> FALSE, on |-> "root_id"]}
      ELSE {[unique |-> o.strategy = "upsert",
             on |-> IF o.strategy = "scd2" THEN "key_valid_to" ELSE "key"]}
           \cup IF o.scope THEN {[unique |-> FALSE, on |-> "scope"]} ELSE {}

FullFeed(o) == o.scope \/ o.retire

\* A row of any stream.
AnyRow == [key : Keys, rank : Ranks \cup {Null}, scope : Scopes \cup {Null},
           flag : BOOLEAN, kids : SUBSET Kids]

\* NULL is no value and no row, the marker no time at which a unit is published.
MergeAssumption ==
    /\ Options \subseteq Option
    /\ Ranks \subseteq Int
    /\ IsFiniteSet(Kids)
    /\ Null \notin Ranks /\ Null \notin Scopes /\ Null \notin Nat /\ Null \notin AnyRow
    /\ Marker \notin Nat /\ Marker # Null
-----------------------------------------------------------------------------
(***************************************************************************)
(* Rows of the stream: fields the options do not read are held constant.   *)
(***************************************************************************)
Rows ==
    [key   : Keys,
     rank  : IF opts.dedup = "none" THEN Ranks ELSE Ranks \cup {Null},
     scope : IF opts.scope THEN Scopes \cup {Null} ELSE {Null},
     flag  : IF opts.hard_delete THEN BOOLEAN ELSE {FALSE},
     kids  : IF opts.shredded THEN SUBSET Kids ELSE {{}}]

ChildOf(row, n) == [key |-> <<row.key, n>>, root |-> row.key, rank |-> row.rank]

\* A row of a target: its validity columns stay Null unless the table is scd2.
Stored(row, from, to) == [row |-> row, from |-> from, to |-> to]

Published(s, i) == Stored(s[i], Null, Null)

Init == /\ opts \in {o \in Options : Accepts(o)}
        /\ indexes = IndexPlan(opts)
        /\ stage = [t \in Tables |-> <<>>]
        /\ target = [t \in Tables |-> {}]
        /\ clock = 1

(***************************************************************************)
(* The engine writes one row, with its children when the stream is         *)
(* shredded, into the stage relations.                                     *)
(***************************************************************************)
Write == /\ Len(stage["root"]) < MaxStage
         /\ \E row \in Rows :
              stage' = [root  |-> Append(stage["root"], row),
                        child |-> stage["child"] \o
                                    SetToSeq({ChildOf(row, n) : n \in row.kids})]
         /\ UNCHANGED <<opts, indexes, target, clock>>
-----------------------------------------------------------------------------
\* A variant: NULLs sort first.
RankedBeforeNullsFirst(a, b) ==
    b # Null /\ (a # Null => IF opts.dedup = "asc" THEN a < b ELSE a > b)

(***************************************************************************)
(* The survivor of each identity: DISTINCT ON, ordered by the dedup column *)
(* with NULLS LAST and then by arrival, newest first.                      *)
(***************************************************************************)
RankedBefore(a, b) ==
    /\ a # Null
    /\ b # Null => IF opts.dedup = "asc" THEN a < b ELSE a > b

First(s, sorted, i, j) ==
    \/ sorted /\ RankedBefore(s[i].rank, s[j].rank)
    \/ i > j /\ ~(sorted /\ RankedBefore(s[j].rank, s[i].rank))

DedupSubquery(s, sorted) ==
    {i \in DOMAIN s : \A j \in DOMAIN s :
        s[j].key = s[i].key /\ j # i => First(s, sorted, i, j)}

Deduped(s) == DedupSubquery(s, opts.dedup # "none")

KeysOf(s) == {s[i].key : i \in DOMAIN s}
Keep(row) == opts.hard_delete => ~row.flag
DeliveredScopes(s) == {s[i].scope : i \in DOMAIN s} \ {Null}

ScopeReplace(T, s) == {t \in T : t.row.scope \notin DeliveredScopes(s)}

KeyedDeleteInsert(T, s) ==
    {t \in T : t.row.key \notin KeysOf(s)}
        \cup {Published(s, i) : i \in {j \in Deduped(s) : Keep(s[j])}}

KeyedUpsert(T, s) ==
    LET gone     == {s[i].key : i \in {j \in Deduped(s) : ~Keep(s[j])}}
        kept     == {j \in Deduped(s) : Keep(s[j])}
        left     == {t \in T : t.row.key \notin gone}
        excluded(k) == CHOOSE i \in kept : s[i].key = k
        conflict == {t \in left : \E i \in kept : s[i].key = t.row.key}
    IN  (left \ conflict)
          \cup {Stored(s[excluded(t.row.key)], t.from, t.to) : t \in conflict}
          \cup {Published(s, i) : i \in {j \in kept : \A t \in left : t.row.key # s[j].key}}

\* A variant: every staged flag counts, superseded rows included.
FlaggedRootsRaw(rootStage) ==
    {rootStage[i].key : i \in {j \in DOMAIN rootStage : rootStage[j].flag}}

(***************************************************************************)
(* Roots whose surviving row is flagged, decided on the root's stage.      *)
(***************************************************************************)
FlaggedRoots(rootStage) ==
    {rootStage[i].key : i \in {j \in DedupSubquery(rootStage, FALSE) : rootStage[j].flag}}

IdentityDeleteInsert(T, s, rootStage, isChild) ==
    LET id(row)   == IF isChild THEN row.root ELSE row.key
        keep(row) == IF isChild
                       THEN opts.hard_delete => row.root \notin FlaggedRoots(rootStage)
                       ELSE Keep(row)
    IN  {t \in T : id(t.row) \notin KeysOf(rootStage)}
          \cup {Published(s, i) : i \in {j \in Deduped(s) : keep(s[j])}}

\* A variant: with a marker set, only the marker is open.
IsActiveByMarker(t) == t.to = IF opts.marker THEN Marker ELSE Null

(***************************************************************************)
(* An open version: its valid_to is NULL, or the marker when one is set.   *)
(***************************************************************************)
IsActive(t) == t.to = Null \/ (opts.marker /\ t.to = Marker)

Retired(t, gone) == IF IsActive(t) /\ gone THEN Stored(t.row, t.from, clock) ELSE t

Scd2(T, s) ==
    LET survivor(k) == s[CHOOSE i \in Deduped(s) : s[i].key = k]
        changed(t)  == t.row.key \in KeysOf(s) /\ t.row # survivor(t.row.key)
        absent(t)   == /\ opts.retire
                       /\ t.row.key \notin KeysOf(s)
                       /\ opts.scope => t.row.scope \in DeliveredScopes(s)
        open        == IF opts.marker THEN Marker ELSE Null
        closed      == {Retired(t, changed(t)) : t \in T}
        unmatched   == {i \in Deduped(s) :
                          ~\E t \in closed : IsActive(t) /\ t.row.key = s[i].key}
        inserted    == closed \cup {Stored(s[i], clock, open) : i \in unmatched}
    IN  {Retired(t, absent(t)) : t \in inserted}

(***************************************************************************)
(* The arm of a table, and the program of a unit: every table is published *)
(* from the stages as they stand, the stages are truncated after the last  *)
(* of them, and no statement reads the target of another table.  A         *)
(* full-feed table with nothing staged is skipped.                         *)
(***************************************************************************)
ArmOf(o) == CASE ~o.shredded /\ o.strategy = "delete_insert" -> "keyed_delete_insert"
              [] ~o.shredded /\ o.strategy = "upsert"        -> "keyed_upsert"
              [] ~o.shredded /\ o.strategy = "scd2"          -> "scd2"
              [] o.shredded /\ o.strategy = "delete_insert"  -> "identity_delete_insert"
              [] OTHER                                       -> "unsupported"

Registered == IF opts.shredded THEN Tables ELSE {"root"}

\* The statement of a table's arm, on the rows T of its target.
Arm(table, T) ==
    LET s == stage[table]
    IN  CASE ArmOf(opts) = "keyed_delete_insert"    -> KeyedDeleteInsert(T, s)
          [] ArmOf(opts) = "keyed_upsert"           -> KeyedUpsert(T, s)
          [] ArmOf(opts) = "identity_delete_insert" ->
               IdentityDeleteInsert(T, s, stage["root"], table = "child")
          [] ArmOf(opts) = "scd2"                   -> Scd2(T, s)

\* A variant: every scoped table's scope is replaced, a history's too.
MergeStepsScopeFirst(table) ==
    IF FullFeed(opts) /\ stage[table] = <<>> THEN target[table]
    ELSE Arm(table, IF opts.scope THEN ScopeReplace(target[table], stage[table])
                                  ELSE target[table])

MergeSteps(table) ==
    IF FullFeed(opts) /\ stage[table] = <<>> THEN target[table]
    ELSE Arm(table, IF opts.scope /\ opts.strategy # "scd2"
                      THEN ScopeReplace(target[table], stage[table])
                      ELSE target[table])

PlanCommit ==
    /\ target' = [t \in Tables |-> IF t \in Registered THEN MergeSteps(t) ELSE target[t]]
    /\ stage' = [t \in Tables |-> IF t \in Registered THEN <<>> ELSE stage[t]]

Publish == /\ stage["root"] # <<>> \/ FullFeed(opts)
           /\ ArmOf(opts) # "unsupported"
           /\ opts.strategy = "scd2" => clock < MaxClock
           /\ PlanCommit
           /\ clock' = IF opts.strategy = "scd2" THEN clock + 1 ELSE clock
           /\ UNCHANGED <<opts, indexes>>

(***************************************************************************)
(* Between two loads an operator edits one option: another strategy of the *)
(* keyed ones, or a marker for an scd2 history that had none.  Ensuring    *)
(* the table again adds the indexes of the new plan.                       *)
(***************************************************************************)
Reconfigure ==
    /\ stage["root"] = <<>>
    /\ \E o \in Options :
         /\ Accepts(o)
         /\ o # opts
         /\ \/ /\ o = [opts EXCEPT !.strategy = o.strategy]
               /\ "scd2" \notin {o.strategy, opts.strategy}
            \/ o = [opts EXCEPT !.marker = TRUE]
         /\ opts' = o
         /\ indexes' = indexes \cup IndexPlan(o)
    /\ UNCHANGED <<stage, target, clock>>

Next == Write \/ Publish \/ Reconfigure

Spec == Init /\ [][Next]_vars
-----------------------------------------------------------------------------
TypeOK ==
    /\ opts \in Option
    /\ \A i \in DOMAIN stage["root"] : stage["root"][i].key \in Keys
    /\ \A e \in target["root"] :
         /\ e.row.key \in Keys
         /\ e.from \in IF opts.strategy = "scd2" THEN 1 .. clock ELSE {Null}
         /\ e.to = Null \/ e.to = Marker \/ e.to \in e.from .. clock
    /\ \A e \in target["child"] : e.row.root \in Keys

(***************************************************************************)
(* Validation and the planner agree: no accepted option set reaches the    *)
(* planner's construction guard, and an upsert finds the unique index its  *)
(* conflict clause names (plan/validate.rs, protocol/script.rs select_arm, *)
(* plan/index.rs).                                                         *)
(***************************************************************************)
ArmSupported ==
    /\ ArmOf(opts) # "unsupported"
    /\ ArmOf(opts) = "keyed_upsert" => [unique |-> TRUE, on |-> "key"] \in indexes
    /\ opts.hard_delete => ArmOf(opts) # "scd2"

(***************************************************************************)
(* A key has one current row, whatever a unit repeats (the survivor of     *)
(* deduped() is unique, and every arm replaces what it supersedes).        *)
(***************************************************************************)
OneCurrentRow ==
    \A e, f \in target["root"] :
        {e.to, f.to} \subseteq {Null, Marker} /\ e.row.key = f.row.key => e = f

(***************************************************************************)
(* The subtree of a root is replaced as a whole: every child's root is in  *)
(* the root table, and a root has every child delivered with its surviving *)
(* row (identity_delete_insert, flagged_roots, and the rule that stages    *)
(* are truncated only after all tables are published).                     *)
(***************************************************************************)
SubtreeWhole ==
    opts.shredded =>
      /\ \A c \in target["child"] : \E e \in target["root"] : e.row.key = c.row.root
      /\ \A e \in target["root"] : \A n \in e.row.kids :
           \E c \in target["child"] : c.row.key = <<e.row.key, n>>

(***************************************************************************)
(* scd2 keeps history: a version is never rewritten or dropped, a closed   *)
(* one never reopens, and the next version of a key opens no earlier than  *)
(* the last one closed.                                                    *)
(***************************************************************************)
HistoryKept ==
    [][opts.strategy = "scd2" =>
         \A e \in target["root"] :
           /\ \E f \in target'["root"] :
                /\ <<f.row, f.from>> = <<e.row, e.from>>
                /\ ~IsActive(e) => f.to = e.to
           /\ \A f \in target'["root"] :
                f.row.key = e.row.key /\ f \notin target["root"] /\ ~IsActive(e)
                  => f.from >= e.to]_vars

(***************************************************************************)
(* Every strategy shows a reader the same table: the current rows of the   *)
(* target are the keyed view of the units published so far, and the set    *)
(* that deduplication leaves of a stage is what one pass over its rows in  *)
(* arrival order would keep.                                               *)
(***************************************************************************)
CurrentRow(k) ==
    IF \E e \in target["root"] : IsActive(e) /\ e.row.key = k
      THEN (CHOOSE e \in target["root"] : IsActive(e) /\ e.row.key = k).row
      ELSE Null

Survivor(k) ==
    IF k \in KeysOf(stage["root"])
      THEN stage["root"][CHOOSE i \in Deduped(stage["root"]) : stage["root"][i].key = k]
      ELSE Null

Reader == INSTANCE KeyedView
          WITH kept   <- [k \in Keys |-> Survivor(k)],
               scopes <- DeliveredScopes(stage["root"]),
               spoken <- stage["root"] # <<>>,
               view   <- [k \in Keys |-> CurrentRow(k)]

ImplementsKeyedView == Reader!Spec
=============================================================================
