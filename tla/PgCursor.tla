------------------------------ MODULE PgCursor ------------------------------
(***************************************************************************)
(* The incremental read of the postgres source: one COPY per run, ordered  *)
(* by the cursor column, a tracker that drops the rows of the stored       *)
(* boundary and offers a resume state after every batch, and the engine    *)
(* that commits what was pushed together with such a state.                *)
(*                                                                         *)
(* A row version is [key, at, rev]: its primary key, its cursor value, and *)
(* which of two contents it has under them.  The tracker tells rows apart  *)
(* by key, as of a table with a primary key; without one it hashes the     *)
(* row.  The direction is max; min is the same order read backwards.       *)
(***************************************************************************)
EXTENDS Integers, FiniteSets, FiniteSetsExt

CONSTANTS Keys,      \* primary keys
          MaxValue,  \* cursor values are 1 .. MaxValue
          MaxBatch,  \* rows of one decoded batch
          Null,
          Configs    \* the cursor configurations tried: see Config

VARIABLES config,     \* the stream's cursor configuration
          table,      \* the rows visible at the server
          newest,     \* the highest cursor value ever visible
          phase,      \* "idle", "reading" or "failed" (a typed, fatal error)
          rest,       \* rows of the COPY not decoded yet
          tracker,    \* [stored, last, keys, emitted] of the run
          pushed,     \* rows pushed and not committed: [covered, tail]
          checkpoint, \* the newest state offered by this run, or Null
          committed,  \* the state committed with the destination, or Null
          got,        \* row versions the destination holds
          twice       \* row versions it was sent more than once

run  == <<phase, rest, tracker, pushed, checkpoint>>
dest == <<committed, got, twice>>
vars == <<config, table, newest, run, dest>>

Values == 1 .. MaxValue

(***************************************************************************)
(* lag 0 stands for no lag; initial and end are Null when not configured;  *)
(* coarse stamps may come twice to one row, as from a clock.               *)
(***************************************************************************)
Config == [coarse : BOOLEAN, inclusive : BOOLEAN, lag : {0, 1},
           nulls : {"exclude", "include", "error"}, initial : {Null, 2}, end : {Null, 2}]

\* plan::resolve: a lag needs the inclusive boundary (and a key, given here).
Resolves(c) == c.lag > 0 => c.inclusive

State(watermark, keys) == [watermark |-> watermark, keys |-> keys]

NewTracker(stored) == [stored |-> stored, last |-> Null, keys |-> {}, emitted |-> Null]
NothingPushed == [covered |-> {}, tail |-> {}]

CursorAssumption ==
    /\ MaxValue \in Nat
    /\ Configs \subseteq Config
    /\ Null \notin Values \cup [watermark : Values, keys : SUBSET Keys]

Init == /\ config \in {c \in Configs : Resolves(c)}
        /\ table = {} /\ newest = 0
        /\ phase = "idle" /\ rest = {} /\ tracker = NewTracker(Null)
        /\ pushed = NothingPushed /\ checkpoint = Null
        /\ committed = Null /\ got = {} /\ twice = {}
-----------------------------------------------------------------------------
(***************************************************************************)
(* The source table.  A transaction inserts or touches a row and stamps    *)
(* the cursor; it may become visible after rows with a higher stamp, but   *)
(* not by more than the lag the operator configured, and with an exclusive *)
(* boundary stamps are strictly increasing, as that option demands.  Under *)
(* an inclusive one a coarse stamp may come to a row once more.            *)
(***************************************************************************)
InTime(v) == IF config.inclusive THEN v >= newest - config.lag ELSE v > newest

Version(key, v, rev) == [key |-> key, at |-> v, rev |-> rev]

\* Bound: one version at a time is a second one at its stamp.
MayRewrite == config.coarse /\ \A r \in table \cup got : r.rev = 0

Touch(key) ==
    /\ \E v \in Values \cup {Null}, rev \in {0, 1} :
         /\ v # Null => InTime(v)
         /\ v = Null => config.nulls # "exclude"
         /\ Version(key, v, rev) \notin table
         /\ rev = 1 => v # Null /\ Version(key, v, 0) \in table \cup got /\ MayRewrite
         /\ \A r \in table : r.key = key /\ r.at # Null /\ v # Null =>
              v > r.at \/ (v = r.at /\ rev = 1)
         /\ table' = {r \in table : r.key # key} \cup {Version(key, v, rev)}
         /\ newest' = IF v = Null THEN newest ELSE Max({newest, v})
    /\ UNCHANGED <<config, run, dest>>

Remove(key) ==
    /\ \E r \in table : r.key = key
    /\ table' = {r \in table : r.key # key}
    /\ UNCHANGED <<config, newest, run, dest>>
-----------------------------------------------------------------------------
(***************************************************************************)
(* The window of the COPY: the stored watermark, closed when the state has *)
(* boundary keys or when a lag widens it, else the configured first lower  *)
(* bound; the configured end; and NULL cursors unless they are excluded.   *)
(***************************************************************************)
AboveLower(v, stored) ==
    IF stored # Null
      THEN \/ v > stored.watermark - config.lag
           \/ v = stored.watermark - config.lag /\ (stored.keys # {} \/ config.lag > 0)
      ELSE config.initial = Null \/ v > config.initial \/ (config.inclusive /\ v = config.initial)

BelowEnd(v) == config.end = Null \/ v < config.end

InWindow(r, stored) ==
    IF r.at = Null THEN config.nulls # "exclude"
                   ELSE AboveLower(r.at, stored) /\ BelowEnd(r.at)

Before(r, s) == s.at # Null /\ (r.at = Null \/ r.at < s.at)

StartRead ==
    /\ phase = "idle"
    /\ phase' = "reading"
    /\ rest' = {r \in table : InWindow(r, committed)}
    /\ tracker' = NewTracker(committed)
    /\ pushed' = NothingPushed
    /\ checkpoint' = Null
    /\ UNCHANGED <<config, table, newest, dest>>

\* A variant: any row at the watermark is taken for a duplicate.
DuplicateAtWatermark(r) == tracker.stored # Null /\ r.at = tracker.stored.watermark

(***************************************************************************)
(* The tracker over one batch of the ordered stream.                       *)
(***************************************************************************)
Duplicate(r) ==
    LET stored == tracker.stored
    IN  stored # Null /\ r.at = stored.watermark /\ r.key \in stored.keys

Tracked(kept) ==
    LET valued == {r \in kept : r.at # Null}
        top    == Max({r.at : r \in valued})
        atTop  == {r.key : r \in {x \in valued : x.at = top}}
    IN  IF valued = {} THEN tracker
        ELSE [tracker EXCEPT !.last = top,
                             !.keys = IF tracker.last = top THEN @ \cup atTop ELSE atTop]

\* The stream is still below the committed watermark, inside the lag window.
Behind(t) == t.stored # Null /\ t.last < t.stored.watermark

\* A variant: the keys delivered before at the same watermark are lost.
CurrentStateForgetful(t) ==
    CASE t.last = Null              -> Null
      [] t.last # Null /\ Behind(t) -> Null
      [] OTHER                      -> State(t.last, t.keys)

\* A variant: the watermark may move back.
CurrentStateUnguarded(t) == IF t.last = Null THEN Null ELSE State(t.last, t.keys)

(***************************************************************************)
(* The resume-safe state of a tracker, or Null when nothing advanced.      *)
(***************************************************************************)
CurrentState(t) ==
    CASE t.last = Null              -> Null
      [] t.last # Null /\ Behind(t) -> Null
      [] t.last # Null /\ t.stored # Null /\ t.last = t.stored.watermark ->
           State(t.last, t.keys \cup t.stored.keys)
      [] OTHER                      -> State(t.last, t.keys)

Signature(state) == <<state.watermark, Cardinality(state.keys)>>

(***************************************************************************)
(* One decoded batch: the surviving rows are pushed, then the state they   *)
(* are covered by is offered, unless it repeats the last one.  A NULL      *)
(* cursor under nulls: error fails the run before the batch is pushed.     *)
(***************************************************************************)
Batch ==
    /\ phase = "reading" /\ rest # {}
    /\ \E B \in SUBSET rest :
         /\ B # {} /\ Cardinality(B) <= MaxBatch
         /\ \A r \in B, s \in rest \ B : ~Before(s, r)
         /\ rest' = rest \ B
         /\ IF config.nulls = "error" /\ \E r \in B : r.at = Null
              THEN /\ phase' = "failed"
                   /\ UNCHANGED <<tracker, pushed, checkpoint>>
              ELSE LET kept  == {r \in B : ~Duplicate(r)}
                       t     == Tracked(kept)
                       state == CurrentState(t)
                       fresh == state # Null /\ (t.emitted = Null \/ t.emitted # Signature(state))
                   IN  /\ phase' = phase
                       /\ tracker' = IF fresh THEN [t EXCEPT !.emitted = Signature(state)] ELSE t
                       /\ pushed' = IF fresh
                                      THEN [covered |-> pushed.covered \cup pushed.tail \cup kept,
                                            tail |-> {}]
                                      ELSE [pushed EXCEPT !.tail = @ \cup kept]
                       /\ checkpoint' = IF fresh THEN state ELSE checkpoint
    /\ UNCHANGED <<config, table, newest, dest>>

(***************************************************************************)
(* The engine commits rows and state in one unit: what a state covers, at  *)
(* any time while the run reads, and all of it when the run has ended.     *)
(***************************************************************************)
Absorb(rows, state) ==
    /\ got' = got \cup rows
    /\ twice' = twice \cup (rows \cap got)
    /\ committed' = IF state = Null THEN committed ELSE state

EngineCommit ==
    /\ phase = "reading" /\ checkpoint # Null /\ pushed.covered # {}
    /\ Absorb(pushed.covered, checkpoint)
    /\ pushed' = [pushed EXCEPT !.covered = {}]
    /\ UNCHANGED <<config, table, newest, phase, rest, tracker, checkpoint>>

(***************************************************************************)
(* The stream ends: the final state, without keys under an exclusive       *)
(* boundary, covers everything; the engine commits the rest of the run.    *)
(***************************************************************************)
FinalState ==
    LET state == CurrentState(tracker)
    IN  IF state # Null /\ ~config.inclusive THEN [state EXCEPT !.keys = {}] ELSE state

FinishRead ==
    /\ phase = "reading" /\ rest = {}
    /\ phase' = "idle"
    /\ Absorb(pushed.covered \cup pushed.tail,
              IF FinalState # Null THEN FinalState ELSE checkpoint)
    /\ tracker' = NewTracker(Null) /\ pushed' = NothingPushed /\ checkpoint' = Null
    /\ UNCHANGED <<config, table, newest, rest>>

(***************************************************************************)
(* A lost connection, a crash or a cancellation: what was not committed is *)
(* gone and the next run starts from the committed state.  After a typed   *)
(* failure the operator repairs the NULL and runs again.                   *)
(***************************************************************************)
RunFails ==
    /\ phase \in {"reading", "failed"}
    /\ phase' = "idle"
    /\ rest' = {} /\ tracker' = NewTracker(Null) /\ pushed' = NothingPushed /\ checkpoint' = Null
    /\ UNCHANGED <<config, table, newest, dest>>

Next == \/ \E key \in Keys : Touch(key) \/ Remove(key)
        \/ StartRead \/ Batch \/ EngineCommit \/ FinishRead \/ RunFails

Spec == Init /\ [][Next]_vars
-----------------------------------------------------------------------------
TypeOK == /\ config \in Config
          /\ table \subseteq [key : Keys, at : Values \cup {Null}, rev : {0, 1}]
          /\ phase \in {"idle", "reading", "failed"}
          /\ pushed.covered \cap pushed.tail = {}
          /\ committed # Null => committed.watermark \in Values /\ committed.keys \subseteq Keys
          /\ rest # {} => phase # "idle"

(***************************************************************************)
(* Nothing is skipped: of a row the server shows and the configuration     *)
(* asks for, the destination has a version with the stamp it has now, or   *)
(* the row is inside the window of the next run and not dropped there as a *)
(* duplicate, whatever batch a run stopped at (cursor/tracker.rs process   *)
(* and current_state, cursor/prepare.rs).  A version is not a content: an  *)
(* update that keeps the stamp and key of a row already delivered at the   *)
(* watermark is a duplicate to process, and is not delivered.              *)
(***************************************************************************)
NothingSkipped ==
    \A r \in table : r.at # Null /\ InWindow(r, Null) =>
        \/ \E s \in got : s.key = r.key /\ s.at = r.at
        \/ /\ InWindow(r, committed)
           /\ committed # Null => ~(r.at = committed.watermark /\ r.key \in committed.keys)

(***************************************************************************)
(* Without a lag a row version reaches the destination once, though every  *)
(* resume reads the boundary again; only NULL cursors are sent on every    *)
(* run.                                                                    *)
(***************************************************************************)
DeliveredOnce == config.lag = 0 => \A r \in twice : r.at = Null

(***************************************************************************)
(* A committed state never goes back: the watermark does not fall, and at  *)
(* an unchanged watermark no boundary key is forgotten unless the boundary *)
(* is exclusive (current_state's regression guard and key merge).          *)
(***************************************************************************)
StateAdvances ==
    [][committed # Null =>
         /\ committed' # Null
         /\ committed'.watermark >= committed.watermark
         /\ committed'.watermark = committed.watermark /\ config.inclusive
              => committed.keys \subseteq committed'.keys]_committed
=============================================================================
