--------------------------- MODULE MCPostgresCdc ----------------------------
(***************************************************************************)
(* Change capture of the postgres source: the slot and the streams of a    *)
(* run (PgCdc), what a pass makes of the messages (PgApply), and what      *)
(* becomes of one value (PgValues). A behaviour is one of the instances,   *)
(* chosen in its first state; the PgCdc this module extends has catch-up   *)
(* runs that fail, crash and lose their slot.                              *)
(***************************************************************************)
EXTENDS PgCdc, Integers

CONSTANTS Toast, Null

VARIABLE which \* the instance that runs

-----------------------------------------------------------------------------
(* Catch-up runs over a longer log, without failing attempts. *)
\* The two streams are interchangeable: the first commit is "a"'s.
FirstIsA(log) == log # <<>> => log[1].table = "a"

VARIABLES long_wal, long_slot, long_applied, long_cursor, long_fed,
          long_running, long_ensured, long_made, long_target, long_horizon,
          long_view, long_floor, long_pending, long_pc, long_since, long_pos,
          long_goal, long_wedged, long_fails, long_crashes, long_drops

longVars == <<long_wal, long_slot, long_applied, long_cursor, long_fed,
              long_running, long_ensured, long_made, long_target,
              long_horizon, long_view, long_floor, long_pending, long_pc,
              long_since, long_pos, long_goal, long_wedged, long_fails,
              long_crashes, long_drops>>
Long == INSTANCE PgCdc WITH
  Stream <- {"a", "b"}, TailMode <- FALSE, MaxWal <- 3, MaxBad <- 0, MaxFail
  <- 0, MaxCrash <- 1, MaxDrop <- 1,
  wal <- long_wal, slot <- long_slot, applied <- long_applied, cursor <-
  long_cursor, fed <- long_fed, running <- long_running, ensured <-
  long_ensured, made <- long_made, target <- long_target, horizon <-
  long_horizon, view <- long_view, floor <- long_floor, pending <-
  long_pending, pc <- long_pc, since <- long_since, pos <- long_pos, goal <-
  long_goal, wedged <- long_wedged, fails <- long_fails, crashes <-
  long_crashes, drops <- long_drops

-----------------------------------------------------------------------------
(* Tail mode, with a commit that cannot be applied. *)
VARIABLES tail_wal, tail_slot, tail_applied, tail_cursor, tail_fed,
          tail_running, tail_ensured, tail_made, tail_target, tail_horizon,
          tail_view, tail_floor, tail_pending, tail_pc, tail_since, tail_pos,
          tail_goal, tail_wedged, tail_fails, tail_crashes, tail_drops

tailVars == <<tail_wal, tail_slot, tail_applied, tail_cursor, tail_fed,
              tail_running, tail_ensured, tail_made, tail_target,
              tail_horizon, tail_view, tail_floor, tail_pending, tail_pc,
              tail_since, tail_pos, tail_goal, tail_wedged, tail_fails,
              tail_crashes, tail_drops>>
Wedge == INSTANCE PgCdc WITH
  Stream <- {"a", "b"}, TailMode <- TRUE, MaxWal <- 2, MaxBad <- 1, MaxFail <-
  0, MaxCrash <- 0, MaxDrop <- 0,
  wal <- tail_wal, slot <- tail_slot, applied <- tail_applied, cursor <-
  tail_cursor, fed <- tail_fed, running <- tail_running, ensured <-
  tail_ensured, made <- tail_made, target <- tail_target, horizon <-
  tail_horizon, view <- tail_view, floor <- tail_floor, pending <-
  tail_pending, pc <- tail_pc, since <- tail_since, pos <- tail_pos, goal <-
  tail_goal, wedged <- tail_wedged, fails <- tail_fails, crashes <-
  tail_crashes, drops <- tail_drops

-----------------------------------------------------------------------------
(* Tail mode, with an attempt that fails. *)
VARIABLES flaky_wal, flaky_slot, flaky_applied, flaky_cursor, flaky_fed,
          flaky_running, flaky_ensured, flaky_made, flaky_target,
          flaky_horizon, flaky_view, flaky_floor, flaky_pending, flaky_pc,
          flaky_since, flaky_pos, flaky_goal, flaky_wedged, flaky_fails,
          flaky_crashes, flaky_drops

flakyVars == <<flaky_wal, flaky_slot, flaky_applied, flaky_cursor, flaky_fed,
               flaky_running, flaky_ensured, flaky_made, flaky_target,
               flaky_horizon, flaky_view, flaky_floor, flaky_pending,
               flaky_pc, flaky_since, flaky_pos, flaky_goal, flaky_wedged,
               flaky_fails, flaky_crashes, flaky_drops>>
Flaky == INSTANCE PgCdc WITH
  Stream <- {"a", "b"}, TailMode <- TRUE, MaxWal <- 2, MaxBad <- 0, MaxFail <-
  1, MaxCrash <- 0, MaxDrop <- 0,
  wal <- flaky_wal, slot <- flaky_slot, applied <- flaky_applied, cursor <-
  flaky_cursor, fed <- flaky_fed, running <- flaky_running, ensured <-
  flaky_ensured, made <- flaky_made, target <- flaky_target, horizon <-
  flaky_horizon, view <- flaky_view, floor <- flaky_floor, pending <-
  flaky_pending, pc <- flaky_pc, since <- flaky_since, pos <- flaky_pos, goal
  <- flaky_goal, wedged <- flaky_wedged, fails <- flaky_fails, crashes <-
  flaky_crashes, drops <- flaky_drops

-----------------------------------------------------------------------------
(* What a pass makes of the messages, row by row. *)
\* One row is there before the log.
SomeRows == <<"x", Null>>

VARIABLES apply_covers, apply_table, apply_columns, apply_log, apply_open,
          apply_history, apply_ops, apply_bad, apply_drifts, apply_resets,
          apply_deaths, apply_confirmed, apply_cursor, apply_sink, apply_view,
          apply_st, apply_start, apply_reflected, apply_target, apply_tx,
          apply_msg, apply_relation, apply_txRows, apply_ready, apply_txError,
          apply_pending

applyVars == <<apply_covers, apply_table, apply_columns, apply_log,
               apply_open, apply_history, apply_ops, apply_bad, apply_drifts,
               apply_resets, apply_deaths, apply_confirmed, apply_cursor,
               apply_sink, apply_view, apply_st, apply_start, apply_reflected,
               apply_target, apply_tx, apply_msg, apply_relation,
               apply_txRows, apply_ready, apply_txError, apply_pending>>
Apply == INSTANCE PgApply WITH
  Keys <- {1, 2}, Values <- {"x", "y"}, FirstTable <- SomeRows, MaxOps <- 2,
  MaxBad <- 1, MaxDrift <- 1, MaxResets <- 1, MaxDeaths <- 1, BatchMax <- 2,
  Toast <- Toast, Null <- Null,
  covers <- apply_covers, table <- apply_table, columns <- apply_columns, log
  <- apply_log, open <- apply_open, history <- apply_history, ops <-
  apply_ops, bad <- apply_bad, drifts <- apply_drifts, resets <- apply_resets,
  deaths <- apply_deaths, confirmed <- apply_confirmed, cursor <-
  apply_cursor, sink <- apply_sink, view <- apply_view, st <- apply_st, start
  <- apply_start, reflected <- apply_reflected, target <- apply_target, tx <-
  apply_tx, msg <- apply_msg, relation <- apply_relation, txRows <-
  apply_txRows, ready <- apply_ready, txError <- apply_txError, pending <-
  apply_pending

-----------------------------------------------------------------------------
(* One value through both faces and back; 2 and 6 digits for 4 and 38. *)
ValueColumn(oid) ==
  [oid |-> oid, typtype |-> "b", typcategory |-> "X", precision |-> 0, scale |-> 0]
NumericColumn(p, s) == [ValueColumn("numeric") EXCEPT !.precision = p, !.scale = s]
ScalarTypes == {"bool", "int4", "float4", "float8", "text", "bytea", "timestamptz",
                "timestamp", "date", "time", "uuid", "json", "jsonb", "interval", "numeric"}
PgColumns ==
  {ValueColumn(o) : o \in ScalarTypes}
  \cup {NumericColumn(6, 1), NumericColumn(6, 2), NumericColumn(5, 3), NumericColumn(3, 5)}
  \cup {[ValueColumn("int4") EXCEPT !.typcategory = "A"],
        [ValueColumn("mood") EXCEPT !.typtype = "e"]}
Hint(h) == [hint |-> h, precision |-> 0, scale |-> 0]
PgHints ==
  {Hint(h) : h \in {"none", "utf8", "int64", "float64", "bool", "timestamp_tz",
                    "timestamp_naive", "date", "time", "uuid", "json", "binary"}}
  \cup {[hint |-> "decimal", precision |-> 4, scale |-> 1]}
\* Both infinities, days no four-digit year names, and ordinary ones.
Days == {-100, -30, 0, 7, 30, 99, 100, 101}
Forms(type) ==
  CASE type = "bool" -> {<<type, b>> : b \in BOOLEAN}
    [] type = "int4" -> {<<"int", i>> : i \in {-3, 0, 1}}
    [] type \in {"float4", "float8"} -> {<<type, <<"numeric", x, 1>>>> : x \in {1, 5}}
    [] type \in {"timestamptz", "timestamp", "date"} -> {<<type, d>> : d \in Days}
    [] type = "time" -> {<<type, t>> : t \in {0, 9, 10}}
    [] type = "numeric" -> {<<type, v, s>> : v \in {-15, 0, 100, 1234}, s \in {0, 2, 3}}
    [] OTHER -> {<<type, "x">>}
\* A text column holds what the server would print of another type, and the
\* same spelled otherwise.
TextForms ==
  UNION {Forms(t) : t \in {"word", "bool", "int4", "numeric", "date", "time",
                           "uuid", "json", "bytea"}}
Amounts(p) == {-15, 0, 7, 100, 1234, 25000, 10 ^ p - 1, 1 - 10 ^ p}
PgHeld(c) ==
  CASE c.typcategory = "A" -> {<<"array", "x">>}
    [] c.oid = "numeric" /\ c.precision > 0 ->
         {<<"numeric", v, c.scale>> : v \in Amounts(c.precision)}
    [] c.oid = "text" -> TextForms \cup {<<"loose", f>> : f \in TextForms}
    [] OTHER -> Forms(c.oid)

VARIABLES val_column, val_hint, val_value, val_snapshot, val_change,
          val_written, val_bound

valVars == <<val_column, val_hint, val_value, val_snapshot, val_change,
             val_written, val_bound>>
Values == INSTANCE PgValues WITH
  Columns <- PgColumns, Hints <- PgHints, Held <- PgHeld, GroupDigits <- 2,
  MaxPrecision <- 6, MaxInt <- 1701411, PgEpoch <- 3, CalendarFirst <- 0 - 20,
  CalendarLast <- 20, Far <- 100, Day <- 10,
  column <- val_column, hint <- val_hint, value <- val_value, snapshot <-
  val_snapshot, change <- val_change, written <- val_written, bound <-
  val_bound

-----------------------------------------------------------------------------
(* The assumptions of the modules hold of these instances. *)
ASSUME InstancesSane ==
  /\ Long!CdcAssumption /\ Wedge!CdcAssumption
  /\ Flaky!CdcAssumption /\ Apply!ApplyAssumption

allVars == <<which, vars, longVars, tailVars, flakyVars, applyVars, valVars>>

(* What an instance that does not run would have chosen. *)
MCInit ==
  /\ which \in {"retry", "long", "tail", "flaky", "apply", "val"}
  /\ Init
  /\ Long!Init
  /\ Wedge!Init
  /\ Flaky!Init
  /\ Apply!Init
  /\ which # "apply" => apply_covers
  /\ Values!Init
  /\ which # "val" => val_column = ValueColumn("bool") /\ val_hint = Hint("none") /\ val_value[2]

MCNext ==
  \/ which = "retry" /\ Next /\ FirstIsA(wal')
       /\ UNCHANGED <<which, longVars, tailVars, flakyVars, applyVars,
                             valVars>>
  \/ which = "long" /\ Long!Next /\ FirstIsA(long_wal')
       /\ UNCHANGED <<which, vars, tailVars, flakyVars, applyVars, valVars>>
  \/ which = "tail" /\ Wedge!Next /\ FirstIsA(tail_wal')
       /\ UNCHANGED <<which, vars, longVars, flakyVars, applyVars, valVars>>
  \/ which = "flaky" /\ Flaky!Next /\ FirstIsA(flaky_wal')
       /\ UNCHANGED <<which, vars, longVars, tailVars, applyVars, valVars>>
  \/ which = "apply" /\ Apply!Next
       /\ UNCHANGED <<which, vars, longVars, tailVars, flakyVars, valVars>>
  \/ which = "val" /\ Values!Next
       /\ UNCHANGED <<which, vars, longVars, tailVars, flakyVars, applyVars>>

MCSpec == MCInit /\ [][MCNext]_allVars

(* The fairness of PgCdc, for the instances that follow the tail. *)
MCFairSpec ==
  /\ MCSpec
  /\ WF_tailVars(which = "tail" /\ Wedge!StartRun) /\ WF_tailVars(which = "tail" /\ Wedge!RunEnds)
  /\ \A t \in {"a", "b"} :
       /\ WF_tailVars(which = "tail" /\ Wedge!Read(t))
       /\ WF_tailVars(which = "tail" /\ Wedge!EngineCommit(t))
       /\ WF_tailVars(which = "tail" /\ Wedge!ResetStream(t))
  /\ WF_flakyVars(which = "flaky" /\ Flaky!StartRun) /\ WF_flakyVars(which = "flaky" /\ Flaky!RunEnds)
  /\ \A t \in {"a", "b"} :
       /\ WF_flakyVars(which = "flaky" /\ Flaky!Read(t))
       /\ WF_flakyVars(which = "flaky" /\ Flaky!EngineCommit(t))
       /\ WF_flakyVars(which = "flaky" /\ Flaky!ResetStream(t))

-----------------------------------------------------------------------------
(* What is checked: the properties of the modules, under names of their own. *)

\* All instances keep their types.  In the others too the tables one run fills
\* end at one instant (PgCdc!OneInstant), and where nobody drops the slot there
\* is never a gap, whatever fails or is reset (PgCdc!NoGap: cursors, floors).
NoGapUndropped ==
  /\ TypeOK /\ Long!TypeOK /\ Wedge!TypeOK /\ Flaky!TypeOK
  /\ Long!OneInstant
  /\ Wedge!NoGap /\ Flaky!NoGap

\* Every commit arrives in the end, past failed attempts and commits that
\* cannot be applied (PgCdc!CaughtUp).
AllCaughtUp == (which = "tail" => Wedge!CaughtUp) /\ (which = "flaky" => Flaky!CaughtUp)

\* The destination's table is one the server had, row by row
\* (PgApply!SinkIsHistory).
SinkIsHistory == Apply!SinkIsHistory

\* No face, no encoding and no predicate changes a value (PgValues!FacesAgree, RoundTrips,
\* LiteralExact).
ValuesKept == Values!ValuesKept

\* "A form is never parsed two ways by accident" (PgValues!SameEitherWay).
SameEitherWay == Values!SameEitherWay
=============================================================================
