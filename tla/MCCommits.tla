------------------------------ MODULE MCCommits ------------------------------
(***************************************************************************)
(* The commit protocols of four destinations, on one small instance        *)
(* each.  A behaviour is a behaviour of one of them, chosen in its first   *)
(* state; the others stay in their initial states.  The SqlCommit this     *)
(* module extends is postgres, whose rows go straight to the target.       *)
(***************************************************************************)
EXTENDS SqlCommit, TLC

TwoTables == {"log", "dim"}
BothModes == "log" :> "append" @@ "dim" :> "replace"
AllKinds == {"log", "dim", "feed"}
KindModes == "log" :> "append" @@ "dim" :> "replace" @@ "feed" :> "feed"

\* The feeds of the postgres destination this module extends: the second
\* load's replace rows come only with its second commit; only the first load
\* brings a feed, whole in its second commit.
LateReplace(u, t) ==
  CASE t = "log"  -> 1
    [] t = "dim"  -> IF u.load = 2 THEN u.seq - 1 ELSE 1
    [] t = "feed" -> IF u.load = 1 THEN u.seq - 1 ELSE 0

VARIABLE which \* the instance that runs

-----------------------------------------------------------------------------
(* File destination, whose sessions crash: two rows in a load's first commit. *)
\* Two rows in a load's first commit, one in the second; in the second load the
\* append table is first heard of in the second commit.
EvenFeed(u, t) == IF t = "log" /\ u.load = 2 THEN u.seq - 1 ELSE 3 - u.seq

VARIABLES crash_finals, crash_durable, crash_manifest, crash_receipts,
          crash_stateDoc, crash_cur, crash_acked, crash_pc, crash_tables,
          crash_sent, crash_open, crash_staged, crash_touched, crash_dirty,
          crash_deaths

crashVars == <<crash_finals, crash_durable, crash_manifest, crash_receipts,
               crash_stateDoc, crash_cur, crash_acked, crash_pc, crash_tables,
               crash_sent, crash_open, crash_staged, crash_touched,
               crash_dirty, crash_deaths>>
Crash == INSTANCE FileLoad WITH
  Table <- TwoTables, Mode <- BothModes, MaxLoad <- 2, MaxSeq <- 2, Feed <-
  EvenFeed, Arm <- "local", Late <- {"log"}, Power <- FALSE, MaxDeaths <- 2,
  finals <- crash_finals, durable <- crash_durable, manifest <-
  crash_manifest, receipts <- crash_receipts, stateDoc <- crash_stateDoc, cur
  <- crash_cur, acked <- crash_acked, pc <- crash_pc, tables <- crash_tables,
  sent <- crash_sent, open <- crash_open, staged <- crash_staged, touched <-
  crash_touched, dirty <- crash_dirty, deaths <- crash_deaths

-----------------------------------------------------------------------------
(* File destination, whose host loses power: every unit one row per table. *)
OneRow(u, t) == 1

VARIABLES power_finals, power_durable, power_manifest, power_receipts,
          power_stateDoc, power_cur, power_acked, power_pc, power_tables,
          power_sent, power_open, power_staged, power_touched, power_dirty,
          power_deaths

powerVars == <<power_finals, power_durable, power_manifest, power_receipts,
               power_stateDoc, power_cur, power_acked, power_pc, power_tables,
               power_sent, power_open, power_staged, power_touched,
               power_dirty, power_deaths>>
Power == INSTANCE FileLoad WITH
  Table <- TwoTables, Mode <- BothModes, MaxLoad <- 2, MaxSeq <- 2, Feed <-
  OneRow, Arm <- "local", Late <- {}, Power <- TRUE, MaxDeaths <- 3,
  finals <- power_finals, durable <- power_durable, manifest <-
  power_manifest, receipts <- power_receipts, stateDoc <- power_stateDoc, cur
  <- power_cur, acked <- power_acked, pc <- power_pc, tables <- power_tables,
  sent <- power_sent, open <- power_open, staged <- power_staged, touched <-
  power_touched, dirty <- power_dirty, deaths <- power_deaths

-----------------------------------------------------------------------------
(* DuckDB: every table is published from a stage. *)
\* The second load splits its feed over two units; the third has no rows for
\* the replace table.
SplitFeed(u, t) ==
  CASE t = "log"  -> 1
    [] t = "dim"  -> IF u.load = 3 THEN 0 ELSE 1
    [] t = "feed" -> IF u.load = 2 THEN 1 ELSE u.seq - 1

VARIABLES staged_db, staged_zombie, staged_cur, staged_acked, staged_deaths,
          staged_pc, staged_target, staged_tables, staged_sent, staged_unit,
          staged_stage, staged_clearedTargets, staged_singleUnitDone

stagedVars == <<staged_db, staged_zombie, staged_cur, staged_acked,
                staged_deaths, staged_pc, staged_target, staged_tables,
                staged_sent, staged_unit, staged_stage, staged_clearedTargets,
                staged_singleUnitDone>>
Staged == INSTANCE SqlCommit WITH
  Table <- AllKinds, Mode <- KindModes, MaxLoad <- 3, MaxSeq <- 2, Feed <-
  SplitFeed, Path <- "staged", Late <- {"log", "feed"}, MaxDeaths <- 4,
  db <- staged_db, zombie <- staged_zombie, cur <- staged_cur, acked <-
  staged_acked, deaths <- staged_deaths, pc <- staged_pc, target <-
  staged_target, tables <- staged_tables, sent <- staged_sent, unit <-
  staged_unit, stage <- staged_stage, clearedTargets <- staged_clearedTargets,
  singleUnitDone <- staged_singleUnitDone

-----------------------------------------------------------------------------
(* Snowflake: parts on a stage, DDL that commits, one column added. *)
\* The first unit has two rows of the table whose schema evolves.
SnowFeed(u, t) ==
  CASE t = "log"  -> IF u = [load |-> 1, seq |-> 1] THEN 2 ELSE u.load - 1
    [] t = "dim"  -> IF u.load = 1 THEN 2 - u.seq ELSE u.seq - 1
    [] t = "feed" -> 2 - u.load

VARIABLES snow_db, snow_zombie, snow_remote, snow_strays, snow_cur,
          snow_acked, snow_deaths, snow_narrowed, snow_pc, snow_sent, snow_tx,
          snow_load

snowVars == <<snow_db, snow_zombie, snow_remote, snow_strays, snow_cur,
              snow_acked, snow_deaths, snow_narrowed, snow_pc, snow_sent,
              snow_tx, snow_load>>
Snow == INSTANCE SnowflakeLoad WITH
  Table <- AllKinds, Mode <- KindModes, MaxLoad <- 2, MaxSeq <- 2, Feed <-
  SnowFeed, Late <- {"log"}, Evolving <- {"log"}, MaxVersion <- 2, Prompt <-
  TRUE, MaxDeaths <- 1,
  db <- snow_db, zombie <- snow_zombie, remote <- snow_remote, strays <-
  snow_strays, cur <- snow_cur, acked <- snow_acked, deaths <- snow_deaths,
  narrowed <- snow_narrowed, pc <- snow_pc, sent <- snow_sent, tx <- snow_tx,
  load <- snow_load

-----------------------------------------------------------------------------
(* The assumptions of the modules hold of these instances. *)
ASSUME InstancesSane ==
  /\ Crash!LoadAssumption /\ Power!LoadAssumption
  /\ SqlAssumption /\ Staged!SqlAssumption
  /\ LateAssumption /\ Staged!LateAssumption
  /\ Snow!SnowAssumption

allVars == <<which, crashVars, powerVars, vars, stagedVars, snowVars>>

MCInit ==
  /\ which \in {"crash", "power", "direct", "staged", "snow"}
  /\ Crash!Init
  /\ Power!Init
  /\ Init
  /\ Staged!Init
  /\ Snow!Init

MCNext ==
  \/ which = "crash" /\ Crash!Next
       /\ UNCHANGED <<which, powerVars, vars, stagedVars, snowVars>>
  \/ which = "power" /\ Power!Next
       /\ UNCHANGED <<which, crashVars, vars, stagedVars, snowVars>>
  \/ which = "direct" /\ Next
       /\ UNCHANGED <<which, crashVars, powerVars, stagedVars, snowVars>>
  \/ which = "staged" /\ Staged!Next
       /\ UNCHANGED <<which, crashVars, powerVars, vars, snowVars>>
  \/ which = "snow" /\ Snow!Next
       /\ UNCHANGED <<which, crashVars, powerVars, vars, stagedVars>>

MCSpec == MCInit /\ [][MCNext]_allVars

(* The fairness of each module, where a property below needs it. *)
MCFairSpec ==
  /\ MCSpec
  /\ WF_powerVars(which = "power" /\ Power!Progress)
  /\ WF_vars(which = "direct" /\ Progress)
  /\ WF_vars(which = "direct" /\ ZombieEnds)
  /\ WF_snowVars(which = "snow" /\ Snow!Progress)
  /\ WF_snowVars(which = "snow" /\ Snow!ZombieEnds)

-----------------------------------------------------------------------------
(* What is checked: the properties of the modules, under names of their own; *)
(* each module's type invariant goes with its first state property.         *)

\* A file attempt leaves nothing the next one cannot find, and a receipt means
\* rows on stable storage (FileLoad!ManifestCovers: publish phase 3a;
\* ReceiptIsDurable).
FilesRecoverable ==
  /\ which = "crash" => Crash!TypeOK /\ Crash!ManifestCovers
  /\ which = "power" => Power!TypeOK /\ Power!ReceiptIsDurable

\* The same where rows wait in a stage: the state document is the newest
\* receipted unit's (StateIsNewest), and a committed Replace load leaves no row
\* of an earlier one (ReloadReplaces), on Snowflake too.  There and on
\* postgres a target a session believes cleared was cleared durably, the memory
\* a replay promoted included (ClearedIsDurable).
ReloadsStand ==
  /\ which = "direct" => TypeOK /\ ClearedIsDurable
  /\ which = "staged" => Staged!TypeOK /\ Staged!StateIsNewest /\ Staged!ReloadReplaces
  /\ which = "snow" => Snow!StateIsNewest /\ Snow!ReloadReplaces /\ Snow!ClearedIsDurable

\* No COPY leaves out a column its file carries (SnowflakeLoad!NoColumnDropped).
NoColumnDropped == which = "snow" => Snow!TypeOK /\ Snow!NoColumnDropped

\* A destination that publishes file by file makes each unit take effect once:
\* the four-phase commit, whether sessions crash or the host loses power
\* (FileLoad!ImplementsExactlyOnce).
FilesExactlyOnce == Crash!ImplementsExactlyOnce /\ Power!ImplementsExactlyOnce

\* So does one whose transaction takes rows from a stage (SqlCommit!ImplementsExactlyOnce),
\* or from parts that live outside it (SnowflakeLoad!ImplementsExactlyOnce).
StagedExactlyOnce == Staged!ImplementsExactlyOnce /\ Snow!ImplementsExactlyOnce

\* Every load ends if sessions stop dying: recovery gets past what its
\* predecessor left, on disk, in a transaction or on the stage (AllCommitted,
\* SnowflakeLoad!LoadsOver).
EveryLoadEnds ==
  <>(CASE which = "power" -> Power!AllCommitted
       [] which = "direct" -> AllCommitted
       [] which = "snow" -> Snow!LoadsOver
       [] OTHER -> TRUE)
=============================================================================
