------------------------------ MODULE MCLeases ------------------------------
(***************************************************************************)
(* The session lease on a local directory, on two small instances: one for *)
(* what never happens, one for what happens in the end. A behaviour is one *)
(* of them, chosen in its first state.                                     *)
(***************************************************************************)
EXTENDS Naturals, TLC

CONSTANTS a, b

\* Distinct tokens, as processes of one host mint them; b is a newer build, with
\* a newer document format.
TwoTokens == a :> 1 @@ b :> 2
TwoBuilds == a :> 1 @@ b :> 2

\* b's clock agrees with a's, or runs one tick ahead.
NoSkew == a :> 0 @@ b :> 0
AheadSkew == a :> 0 @@ b :> 1

VARIABLE which \* the instance that runs

-----------------------------------------------------------------------------
(* Clocks that disagree, lost answers; the documented windows closed. *)
AllWindows == {"write", "unlink", "reacquire", "release", "beat"}

VARIABLES local_now, local_doc, local_pc, local_stamp, local_snap,
          local_until, local_lost, local_lastOk, local_beat, local_beatSnap,
          local_beatAt, local_stray

localVars == <<local_now, local_doc, local_pc, local_stamp, local_snap,
               local_until, local_lost, local_lastOk, local_beat,
               local_beatSnap, local_beatAt, local_stray>>
Local == INSTANCE FileLease WITH
  Owner <- {a, b}, Token <- TwoTokens, Build <- TwoBuilds, Skew <- AheadSkew,
  Arm <- "local", Heartbeat <- 1, TTL <- 3, MaxStall <- 1, MaxOpen <- 2,
  Closed <- AllWindows, Faults <- {"blip", "crash"}, MaxStray <- 1, MaxTime <-
  6,
  now <- local_now, doc <- local_doc, pc <- local_pc, stamp <- local_stamp,
  snap <- local_snap, until <- local_until, lost <- local_lost, lastOk <-
  local_lastOk, beat <- local_beat, beatSnap <- local_beatSnap, beatAt <-
  local_beatAt, stray <- local_stray

-----------------------------------------------------------------------------
(* One clock, every window open: what must happen in the end. *)
VARIABLES live_now, live_doc, live_pc, live_stamp, live_snap, live_until,
          live_lost, live_lastOk, live_beat, live_beatSnap, live_beatAt,
          live_stray

liveVars == <<live_now, live_doc, live_pc, live_stamp, live_snap, live_until,
              live_lost, live_lastOk, live_beat, live_beatSnap, live_beatAt,
              live_stray>>
Live == INSTANCE FileLease WITH
  Owner <- {a, b}, Token <- TwoTokens, Build <- TwoBuilds, Skew <- NoSkew, Arm
  <- "local", Heartbeat <- 1, TTL <- 3, MaxStall <- 1, MaxOpen <- 2, Closed <-
  {}, Faults <- {"crash"}, MaxStray <- 0, MaxTime <- 6,
  now <- live_now, doc <- live_doc, pc <- live_pc, stamp <- live_stamp, snap
  <- live_snap, until <- live_until, lost <- live_lost, lastOk <- live_lastOk,
  beat <- live_beat, beatSnap <- live_beatSnap, beatAt <- live_beatAt, stray
  <- live_stray

-----------------------------------------------------------------------------
vars == <<which, localVars, liveVars>>

Init ==
  /\ which \in {"local", "live"}
  /\ Local!Init
  /\ Live!Init

Next ==
  \/ which = "local" /\ Local!Next
       /\ UNCHANGED <<which, liveVars>>
  \/ which = "live" /\ Live!Next
       /\ UNCHANGED <<which, localVars>>

Spec == Init /\ [][Next]_vars

(* FileLease!Fairness, of the instance whose liveness is checked. *)
FairSpec ==
  /\ Spec
  /\ \A o \in {a, b} :
       /\ WF_liveVars(which = "live" /\ Live!MainFree(o) /\ Live!Acquire(o))
       /\ WF_liveVars(which = "live" /\ Live!MainFree(o)
                      /\ (Live!EndWipe(o) \/ Live!EndWrite(o) \/ Live!ReleaseDelete(o)))
       /\ WF_liveVars(which = "live" /\ Live!BeatFree(o) /\ Live!BeatRead(o))
       /\ WF_liveVars(which = "live" /\ Live!BeatFree(o) /\ Live!BeatReplace(o))
  /\ WF_liveVars(which = "live" /\ Live!AllFree /\ Live!Tick)

-----------------------------------------------------------------------------
(* What is checked: the properties of the modules, under names of their own. *)

\* Two sessions never work in one scope at once (FileLease!MutualExclusion; Load
\* under the lease acquire won and check_still_held), on a local directory too,
\* for the reason FileLease!LocalInv gives.
MutualExclusion == which = "local" => Local!LocalInv /\ Local!MutualExclusion

\* No step there displaces a holder that renewed in time
\* (FileLease!FreshHolderKept; judge_holder and the recheck), nor touches a document
\* of a newer format (FileLease!NewerFormatRespected; decode).
LocalHoldersKept == Local!FreshHolderKept /\ Local!NewerFormatRespected

\* A session whose document is gone or foreign stops (FileLease!OustedSessionStops)
\* and stays stopped until it ends: with every window open a heartbeat under way can
\* still win the document back (FileLease!StoppedStays), with them closed nothing
\* can (FileLease!OustedForGood; renew, check_still_held).
OustedSessionStops ==
  /\ which = "live" => Live!OustedSessionStops
  /\ Live!StoppedStays
  /\ Local!StoppedStays
  /\ Local!OustedForGood

\* The lease of a dead session is reclaimed (FileLease!DeadLeaseReclaimed;
\* acquire's takeover).
DeadLeaseReclaimed == which = "live" => Live!DeadLeaseReclaimed
=============================================================================
