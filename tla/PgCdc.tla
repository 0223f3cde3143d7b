-------------------------------- MODULE PgCdc --------------------------------
(***************************************************************************)
(* Change capture of the postgres source (source/cdc: read.rs, runtime.rs, *)
(* apply.rs, slot.rs, ack.rs, tail.rs): one replication slot, one stream   *)
(* per table, read by concurrent tasks of one run that share a Runtime.    *)
(* A stream without a cursor takes a snapshot; one with a cursor replays   *)
(* the slot up to a target pinned once per run.  When every stream is      *)
(* through, the slot is advanced to the least position the destination is  *)
(* known to hold.  Attempts fail and are retried inside the run, with the  *)
(* Runtime surviving; processes crash; the operator drops the slot.        *)
(* The WAL is a sequence of commits; a position is an index into it.       *)
(***************************************************************************)
EXTENDS Naturals, Sequences, FiniteSets

CONSTANTS
  Stream,
  TailMode,        \* cdc.mode is tail
  MaxWal,      \* bound: commits on the server
  MaxBad,      \* bound: commits that cannot be applied (TRUNCATE, lost TOAST)
  MaxFail,     \* bound: transient failures of an attempt
  MaxCrash,    \* bound: crashes of the process
  MaxDrop      \* bound: times the operator drops the slot

CdcAssumption ==
  /\ Stream # {} /\ IsFiniteSet(Stream)
  /\ TailMode \in BOOLEAN
  /\ {MaxWal, MaxBad, MaxFail, MaxCrash, MaxDrop} \subseteq Nat

VARIABLES
  wal,       \* commits: the table each one changes, and whether it can be applied
  slot,      \* the replication slot: is it there, confirmed_flush_lsn
  applied,   \* applied[t]: commits the destination's table reflects
  cursor,    \* cursor[t]: the destination's committed cursor
  fed,       \* fed[t]: pushed and checkpointed, not yet committed by the engine
  running,   \* a connector process is up
  ensured,   \* RunState.ensured
  made,      \* history: did this run make the slot, and was it told?  "no", "told", "untold"
  target,    \* RunState.target
  horizon,   \* RunState.snapshot_horizon
  view,      \* what the snapshot transaction sees, from its first statement on
  floor,     \* RunState.ack_floor
  pending,   \* RunState.pending
  pc,        \* pc[t]: where the stream's read is
  since,     \* since[t]: the position its pass started from
  pos,       \* pos[t]: the position it has read to
  goal,      \* goal[t]: where the current change pass ends
  wedged,    \* streams whose last read met a commit it cannot apply
  fails, crashes, drops    \* bound counters

serverVars == <<wal, slot>>
destVars   == <<applied, cursor, fed>>
runVars    == <<running, ensured, made, target, horizon, view, floor, pending>>
readVars   == <<pc, since, pos, goal>>
countVars  == <<fails, crashes, drops>>
vars       == <<serverVars, destVars, runVars, readVars, wedged, countVars>>

Unset == MaxWal + 1
Position == 0 .. MaxWal
Maybe == Position \cup {Unset}
CurrentWal == Len(wal)    \* current_wal_lsn
CommitsOf(t, lo, hi) == {l \in lo + 1 .. hi : wal[l].table = t}
Larger(m, n) == IF m > n THEN m ELSE n
Least(S) == CHOOSE x \in S : \A y \in S : x <= y

NotEnsured == [known |-> FALSE, created |-> FALSE, point |-> Unset]
Nothing == [rows |-> {}, at |-> Unset]

-----------------------------------------------------------------------------
(* A run and its Runtime *)

NewRuntime ==
  /\ ensured' = NotEnsured /\ made' = "no"
  /\ target' = Unset /\ horizon' = Unset /\ view' = Unset
  /\ floor' = [t \in Stream |-> Unset]
  /\ pending' = Stream
Unread ==
  /\ pc' = [t \in Stream |-> "idle"]
  /\ since' = [t \in Stream |-> 0]
  /\ pos' = [t \in Stream |-> 0]
  /\ goal' = [t \in Stream |-> 0]

Init ==
  /\ wal = <<>> /\ slot = [up |-> FALSE, confirmed |-> 0]
  /\ applied = [t \in Stream |-> {}]
  /\ cursor = [t \in Stream |-> Unset]
  /\ fed = [t \in Stream |-> Nothing]
  /\ running = FALSE /\ ensured = NotEnsured /\ made = "no"
  /\ target = Unset /\ horizon = Unset /\ view = Unset
  /\ floor = [t \in Stream |-> Unset] /\ pending = Stream
  /\ pc = [t \in Stream |-> "idle"]
  /\ since = [t \in Stream |-> 0] /\ pos = since /\ goal = since
  /\ wedged = {} /\ fails = 0 /\ crashes = 0 /\ drops = 0

StartRun ==
  /\ ~running /\ wedged = {}
  /\ running' = TRUE
  /\ UNCHANGED <<serverVars, destVars, ensured, made, target, horizon, view, floor, pending,
                 readVars, wedged, countVars>>

\* What was pushed and not committed is lost with the attempt.
EndAttempt == fed' = [t \in Stream |-> Nothing] /\ Unread
EndRun == running' = FALSE /\ NewRuntime /\ EndAttempt

-----------------------------------------------------------------------------
(* dispatch, under the state lock: the slot, then the kind of pass *)

\* slot::ensure: what this run learns of the slot.
Ensured ==
  IF ensured.known THEN ensured
  ELSE [known |-> TRUE, created |-> ~slot.up, point |-> IF slot.up THEN Unset ELSE CurrentWal]
CreateSlot == slot' = IF slot.up THEN slot ELSE [up |-> TRUE, confirmed |-> CurrentWal]
Ensure ==
  /\ CreateSlot /\ ensured' = Ensured
  /\ made' = IF slot.up THEN made ELSE "told"

\* A variant: the new slot's consistent point is not compared with the cursor.
GapRefusedNever(t) == FALSE

\* A slot created in this run cannot cover a stream that resumes from before it.
GapRefused(t) == cursor[t] # Unset /\ Ensured.created /\ cursor[t] < Ensured.point

RefuseGap(t) ==
  /\ running /\ pc[t] = "idle" /\ GapRefused(t)
  /\ CreateSlot
  /\ EndRun
  /\ UNCHANGED <<wal, applied, cursor, wedged, countVars>>

\* A variant: an old slot is replayed from where it was last confirmed.
SnapshotStartConfirmed ==
  IF Ensured.point # Unset THEN Ensured.point
  ELSE IF horizon # Unset THEN horizon ELSE slot.confirmed

\* Where a snapshot's cursor starts: the new slot's consistent point, or the
\* position read before the snapshot transaction began.
SnapshotStart ==
  IF Ensured.point # Unset THEN Ensured.point
  ELSE IF horizon # Unset THEN horizon ELSE CurrentWal

DispatchSnapshot(t) ==
  /\ running /\ pc[t] = "idle" /\ cursor[t] = Unset
  /\ Ensure
  /\ pc' = [pc EXCEPT ![t] = "copy"]
  /\ since' = [since EXCEPT ![t] = SnapshotStart]
  /\ horizon' = IF horizon = Unset THEN SnapshotStart ELSE horizon
  /\ UNCHANGED <<wal, destVars, running, target, view, floor, pending, pos, goal, wedged, countVars>>

\* A variant: every stream reads the head of the log for itself.
PinTargetPerStream == CurrentWal
\* RunState.target, pinned by the run's first change pass.
PinTarget == IF target = Unset THEN CurrentWal ELSE target

DispatchChange(t) ==
  /\ running /\ pc[t] = "idle" /\ cursor[t] # Unset /\ ~GapRefused(t)
  /\ Ensure
  /\ target' = PinTarget
  /\ floor' = [floor EXCEPT ![t] = cursor[t]]
  /\ since' = [since EXCEPT ![t] = cursor[t]]
  /\ pos' = [pos EXCEPT ![t] = cursor[t]]
  /\ goal' = [goal EXCEPT ![t] = PinTarget]
  /\ pc' = [pc EXCEPT ![t] = IF PinTarget > cursor[t] THEN "change" ELSE "complete"]
  /\ UNCHANGED <<wal, destVars, running, horizon, view, pending, wedged, countVars>>

\* The slot is created and the answer lost: the run has learnt nothing, and its
\* next attempt finds a slot it takes for an old one.
EnsureFails ==
  /\ running /\ ~ensured.known /\ ~slot.up /\ fails < MaxFail
  /\ fails' = fails + 1
  /\ CreateSlot /\ made' = "untold"
  /\ EndAttempt
  /\ UNCHANGED <<wal, applied, cursor, running, ensured, target, horizon, view, floor, pending,
                 wedged, crashes, drops>>

-----------------------------------------------------------------------------
(* The passes *)

Push(t, rows, at) ==
  fed' = [fed EXCEPT ![t] = [rows |-> @.rows \cup rows, at |-> at]]

\* snapshot_pass and its checkpoint; the first statement fixes the view.
Copy(t) ==
  /\ pc[t] = "copy"
  /\ view' = IF view = Unset THEN CurrentWal ELSE view
  /\ Push(t, CommitsOf(t, 0, view'), since[t])
  /\ pos' = [pos EXCEPT ![t] = since[t]]
  /\ pc' = [pc EXCEPT ![t] = "copied"]
  /\ UNCHANGED <<serverVars, applied, cursor, running, ensured, made, target, horizon, floor, pending,
                 since, goal, wedged, countVars>>

\* Apply sees what the slot still holds, past what the stream already has.
Peeked(t, hi) == {l \in CommitsOf(t, pos[t], hi) : l > slot.confirmed}
Appliable(t, hi) == \A l \in Peeked(t, hi) : ~wal[l].bad

\* A full batch is flushed at the commit that filled it, with a checkpoint.
FlushBatch(t) ==
  /\ pc[t] \in {"change", "following"}
  /\ \E hi \in pos[t] + 1 .. goal[t] :
       /\ hi \in Peeked(t, hi) /\ Appliable(t, hi)
       /\ Push(t, Peeked(t, hi), hi)
       /\ pos' = [pos EXCEPT ![t] = hi]
  /\ UNCHANGED <<serverVars, applied, cursor, runVars, pc, since, goal, wedged, countVars>>

\* A variant: the checkpoint is at the log's head, not at the end of the range.
FinishPassAtHead(t) ==
  /\ pc[t] \in {"change", "following"} /\ Appliable(t, goal[t])
  /\ Push(t, Peeked(t, goal[t]), CurrentWal)
  /\ pos' = [pos EXCEPT ![t] = CurrentWal]
  /\ pc' = [pc EXCEPT ![t] = IF @ = "change" THEN "complete" ELSE "tail"]
  /\ UNCHANGED <<serverVars, applied, cursor, runVars, since, goal, wedged, countVars>>

\* Apply::finish: the rest, and a checkpoint at the end of the range.
FinishPass(t) ==
  /\ pc[t] \in {"change", "following"} /\ Appliable(t, goal[t])
  /\ Push(t, Peeked(t, goal[t]), goal[t])
  /\ pos' = [pos EXCEPT ![t] = goal[t]]
  /\ pc' = [pc EXCEPT ![t] = IF @ = "change" THEN "complete" ELSE "tail"]
  /\ UNCHANGED <<serverVars, applied, cursor, runVars, since, goal, wedged, countVars>>

\* A commit that cannot be applied is raised unless the cursor is past it.
MeetsFault(t) == ~Appliable(t, goal[t])

PassFails(t) ==
  /\ pc[t] \in {"change", "following"} /\ MeetsFault(t)
  /\ wedged' = wedged \cup {t}
  /\ EndRun
  /\ UNCHANGED <<serverVars, applied, cursor, countVars>>

-----------------------------------------------------------------------------
(* Run completion and acknowledgement; tail *)

\* A variant: the slot follows what the streams have read.
AckTargetRead(floors) == Least({pos[t] : t \in Stream})
AckTarget(floors) == Least({floors[t] : t \in Stream} \ {Unset})

\* Under the lock: the stream is through; the last one acknowledges.
Complete(t) ==
  /\ pc[t] \in {"copied", "complete"}
  /\ floor' = IF pc[t] = "copied" THEN [floor EXCEPT ![t] = since[t]] ELSE floor
  /\ pending' = pending \ {t}
  /\ IF pending \ {t} = {}
     THEN /\ slot' = [slot EXCEPT !.confirmed = Larger(@, AckTarget(floor'))]
          /\ view' = Unset
     ELSE UNCHANGED <<slot, view>>
  /\ pc' = [pc EXCEPT ![t] = IF TailMode THEN "tail" ELSE "done"]
  /\ UNCHANGED <<wal, destVars, running, ensured, made, target, horizon, since, pos, goal, wedged,
                 countVars>>

\* tail_loop: checkpoint, then a change pass of its own up to the current head.
Follow(t) ==
  /\ pc[t] = "tail" /\ CurrentWal > pos[t]
  /\ Push(t, {}, pos[t])
  /\ goal' = [goal EXCEPT ![t] = CurrentWal]
  /\ since' = [since EXCEPT ![t] = pos[t]]
  /\ pc' = [pc EXCEPT ![t] = "following"]
  /\ UNCHANGED <<serverVars, applied, cursor, runVars, pos, wedged, countVars>>

-----------------------------------------------------------------------------
(* The engine, the server and the operator *)

\* The destination commits what was pushed, with the last checkpoint.
EngineCommit(t) ==
  /\ fed[t] # Nothing
  /\ applied' = [applied EXCEPT ![t] = @ \cup fed[t].rows]
  /\ cursor' = [cursor EXCEPT ![t] = IF fed[t].at = Unset THEN @ ELSE fed[t].at]
  /\ fed' = [fed EXCEPT ![t] = Nothing]
  /\ UNCHANGED <<serverVars, runVars, readVars, wedged, countVars>>

RunEnds ==
  /\ running
  /\ \A t \in Stream : pc[t] \in {"done", "tail"} /\ fed[t] = Nothing
  /\ EndRun
  /\ UNCHANGED <<serverVars, applied, cursor, wedged, countVars>>

\* A transient error anywhere: the connections are dropped, and the next
\* attempt reads every stream again from committed state in the same Runtime.
AttemptFails ==
  /\ running /\ fails < MaxFail
  /\ fails' = fails + 1
  /\ horizon' = Unset /\ view' = Unset
  /\ EndAttempt
  /\ UNCHANGED <<serverVars, applied, cursor, running, ensured, made, target, floor, pending, wedged,
                 crashes, drops>>

Crash ==
  /\ running /\ crashes < MaxCrash
  /\ crashes' = crashes + 1
  /\ EndRun
  /\ UNCHANGED <<serverVars, applied, cursor, wedged, fails, drops>>

ServerCommits(t, bad) ==
  /\ CurrentWal < MaxWal
  /\ bad => Cardinality({l \in DOMAIN wal : wal[l].bad}) < MaxBad
  /\ wal' = Append(wal, [table |-> t, bad |-> bad])
  /\ UNCHANGED <<slot, destVars, runVars, readVars, wedged, countVars>>

DropSlot ==
  /\ ~running /\ slot.up /\ drops < MaxDrop
  /\ drops' = drops + 1
  /\ slot' = [up |-> FALSE, confirmed |-> 0]
  /\ UNCHANGED <<wal, destVars, runVars, readVars, wedged, fails, crashes>>

\* The remedy the error names: state reset, destination table re-initialised.
ResetStream(t) ==
  /\ ~running /\ t \in wedged
  /\ cursor' = [cursor EXCEPT ![t] = Unset]
  /\ applied' = [applied EXCEPT ![t] = {}]
  /\ wedged' = wedged \ {t}
  /\ UNCHANGED <<serverVars, fed, runVars, readVars, countVars>>

Read(t) ==
  \/ RefuseGap(t) \/ DispatchSnapshot(t) \/ DispatchChange(t)
  \/ Copy(t) \/ FlushBatch(t) \/ FinishPass(t) \/ PassFails(t)
  \/ Complete(t) \/ Follow(t)
Next ==
  \/ StartRun \/ RunEnds \/ EnsureFails \/ AttemptFails \/ Crash \/ DropSlot
  \/ \E t \in Stream :
       \/ Read(t) \/ EngineCommit(t) \/ ResetStream(t)
       \/ \E bad \in BOOLEAN : ServerCommits(t, bad)

Spec == Init /\ [][Next]_vars

\* The tasks of a run are scheduled, the engine commits what it was given, runs
\* end and are started again, and a wedged stream is reset.
Fairness ==
  /\ WF_vars(StartRun) /\ WF_vars(RunEnds)
  /\ \A t \in Stream : WF_vars(Read(t)) /\ WF_vars(EngineCommit(t)) /\ WF_vars(ResetStream(t))
FairSpec == Spec /\ Fairness

-----------------------------------------------------------------------------
(* Properties *)

\* Types, and that no stream has read past the end of the log.
TypeOK ==
  /\ \A l \in DOMAIN wal : wal[l].table \in Stream /\ wal[l].bad \in BOOLEAN
  /\ slot.up \in BOOLEAN /\ slot.confirmed \in 0 .. CurrentWal
  /\ \A t \in Stream : applied[t] \subseteq 1 .. CurrentWal /\ fed[t].rows \subseteq 1 .. CurrentWal
  /\ cursor \in [Stream -> Maybe] /\ floor \in [Stream -> Maybe]
  /\ {target, horizon, view} \subseteq Maybe /\ ensured.point \in Maybe
  /\ made \in {"no", "told", "untold"}
  /\ pending \subseteq Stream /\ wedged \subseteq Stream
  /\ \A t \in Stream : pos[t] <= CurrentWal /\ since[t] <= CurrentWal /\ goal[t] <= CurrentWal
  /\ \A t \in Stream : pc[t] \in {"idle", "copy", "copied", "change", "complete", "following",
                                  "tail", "done"}

\* Never a gap: every commit up to a stream's committed cursor is reflected in
\* its destination table, whatever failed, was retried or was reset.
NoGap == \A t \in Stream : cursor[t] # Unset => CommitsOf(t, 0, cursor[t]) \subseteq applied[t]

\* A gap opens only after the slot was dropped, and never in a run that was told
\* it made the slot anew: that run refuses every stream that resumes from before
\* the new slot's consistent point.  It does open in a later run, and in the very
\* run that made the slot when the answer to its create was lost.
GapNeedsUntoldRun ==
  [][NoGap /\ ~NoGap' => drops > 0 /\ made # "told"]_vars

\* An acknowledgement never takes the slot past what the destination has
\* committed of a stream that will resume: the server may discard all before it.
AckBehindDestination ==
  [][slot.up /\ slot'.confirmed > slot.confirmed =>
       \A t \in Stream : cursor[t] # Unset => slot'.confirmed <= cursor[t]]_vars

\* The change passes of a run that start before its target all end there: the
\* tables they fill are consistent with each other.
OneInstant ==
  LET Through(t) == pc[t] = "done" /\ goal[t] # 0 /\ since[t] <= goal[t]
  IN \A t, u \in Stream : Through(t) /\ Through(u) => pos[t] = pos[u]

\* Every commit reaches the destination in the end: a commit that cannot be
\* applied stops a stream until its state is reset, and the reset gets past it.
CaughtUp ==
  <>[](\A t \in Stream : cursor[t] # Unset /\ CommitsOf(t, 0, CurrentWal) \subseteq applied[t])

=============================================================================
