----------------------------- MODULE PgCdc_proofs -----------------------------
(***************************************************************************)
(* Theorems of PgCdc, for any tables, bounds and number of faults; and of  *)
(* PgApply, as an instance, for any keys, values and log: the destination  *)
(* is the source at the cursor.                                            *)
(***************************************************************************)
EXTENDS PgCdc, FiniteSetTheorems, TLAPS, WellFoundedInduction

\* The positions of the log as it is.
Point == 0 .. CurrentWal
MaybePoint == Point \cup {Unset}
\* A stream has pushed, or will push, from a position it has read to.
Reading == {"copied", "change", "complete", "following", "tail", "done"}
Commit == [table : Stream, bad : BOOLEAN]

TypeInv ==
  /\ wal \in Seq(Commit) /\ Len(wal) <= MaxWal
  /\ slot \in [up : BOOLEAN, confirmed : Point]
  /\ applied \in [Stream -> SUBSET (1 .. CurrentWal)]
  /\ fed \in [Stream -> [rows : SUBSET (1 .. CurrentWal), at : MaybePoint]]
  /\ running \in BOOLEAN
  /\ ensured \in [known : BOOLEAN, created : BOOLEAN, point : MaybePoint]
  /\ {target, horizon, view} \subseteq MaybePoint
  /\ cursor \in [Stream -> MaybePoint] /\ floor \in [Stream -> MaybePoint]
  /\ pending \subseteq Stream /\ wedged \subseteq Stream
  /\ pc \in [Stream -> Reading \cup {"idle", "copy"}]
  /\ since \in [Stream -> Point] /\ pos \in [Stream -> Point] /\ goal \in [Stream -> Point]
  /\ fails \in Nat /\ crashes \in Nat /\ drops \in 0 .. MaxDrop

\* A Runtime without a run is a new one, the slot a run has ensured is there, and
\* the view of a snapshot is not older than the horizon its cursor starts at.
Runtime ==
  /\ ensured.created <=> ensured.point # Unset
  /\ ensured.created => ensured.known
  /\ ensured.known => slot.up
  /\ ~running => ensured = NotEnsured /\ horizon = Unset /\ view = Unset /\ pending = Stream
  /\ horizon # Unset => ensured.known /\ (ensured.created => horizon = ensured.point)
  /\ view # Unset => horizon # Unset /\ horizon <= view

\* A stream reads only under a slot the run has ensured, and what it pushed is
\* filed under the position it has read to, which is past its cursor.
RuntimeOf(t) ==
  /\ ~running => floor[t] = Unset
  /\ pc[t] # "idle" => running /\ ensured.known /\ slot.up
  /\ fed[t] # Nothing => pc[t] \in Reading /\ fed[t].at = pos[t]
  /\ pc[t] = "idle" => goal[t] = 0
  /\ pc[t] = "copy" => cursor[t] = Unset
  /\ pc[t] \in {"copy", "copied"} => horizon # Unset /\ since[t] = horizon /\ goal[t] = 0
  /\ pc[t] = "copied" => pos[t] = since[t] /\ cursor[t] \in {Unset, since[t]}
  /\ pc[t] \in {"change", "following"} => pos[t] <= goal[t]
  /\ pc[t] \in Reading /\ cursor[t] # Unset => cursor[t] <= pos[t]

\* A floor is behind the cursor, behind what the stream will read from, and
\* behind the snapshot a stream without a cursor will take again.
FloorOf(t) ==
  /\ pc[t] \in {"change", "complete"} \/ t \notin pending => floor[t] # Unset
  /\ floor[t] # Unset =>
       /\ cursor[t] # Unset => floor[t] <= cursor[t]
       /\ pc[t] = "copy" => floor[t] <= since[t]
       /\ pc[t] \in Reading => floor[t] <= pos[t]
       /\ cursor[t] = Unset /\ ensured.created => floor[t] <= ensured.point
       /\ cursor[t] = Unset /\ pc[t] = "idle" /\ horizon # Unset => floor[t] <= horizon

\* The run reads under a slot that covers every stream it admitted.
Trusted == drops = 0 \/ ensured.created
\* The slot keeps what the streams still need.
SlotFor(t) ==
  /\ ensured.created =>
       \/ slot.confirmed <= ensured.point
       \/ cursor[t] # Unset /\ slot.confirmed <= cursor[t]
  /\ drops = 0 /\ cursor[t] # Unset => slot.up /\ slot.confirmed <= cursor[t]
  /\ Trusted /\ pc[t] \in Reading => slot.confirmed <= pos[t]

\* The slot is behind the horizon, and the stream whose snapshot set the horizon
\* keeps it there.
SlotKeeps ==
  horizon # Unset =>
    /\ slot.confirmed <= horizon
    /\ \E v \in Stream :
         /\ pc[v] # "idle"
         /\ pc[v] \in {"copy", "copied"} \/ (floor[v] # Unset /\ floor[v] <= horizon)

\* Under such a slot a stream holds, committed or pushed, every commit up to where
\* it has read, unless it came with a gap, which stays.
Held(t) == applied[t] \cup fed[t].rows
CoverOf(t) ==
  Trusted /\ pc[t] \in Reading =>
    \/ CommitsOf(t, 0, pos[t]) \subseteq Held(t)
    \/ cursor[t] # Unset /\ ~(CommitsOf(t, 0, cursor[t]) \subseteq Held(t))

\* A change pass ends at the run's target, or began past it.
InstantOf(t) ==
  pc[t] \in {"change", "complete", "done"} /\ goal[t] # 0 =>
    /\ goal[t] = target
    /\ pc[t] # "change" => pos[t] = goal[t] \/ since[t] > goal[t]

IInv ==
  /\ TypeInv /\ Runtime /\ SlotKeeps
  /\ \A t \in Stream : RuntimeOf(t) /\ FloorOf(t) /\ SlotFor(t) /\ CoverOf(t) /\ InstantOf(t)

\* A run was told that it made the slot exactly when it holds what it was told.
MadeInv == made \in {"no", "told", "untold"} /\ (made = "told" <=> ensured.created)

-----------------------------------------------------------------------------
(* Least positions *)

\* A set of numbers has a least one.
LEMMA LeastOne ==
  ASSUME NEW S \in SUBSET Nat, S # {} PROVE Least(S) \in S /\ \A y \in S : Least(S) <= y
<1> DEFINE R == {p \in Nat \X Nat : p[1] < p[2]}
<1>1. OpToRel(<, Nat) = R BY DEF OpToRel
<1>2. IsWellFoundedOn(R, Nat) BY <1>1, NatLessThanWellFounded
<1>3. PICK x \in S : \A y \in S : <<y, x>> \notin R BY <1>2, WFMin
<1>4. ASSUME NEW y \in S PROVE x <= y
  <2>1. <<y, x>> \in Nat \X Nat BY <1>4
  <2>2. ~(y < x) BY <1>3, <1>4, <2>1
  <2> QED BY <2>2
<1> QED BY <1>4 DEF Least

\* The acknowledgement is one of the floors, and below them all.
LEMMA AckIsAFloor ==
  ASSUME CdcAssumption, NEW floors \in [Stream -> Nat], NEW t \in Stream, floors[t] # Unset
  PROVE  /\ \E v \in Stream : floors[v] # Unset /\ AckTarget(floors) = floors[v]
         /\ \A u \in Stream : floors[u] # Unset => AckTarget(floors) <= floors[u]
<1> DEFINE S == {floors[u] : u \in Stream} \ {Unset}
<1>1. S \subseteq Nat /\ floors[t] \in S OBVIOUS
<1>2. Least(S) \in S /\ \A y \in S : Least(S) <= y BY <1>1, LeastOne
<1>3. AckTarget(floors) = Least(S) BY DEF AckTarget
<1> HIDE DEF S
<1>4. \A u \in Stream : floors[u] # Unset => floors[u] \in S BY DEF S
<1>5. \A y \in S : \E v \in Stream : floors[v] # Unset /\ y = floors[v] BY DEF S
<1> QED BY <1>2, <1>3, <1>4, <1>5

-----------------------------------------------------------------------------
(* Type correctness *)

\* What a step of the run finds: positions are numbers, and Unset is not one
\* of the log.
LEMMA Positions ==
  ASSUME CdcAssumption, TypeInv
  PROVE  /\ CurrentWal \in Nat /\ Unset \in Nat /\ Point \subseteq Nat /\ Unset \notin Point
         /\ MaybePoint \subseteq Maybe /\ MaybePoint \subseteq Nat /\ Point \subseteq MaybePoint
BY DEF CdcAssumption, TypeInv, CurrentWal, Unset, Point, MaybePoint, Maybe, Position

\* What the first task to ensure the slot learns and leaves.
LEMMA EnsuredOK ==
  ASSUME CdcAssumption, TypeInv
  PROVE  /\ Ensured \in [known : BOOLEAN, created : BOOLEAN, point : MaybePoint]
         /\ CreateSlot => slot' \in [up : BOOLEAN, confirmed : Point]
<1>1. CurrentWal \in Point /\ CurrentWal \in MaybePoint /\ Unset \in MaybePoint
  BY Positions DEF Point, MaybePoint
<1>2. ensured \in [known : BOOLEAN, created : BOOLEAN, point : MaybePoint] /\ slot.up \in BOOLEAN
  BY DEF TypeInv
<1>3. Ensured \in [known : BOOLEAN, created : BOOLEAN, point : MaybePoint]
  BY <1>1, <1>2 DEF Ensured
<1>4. slot \in [up : BOOLEAN, confirmed : Point] BY DEF TypeInv
<1>5. CreateSlot => slot' \in [up : BOOLEAN, confirmed : Point] BY <1>1, <1>4 DEF CreateSlot
<1> QED BY <1>3, <1>5

\* A snapshot starts at a position of the log.
LEMMA SnapshotStartOK == ASSUME CdcAssumption, TypeInv PROVE SnapshotStart \in Point
<1>1. CurrentWal \in Point BY Positions DEF Point
<1>2. Ensured.point # Unset => Ensured.point \in Point BY EnsuredOK DEF MaybePoint
<1>3. horizon # Unset => horizon \in Point BY DEF TypeInv, MaybePoint
<1> QED BY <1>1, <1>2, <1>3 DEF SnapshotStart

\* The rows of a table are commits of the log.
LEMMA RowsOK ==
  ASSUME CdcAssumption, TypeInv, NEW t \in Stream, NEW lo \in Point, NEW hi \in Point
  PROVE  CommitsOf(t, lo, hi) \subseteq 1 .. CurrentWal
BY Positions DEF CommitsOf, Point

\* Pushing rows and a position keeps what is pushed typed.
LEMMA PushOK ==
  ASSUME CdcAssumption, TypeInv, NEW t \in Stream, NEW rows \in SUBSET (1 .. CurrentWal),
         NEW at \in Point, Push(t, rows, at)
  PROVE  /\ fed' \in [Stream -> [rows : SUBSET (1 .. CurrentWal), at : MaybePoint]]
         /\ fed'[t].rows = fed[t].rows \cup rows /\ fed'[t].at = at
         /\ \A u \in Stream \ {t} : fed'[u] = fed[u]
<1>1. at \in MaybePoint BY Positions
<1>2. fed[t] \in [rows : SUBSET (1 .. CurrentWal), at : MaybePoint] BY DEF TypeInv
<1>3. fed' = [fed EXCEPT ![t] = [rows |-> fed[t].rows \cup rows, at |-> at]] BY DEF Push
<1>4. [rows |-> fed[t].rows \cup rows, at |-> at]
        \in [rows : SUBSET (1 .. CurrentWal), at : MaybePoint]
  BY <1>1, <1>2
<1> QED BY <1>3, <1>4 DEF TypeInv

\* What a peek returns is commits of the stream, in the range asked for.
LEMMA PeekedOK ==
  ASSUME CdcAssumption, TypeInv, NEW t \in Stream, NEW hi \in Point
  PROVE  /\ Peeked(t, hi) \subseteq 1 .. CurrentWal
         /\ Peeked(t, hi) \subseteq CommitsOf(t, pos[t], hi)
<1>1. pos[t] \in Point BY DEF TypeInv
<1> QED BY <1>1, RowsOK DEF Peeked

\* An attempt that ends leaves its streams unread.
LEMMA EndAttemptOK ==
  ASSUME CdcAssumption, TypeInv, EndAttempt, wal' = wal
  PROVE  /\ fed' \in [Stream -> [rows : SUBSET (1 .. CurrentWal), at : MaybePoint]]
         /\ pc' \in [Stream -> {"idle"}]
         /\ since' \in [Stream -> Point] /\ pos' \in [Stream -> Point]
         /\ goal' \in [Stream -> Point]
<1>1. 0 \in Point BY Positions DEF Point
<1>2. Nothing \in [rows : SUBSET (1 .. CurrentWal), at : MaybePoint] BY DEF Nothing, MaybePoint
<1> QED BY <1>1, <1>2 DEF EndAttempt, Unread

\* So does a run, and its Runtime with it.
LEMMA EndRunOK ==
  ASSUME CdcAssumption, TypeInv, EndRun, UNCHANGED <<wal, applied, cursor, drops>>, crashes' \in Nat,
         slot' \in [up : BOOLEAN, confirmed : Point], wedged' \subseteq Stream, fails' \in Nat
  PROVE  TypeInv'
<1>1. EndAttempt /\ NewRuntime /\ running' = FALSE BY DEF EndRun
<1>2. Unset \in MaybePoint BY DEF MaybePoint
<1>3. NotEnsured \in [known : BOOLEAN, created : BOOLEAN, point : MaybePoint]
  BY <1>2 DEF NotEnsured
<1>4. floor' \in [Stream -> MaybePoint] BY <1>1, <1>2 DEF NewRuntime
<1>5. pc' \in [Stream -> Reading \cup {"idle", "copy"}] BY <1>1, EndAttemptOK
<1>6. Point' = Point /\ MaybePoint' = MaybePoint /\ CurrentWal' = CurrentWal
  BY DEF Point, MaybePoint, CurrentWal, Unset
<1> QED BY <1>1, <1>2, <1>3, <1>4, <1>5, <1>6, EndAttemptOK DEF TypeInv, NewRuntime

\* The initial state is well typed.
LEMMA TypeInit == ASSUME CdcAssumption, Init PROVE TypeInv
<1>1. Nothing \in [rows : SUBSET (1 .. CurrentWal), at : MaybePoint] BY DEF Nothing, MaybePoint
<1>2. CurrentWal = 0 /\ 0 \in Point /\ Unset \in MaybePoint
  BY DEF Init, CurrentWal, Point, MaybePoint
<1>3. wal \in Seq(Commit) /\ Len(wal) = 0 BY DEF Init
<1>4. NotEnsured \in [known : BOOLEAN, created : BOOLEAN, point : MaybePoint]
  BY <1>2 DEF NotEnsured
<1>5. MaxWal \in Nat /\ MaxDrop \in Nat BY DEF CdcAssumption
<1>6. /\ since \in [Stream -> Point] /\ pos \in [Stream -> Point] /\ goal \in [Stream -> Point]
      /\ slot \in [up : BOOLEAN, confirmed : Point]
      /\ fed \in [Stream -> [rows : SUBSET (1 .. CurrentWal), at : MaybePoint]]
      /\ pc \in [Stream -> Reading \cup {"idle", "copy"}]
      /\ cursor \in [Stream -> MaybePoint] /\ floor \in [Stream -> MaybePoint]
  BY <1>1, <1>2 DEF Init
<1>7. applied \in [Stream -> SUBSET (1 .. CurrentWal)] BY DEF Init
<1>a. /\ running = FALSE /\ ensured = NotEnsured
      /\ target = Unset /\ horizon = Unset /\ view = Unset
      /\ pending = Stream /\ wedged = {} /\ fails = 0 /\ crashes = 0 /\ drops = 0
  BY DEF Init
<1>8. {target, horizon, view} \subseteq MaybePoint /\ pending \subseteq Stream /\ wedged \subseteq Stream
  BY <1>a, <1>2
<1>9. Len(wal) <= MaxWal BY <1>3, <1>5
<1>10. running \in BOOLEAN /\ fails \in Nat /\ crashes \in Nat BY <1>a
<1>11. drops \in 0 .. MaxDrop BY <1>a, <1>5
<1> QED BY <1>3, <1>4, <1>6, <1>7, <1>8, <1>9, <1>10, <1>11, <1>a DEF TypeInv

\* A step keeps the types.
LEMMA TypeStep == ASSUME CdcAssumption, IInv, Next PROVE TypeInv'
<1> USE DEF serverVars, destVars, runVars, readVars, countVars, Ensure
<1>0. TypeInv BY DEF IInv
<1> DEFINE Same == Point' = Point /\ MaybePoint' = MaybePoint /\ CurrentWal' = CurrentWal
<1>s. wal' = wal => Same BY DEF Point, MaybePoint, CurrentWal, Unset
<1> HIDE DEF Same
<1>n. CurrentWal \in Point BY <1>0, Positions DEF Point
<1>t. CurrentWal \in MaybePoint /\ Unset \in MaybePoint BY <1>0, <1>n, Positions DEF MaybePoint
<1>1. CASE StartRun
  <2>1. Same BY <1>1, <1>s DEF StartRun
  <2> QED BY <1>0, <1>1, <2>1 DEF StartRun, TypeInv, Same
<1>2. CASE RunEnds
  BY <1>0, <1>2, EndRunOK DEF RunEnds, TypeInv
<1>3. CASE EnsureFails
  <2>1. Same /\ EndAttempt BY <1>3, <1>s DEF EnsureFails
  <2>2. slot' \in [up : BOOLEAN, confirmed : Point] BY <1>0, <1>3, EnsuredOK DEF EnsureFails
  <2>3. fails' \in Nat BY <1>0, <1>3 DEF EnsureFails, TypeInv
  <2>4. wal' = wal BY <1>3 DEF EnsureFails
  <2>5. pc' \in [Stream -> Reading \cup {"idle", "copy"}] BY <1>0, <2>1, <2>4, EndAttemptOK
  <2> QED BY <1>0, <1>3, <2>1, <2>2, <2>3, <2>4, <2>5, EndAttemptOK DEF EnsureFails, TypeInv, Same
<1>4. CASE AttemptFails
  <2>1. Same /\ EndAttempt BY <1>4, <1>s DEF AttemptFails
  <2>3. fails' \in Nat BY <1>0, <1>4 DEF AttemptFails, TypeInv
  <2>4. wal' = wal BY <1>4 DEF AttemptFails
  <2>5. pc' \in [Stream -> Reading \cup {"idle", "copy"}] BY <1>0, <2>1, <2>4, EndAttemptOK
  <2> QED BY <1>0, <1>4, <1>t, <2>1, <2>3, <2>4, <2>5, EndAttemptOK DEF AttemptFails, TypeInv, Same
<1>5. CASE Crash
  <2>1. crashes' \in Nat /\ EndRun BY <1>0, <1>5 DEF Crash, TypeInv
  <2> QED BY <1>0, <1>5, <2>1, EndRunOK DEF Crash, TypeInv
<1>6. CASE DropSlot
  <2>1. Same BY <1>6, <1>s DEF DropSlot
  <2>2. slot' \in [up : BOOLEAN, confirmed : Point] BY <1>0, <1>6, Positions DEF DropSlot, Point
  <2>3. drops' \in 0 .. MaxDrop BY <1>0, <1>6 DEF DropSlot, TypeInv, CdcAssumption
  <2> QED BY <1>0, <1>6, <2>1, <2>2, <2>3 DEF DropSlot, TypeInv, Same
<1>7. ASSUME NEW t \in Stream, RefuseGap(t) PROVE TypeInv'
  <2>1. slot' \in [up : BOOLEAN, confirmed : Point] BY <1>0, <1>7, EnsuredOK DEF RefuseGap
  <2> QED BY <1>0, <1>7, <2>1, EndRunOK DEF RefuseGap, TypeInv
<1>8. ASSUME NEW t \in Stream, DispatchSnapshot(t) PROVE TypeInv'
  <2>1. Same BY <1>8, <1>s DEF DispatchSnapshot
  <2>2. slot' \in [up : BOOLEAN, confirmed : Point] BY <1>0, <1>8, EnsuredOK DEF DispatchSnapshot
  <2>3. SnapshotStart \in Point /\ SnapshotStart \in MaybePoint
    BY <1>0, SnapshotStartOK, Positions
  <2>4. ensured' \in [known : BOOLEAN, created : BOOLEAN, point : MaybePoint]
    BY <1>0, <1>8, EnsuredOK DEF DispatchSnapshot
  <2>5. since' \in [Stream -> Point] BY <1>0, <1>8, <2>3 DEF DispatchSnapshot, TypeInv
  <2>6. horizon' \in MaybePoint BY <1>0, <1>8, <2>3 DEF DispatchSnapshot, TypeInv
  <2> QED BY <1>0, <1>8, <2>1, <2>2, <2>4, <2>5, <2>6 DEF DispatchSnapshot, TypeInv, Same
<1>9. ASSUME NEW t \in Stream, DispatchChange(t) PROVE TypeInv'
  <2>1. Same BY <1>9, <1>s DEF DispatchChange
  <2>2. slot' \in [up : BOOLEAN, confirmed : Point] BY <1>0, <1>9, EnsuredOK DEF DispatchChange
  <2>3. PinTarget \in Point BY <1>0, <1>n DEF PinTarget, TypeInv, MaybePoint
  <2>4. ensured' \in [known : BOOLEAN, created : BOOLEAN, point : MaybePoint]
    BY <1>0, <1>9, EnsuredOK DEF DispatchChange
  <2>5. cursor[t] \in Point /\ cursor[t] \in MaybePoint
    BY <1>0, <1>9 DEF DispatchChange, TypeInv, MaybePoint
  <2>6. /\ since' \in [Stream -> Point] /\ pos' \in [Stream -> Point]
        /\ goal' \in [Stream -> Point] /\ floor' \in [Stream -> MaybePoint]
    BY <1>0, <1>9, <2>3, <2>5 DEF DispatchChange, TypeInv
  <2>7. pc' \in [Stream -> Reading \cup {"idle", "copy"}]
    BY <1>0, <1>9 DEF DispatchChange, TypeInv, Reading
  <2>8. target' \in MaybePoint BY <1>0, <1>9, <2>3, Positions DEF DispatchChange
  <2> QED BY <1>0, <1>9, <2>1, <2>2, <2>4, <2>6, <2>7, <2>8 DEF DispatchChange, TypeInv, Same
<1>10. ASSUME NEW t \in Stream, Copy(t) PROVE TypeInv'
  <2>1. Same BY <1>10, <1>s DEF Copy
  <2>2. view' \in Point BY <1>0, <1>10, <1>n DEF Copy, TypeInv, MaybePoint
  <2>3. since[t] \in Point /\ 0 \in Point BY <1>0, Positions DEF TypeInv, Point
  <2>4. CommitsOf(t, 0, view') \subseteq 1 .. CurrentWal BY <1>0, <2>2, <2>3, RowsOK
  <2>5. fed' \in [Stream -> [rows : SUBSET (1 .. CurrentWal), at : MaybePoint]]
    BY <1>0, <1>10, <2>3, <2>4, PushOK DEF Copy
  <2>6. pos' \in [Stream -> Point] /\ view' \in MaybePoint
    BY <1>0, <1>10, <2>2, <2>3, Positions DEF Copy, TypeInv
  <2>7. pc' \in [Stream -> Reading \cup {"idle", "copy"}]
    BY <1>0, <1>10 DEF Copy, TypeInv, Reading
  <2> QED BY <1>0, <1>10, <2>1, <2>5, <2>6, <2>7 DEF Copy, TypeInv, Same
<1>11. ASSUME NEW t \in Stream, FlushBatch(t) PROVE TypeInv'
  <2>1. Same BY <1>11, <1>s DEF FlushBatch
  <2>2. PICK hi \in pos[t] + 1 .. goal[t] :
             Push(t, Peeked(t, hi), hi) /\ pos' = [pos EXCEPT ![t] = hi]
    BY <1>11 DEF FlushBatch
  <2>3. hi \in Point BY <1>0, <2>2, Positions DEF TypeInv, Point
  <2>4. Peeked(t, hi) \subseteq 1 .. CurrentWal BY <1>0, <2>3, PeekedOK
  <2>5. fed' \in [Stream -> [rows : SUBSET (1 .. CurrentWal), at : MaybePoint]]
    BY <1>0, <2>2, <2>3, <2>4, PushOK
  <2>6. pos' \in [Stream -> Point] BY <1>0, <2>2, <2>3 DEF TypeInv
  <2> QED BY <1>0, <1>11, <2>1, <2>5, <2>6 DEF FlushBatch, TypeInv, Same
<1>12. ASSUME NEW t \in Stream, FinishPass(t) PROVE TypeInv'
  <2>1. Same BY <1>12, <1>s DEF FinishPass
  <2>3. goal[t] \in Point BY <1>0 DEF TypeInv
  <2>4. Peeked(t, goal[t]) \subseteq 1 .. CurrentWal BY <1>0, <2>3, PeekedOK
  <2>5. fed' \in [Stream -> [rows : SUBSET (1 .. CurrentWal), at : MaybePoint]]
    BY <1>0, <1>12, <2>3, <2>4, PushOK DEF FinishPass
  <2>6. pos' \in [Stream -> Point] BY <1>0, <1>12, <2>3 DEF TypeInv, FinishPass
  <2>7. pc' \in [Stream -> Reading \cup {"idle", "copy"}]
    BY <1>0, <1>12 DEF FinishPass, TypeInv, Reading
  <2> QED BY <1>0, <1>12, <2>1, <2>5, <2>6, <2>7 DEF FinishPass, TypeInv, Same
<1>13. ASSUME NEW t \in Stream, PassFails(t) PROVE TypeInv'
  BY <1>0, <1>13, EndRunOK DEF PassFails, TypeInv
<1>14. ASSUME NEW t \in Stream, Complete(t) PROVE TypeInv'
  <2>1. Same BY <1>14, <1>s DEF Complete
  <2>2. since[t] \in Point /\ since[t] \in MaybePoint /\ since[t] # Unset
    BY <1>0, Positions DEF TypeInv
  <2>3. floor' \in [Stream -> MaybePoint] BY <1>0, <1>14, <2>2 DEF Complete, TypeInv
  <2>4. floor'[t] # Unset
    BY <1>0, <1>14, <2>2 DEF Complete, TypeInv, IInv, FloorOf
  <2>5. floor' \in [Stream -> Nat] BY <1>0, <2>3, Positions
  <2>6. PICK v \in Stream : floor'[v] # Unset /\ AckTarget(floor') = floor'[v]
    BY <2>4, <2>5, AckIsAFloor
  <2>7. AckTarget(floor') \in Point BY <2>3, <2>6 DEF MaybePoint
  <2>8. slot' \in [up : BOOLEAN, confirmed : Point]
    BY <1>0, <1>14, <2>7 DEF Complete, TypeInv, Larger
  <2>9. pc' \in [Stream -> Reading \cup {"idle", "copy"}]
    BY <1>0, <1>14 DEF Complete, TypeInv, Reading
  <2>10. view' \in MaybePoint BY <1>0, <1>14, <1>t DEF Complete, TypeInv
  <2> QED BY <1>0, <1>14, <2>1, <2>3, <2>8, <2>9, <2>10 DEF Complete, TypeInv, Same
<1>15. ASSUME NEW t \in Stream, Follow(t) PROVE TypeInv'
  <2>1. Same BY <1>15, <1>s DEF Follow
  <2>3. pos[t] \in Point BY <1>0 DEF TypeInv
  <2>5. fed' \in [Stream -> [rows : SUBSET (1 .. CurrentWal), at : MaybePoint]]
    BY <1>0, <1>15, <2>3, PushOK DEF Follow
  <2>6. since' \in [Stream -> Point] /\ goal' \in [Stream -> Point]
    BY <1>0, <1>15, <2>3, <1>n DEF TypeInv, Follow
  <2>7. pc' \in [Stream -> Reading \cup {"idle", "copy"}]
    BY <1>0, <1>15 DEF Follow, TypeInv, Reading
  <2> QED BY <1>0, <1>15, <2>1, <2>5, <2>6, <2>7 DEF Follow, TypeInv, Same
<1>16. ASSUME NEW t \in Stream, EngineCommit(t) PROVE TypeInv'
  <2>1. Same BY <1>16, <1>s DEF EngineCommit
  <2>2. Nothing \in [rows : SUBSET (1 .. CurrentWal), at : MaybePoint]
    BY <1>t DEF Nothing
  <2>3. fed' \in [Stream -> [rows : SUBSET (1 .. CurrentWal), at : MaybePoint]]
    BY <1>0, <1>16, <2>2 DEF EngineCommit, TypeInv
  <2>4. fed[t].rows \subseteq 1 .. CurrentWal /\ fed[t].at \in MaybePoint BY <1>0 DEF TypeInv
  <2>5. applied' \in [Stream -> SUBSET (1 .. CurrentWal)]
    BY <1>0, <1>16, <2>4 DEF EngineCommit, TypeInv
  <2>6. cursor' \in [Stream -> MaybePoint]
    BY <1>0, <1>16, <2>4 DEF EngineCommit, TypeInv
  <2> QED BY <1>0, <1>16, <2>1, <2>3, <2>5, <2>6 DEF EngineCommit, TypeInv, Same
<1>17. ASSUME NEW t \in Stream, ResetStream(t) PROVE TypeInv'
  <2>1. Same BY <1>17, <1>s DEF ResetStream
  <2>2. cursor' \in [Stream -> MaybePoint] /\ applied' \in [Stream -> SUBSET (1 .. CurrentWal)]
    BY <1>0, <1>17, <1>t DEF ResetStream, TypeInv
  <2>3. wedged' \subseteq Stream BY <1>0, <1>17 DEF ResetStream, TypeInv
  <2> QED BY <1>0, <1>17, <2>1, <2>2, <2>3 DEF ResetStream, TypeInv, Same
<1>18. ASSUME NEW t \in Stream, NEW bad \in BOOLEAN, ServerCommits(t, bad) PROVE TypeInv'
  <2>1. wal' \in Seq(Commit) /\ Len(wal') = Len(wal) + 1 /\ Len(wal') <= MaxWal
    BY <1>0, <1>18 DEF ServerCommits, TypeInv, Commit, CurrentWal, CdcAssumption
  <2>2. Point \subseteq Point' /\ MaybePoint \subseteq MaybePoint'
    BY <1>0, <2>1 DEF Point, MaybePoint, CurrentWal, Unset, TypeInv
  <2>3. 1 .. CurrentWal \subseteq 1 .. CurrentWal' BY <1>0, <2>1 DEF CurrentWal, TypeInv
  <2>4. slot' \in [up : BOOLEAN, confirmed : Point'] BY <1>0, <1>18, <2>2 DEF TypeInv, ServerCommits
  <2>5. applied' \in [Stream -> SUBSET (1 .. CurrentWal')]
    BY <1>0, <1>18, <2>3 DEF TypeInv, ServerCommits
  <2>6. [rows : SUBSET (1 .. CurrentWal), at : MaybePoint]
          \subseteq [rows : SUBSET (1 .. CurrentWal'), at : MaybePoint']
    BY <2>2, <2>3
  <2>7. fed' \in [Stream -> [rows : SUBSET (1 .. CurrentWal'), at : MaybePoint']]
    BY <1>0, <1>18, <2>6 DEF TypeInv, ServerCommits
  <2>8. ensured' \in [known : BOOLEAN, created : BOOLEAN, point : MaybePoint']
    BY <1>0, <1>18, <2>2 DEF TypeInv, ServerCommits
  <2>9. /\ {target, horizon, view}' \subseteq MaybePoint'
        /\ cursor' \in [Stream -> MaybePoint'] /\ floor' \in [Stream -> MaybePoint']
    BY <1>0, <1>18, <2>2 DEF TypeInv, ServerCommits
  <2>10. /\ since' \in [Stream -> Point'] /\ pos' \in [Stream -> Point']
         /\ goal' \in [Stream -> Point']
    BY <1>0, <1>18, <2>2 DEF TypeInv, ServerCommits
  <2> QED BY <1>0, <1>18, <2>1, <2>4, <2>5, <2>7, <2>8, <2>9, <2>10 DEF TypeInv, ServerCommits
<1> QED BY <1>1, <1>2, <1>3, <1>4, <1>5, <1>6, <1>7, <1>8, <1>9, <1>10, <1>11, <1>12, <1>13,
           <1>14, <1>15, <1>16, <1>17, <1>18 DEF Next, Read

-----------------------------------------------------------------------------
(* The Runtime and the attempts *)

\* What the task that ensures the slot learns agrees with what is known.
LEMMA EnsuredLearnt ==
  ASSUME CdcAssumption, IInv
  PROVE  /\ Ensured.known /\ (Ensured.created <=> Ensured.point # Unset)
         /\ ensured.known => Ensured = ensured
         /\ ~ensured.known => (Ensured.created <=> ~slot.up)
         /\ Ensured.created /\ ~ensured.known => Ensured.point = CurrentWal
<1>1. TypeInv /\ Runtime BY DEF IInv
<1>2. CurrentWal # Unset BY <1>1, Positions DEF Point
<1>3. slot.up \in BOOLEAN /\ ensured.created \in BOOLEAN /\ ensured.known \in BOOLEAN
  BY <1>1 DEF TypeInv
<1>4. CASE ensured.known BY <1>1, <1>4 DEF Ensured, Runtime
<1>5. CASE ~ensured.known BY <1>2, <1>3, <1>5 DEF Ensured
<1> QED BY <1>4, <1>5

\* A second snapshot of an attempt starts where the first did.
LEMMA OneHorizon ==
  ASSUME CdcAssumption, IInv
  PROVE  /\ horizon # Unset => SnapshotStart = horizon
         /\ Ensured.created => SnapshotStart = Ensured.point
         /\ horizon = Unset /\ ~Ensured.created => SnapshotStart = CurrentWal
         /\ SnapshotStart # Unset
<1>1. Runtime /\ TypeInv BY DEF IInv
<1>2. SnapshotStart # Unset BY <1>1, SnapshotStartOK, Positions
<1>3. horizon # Unset => ensured.known /\ Ensured = ensured BY <1>1, EnsuredLearnt DEF Runtime
<1>4. CASE Ensured.created
  <2>1. SnapshotStart = Ensured.point BY <1>4, EnsuredLearnt DEF SnapshotStart
  <2>2. horizon # Unset => horizon = Ensured.point BY <1>1, <1>3, <1>4 DEF Runtime
  <2> QED BY <1>2, <1>4, <2>1, <2>2
<1>5. CASE ~Ensured.created
  <2>1. Ensured.point = Unset BY <1>5, EnsuredLearnt
  <2> QED BY <1>2, <1>5, <2>1 DEF SnapshotStart
<1> QED BY <1>4, <1>5

\* After an attempt nothing is read and nothing pushed.
LEMMA Ended ==
  ASSUME EndAttempt, NEW u \in Stream
  PROVE  pc'[u] = "idle" /\ fed'[u] = Nothing /\ pos'[u] = 0 /\ since'[u] = 0 /\ goal'[u] = 0
BY DEF EndAttempt, Unread

\* After a run the Runtime is a new one, and only the slot can be wrong.
LEMMA RunEnded ==
  ASSUME CdcAssumption, EndRun
  PROVE  /\ Runtime' /\ SlotKeeps'
         /\ \A u \in Stream : RuntimeOf(u)' /\ FloorOf(u)' /\ CoverOf(u)' /\ InstantOf(u)'
<1>1. EndAttempt /\ NewRuntime /\ running' = FALSE BY DEF EndRun
<1>2. Runtime' BY <1>1 DEF Runtime, NewRuntime, NotEnsured, Unset
<1>3. SlotKeeps' BY <1>1 DEF SlotKeeps, NewRuntime, Unset
<1>4. ASSUME NEW u \in Stream
      PROVE  RuntimeOf(u)' /\ FloorOf(u)' /\ CoverOf(u)' /\ InstantOf(u)'
  <2>1. pc'[u] = "idle" /\ fed'[u] = Nothing /\ goal'[u] = 0 BY <1>1, Ended
  <2>2. floor'[u] = Unset /\ u \in pending' /\ Unset' = Unset /\ Nothing' = Nothing
    BY <1>1 DEF NewRuntime, Unset, Nothing
  <2>3. RuntimeOf(u)' BY <2>1, <2>2 DEF RuntimeOf, Reading
  <2>4. FloorOf(u)' BY <2>1, <2>2 DEF FloorOf
  <2>5. CoverOf(u)' /\ InstantOf(u)' BY <2>1 DEF CoverOf, InstantOf, Reading
  <2> QED BY <2>3, <2>4, <2>5
<1> QED BY <1>2, <1>3, <1>4

\* A step keeps the Runtime and the streams' places in it.
LEMMA RuntimeStep ==
  ASSUME CdcAssumption, IInv, Next PROVE Runtime' /\ \A u \in Stream : RuntimeOf(u)'
<1> USE DEF serverVars, destVars, runVars, readVars, countVars, Ensure
<1>0. TypeInv /\ Runtime /\ \A u \in Stream : RuntimeOf(u) BY DEF IInv
<1>u. Unset' = Unset /\ Nothing' = Nothing BY DEF Unset, Nothing
<1>n. CurrentWal \in Nat /\ Unset \in Nat /\ CurrentWal # Unset /\ 0 # Unset
  BY <1>0, Positions DEF Point
<1>1. CASE StartRun
  BY <1>0, <1>1, <1>u DEF StartRun, Runtime, RuntimeOf
<1>2. CASE EndRun
  BY <1>2, RunEnded
<1>3. CASE EnsureFails
  <2>1. EndAttempt BY <1>3 DEF EnsureFails
  <2>2. Runtime' BY <1>0, <1>3, <1>u DEF EnsureFails, Runtime
  <2>3. ASSUME NEW u \in Stream PROVE RuntimeOf(u)'
    <3>1. pc'[u] = "idle" /\ fed'[u] = Nothing /\ goal'[u] = 0 BY <2>1, Ended
    <3> QED BY <1>0, <1>3, <1>u, <3>1 DEF EnsureFails, RuntimeOf, Reading
  <2> QED BY <2>2, <2>3
<1>4. CASE AttemptFails
  <2>1. EndAttempt BY <1>4 DEF AttemptFails
  <2>2. Runtime' BY <1>0, <1>4, <1>u DEF AttemptFails, Runtime
  <2>3. ASSUME NEW u \in Stream PROVE RuntimeOf(u)'
    <3>1. pc'[u] = "idle" /\ fed'[u] = Nothing /\ goal'[u] = 0 BY <2>1, Ended
    <3> QED BY <1>0, <1>4, <1>u, <3>1 DEF AttemptFails, RuntimeOf, Reading
  <2> QED BY <2>2, <2>3
<1>6. CASE DropSlot
  <2>1. ASSUME NEW u \in Stream PROVE RuntimeOf(u)'
    BY <1>0, <1>6, <1>u DEF DropSlot, RuntimeOf
  <2>2. Runtime' BY <1>0, <1>6, <1>u DEF DropSlot, Runtime, NotEnsured
  <2> QED BY <2>1, <2>2
<1>8. ASSUME NEW t \in Stream, DispatchSnapshot(t) PROVE Runtime' /\ \A u \in Stream : RuntimeOf(u)'
  <2>1. running /\ running' /\ ensured' = Ensured /\ view' = view
    BY <1>8 DEF DispatchSnapshot
  <2>2. horizon' = SnapshotStart /\ (horizon # Unset => horizon' = horizon) /\ horizon' # Unset
    BY <1>8, OneHorizon DEF DispatchSnapshot
  <2>4. slot'.up BY <1>0, <1>8 DEF DispatchSnapshot, CreateSlot, TypeInv
  <2>3. Runtime' BY <1>0, <1>u, <2>1, <2>2, <2>4, EnsuredLearnt, OneHorizon DEF Runtime
  <2>5. ASSUME NEW u \in Stream PROVE RuntimeOf(u)'
    <3>1. CASE u = t
      <4>1. /\ pc'[t] = "copy" /\ since'[t] = SnapshotStart /\ fed'[t] = fed[t]
            /\ cursor'[t] = Unset /\ pc[t] = "idle" /\ goal'[t] = goal[t]
        BY <1>0, <1>8 DEF DispatchSnapshot, TypeInv
      <4>2. fed[t] = Nothing /\ goal[t] = 0 BY <1>0, <4>1 DEF RuntimeOf, Reading
      <4> QED BY <1>u, <2>1, <2>2, <2>4, <3>1, <4>1, <4>2, EnsuredLearnt DEF RuntimeOf, Reading
    <3>2. CASE u # t
      <4>1. /\ pc'[u] = pc[u] /\ since'[u] = since[u] /\ fed'[u] = fed[u] /\ cursor'[u] = cursor[u]
            /\ goal'[u] = goal[u] /\ pos'[u] = pos[u] /\ floor'[u] = floor[u]
        BY <1>0, <1>8, <3>2 DEF DispatchSnapshot, TypeInv
      <4> QED BY <1>0, <1>u, <2>1, <2>2, <2>4, <4>1, EnsuredLearnt DEF RuntimeOf
    <3> QED BY <3>1, <3>2
  <2> QED BY <2>3, <2>5
<1>9. ASSUME NEW t \in Stream, DispatchChange(t) PROVE Runtime' /\ \A u \in Stream : RuntimeOf(u)'
  <2>1. running /\ running' /\ ensured' = Ensured /\ view' = view /\ horizon' = horizon
    BY <1>9 DEF DispatchChange
  <2>4. slot'.up BY <1>0, <1>9 DEF DispatchChange, CreateSlot, TypeInv
  <2>3. Runtime' BY <1>0, <1>u, <2>1, <2>4, EnsuredLearnt DEF Runtime
  <2>5. ASSUME NEW u \in Stream PROVE RuntimeOf(u)'
    <3>1. CASE u = t
      <4>1. /\ pc'[t] = IF PinTarget > cursor[t] THEN "change" ELSE "complete"
            /\ pos'[t] = cursor[t] /\ goal'[t] = PinTarget /\ fed'[t] = fed[t]
            /\ cursor'[t] = cursor[t] /\ pc[t] = "idle"
        BY <1>0, <1>9 DEF DispatchChange, TypeInv
      <4>2. fed[t] = Nothing BY <1>0, <4>1 DEF RuntimeOf, Reading
      <4>3. cursor[t] \in Nat /\ PinTarget \in Nat
        BY <1>0, <1>n, Positions DEF TypeInv, PinTarget
      <4> QED BY <1>u, <2>1, <2>4, <3>1, <4>1, <4>2, <4>3, EnsuredLearnt DEF RuntimeOf, Reading
    <3>2. CASE u # t
      <4>1. /\ pc'[u] = pc[u] /\ since'[u] = since[u] /\ fed'[u] = fed[u] /\ cursor'[u] = cursor[u]
            /\ goal'[u] = goal[u] /\ pos'[u] = pos[u] /\ floor'[u] = floor[u]
        BY <1>0, <1>9, <3>2 DEF DispatchChange, TypeInv
      <4> QED BY <1>0, <1>u, <2>1, <2>4, <4>1, EnsuredLearnt DEF RuntimeOf
    <3> QED BY <3>1, <3>2
  <2> QED BY <2>3, <2>5
<1>10. ASSUME NEW t \in Stream, Copy(t) PROVE Runtime' /\ \A u \in Stream : RuntimeOf(u)'
  <2>1. /\ running' = running /\ ensured' = ensured /\ horizon' = horizon /\ pending' = pending
        /\ pc[t] = "copy" /\ slot' = slot
    BY <1>10 DEF Copy
  <2>2. horizon # Unset /\ horizon \in Nat /\ horizon <= CurrentWal /\ since[t] = horizon /\ running
    BY <1>0, <2>1, Positions DEF RuntimeOf, TypeInv, Point, MaybePoint
  <2>3. view' # Unset /\ horizon <= view'
    BY <1>0, <1>n, <1>10, <2>2 DEF Copy, Runtime
  <2>4. Runtime' BY <1>0, <1>u, <2>1, <2>2, <2>3 DEF Runtime
  <2>5. ASSUME NEW u \in Stream PROVE RuntimeOf(u)'
    <3>1. CASE u = t
      <4>1. /\ pc'[t] = "copied" /\ pos'[t] = since[t] /\ since'[t] = since[t]
            /\ goal'[t] = goal[t] /\ cursor'[t] = cursor[t] /\ floor'[t] = floor[t]
        BY <1>0, <1>10 DEF Copy, TypeInv
      <4>2. fed'[t].at = since[t] BY <1>0, <1>10, <2>2 DEF Copy, Push, TypeInv
      <4>3. cursor[t] = Unset /\ goal[t] = 0 /\ ensured.known /\ slot.up
        BY <1>0, <2>1 DEF RuntimeOf
      <4> QED BY <1>u, <2>1, <2>2, <3>1, <4>1, <4>2, <4>3 DEF RuntimeOf, Reading
    <3>2. CASE u # t
      <4>1. /\ pc'[u] = pc[u] /\ since'[u] = since[u] /\ fed'[u] = fed[u] /\ cursor'[u] = cursor[u]
            /\ goal'[u] = goal[u] /\ pos'[u] = pos[u] /\ floor'[u] = floor[u]
        BY <1>0, <1>10, <3>2 DEF Copy, Push, TypeInv
      <4> QED BY <1>0, <1>u, <2>1, <4>1 DEF RuntimeOf
    <3> QED BY <3>1, <3>2
  <2> QED BY <2>4, <2>5
<1>11. ASSUME NEW t \in Stream, FlushBatch(t) PROVE Runtime' /\ \A u \in Stream : RuntimeOf(u)'
  <2>1. /\ running' = running /\ ensured' = ensured /\ horizon' = horizon /\ pending' = pending
        /\ view' = view /\ slot' = slot /\ floor' = floor /\ cursor' = cursor
        /\ pc' = pc /\ since' = since /\ goal' = goal /\ pc[t] \in {"change", "following"}
    BY <1>11 DEF FlushBatch
  <2>2. PICK hi \in pos[t] + 1 .. goal[t] :
             Push(t, Peeked(t, hi), hi) /\ pos' = [pos EXCEPT ![t] = hi]
    BY <1>11 DEF FlushBatch
  <2>3. Runtime' BY <1>0, <1>u, <2>1 DEF Runtime
  <2>4. pos[t] \in Nat /\ goal[t] \in Nat /\ hi \in Nat /\ pos[t] < hi /\ hi <= goal[t]
    BY <1>0, <2>2, Positions DEF TypeInv
  <2>5. ASSUME NEW u \in Stream PROVE RuntimeOf(u)'
    <3>1. CASE u = t
      <4>1. pos'[t] = hi /\ fed'[t].at = hi BY <1>0, <2>2 DEF Push, TypeInv
      <4>2. pc[t] \in Reading /\ pc[t] \notin {"copy", "copied"} BY <2>1 DEF Reading
      <4>3. cursor[t] # Unset => cursor[t] \in Nat /\ cursor[t] <= pos[t]
        BY <1>0, <4>2, Positions DEF RuntimeOf, TypeInv
      <4> QED BY <1>0, <1>u, <2>1, <2>4, <3>1, <4>1, <4>2, <4>3 DEF RuntimeOf
    <3>2. CASE u # t
      <4>1. fed'[u] = fed[u] /\ pos'[u] = pos[u] BY <1>0, <2>2, <3>2 DEF Push, TypeInv
      <4> QED BY <1>0, <1>u, <2>1, <4>1 DEF RuntimeOf
    <3> QED BY <3>1, <3>2
  <2> QED BY <2>3, <2>5
<1>12. ASSUME NEW t \in Stream, FinishPass(t) PROVE Runtime' /\ \A u \in Stream : RuntimeOf(u)'
  <2>1. /\ running' = running /\ ensured' = ensured /\ horizon' = horizon /\ pending' = pending
        /\ view' = view /\ slot' = slot /\ floor' = floor /\ cursor' = cursor
        /\ since' = since /\ goal' = goal /\ pc[t] \in {"change", "following"}
    BY <1>12 DEF FinishPass
  <2>3. Runtime' BY <1>0, <1>u, <2>1 DEF Runtime
  <2>4. pos[t] \in Nat /\ goal[t] \in Nat /\ pos[t] <= goal[t]
    BY <1>0, <2>1, Positions DEF TypeInv, RuntimeOf
  <2>5. ASSUME NEW u \in Stream PROVE RuntimeOf(u)'
    <3>1. CASE u = t
      <4>1. /\ pos'[t] = goal[t] /\ fed'[t].at = goal[t]
            /\ pc'[t] \in {"complete", "tail"}
        BY <1>0, <1>12 DEF FinishPass, Push, TypeInv
      <4>2. /\ pc[t] \in Reading /\ pc'[t] \in Reading
            /\ pc'[t] \notin {"copy", "copied", "change", "following"}
        BY <2>1, <4>1 DEF Reading
      <4>3. cursor[t] # Unset => cursor[t] \in Nat /\ cursor[t] <= pos[t]
        BY <1>0, <4>2, Positions DEF RuntimeOf, TypeInv
      <4> QED BY <1>0, <1>u, <2>1, <2>4, <3>1, <4>1, <4>2, <4>3 DEF RuntimeOf
    <3>2. CASE u # t
      <4>1. fed'[u] = fed[u] /\ pos'[u] = pos[u] /\ pc'[u] = pc[u]
        BY <1>0, <1>12, <3>2 DEF FinishPass, Push, TypeInv
      <4> QED BY <1>0, <1>u, <2>1, <4>1 DEF RuntimeOf
    <3> QED BY <3>1, <3>2
  <2> QED BY <2>3, <2>5
<1>14. ASSUME NEW t \in Stream, Complete(t) PROVE Runtime' /\ \A u \in Stream : RuntimeOf(u)'
  <2>1. /\ running' = running /\ ensured' = ensured /\ horizon' = horizon
        /\ view' \in {view, Unset} /\ cursor' = cursor /\ fed' = fed /\ pos' = pos
        /\ since' = since /\ goal' = goal /\ pc[t] \in {"copied", "complete"}
    BY <1>14 DEF Complete
  <2>2. running /\ ensured.known /\ slot.up BY <1>0, <2>1 DEF RuntimeOf
  <2>4. slot'.up BY <1>0, <1>14, <2>2 DEF Complete, TypeInv
  <2>3. Runtime' BY <1>0, <1>u, <2>1, <2>2, <2>4 DEF Runtime
  <2>5. ASSUME NEW u \in Stream PROVE RuntimeOf(u)'
    <3>1. CASE u = t
      <4>1. pc'[t] \in {"tail", "done"} BY <1>0, <1>14 DEF Complete, TypeInv
      <4>2. /\ pc[t] \in Reading /\ pc'[t] \in Reading
            /\ pc'[t] \notin {"idle", "copy", "copied", "change", "following"}
        BY <2>1, <4>1 DEF Reading
      <4> QED BY <1>0, <1>u, <2>1, <2>2, <2>4, <3>1, <4>2 DEF RuntimeOf
    <3>2. CASE u # t
      <4>1. pc'[u] = pc[u] /\ floor'[u] = floor[u] BY <1>0, <1>14, <3>2 DEF Complete, TypeInv
      <4> QED BY <1>0, <1>u, <2>1, <2>2, <2>4, <4>1 DEF RuntimeOf
    <3> QED BY <3>1, <3>2
  <2> QED BY <2>3, <2>5
<1>15. ASSUME NEW t \in Stream, Follow(t) PROVE Runtime' /\ \A u \in Stream : RuntimeOf(u)'
  <2>1. /\ running' = running /\ ensured' = ensured /\ horizon' = horizon /\ pending' = pending
        /\ view' = view /\ slot' = slot /\ floor' = floor /\ cursor' = cursor
        /\ pos' = pos /\ pc[t] = "tail" /\ CurrentWal > pos[t]
    BY <1>15 DEF Follow
  <2>3. Runtime' BY <1>0, <1>u, <2>1 DEF Runtime
  <2>4. pos[t] \in Nat BY <1>0, Positions DEF TypeInv
  <2>5. ASSUME NEW u \in Stream PROVE RuntimeOf(u)'
    <3>1. CASE u = t
      <4>1. fed'[t].at = pos[t] /\ pc'[t] = "following" /\ goal'[t] = CurrentWal
        BY <1>0, <1>15 DEF Follow, Push, TypeInv
      <4> QED BY <1>0, <1>n, <1>u, <2>1, <2>4, <3>1, <4>1 DEF RuntimeOf, Reading
    <3>2. CASE u # t
      <4>1. fed'[u] = fed[u] /\ pc'[u] = pc[u] /\ goal'[u] = goal[u] /\ since'[u] = since[u]
        BY <1>0, <1>15, <3>2 DEF Follow, Push, TypeInv
      <4> QED BY <1>0, <1>u, <2>1, <4>1 DEF RuntimeOf
    <3> QED BY <3>1, <3>2
  <2> QED BY <2>3, <2>5
<1>16. ASSUME NEW t \in Stream, EngineCommit(t) PROVE Runtime' /\ \A u \in Stream : RuntimeOf(u)'
  <2>1. /\ UNCHANGED <<slot, running, ensured, target, horizon, view, floor, pending, pc, since,
                       pos, goal>>
        /\ fed[t] # Nothing
    BY <1>16 DEF EngineCommit
  <2>3. Runtime' BY <1>0, <1>u, <2>1 DEF Runtime
  <2>5. ASSUME NEW u \in Stream PROVE RuntimeOf(u)'
    <3>1. CASE u = t
      <4>1. pc[t] \in Reading /\ fed[t].at = pos[t] BY <1>0, <2>1 DEF RuntimeOf
      <4>2. fed'[t] = Nothing /\ pos[t] \in Nat /\ pos[t] # Unset
        BY <1>0, <1>16, Positions DEF EngineCommit, TypeInv
      <4>3. cursor'[t] = pos[t] BY <1>0, <1>16, <4>1, <4>2 DEF EngineCommit, TypeInv
      <4>4. pc[t] # "copy" BY <4>1 DEF Reading
      <4> QED BY <1>0, <1>u, <2>1, <3>1, <4>1, <4>2, <4>3, <4>4 DEF RuntimeOf
    <3>2. CASE u # t
      <4>1. fed'[u] = fed[u] /\ cursor'[u] = cursor[u]
        BY <1>0, <1>16, <3>2 DEF EngineCommit, TypeInv
      <4> QED BY <1>0, <1>u, <2>1, <4>1 DEF RuntimeOf
    <3> QED BY <3>1, <3>2
  <2> QED BY <2>3, <2>5
<1>17. ASSUME NEW t \in Stream, ResetStream(t) PROVE Runtime' /\ \A u \in Stream : RuntimeOf(u)'
  <2>1. /\ ~running
        /\ UNCHANGED <<slot, fed, running, ensured, target, horizon, view, floor, pending, pc,
                       since, pos, goal>>
    BY <1>17 DEF ResetStream
  <2>2. Runtime' BY <1>0, <1>u, <2>1 DEF Runtime
  <2>3. ASSUME NEW u \in Stream PROVE RuntimeOf(u)'
    <3>1. pc[u] = "idle" BY <1>0, <2>1 DEF RuntimeOf
    <3> QED BY <1>0, <1>u, <2>1, <3>1 DEF RuntimeOf, Reading
  <2> QED BY <2>2, <2>3
<1>18. ASSUME NEW t \in Stream, NEW bad \in BOOLEAN, ServerCommits(t, bad)
       PROVE Runtime' /\ \A u \in Stream : RuntimeOf(u)'
  <2>1. UNCHANGED <<slot, applied, cursor, fed, running, ensured, target, horizon, view, floor,
                    pending, pc, since, pos, goal>>
    BY <1>18 DEF ServerCommits
  <2>2. Runtime' BY <1>0, <1>u, <2>1 DEF Runtime
  <2>3. ASSUME NEW u \in Stream PROVE RuntimeOf(u)'
    BY <1>0, <1>u, <2>1 DEF RuntimeOf
  <2> QED BY <2>2, <2>3
<1> QED BY <1>1, <1>2, <1>3, <1>4, <1>6, <1>8, <1>9, <1>10, <1>11, <1>12,
           <1>14, <1>15, <1>16, <1>17, <1>18
        DEF Next, Read, RunEnds, Crash, RefuseGap, PassFails

-----------------------------------------------------------------------------
(* The acknowledgement floors *)

\* A floor left by an earlier attempt is not past the snapshot that follows it.
LEMMA FloorBeforeStart ==
  ASSUME CdcAssumption, IInv, NEW u \in Stream, floor[u] # Unset, cursor[u] = Unset
  PROVE  /\ Ensured.created => floor[u] <= Ensured.point
         /\ pc[u] = "idle" => floor[u] <= SnapshotStart
<1>1. TypeInv /\ Runtime /\ FloorOf(u) BY DEF IInv
<1>2. floor[u] \in Nat /\ CurrentWal \in Nat /\ floor[u] <= CurrentWal
  BY <1>1, Positions DEF TypeInv, MaybePoint, Point
<1>3. Ensured.created => floor[u] <= Ensured.point
  BY <1>1, <1>2, EnsuredLearnt DEF FloorOf
<1>4. horizon # Unset /\ pc[u] = "idle" => floor[u] <= horizon BY <1>1 DEF FloorOf
<1> QED BY <1>2, <1>3, <1>4, OneHorizon

\* A step keeps the floors.
LEMMA FloorStep ==
  ASSUME CdcAssumption, IInv, Next, NEW u \in Stream PROVE FloorOf(u)'
<1> USE DEF serverVars, destVars, runVars, readVars, countVars, Ensure
<1>0. TypeInv /\ Runtime /\ RuntimeOf(u) /\ FloorOf(u) BY DEF IInv
<1>u. Unset' = Unset BY DEF Unset
<1>n. /\ cursor[u] \in Nat /\ floor[u] \in Nat /\ pos[u] \in Nat /\ since[u] \in Nat
      /\ goal[u] \in Nat /\ since[u] # Unset /\ pos[u] # Unset
  BY <1>0, Positions DEF TypeInv
<1>1. CASE StartRun BY <1>0, <1>1, <1>u DEF StartRun, FloorOf
<1>2. CASE EndRun BY <1>2, RunEnded
<1>3. CASE EnsureFails
  <2>1. EndAttempt /\ ~ensured.known BY <1>3 DEF EnsureFails
  <2>2. pc'[u] = "idle" /\ horizon = Unset BY <1>0, <2>1, Ended DEF Runtime
  <2> QED BY <1>0, <1>3, <1>u, <2>2 DEF EnsureFails, FloorOf, Reading
<1>4. CASE AttemptFails
  <2>1. EndAttempt BY <1>4 DEF AttemptFails
  <2>2. pc'[u] = "idle" BY <2>1, Ended
  <2> QED BY <1>0, <1>4, <1>u, <2>2 DEF AttemptFails, FloorOf, Reading
<1>6. CASE DropSlot BY <1>0, <1>6, <1>u DEF DropSlot, FloorOf
<1>8. ASSUME NEW t \in Stream, DispatchSnapshot(t) PROVE FloorOf(u)'
  <2>1. ensured' = Ensured /\ floor' = floor /\ pending' = pending /\ cursor' = cursor /\ pos' = pos
    BY <1>8 DEF DispatchSnapshot
  <2>2. horizon' = SnapshotStart BY <1>8, OneHorizon DEF DispatchSnapshot
  <2>3. CASE u = t
    <3>1. pc[t] = "idle" /\ pc'[t] = "copy" /\ since'[t] = SnapshotStart /\ cursor[t] = Unset
      BY <1>0, <1>8 DEF DispatchSnapshot, TypeInv
    <3> QED BY <1>0, <1>u, <2>1, <2>2, <2>3, <3>1, FloorBeforeStart DEF FloorOf, Reading
  <2>4. CASE u # t
    <3>1. pc'[u] = pc[u] /\ since'[u] = since[u]
      BY <1>0, <1>8, <2>4 DEF DispatchSnapshot, TypeInv
    <3> QED BY <1>0, <1>u, <2>1, <2>2, <3>1, FloorBeforeStart DEF FloorOf
  <2> QED BY <2>3, <2>4
<1>9. ASSUME NEW t \in Stream, DispatchChange(t) PROVE FloorOf(u)'
  <2>1. ensured' = Ensured /\ horizon' = horizon /\ pending' = pending /\ cursor' = cursor
    BY <1>9 DEF DispatchChange
  <2>3. CASE u = t
    <3>1. /\ cursor[t] # Unset /\ floor'[t] = cursor[t] /\ pos'[t] = cursor[t]
          /\ pc'[t] \in {"change", "complete"}
      BY <1>0, <1>9 DEF DispatchChange, TypeInv
    <3> QED BY <1>n, <1>u, <2>1, <2>3, <3>1 DEF FloorOf, Reading
  <2>4. CASE u # t
    <3>1. pc'[u] = pc[u] /\ since'[u] = since[u] /\ floor'[u] = floor[u] /\ pos'[u] = pos[u]
      BY <1>0, <1>9, <2>4 DEF DispatchChange, TypeInv
    <3> QED BY <1>0, <1>u, <2>1, <3>1, FloorBeforeStart DEF FloorOf
  <2> QED BY <2>3, <2>4
<1>10. ASSUME NEW t \in Stream, Copy(t) PROVE FloorOf(u)'
  <2>1. UNCHANGED <<ensured, horizon, pending, cursor, floor, since>> BY <1>10 DEF Copy
  <2>3. CASE u = t
    <3>1. pc[t] = "copy" /\ pc'[t] = "copied" /\ pos'[t] = since[t]
      BY <1>0, <1>10 DEF Copy, TypeInv
    <3> QED BY <1>0, <1>u, <2>1, <2>3, <3>1 DEF FloorOf, Reading
  <2>4. CASE u # t
    <3>1. pc'[u] = pc[u] /\ pos'[u] = pos[u] BY <1>0, <1>10, <2>4 DEF Copy, TypeInv
    <3> QED BY <1>0, <1>u, <2>1, <3>1 DEF FloorOf
  <2> QED BY <2>3, <2>4
<1>11. ASSUME NEW t \in Stream, FlushBatch(t) PROVE FloorOf(u)'
  <2>1. UNCHANGED <<ensured, horizon, pending, cursor, floor, since, pc>> BY <1>11 DEF FlushBatch
  <2>2. PICK hi \in pos[t] + 1 .. goal[t] : pos' = [pos EXCEPT ![t] = hi]
    BY <1>11 DEF FlushBatch
  <2>3. CASE u = t
    <3>1. pos'[t] = hi /\ hi \in Nat /\ pos[t] < hi /\ pc[t] \in Reading
      BY <1>0, <1>n, <1>11, <2>2, <2>3 DEF TypeInv, FlushBatch, Reading
    <3>2. pc[t] \notin {"copy", "idle"} BY <3>1 DEF Reading
    <3> QED BY <1>0, <1>n, <1>u, <2>1, <2>3, <3>1, <3>2 DEF FloorOf
  <2>4. CASE u # t
    <3>1. pos'[u] = pos[u] BY <1>0, <2>2, <2>4 DEF TypeInv
    <3> QED BY <1>0, <1>u, <2>1, <3>1 DEF FloorOf
  <2> QED BY <2>3, <2>4
<1>12. ASSUME NEW t \in Stream, FinishPass(t) PROVE FloorOf(u)'
  <2>1. UNCHANGED <<ensured, horizon, pending, cursor, floor, since>> BY <1>12 DEF FinishPass
  <2>3. CASE u = t
    <3>1. /\ pos'[t] = goal[t] /\ pc[t] \in {"change", "following"}
          /\ pc'[t] = IF pc[t] = "change" THEN "complete" ELSE "tail"
      BY <1>0, <1>12 DEF TypeInv, FinishPass
    <3>2. pos[t] <= goal[t] /\ pc[t] \in Reading BY <1>0, <2>3, <3>1 DEF RuntimeOf, Reading
    <3>3. floor[u] # Unset => floor[u] <= pos'[u] BY <1>0, <1>n, <2>3, <3>1, <3>2 DEF FloorOf
    <3>4. pc'[t] \notin {"copy", "idle", "change"} BY <3>1
    <3> QED BY <1>0, <1>n, <1>u, <2>1, <2>3, <3>1, <3>3, <3>4 DEF FloorOf
  <2>4. CASE u # t
    <3>1. pos'[u] = pos[u] /\ pc'[u] = pc[u] BY <1>0, <1>12, <2>4 DEF TypeInv, FinishPass
    <3> QED BY <1>0, <1>u, <2>1, <3>1 DEF FloorOf
  <2> QED BY <2>3, <2>4
<1>14. ASSUME NEW t \in Stream, Complete(t) PROVE FloorOf(u)'
  <2>1. UNCHANGED <<ensured, horizon, cursor, pos, since>> /\ pending' = pending \ {t}
    BY <1>14 DEF Complete
  <2>3. CASE u = t
    <3>1. pc[t] \in {"copied", "complete"} /\ pc'[t] \in {"tail", "done"}
      BY <1>0, <1>14 DEF TypeInv, Complete
    <3>2. floor'[t] = IF pc[t] = "copied" THEN since[t] ELSE floor[t]
      BY <1>0, <1>14 DEF TypeInv, Complete
    <3>3. CASE pc[t] = "copied"
      <4>1. /\ since[t] = horizon /\ pos[t] = since[t] /\ cursor[t] \in {Unset, since[t]}
            /\ horizon # Unset /\ (ensured.created => horizon = ensured.point)
        BY <1>0, <2>3, <3>3 DEF RuntimeOf, Runtime
      <4> QED BY <1>n, <1>u, <2>1, <2>3, <3>1, <3>2, <3>3, <4>1 DEF FloorOf
    <3>4. CASE pc[t] = "complete"
      BY <1>0, <1>u, <2>1, <2>3, <3>1, <3>2, <3>4 DEF FloorOf, Reading
    <3> QED BY <3>1, <3>3, <3>4
  <2>4. CASE u # t
    <3>1. floor'[u] = floor[u] /\ pc'[u] = pc[u] BY <1>0, <1>14, <2>4 DEF TypeInv, Complete
    <3> QED BY <1>0, <1>u, <2>1, <2>4, <3>1 DEF FloorOf
  <2> QED BY <2>3, <2>4
<1>15. ASSUME NEW t \in Stream, Follow(t) PROVE FloorOf(u)'
  <2>1. UNCHANGED <<ensured, horizon, pending, cursor, floor, pos>> BY <1>15 DEF Follow
  <2>3. CASE u = t
    <3>1. pc[t] = "tail" /\ pc'[t] = "following" BY <1>0, <1>15 DEF Follow, TypeInv
    <3> QED BY <1>0, <1>u, <2>1, <2>3, <3>1 DEF FloorOf, Reading
  <2>4. CASE u # t
    <3>1. pc'[u] = pc[u] /\ since'[u] = since[u] BY <1>0, <1>15, <2>4 DEF Follow, TypeInv
    <3> QED BY <1>0, <1>u, <2>1, <3>1 DEF FloorOf
  <2> QED BY <2>3, <2>4
<1>16. ASSUME NEW t \in Stream, EngineCommit(t) PROVE FloorOf(u)'
  <2>1. UNCHANGED <<ensured, horizon, pending, floor, pos, since, pc>> /\ fed[t] # Nothing
    BY <1>16 DEF EngineCommit
  <2>3. CASE u = t
    <3>1. pc[t] \in Reading /\ fed[t].at = pos[t] BY <1>0, <2>1, <2>3 DEF RuntimeOf
    <3>2. cursor'[t] = pos[t] BY <1>0, <1>n, <1>16, <2>3, <3>1 DEF EngineCommit, TypeInv
    <3> QED BY <1>0, <1>n, <1>u, <2>1, <2>3, <3>1, <3>2 DEF FloorOf
  <2>4. CASE u # t
    <3>1. cursor'[u] = cursor[u] BY <1>0, <1>16, <2>4 DEF EngineCommit, TypeInv
    <3> QED BY <1>0, <1>u, <2>1, <3>1 DEF FloorOf
  <2> QED BY <2>3, <2>4
<1>17. ASSUME NEW t \in Stream, ResetStream(t) PROVE FloorOf(u)'
  <2>1. ~running /\ UNCHANGED <<ensured, horizon, pending, floor, pos, since, pc>>
    BY <1>17 DEF ResetStream
  <2>2. floor[u] = Unset BY <1>0, <2>1 DEF RuntimeOf
  <2> QED BY <1>0, <1>u, <2>1, <2>2 DEF FloorOf
<1>18. ASSUME NEW t \in Stream, NEW bad \in BOOLEAN, ServerCommits(t, bad) PROVE FloorOf(u)'
  <2>1. UNCHANGED <<ensured, horizon, pending, floor, pos, since, pc, cursor>>
    BY <1>18 DEF ServerCommits
  <2> QED BY <1>0, <1>u, <2>1 DEF FloorOf
<1> QED BY <1>1, <1>2, <1>3, <1>4, <1>6, <1>8, <1>9, <1>10, <1>11, <1>12,
           <1>14, <1>15, <1>16, <1>17, <1>18
        DEF Next, Read, RunEnds, Crash, RefuseGap, PassFails

-----------------------------------------------------------------------------
(* The slot keeps what the streams still need *)

\* An acknowledgement that moves the slot stays behind every stream's floor.
LEMMA AckSafe ==
  ASSUME CdcAssumption, IInv, Next, NEW t \in Stream, Complete(t)
  PROVE  /\ slot'.up = slot.up
         /\ \/ slot'.confirmed = slot.confirmed
            \/ \A u \in Stream : floor'[u] # Unset /\ slot'.confirmed <= floor'[u]
<1>0. TypeInv /\ TypeInv' /\ \A u \in Stream : FloorOf(u)' BY TypeStep, FloorStep DEF IInv
<1>1. slot.confirmed \in Nat BY <1>0, Positions DEF TypeInv
<1>2. CASE pending \ {t} = {}
  <2>1. slot' = [slot EXCEPT !.confirmed = Larger(slot.confirmed, AckTarget(floor'))]
    BY <1>2 DEF Complete
  <2>2. pending' = {} BY <1>2 DEF Complete
  <2>3. \A u \in Stream : floor'[u] # Unset BY <1>0, <2>2 DEF FloorOf, Unset
  <2>4. MaybePoint' = MaybePoint BY DEF MaybePoint, Point, CurrentWal, Unset, Complete
  <2>5. floor' \in [Stream -> Nat] BY <1>0, <2>4, Positions DEF TypeInv
  <2>6. \A u \in Stream : AckTarget(floor') <= floor'[u] BY <2>3, <2>5, AckIsAFloor
  <2>7. slot'.up = slot.up /\ slot'.confirmed = Larger(slot.confirmed, AckTarget(floor'))
    BY <1>0, <2>1 DEF TypeInv
  <2> QED BY <2>3, <2>6, <2>7 DEF Larger
<1>3. CASE pending \ {t} # {} BY <1>3 DEF Complete
<1> QED BY <1>2, <1>3

\* A slot that is found stays, one that is made starts at the head of the log.
LEMMA SlotMade ==
  ASSUME CdcAssumption, IInv, CreateSlot
  PROVE  /\ slot'.up /\ (slot.up => slot' = slot)
         /\ ~slot.up => slot'.confirmed = CurrentWal
         /\ Ensured.created /\ ~ensured.known => slot'.confirmed = Ensured.point
         /\ slot'.confirmed <= CurrentWal
<1>1. TypeInv BY DEF IInv
<1>2. slot.confirmed <= CurrentWal BY <1>1, Positions DEF TypeInv, Point
<1>3. CurrentWal <= CurrentWal BY <1>1, Positions
<1> QED BY <1>1, <1>2, <1>3, EnsuredLearnt DEF CreateSlot, TypeInv

\* A step keeps the slot behind what each stream has read and committed.
LEMMA SlotForStep ==
  ASSUME CdcAssumption, IInv, Next, NEW u \in Stream PROVE SlotFor(u)'
<1> USE DEF serverVars, destVars, runVars, readVars, countVars, Ensure
<1>0. TypeInv /\ Runtime /\ SlotKeeps /\ RuntimeOf(u) /\ FloorOf(u) /\ SlotFor(u) BY DEF IInv
<1>u. Unset' = Unset BY DEF Unset
<1>n. /\ cursor[u] \in Nat /\ floor[u] \in Nat /\ pos[u] \in Nat /\ since[u] \in Nat
      /\ goal[u] \in Nat /\ since[u] # Unset /\ pos[u] # Unset
      /\ slot.confirmed \in Nat /\ ensured.point \in Nat /\ CurrentWal \in Nat /\ drops \in Nat
  BY <1>0, Positions DEF TypeInv
<1>1. CASE StartRun BY <1>0, <1>1, <1>u DEF StartRun, SlotFor, Trusted
<1>2. ASSUME EndRun, UNCHANGED <<cursor, drops>>, drops = 0 /\ cursor[u] # Unset => slot' = slot
      PROVE  SlotFor(u)'
  <2>1. EndAttempt /\ NewRuntime BY <1>2 DEF EndRun
  <2>2. pc'[u] = "idle" /\ ~ensured'.created
    BY <2>1, Ended DEF NewRuntime, NotEnsured
  <2> QED BY <1>0, <1>2, <1>u, <2>2 DEF SlotFor, Reading
<1>3. CASE EnsureFails
  <2>1. EndAttempt /\ ~ensured.known /\ ~slot.up /\ ensured' = ensured /\ cursor' = cursor /\ drops' = drops
    BY <1>3 DEF EnsureFails
  <2>2. pc'[u] = "idle" /\ ~ensured'.created BY <1>0, <2>1, Ended DEF Runtime
  <2> QED BY <1>0, <1>u, <2>1, <2>2 DEF SlotFor, Reading
<1>4. CASE AttemptFails
  <2>1. EndAttempt /\ UNCHANGED <<slot, ensured, cursor, drops>> BY <1>4 DEF AttemptFails
  <2>2. pc'[u] = "idle" BY <2>1, Ended
  <2> QED BY <1>0, <1>u, <2>1, <2>2 DEF SlotFor, Reading
<1>6. CASE DropSlot
  <2>1. ~running /\ drops' = drops + 1 /\ UNCHANGED <<ensured, pc>> BY <1>6 DEF DropSlot
  <2>2. pc[u] = "idle" /\ ~ensured.created /\ drops' # 0
    BY <1>0, <1>n, <2>1 DEF Runtime, RuntimeOf, NotEnsured
  <2> QED BY <2>1, <2>2 DEF SlotFor, Reading
<1>7. ASSUME NEW t \in Stream, RefuseGap(t) PROVE SlotFor(u)'
  <2>1. EndRun /\ CreateSlot /\ UNCHANGED <<cursor, drops>> BY <1>7 DEF RefuseGap
  <2>2. drops = 0 /\ cursor[u] # Unset => slot' = slot BY <1>0, <2>1, SlotMade DEF SlotFor
  <2> QED BY <1>2, <2>1, <2>2
<1>8. ASSUME NEW t \in Stream, DispatchSnapshot(t) PROVE SlotFor(u)'
  <2>1. ensured' = Ensured /\ cursor' = cursor /\ pos' = pos /\ drops' = drops /\ CreateSlot
    BY <1>8 DEF DispatchSnapshot
  <2>2. ensured'.created =>
             slot'.confirmed <= ensured'.point \/ (cursor'[u] # Unset /\ slot'.confirmed <= cursor'[u])
    <3>1. CASE ensured.known
      <4>1. Ensured = ensured /\ slot' = slot BY <1>0, <2>1, <3>1, EnsuredLearnt, SlotMade DEF Runtime
      <4> QED BY <1>0, <2>1, <4>1 DEF SlotFor
    <3>2. CASE ~ensured.known
      BY <1>n, <2>1, <3>2, EnsuredLearnt, SlotMade
    <3> QED BY <3>1, <3>2
  <2>3. drops = 0 /\ cursor[u] # Unset => slot'.up /\ slot'.confirmed <= cursor[u]
    BY <1>0, <2>1, SlotMade DEF SlotFor
  <2>4. pc'[u] \in Reading => pc[u] = pc'[u]
    BY <1>0, <1>8 DEF DispatchSnapshot, TypeInv, Reading
  <2>5. pc'[u] \in Reading => ensured.known /\ Ensured = ensured /\ slot' = slot
    BY <1>0, <2>1, <2>4, EnsuredLearnt, SlotMade DEF RuntimeOf, Reading
  <2>6. Trusted' /\ pc'[u] \in Reading => slot'.confirmed <= pos'[u]
    BY <1>0, <2>1, <2>4, <2>5 DEF SlotFor, Trusted
  <2> QED BY <1>u, <2>1, <2>2, <2>3, <2>6 DEF SlotFor
<1>9. ASSUME NEW t \in Stream, DispatchChange(t) PROVE SlotFor(u)'
  <2>1. ensured' = Ensured /\ cursor' = cursor /\ drops' = drops /\ CreateSlot
    BY <1>9 DEF DispatchChange
  <2>2. ensured'.created =>
             slot'.confirmed <= ensured'.point \/ (cursor'[u] # Unset /\ slot'.confirmed <= cursor'[u])
    <3>1. CASE ensured.known
      <4>1. Ensured = ensured /\ slot' = slot BY <1>0, <2>1, <3>1, EnsuredLearnt, SlotMade DEF Runtime
      <4> QED BY <1>0, <2>1, <4>1 DEF SlotFor
    <3>2. CASE ~ensured.known
      BY <1>n, <2>1, <3>2, EnsuredLearnt, SlotMade
    <3> QED BY <3>1, <3>2
  <2>3. drops = 0 /\ cursor[u] # Unset => slot'.up /\ slot'.confirmed <= cursor[u]
    BY <1>0, <2>1, SlotMade DEF SlotFor
  <2>4. CASE u = t
    <3>1. pos'[t] = cursor[t] /\ cursor[t] # Unset /\ ~GapRefused(t)
      BY <1>0, <1>9 DEF DispatchChange, TypeInv
    <3>2. Ensured.point \in Nat BY <1>0, EnsuredOK, Positions
    <3>3. Ensured.created => Ensured.point <= cursor[u]
      BY <1>n, <2>4, <3>1, <3>2 DEF GapRefused
    <3>4. slot'.confirmed \in Nat BY <1>0, <2>1, EnsuredOK, Positions
    <3>5. Trusted' => slot'.confirmed <= pos'[u]
      BY <1>n, <2>1, <2>2, <2>3, <2>4, <3>1, <3>2, <3>3, <3>4 DEF Trusted
    <3> QED BY <1>u, <2>1, <2>2, <2>3, <3>5 DEF SlotFor
  <2>5. CASE u # t
    <3>1. pc'[u] = pc[u] /\ pos'[u] = pos[u]
      BY <1>0, <1>9, <2>5 DEF DispatchChange, TypeInv
    <3>2. pc'[u] \in Reading => ensured.known /\ Ensured = ensured /\ slot' = slot
      BY <1>0, <2>1, <3>1, EnsuredLearnt, SlotMade DEF RuntimeOf, Reading
    <3>3. Trusted' /\ pc'[u] \in Reading => slot'.confirmed <= pos'[u]
      BY <1>0, <2>1, <3>1, <3>2 DEF SlotFor, Trusted
    <3> QED BY <1>u, <2>1, <2>2, <2>3, <3>3 DEF SlotFor
  <2> QED BY <2>4, <2>5
<1>10. ASSUME NEW t \in Stream, Copy(t) PROVE SlotFor(u)'
  <2>1. UNCHANGED <<slot, ensured, cursor, drops>> BY <1>10 DEF Copy
  <2>3. CASE u = t
    <3>1. pc[t] = "copy" /\ pos'[t] = since[t] BY <1>0, <1>10 DEF Copy, TypeInv
    <3>2. since[t] = horizon /\ horizon # Unset BY <1>0, <2>3, <3>1 DEF RuntimeOf
    <3> QED BY <1>0, <1>u, <2>1, <2>3, <3>1, <3>2 DEF SlotFor, SlotKeeps
  <2>4. CASE u # t
    <3>1. pc'[u] = pc[u] /\ pos'[u] = pos[u] BY <1>0, <1>10, <2>4 DEF Copy, TypeInv
    <3> QED BY <1>0, <1>u, <2>1, <3>1 DEF SlotFor, Trusted
  <2> QED BY <2>3, <2>4
<1>11. ASSUME NEW t \in Stream, FlushBatch(t) PROVE SlotFor(u)'
  <2>1. UNCHANGED <<slot, ensured, cursor, drops, pc>> BY <1>11 DEF FlushBatch
  <2>2. PICK hi \in pos[t] + 1 .. goal[t] : pos' = [pos EXCEPT ![t] = hi]
    BY <1>11 DEF FlushBatch
  <2>3. pos[u] <= pos'[u] /\ pos'[u] \in Nat BY <1>0, <1>n, <2>2 DEF TypeInv
  <2> QED BY <1>0, <1>n, <1>u, <2>1, <2>3 DEF SlotFor, Trusted
<1>12. ASSUME NEW t \in Stream, FinishPass(t) PROVE SlotFor(u)'
  <2>1. UNCHANGED <<slot, ensured, cursor, drops>> BY <1>12 DEF FinishPass
  <2>2. pc'[u] \in Reading => pc[u] \in Reading
    BY <1>0, <1>12 DEF TypeInv, FinishPass, Reading
  <2>3. pos[u] <= pos'[u] /\ pos'[u] \in Nat
    BY <1>0, <1>n, <1>12 DEF TypeInv, FinishPass, RuntimeOf
  <2> QED BY <1>0, <1>n, <1>u, <2>1, <2>2, <2>3 DEF SlotFor, Trusted
<1>14. ASSUME NEW t \in Stream, Complete(t) PROVE SlotFor(u)'
  <2>1. UNCHANGED <<ensured, cursor, drops, pos>> BY <1>14 DEF Complete
  <2>2. pc'[u] \in Reading => pc[u] \in Reading
    BY <1>0, <1>14 DEF TypeInv, Complete, Reading
  <2>3. FloorOf(u)' /\ TypeInv' BY FloorStep, TypeStep
  <2>4. CASE slot'.confirmed = slot.confirmed
    <3>1. slot'.up = slot.up BY <1>14, AckSafe
    <3> QED BY <1>0, <1>u, <2>1, <2>2, <2>4, <3>1 DEF SlotFor, Trusted
  <2>5. CASE slot'.confirmed # slot.confirmed
    <3>1. floor'[u] # Unset /\ slot'.confirmed <= floor'[u] /\ slot'.up = slot.up
      BY <1>14, <2>5, AckSafe
    <3>2. slot'.confirmed \in Nat /\ floor'[u] \in Nat
      <4>1. Point' = Point /\ MaybePoint' = MaybePoint
        BY <1>14 DEF MaybePoint, Point, CurrentWal, Unset, Complete
      <4> QED BY <1>0, <2>3, <4>1, Positions DEF TypeInv
    <3>3. pc[t] # "idle" BY <1>14 DEF Complete
    <3>4. slot.up BY <3>3, <1>14 DEF IInv, RuntimeOf
    <3>5. /\ cursor[u] # Unset => floor'[u] <= cursor[u]
          /\ pc'[u] \in Reading => floor'[u] <= pos[u]
          /\ cursor[u] = Unset /\ ensured.created => floor'[u] <= ensured.point
      BY <1>u, <2>1, <2>3, <3>1 DEF FloorOf
    <3> QED BY <1>n, <1>u, <2>1, <3>1, <3>2, <3>4, <3>5 DEF SlotFor
  <2> QED BY <2>4, <2>5
<1>15. ASSUME NEW t \in Stream, Follow(t) PROVE SlotFor(u)'
  <2>1. UNCHANGED <<slot, ensured, cursor, drops, pos>> BY <1>15 DEF Follow
  <2>2. pc'[u] \in Reading => pc[u] \in Reading
    BY <1>0, <1>15 DEF TypeInv, Follow, Reading
  <2> QED BY <1>0, <1>u, <2>1, <2>2 DEF SlotFor, Trusted
<1>16. ASSUME NEW t \in Stream, EngineCommit(t) PROVE SlotFor(u)'
  <2>1. UNCHANGED <<slot, ensured, drops, pos, pc>> /\ fed[t] # Nothing
    BY <1>16 DEF EngineCommit
  <2>3. CASE u = t
    <3>1. pc[t] \in Reading /\ fed[t].at = pos[t] /\ slot.up
      BY <1>0, <2>1, <2>3 DEF RuntimeOf, Reading
    <3>2. cursor'[t] = pos[t] BY <1>0, <1>n, <1>16, <2>3, <3>1 DEF EngineCommit, TypeInv
    <3>3. cursor[u] # Unset => cursor[u] <= pos[u] BY <1>0, <2>3, <3>1 DEF RuntimeOf
    <3> QED BY <1>0, <1>n, <1>u, <2>1, <2>3, <3>1, <3>2, <3>3 DEF SlotFor, Trusted
  <2>4. CASE u # t
    <3>1. cursor'[u] = cursor[u] BY <1>0, <1>16, <2>4 DEF EngineCommit, TypeInv
    <3> QED BY <1>0, <1>u, <2>1, <3>1 DEF SlotFor, Trusted
  <2> QED BY <2>3, <2>4
<1>17. ASSUME NEW t \in Stream, ResetStream(t) PROVE SlotFor(u)'
  <2>1. ~running /\ UNCHANGED <<slot, ensured, drops, pos, pc>> BY <1>17 DEF ResetStream
  <2>2. pc[u] = "idle" /\ ~ensured.created BY <1>0, <2>1 DEF Runtime, RuntimeOf, NotEnsured
  <2>3. cursor'[u] # Unset => cursor'[u] = cursor[u] BY <1>0, <1>17 DEF ResetStream, TypeInv
  <2> QED BY <1>0, <1>u, <2>1, <2>2, <2>3 DEF SlotFor, Reading
<1>18. ASSUME NEW t \in Stream, NEW bad \in BOOLEAN, ServerCommits(t, bad) PROVE SlotFor(u)'
  <2>1. UNCHANGED <<slot, ensured, drops, pos, pc, cursor>> BY <1>18 DEF ServerCommits
  <2> QED BY <1>0, <1>u, <2>1 DEF SlotFor, Trusted
<1>19. CASE RunEnds \/ Crash \/ \E t \in Stream : PassFails(t)
  <2>1. EndRun /\ UNCHANGED <<cursor, drops, slot>> BY <1>19 DEF RunEnds, Crash, PassFails
  <2> QED BY <1>2, <2>1
<1> QED BY <1>1, <1>3, <1>4, <1>6, <1>7, <1>8, <1>9, <1>10, <1>11, <1>12,
           <1>14, <1>15, <1>16, <1>17, <1>18, <1>19
        DEF Next, Read

\* The stream whose snapshot set the horizon holds the slot behind it.
Anchor(v) ==
  /\ pc[v] # "idle"
  /\ pc[v] \in {"copy", "copied"} \/ (floor[v] # Unset /\ floor[v] <= horizon)

\* A step keeps the slot behind the horizon.
LEMMA SlotKeepsStep == ASSUME CdcAssumption, IInv, Next PROVE SlotKeeps'
<1> USE DEF serverVars, destVars, runVars, readVars, countVars, Ensure
<1>0. /\ TypeInv /\ Runtime
      /\ horizon # Unset => slot.confirmed <= horizon /\ \E v \in Stream : Anchor(v)
  BY DEF IInv, SlotKeeps, Anchor
<1>u. Unset' = Unset BY DEF Unset
<1>1. ASSUME horizon' = horizon, slot' = slot,
             \A v \in Stream : horizon # Unset /\ Anchor(v) => Anchor(v)'
      PROVE  SlotKeeps'
  BY <1>0, <1>1, <1>u DEF SlotKeeps, Anchor
<1>2. ASSUME EndRun PROVE SlotKeeps' BY <1>2, RunEnded
<1>3. CASE EnsureFails
  <2>1. horizon' = Unset BY <1>0, <1>3 DEF EnsureFails, Runtime
  <2> QED BY <1>u, <2>1 DEF SlotKeeps
<1>4. CASE AttemptFails
  <2>1. horizon' = Unset BY <1>4 DEF AttemptFails
  <2> QED BY <1>u, <2>1 DEF SlotKeeps
<1>5. CASE StartRun \/ \E t \in Stream : ResetStream(t) \/ \E bad \in BOOLEAN : ServerCommits(t, bad)
  <2>1. UNCHANGED <<slot, horizon, pc, floor>> BY <1>5 DEF StartRun, ResetStream, ServerCommits
  <2> QED BY <1>1, <1>u, <2>1 DEF Anchor
<1>6. CASE DropSlot
  <2>1. horizon' = Unset BY <1>0, <1>6 DEF DropSlot, Runtime
  <2> QED BY <1>u, <2>1 DEF SlotKeeps
<1>8. ASSUME NEW t \in Stream, DispatchSnapshot(t) PROVE SlotKeeps'
  <2>1. /\ horizon' = SnapshotStart /\ (horizon # Unset => horizon' = horizon) /\ CreateSlot
        /\ pc[t] = "idle" /\ pc'[t] = "copy" /\ cursor[t] = Unset /\ floor' = floor
    BY <1>0, <1>8, OneHorizon DEF DispatchSnapshot, TypeInv
  <2>2. SlotFor(t) BY DEF IInv
  <2>3. \A v \in Stream \ {t} : pc'[v] = pc[v] BY <1>0, <1>8 DEF DispatchSnapshot, TypeInv
  <2>4. CASE horizon # Unset
    <3>1. slot' = slot BY <1>0, <2>1, <2>4, SlotMade DEF Runtime
    <3>2. \A v \in Stream : Anchor(v) => Anchor(v)'
      BY <1>u, <2>1, <2>3, <2>4 DEF Anchor
    <3> QED BY <1>1, <2>1, <2>4, <3>1, <3>2
  <2>5. CASE horizon = Unset
    <3>1. slot'.confirmed <= SnapshotStart
      <4>1. CASE Ensured.created /\ ensured.known
        <5>1. slot' = slot /\ Ensured = ensured BY <1>0, <2>1, <4>1, SlotMade, EnsuredLearnt DEF Runtime
        <5> QED BY <2>1, <2>2, <4>1, <5>1, OneHorizon DEF SlotFor
      <4>2. CASE Ensured.created /\ ~ensured.known
        <5>1. slot'.confirmed = SnapshotStart BY <2>1, <4>2, SlotMade, OneHorizon
        <5>2. SnapshotStart \in Nat BY <1>0, SnapshotStartOK, Positions
        <5> QED BY <5>1, <5>2
      <4>3. CASE ~Ensured.created
        BY <2>1, <2>5, <4>3, SlotMade, OneHorizon
      <4> QED BY <4>1, <4>2, <4>3
    <3> QED BY <2>1, <3>1 DEF SlotKeeps
  <2> QED BY <2>4, <2>5
<1>9. ASSUME NEW t \in Stream, DispatchChange(t) PROVE SlotKeeps'
  <2>1. /\ horizon' = horizon /\ CreateSlot /\ pc[t] = "idle"
        /\ \A v \in Stream \ {t} : pc'[v] = pc[v] /\ floor'[v] = floor[v]
    BY <1>0, <1>9 DEF DispatchChange, TypeInv
  <2>2. horizon # Unset => slot' = slot BY <1>0, <2>1, SlotMade DEF Runtime
  <2>3. \A v \in Stream : horizon # Unset /\ Anchor(v) => Anchor(v)' BY <1>u, <2>1 DEF Anchor
  <2>4. CASE horizon = Unset BY <1>u, <2>1, <2>4 DEF SlotKeeps
  <2>5. CASE horizon # Unset BY <1>1, <2>1, <2>2, <2>3, <2>5
  <2> QED BY <2>4, <2>5
<1>10. ASSUME NEW t \in Stream, Copy(t) PROVE SlotKeeps'
  <2>1. UNCHANGED <<horizon, slot, floor>> /\ pc' = [pc EXCEPT ![t] = "copied"] /\ pc[t] = "copy"
    BY <1>10 DEF Copy
  <2>2. \A v \in Stream : Anchor(v) => Anchor(v)' BY <1>0, <1>u, <2>1 DEF Anchor, TypeInv
  <2> QED BY <1>1, <2>1, <2>2
<1>11. ASSUME NEW t \in Stream, FlushBatch(t) \/ FinishPass(t) \/ Follow(t) PROVE SlotKeeps'
  <2>1. /\ UNCHANGED <<horizon, slot, floor>> /\ pc[t] \in {"change", "following", "tail"}
        /\ \A v \in Stream \ {t} : pc'[v] = pc[v]
        /\ pc'[t] \in {"change", "following", "tail", "complete"}
    BY <1>0, <1>11 DEF FlushBatch, FinishPass, Follow, TypeInv
  <2>2. \A v \in Stream : Anchor(v) => Anchor(v)' BY <1>0, <1>u, <2>1 DEF Anchor
  <2> QED BY <1>1, <2>1, <2>2
<1>14. ASSUME NEW t \in Stream, Complete(t) PROVE SlotKeeps'
  <2>1. /\ horizon' = horizon /\ since' = since /\ pos' = pos
        /\ pc[t] \in {"copied", "complete"} /\ pc'[t] \in {"tail", "done"}
        /\ floor'[t] = IF pc[t] = "copied" THEN since[t] ELSE floor[t]
        /\ \A v \in Stream \ {t} : pc'[v] = pc[v] /\ floor'[v] = floor[v]
    BY <1>0, <1>14 DEF Complete, TypeInv
  <2>2. \A v \in Stream : RuntimeOf(v) /\ FloorOf(v)' /\ RuntimeOf(v)'
    BY FloorStep, RuntimeStep DEF IInv
  <2>3. since[t] \in Nat /\ since[t] # Unset BY <1>0, Positions DEF TypeInv
  <2>4. \A v \in Stream : horizon # Unset /\ Anchor(v) => Anchor(v)'
    <3> SUFFICES ASSUME NEW v \in Stream, horizon # Unset, Anchor(v) PROVE Anchor(v)'
      OBVIOUS
    <3>1. CASE v = t
      <4>1. pc[t] = "copied" => since[t] = horizon BY <2>2 DEF RuntimeOf
      <4> QED BY <1>u, <2>1, <2>3, <3>1, <4>1 DEF Anchor
    <3>2. CASE v # t BY <1>u, <2>1, <3>2 DEF Anchor
    <3> QED BY <3>1, <3>2
  <2>5. CASE horizon = Unset BY <1>u, <2>1, <2>5 DEF SlotKeeps
  <2>6. CASE horizon # Unset /\ slot'.confirmed = slot.confirmed
    BY <1>0, <1>u, <2>1, <2>4, <2>6 DEF SlotKeeps, Anchor
  <2>7. CASE horizon # Unset /\ slot'.confirmed # slot.confirmed
    <3>1. \A u \in Stream : floor'[u] # Unset /\ slot'.confirmed <= floor'[u]
      BY <1>14, <2>7, AckSafe
    <3>2. PICK v \in Stream : Anchor(v)' BY <1>0, <2>4, <2>7
    <3>3. floor'[v] <= horizon
      <4>1. CASE pc'[v] \in {"copy", "copied"}
        <5>1. since'[v] = horizon /\ (pc'[v] = "copied" => pos'[v] = since'[v])
          BY <1>u, <2>1, <2>2, <4>1 DEF RuntimeOf
        <5> QED BY <1>u, <2>2, <3>1, <4>1, <5>1 DEF FloorOf, Reading
      <4>2. CASE pc'[v] \notin {"copy", "copied"} BY <2>1, <3>2, <4>2 DEF Anchor
      <4> QED BY <4>1, <4>2
    <3>4. slot'.confirmed \in Nat /\ floor'[v] \in Nat /\ horizon \in Nat
      <4>1. Point' = Point /\ MaybePoint' = MaybePoint
        BY <1>14 DEF MaybePoint, Point, CurrentWal, Unset, Complete
      <4>2. TypeInv' BY TypeStep
      <4> QED BY <1>0, <4>1, <4>2, Positions DEF TypeInv
    <3>5. slot'.confirmed <= horizon' BY <2>1, <3>1, <3>3, <3>4
    <3> QED BY <3>2, <3>5 DEF SlotKeeps, Anchor
  <2> QED BY <2>5, <2>6, <2>7
<1>16. ASSUME NEW t \in Stream, EngineCommit(t) PROVE SlotKeeps'
  <2>1. UNCHANGED <<slot, horizon, pc, floor>> BY <1>16 DEF EngineCommit
  <2> QED BY <1>1, <1>u, <2>1 DEF Anchor
<1> QED BY <1>2, <1>3, <1>4, <1>5, <1>6, <1>8, <1>9, <1>10, <1>11, <1>14, <1>16
        DEF Next, Read, RunEnds, Crash, RefuseGap, PassFails

-----------------------------------------------------------------------------
(* One instant *)

\* A step keeps the change passes on the run's target.
LEMMA InstantStep ==
  ASSUME CdcAssumption, IInv, Next, NEW u \in Stream PROVE InstantOf(u)'
<1> USE DEF serverVars, destVars, runVars, readVars, countVars, Ensure
<1>0. TypeInv /\ RuntimeOf(u) /\ InstantOf(u) BY DEF IInv
<1>n. goal[u] \in Nat /\ goal[u] # Unset /\ cursor[u] \in Nat /\ target \in Nat /\ CurrentWal \in Nat
  BY <1>0, Positions DEF TypeInv
<1>1. ASSUME UNCHANGED <<pos, since, goal, target, pc>> PROVE InstantOf(u)'
  BY <1>0, <1>1 DEF InstantOf
<1>2. ASSUME EndRun PROVE InstantOf(u)' BY <1>2, RunEnded
<1>3. ASSUME EndAttempt PROVE InstantOf(u)' BY <1>3, Ended DEF InstantOf
<1>8. ASSUME NEW t \in Stream, DispatchSnapshot(t) PROVE InstantOf(u)'
  <2>1. /\ UNCHANGED <<pos, goal, target>> /\ pc'[t] = "copy"
        /\ u # t => pc'[u] = pc[u] /\ since'[u] = since[u]
    BY <1>0, <1>8 DEF DispatchSnapshot, TypeInv
  <2> QED BY <1>0, <2>1 DEF InstantOf
<1>9. ASSUME NEW t \in Stream, DispatchChange(t) PROVE InstantOf(u)'
  <2>1. CASE u = t
    <3>1. /\ target' = PinTarget /\ goal'[t] = PinTarget /\ pos'[t] = cursor[t]
          /\ since'[t] = cursor[t]
          /\ pc'[t] = IF PinTarget > cursor[t] THEN "change" ELSE "complete"
      BY <1>0, <1>9 DEF DispatchChange, TypeInv
    <3>2. PinTarget \in Nat BY <1>n DEF PinTarget
    <3> QED BY <1>n, <2>1, <3>1, <3>2 DEF InstantOf
  <2>2. CASE u # t
    <3>1. /\ target' = PinTarget /\ goal'[u] = goal[u] /\ pos'[u] = pos[u]
          /\ since'[u] = since[u] /\ pc'[u] = pc[u]
      BY <1>0, <1>9, <2>2 DEF DispatchChange, TypeInv
    <3>2. goal[u] = target => target' = target BY <1>n, <3>1 DEF PinTarget
    <3> QED BY <1>0, <3>1, <3>2 DEF InstantOf
  <2> QED BY <2>1, <2>2
<1>10. ASSUME NEW t \in Stream, Copy(t) PROVE InstantOf(u)'
  <2>1. /\ UNCHANGED <<since, goal, target>> /\ pc'[t] = "copied"
        /\ u # t => pc'[u] = pc[u] /\ pos'[u] = pos[u]
    BY <1>0, <1>10 DEF Copy, TypeInv
  <2> QED BY <1>0, <2>1 DEF InstantOf
<1>11. ASSUME NEW t \in Stream, FlushBatch(t) PROVE InstantOf(u)'
  <2>1. UNCHANGED <<since, goal, target, pc>> /\ pc[t] \in {"change", "following"}
    BY <1>11 DEF FlushBatch
  <2>2. u # t => pos'[u] = pos[u] BY <1>0, <1>11 DEF FlushBatch, TypeInv
  <2> QED BY <1>0, <2>1, <2>2 DEF InstantOf
<1>12. ASSUME NEW t \in Stream, FinishPass(t) PROVE InstantOf(u)'
  <2>1. /\ UNCHANGED <<since, goal, target>> /\ pos'[t] = goal[t]
        /\ pc'[t] = IF pc[t] = "change" THEN "complete" ELSE "tail"
        /\ u # t => pc'[u] = pc[u] /\ pos'[u] = pos[u]
    BY <1>0, <1>12 DEF FinishPass, TypeInv
  <2> QED BY <1>0, <2>1 DEF InstantOf
<1>14. ASSUME NEW t \in Stream, Complete(t) PROVE InstantOf(u)'
  <2>1. /\ UNCHANGED <<since, goal, target, pos>> /\ pc[t] \in {"copied", "complete"}
        /\ pc'[t] \in {"tail", "done"} /\ (u # t => pc'[u] = pc[u])
    BY <1>0, <1>14 DEF Complete, TypeInv
  <2>2. u = t /\ pc[t] = "copied" => goal[t] = 0 BY <1>0 DEF RuntimeOf
  <2> QED BY <1>0, <2>1, <2>2 DEF InstantOf
<1>15. ASSUME NEW t \in Stream, Follow(t) PROVE InstantOf(u)'
  <2>1. /\ UNCHANGED <<target, pos>> /\ pc'[t] = "following"
        /\ u # t => pc'[u] = pc[u] /\ since'[u] = since[u] /\ goal'[u] = goal[u]
    BY <1>0, <1>15 DEF Follow, TypeInv
  <2> QED BY <1>0, <2>1 DEF InstantOf
<1>16. CASE StartRun \/ DropSlot \/ \E t \in Stream :
              ResetStream(t) \/ EngineCommit(t) \/ \E bad \in BOOLEAN : ServerCommits(t, bad)
  <2>1. UNCHANGED <<pos, since, goal, target, pc>>
    BY <1>16 DEF StartRun, DropSlot, ResetStream, EngineCommit, ServerCommits
  <2> QED BY <1>1, <2>1
<1> QED BY <1>2, <1>3, <1>8, <1>9, <1>10, <1>11, <1>12, <1>14, <1>15, <1>16
        DEF Next, Read, RunEnds, Crash, RefuseGap, PassFails, EnsureFails, AttemptFails

-----------------------------------------------------------------------------
(* Never a gap *)

\* What a range holds does not change as the log grows, and ranges add up.
LEMMA Ranges ==
  ASSUME CdcAssumption, TypeInv, NEW t \in Stream, NEW hi \in Point
  PROVE  /\ \A mid \in Point : mid <= hi =>
              /\ CommitsOf(t, 0, hi) = CommitsOf(t, 0, mid) \cup CommitsOf(t, mid, hi)
              /\ \A l \in CommitsOf(t, mid, hi) : l > mid
         /\ \A l \in CommitsOf(t, 0, hi) : l <= hi
BY Positions DEF CommitsOf, Point

\* A commit leaves the ranges before it as they were.
LEMMA LogGrows ==
  ASSUME CdcAssumption, TypeInv, NEW t \in Stream, NEW hi \in Point, NEW s \in Stream,
         NEW bad \in BOOLEAN, ServerCommits(s, bad)
  PROVE  {l \in 0 + 1 .. hi : wal'[l].table = t} = CommitsOf(t, 0, hi)
<1>1. wal' = Append(wal, [table |-> s, bad |-> bad]) /\ wal \in Seq(Commit)
  BY DEF ServerCommits, TypeInv
<1>2. \A l \in 1 .. hi : l \in 1 .. Len(wal) BY Positions DEF Point, CurrentWal
<1>3. \A l \in 1 .. hi : wal'[l] = wal[l] BY <1>1, <1>2 DEF Commit
<1> QED BY <1>3, Positions DEF CommitsOf, Point

\* What a stream holds once it has pushed all that the slot has up to hi.
LEMMA Extended ==
  ASSUME CdcAssumption, IInv, NEW t \in Stream, pc[t] \in {"change", "following"},
         NEW hi \in Point, pos[t] <= hi, Push(t, Peeked(t, hi), hi), pos'[t] = hi,
         UNCHANGED <<wal, applied, cursor, ensured, drops>>
  PROVE  CoverOf(t)'
<1>0. TypeInv /\ RuntimeOf(t) /\ SlotFor(t) /\ CoverOf(t) BY DEF IInv
<1>1. pos[t] \in Point /\ pos[t] \in Nat /\ hi \in Nat /\ slot.confirmed \in Nat /\ pc[t] \in Reading
  BY <1>0, Positions DEF TypeInv, Reading
<1>2. fed'[t].rows = fed[t].rows \cup Peeked(t, hi)
  <2>1. Peeked(t, hi) \in SUBSET (1 .. CurrentWal) BY <1>0, PeekedOK
  <2> QED BY <1>0, <2>1, PushOK
<1>3. SUFFICES ASSUME Trusted PROVE \/ CommitsOf(t, 0, hi) \subseteq Held(t)'
                                    \/ cursor[t] # Unset /\ ~(CommitsOf(t, 0, cursor[t]) \subseteq Held(t)')
  <2>1. Unset' = Unset /\ (Trusted' => Trusted) /\ cursor' = cursor BY DEF Unset, Trusted
  <2>2. CommitsOf(t, 0, pos[t])' = CommitsOf(t, 0, hi) BY DEF CommitsOf
  <2>3. CommitsOf(t, 0, cursor[t])' = CommitsOf(t, 0, cursor[t]) BY DEF CommitsOf
  <2> QED BY <1>3, <2>1, <2>2, <2>3 DEF CoverOf
<1>4. Held(t)' = Held(t) \cup Peeked(t, hi) BY <1>2 DEF Held
<1>5. slot.confirmed <= pos[t] BY <1>0, <1>1, <1>3 DEF SlotFor
<1>6. CASE CommitsOf(t, 0, pos[t]) \subseteq Held(t)
  <2>1. CommitsOf(t, 0, hi) = CommitsOf(t, 0, pos[t]) \cup CommitsOf(t, pos[t], hi)
    BY <1>0, <1>1, Ranges
  <2>2. \A l \in CommitsOf(t, pos[t], hi) : l \in Nat /\ l > pos[t]
    BY <1>0, <1>1, Ranges DEF CommitsOf
  <2>3. CommitsOf(t, pos[t], hi) \subseteq Peeked(t, hi)
    BY <1>1, <1>5, <2>2 DEF Peeked
  <2> QED BY <1>4, <1>6, <2>1, <2>3
<1>7. CASE cursor[t] # Unset /\ ~(CommitsOf(t, 0, cursor[t]) \subseteq Held(t))
  <2>1. PICK l \in CommitsOf(t, 0, cursor[t]) : l \notin Held(t) BY <1>7
  <2>2. cursor[t] \in Point /\ cursor[t] <= pos[t] /\ cursor[t] \in Nat
    BY <1>0, <1>1, <1>7, Positions DEF RuntimeOf, TypeInv, MaybePoint
  <2>3. l \in Nat /\ l <= pos[t] BY <1>0, <1>1, <2>1, <2>2, Ranges DEF CommitsOf
  <2>4. l \notin Peeked(t, hi) BY <1>1, <2>3 DEF Peeked, CommitsOf
  <2> QED BY <1>4, <1>7, <2>1, <2>4
<1> QED BY <1>0, <1>1, <1>3, <1>6, <1>7 DEF CoverOf

\* A stream that reads sees the slot the run ensured.
LEMMA CoverStays ==
  ASSUME CdcAssumption, IInv, NEW u \in Stream, UNCHANGED <<wal, drops>>,
         applied'[u] = applied[u], cursor'[u] = cursor[u], pos'[u] = pos[u],
         fed'[u].rows = fed[u].rows, pc'[u] \in Reading => pc[u] \in Reading,
         pc[u] # "idle" => ensured' = ensured
  PROVE  CoverOf(u)'
<1>0. TypeInv /\ CoverOf(u) BY DEF IInv
<1>1. SUFFICES ASSUME Trusted', pc'[u] \in Reading
               PROVE \/ CommitsOf(u, 0, pos[u])' \subseteq Held(u)'
                     \/ cursor'[u] # Unset' /\ ~(CommitsOf(u, 0, cursor[u])' \subseteq Held(u)')
  BY DEF CoverOf
<1>2. Trusted /\ pc[u] \in Reading
  BY <1>1 DEF Trusted, Reading
<1>3. Held(u)' = Held(u) /\ Unset' = Unset BY DEF Held, Unset
<1>4. /\ CommitsOf(u, 0, pos[u])' = CommitsOf(u, 0, pos[u])
      /\ CommitsOf(u, 0, cursor[u])' = CommitsOf(u, 0, cursor[u])
  BY DEF CommitsOf
<1> QED BY <1>0, <1>2, <1>3, <1>4 DEF CoverOf

\* A step keeps what the streams hold.
LEMMA CoverStep ==
  ASSUME CdcAssumption, IInv, Next, NEW u \in Stream PROVE CoverOf(u)'
<1> USE DEF serverVars, destVars, runVars, readVars, countVars, Ensure
<1>0. TypeInv /\ Runtime /\ RuntimeOf(u) /\ CoverOf(u) BY DEF IInv
<1>u. Unset' = Unset BY DEF Unset
<1>2. ASSUME EndRun PROVE CoverOf(u)' BY <1>2, RunEnded
<1>3. ASSUME EndAttempt PROVE CoverOf(u)' BY <1>3, Ended DEF CoverOf, Reading
<1>5. CASE StartRun
  <2>1. UNCHANGED <<wal, drops, applied, cursor, pos, fed, pc, ensured>> BY <1>5 DEF StartRun
  <2> QED BY <2>1, CoverStays
<1>6. CASE DropSlot \/ \E t \in Stream : ResetStream(t)
  <2>1. ~running /\ pc' = pc BY <1>6 DEF DropSlot, ResetStream
  <2>2. pc'[u] = "idle" BY <1>0, <2>1 DEF RuntimeOf
  <2> QED BY <2>2 DEF CoverOf, Reading
<1>8. ASSUME NEW t \in Stream, DispatchSnapshot(t) PROVE CoverOf(u)'
  <2>1. UNCHANGED <<wal, drops, applied, cursor, pos, fed>> /\ ensured' = Ensured
    BY <1>8 DEF DispatchSnapshot
  <2>2. pc'[u] \in Reading => pc[u] \in Reading
    BY <1>0, <1>8 DEF DispatchSnapshot, TypeInv, Reading
  <2>3. pc[u] # "idle" => ensured' = ensured BY <1>0, <2>1, EnsuredLearnt DEF RuntimeOf
  <2> QED BY <2>1, <2>2, <2>3, CoverStays
<1>9. ASSUME NEW t \in Stream, DispatchChange(t) PROVE CoverOf(u)'
  <2>1. UNCHANGED <<wal, drops, applied, cursor, fed>> /\ ensured' = Ensured
    BY <1>9 DEF DispatchChange
  <2>2. CASE u = t
    <3>1. pos'[u] = cursor'[u] /\ cursor'[u] # Unset
      BY <1>0, <1>9, <2>2 DEF DispatchChange, TypeInv
    <3> QED BY <1>u, <3>1 DEF CoverOf
  <2>3. CASE u # t
    <3>1. pc'[u] = pc[u] /\ pos'[u] = pos[u] BY <1>0, <1>9, <2>3 DEF DispatchChange, TypeInv
    <3>2. pc[u] # "idle" => ensured' = ensured BY <1>0, <2>1, EnsuredLearnt DEF RuntimeOf
    <3> QED BY <2>1, <3>1, <3>2, CoverStays
  <2> QED BY <2>2, <2>3
<1>10. ASSUME NEW t \in Stream, Copy(t) PROVE CoverOf(u)'
  <2>1. UNCHANGED <<wal, drops, applied, cursor, ensured>> /\ pc[t] = "copy"
    BY <1>10 DEF Copy
  <2>2. CASE u = t
    <3>1. since[t] = horizon /\ horizon # Unset /\ since[t] \in Point
      BY <1>0, <2>1, <2>2 DEF RuntimeOf, TypeInv
    <3>2. CurrentWal \in Point BY <1>0, Positions DEF Point
    <3>3. view' \in Point /\ since[t] <= view'
      BY <1>0, <1>10, <3>1, <3>2 DEF Copy, TypeInv, MaybePoint, Runtime, Point
    <3>4. CommitsOf(t, 0, view') \in SUBSET (1 .. CurrentWal)
      BY <1>0, <3>2, <3>3, RowsOK, Positions DEF Point
    <3>5. fed'[t].rows = fed[t].rows \cup CommitsOf(t, 0, view')
      BY <1>0, <1>10, <3>1, <3>4, PushOK DEF Copy
    <3>6. pos'[t] = since[t] BY <1>0, <1>10 DEF Copy, TypeInv
    <3>7. CommitsOf(t, 0, since[t]) \subseteq CommitsOf(t, 0, view') BY <1>0, <3>1, <3>3, Ranges
    <3>8. CommitsOf(t, 0, pos[t])' = CommitsOf(t, 0, since[t])
      BY <2>1, <3>6 DEF CommitsOf
    <3> QED BY <2>2, <3>5, <3>7, <3>8 DEF CoverOf, Held
  <2>3. CASE u # t
    <3>1. pc'[u] = pc[u] /\ pos'[u] = pos[u] /\ fed'[u] = fed[u]
      BY <1>0, <1>10, <2>3 DEF Copy, Push, TypeInv
    <3> QED BY <2>1, <3>1, CoverStays
  <2> QED BY <2>2, <2>3
<1>11. ASSUME NEW t \in Stream, FlushBatch(t) PROVE CoverOf(u)'
  <2>1. /\ UNCHANGED <<wal, drops, applied, cursor, ensured, pc>>
        /\ pc[t] \in {"change", "following"}
    BY <1>11 DEF FlushBatch
  <2>2. PICK hi \in pos[t] + 1 .. goal[t] :
             Push(t, Peeked(t, hi), hi) /\ pos' = [pos EXCEPT ![t] = hi]
    BY <1>11 DEF FlushBatch
  <2>3. CASE u = t
    <3>a. pos[t] \in Point /\ goal[t] \in Point BY <1>0 DEF TypeInv
    <3>b. hi \in Point /\ pos[t] <= hi BY <1>0, <2>2, <3>a, Positions DEF Point
    <3>1. pos'[t] = hi /\ hi \in Point /\ pos[t] <= hi
      BY <1>0, <2>2, <3>b DEF TypeInv
    <3> QED BY <2>1, <2>2, <2>3, <3>1, Extended
  <2>4. CASE u # t
    <3>1. pos'[u] = pos[u] /\ fed'[u] = fed[u] BY <1>0, <2>2, <2>4 DEF Push, TypeInv
    <3> QED BY <2>1, <3>1, CoverStays
  <2> QED BY <2>3, <2>4
<1>12. ASSUME NEW t \in Stream, FinishPass(t) PROVE CoverOf(u)'
  <2>1. /\ UNCHANGED <<wal, drops, applied, cursor, ensured>>
        /\ pc[t] \in {"change", "following"} /\ Push(t, Peeked(t, goal[t]), goal[t])
    BY <1>12 DEF FinishPass
  <2>3. CASE u = t
    <3>1. pos'[t] = goal[t] /\ goal[t] \in Point /\ pos[t] <= goal[t]
      BY <1>0, <1>12, <2>1, <2>3 DEF TypeInv, FinishPass, RuntimeOf
    <3> QED BY <2>1, <2>3, <3>1, Extended
  <2>4. CASE u # t
    <3>1. pos'[u] = pos[u] /\ fed'[u] = fed[u] /\ pc'[u] = pc[u]
      BY <1>0, <1>12, <2>4 DEF FinishPass, Push, TypeInv
    <3> QED BY <2>1, <3>1, CoverStays
  <2> QED BY <2>3, <2>4
<1>14. ASSUME NEW t \in Stream, Complete(t) PROVE CoverOf(u)'
  <2>1. UNCHANGED <<wal, drops, applied, cursor, ensured, pos, fed>> BY <1>14 DEF Complete
  <2>2. pc'[u] \in Reading => pc[u] \in Reading
    BY <1>0, <1>14 DEF Complete, TypeInv, Reading
  <2> QED BY <2>1, <2>2, CoverStays
<1>15. ASSUME NEW t \in Stream, Follow(t) PROVE CoverOf(u)'
  <2>1. UNCHANGED <<wal, drops, applied, cursor, ensured, pos>> BY <1>15 DEF Follow
  <2>2. pc'[u] \in Reading => pc[u] \in Reading
    BY <1>0, <1>15 DEF Follow, TypeInv, Reading
  <2>3. fed'[u].rows = fed[u].rows
    <3>1. pos[t] \in Point /\ {} \in SUBSET (1 .. CurrentWal) BY <1>0 DEF TypeInv
    <3>2. Push(t, {}, pos[t]) BY <1>15 DEF Follow
    <3> QED BY <1>0, <3>1, <3>2, PushOK
  <2> QED BY <2>1, <2>2, <2>3, CoverStays
<1>16. ASSUME NEW t \in Stream, EngineCommit(t) PROVE CoverOf(u)'
  <2>1. UNCHANGED <<wal, drops, ensured, pos, pc>> /\ fed[t] # Nothing BY <1>16 DEF EngineCommit
  <2>2. CASE u = t
    <3>1. pc[t] \in Reading /\ fed[t].at = pos[t] /\ pos[t] \in Point /\ pos[t] # Unset
      BY <1>0, <2>1, <2>2, Positions DEF RuntimeOf, TypeInv
    <3>2. cursor'[t] = pos[t] BY <1>0, <1>16, <3>1 DEF EngineCommit, TypeInv
    <3> QED BY <1>u, <2>1, <2>2, <3>1, <3>2 DEF CoverOf
  <2>3. CASE u # t
    <3>1. applied'[u] = applied[u] /\ cursor'[u] = cursor[u] /\ fed'[u] = fed[u]
      BY <1>0, <1>16, <2>3 DEF EngineCommit, TypeInv
    <3> QED BY <2>1, <3>1, CoverStays
  <2> QED BY <2>2, <2>3
<1>18. ASSUME NEW t \in Stream, NEW bad \in BOOLEAN, ServerCommits(t, bad) PROVE CoverOf(u)'
  <2>1. UNCHANGED <<drops, applied, cursor, ensured, pos, fed, pc>> BY <1>18 DEF ServerCommits
  <2>2. pos[u] \in Point /\ (cursor[u] # Unset => cursor[u] \in Point)
    BY <1>0 DEF TypeInv, MaybePoint
  <2>3. CommitsOf(u, 0, pos[u])' = CommitsOf(u, 0, pos[u])
    <3>1. {l \in 0 + 1 .. pos[u] : wal'[l].table = u} = CommitsOf(u, 0, pos[u])
      BY <1>0, <1>18, <2>2, LogGrows
    <3> QED BY <2>1, <3>1 DEF CommitsOf
  <2>4. cursor[u] # Unset => CommitsOf(u, 0, cursor[u])' = CommitsOf(u, 0, cursor[u])
    <3>1. SUFFICES ASSUME cursor[u] # Unset
                   PROVE  CommitsOf(u, 0, cursor[u])' = CommitsOf(u, 0, cursor[u])
      OBVIOUS
    <3>2. {l \in 0 + 1 .. cursor[u] : wal'[l].table = u} = CommitsOf(u, 0, cursor[u])
      BY <1>0, <1>18, <2>2, <3>1, LogGrows
    <3> QED BY <2>1, <3>2 DEF CommitsOf
  <2> QED BY <1>0, <1>u, <2>1, <2>3, <2>4 DEF CoverOf, Held, Trusted
<1> QED BY <1>2, <1>3, <1>5, <1>6, <1>8, <1>9, <1>10, <1>11, <1>12, <1>14, <1>15, <1>16, <1>18
        DEF Next, Read, RunEnds, Crash, RefuseGap, PassFails, EnsureFails, AttemptFails

-----------------------------------------------------------------------------
(* The invariant and the theorems *)

\* The initial state has the invariant.
LEMMA Initially == ASSUME CdcAssumption, Init PROVE IInv
<1>1. TypeInv BY TypeInit
<1>2. Runtime BY DEF Init, Runtime, NotEnsured
<1>3. SlotKeeps BY DEF Init, SlotKeeps
<1>4. ASSUME NEW t \in Stream
      PROVE  RuntimeOf(t) /\ FloorOf(t) /\ SlotFor(t) /\ CoverOf(t) /\ InstantOf(t)
  <2>1. /\ pc[t] = "idle" /\ fed[t] = Nothing /\ floor[t] = Unset /\ cursor[t] = Unset
        /\ goal[t] = 0 /\ t \in pending /\ ~ensured.created
    BY DEF Init, NotEnsured
  <2> QED BY <2>1 DEF RuntimeOf, FloorOf, SlotFor, CoverOf, InstantOf, Reading
<1> QED BY <1>1, <1>2, <1>3, <1>4 DEF IInv

\* A step keeps the invariant.
LEMMA Inductive == ASSUME CdcAssumption, IInv, [Next]_vars PROVE IInv'
<1>1. CASE Next
  BY <1>1, TypeStep, RuntimeStep, FloorStep, SlotForStep, SlotKeepsStep, CoverStep, InstantStep
     DEF IInv
<1>2. CASE UNCHANGED vars
  <2>1. /\ UNCHANGED <<wal, slot, applied, cursor, fed, running, ensured, target, horizon, view>>
        /\ UNCHANGED <<floor, pending, pc, since, pos, goal, wedged, fails, crashes, drops>>
    BY <1>2 DEF vars, serverVars, destVars, runVars, readVars, countVars
  <2>2. TypeInv' BY <2>1 DEF IInv, TypeInv, Point, MaybePoint, CurrentWal
  <2>3. Runtime' /\ SlotKeeps' BY <2>1 DEF IInv, Runtime, SlotKeeps
  <2>4. ASSUME NEW t \in Stream
        PROVE  (RuntimeOf(t) /\ FloorOf(t) /\ SlotFor(t) /\ CoverOf(t) /\ InstantOf(t))'
    <3>1. RuntimeOf(t) /\ FloorOf(t) /\ SlotFor(t) /\ CoverOf(t) /\ InstantOf(t) BY DEF IInv
    <3>2. (RuntimeOf(t) /\ FloorOf(t))' BY <2>1, <3>1 DEF RuntimeOf, FloorOf
    <3>3. (SlotFor(t) /\ InstantOf(t))' BY <2>1, <3>1 DEF SlotFor, InstantOf, Trusted
    <3>4. CoverOf(t)' BY <2>1, <3>1 DEF CoverOf, Trusted, Held, CommitsOf
    <3> QED BY <3>2, <3>3, <3>4
  <2> QED BY <2>2, <2>3, <2>4 DEF IInv
<1> QED BY <1>1, <1>2

\* Every behaviour has the invariant.
LEMMA Invariant == ASSUME CdcAssumption PROVE Spec => []IInv
<1>1. Init => IInv BY Initially
<1>2. IInv /\ [Next]_vars => IInv' BY Inductive
<1> QED BY <1>1, <1>2, PTL DEF Spec

\* What a run knows of the slot's making is lost with the run, and with the answer.
LEMMA MadeStep == ASSUME CdcAssumption, IInv, MadeInv, [Next]_vars PROVE MadeInv'
<1> USE DEF MadeInv
<1>0. /\ ensured.created => ensured.known
      /\ ensured.known => slot.up
      /\ NotEnsured.created = FALSE
  BY DEF IInv, Runtime, NotEnsured
<1>1. ASSUME Ensure PROVE MadeInv'
  <2>1. ensured' = Ensured /\ made' = IF slot.up THEN made ELSE "told" BY <1>1 DEF Ensure
  <2>2. CASE ensured.known BY <1>0, <2>1, <2>2 DEF Ensured
  <2>3. CASE ~ensured.known /\ slot.up BY <1>0, <2>1, <2>3 DEF Ensured
  <2>4. CASE ~ensured.known /\ ~slot.up BY <1>0, <2>1, <2>4 DEF Ensured
  <2> QED BY <2>2, <2>3, <2>4
<1>2. ASSUME EndRun PROVE MadeInv' BY <1>0, <1>2 DEF EndRun, NewRuntime
<1>3. ASSUME UNCHANGED <<made, ensured>> PROVE MadeInv' BY <1>3
<1>4. ASSUME EnsureFails PROVE MadeInv'
  BY <1>0, <1>4 DEF EnsureFails
<1>5. ASSUME NEW t \in Stream, Read(t) PROVE MadeInv'
  <2>1. CASE RefuseGap(t) \/ PassFails(t) BY <1>2, <2>1 DEF RefuseGap, PassFails
  <2>2. CASE DispatchSnapshot(t) \/ DispatchChange(t)
    BY <1>1, <2>2 DEF DispatchSnapshot, DispatchChange
  <2>3. CASE Copy(t) \/ FlushBatch(t) \/ FinishPass(t) \/ Complete(t) \/ Follow(t)
    BY <1>3, <2>3 DEF Copy, FlushBatch, FinishPass, Complete, Follow, runVars
  <2> QED BY <1>5, <2>1, <2>2, <2>3 DEF Read
<1>6. CASE RunEnds \/ Crash BY <1>2, <1>6 DEF RunEnds, Crash
<1>7. CASE StartRun \/ AttemptFails \/ DropSlot
  BY <1>3, <1>7 DEF StartRun, AttemptFails, DropSlot, runVars
<1>8. ASSUME NEW t \in Stream,
             EngineCommit(t) \/ ResetStream(t) \/ \E bad \in BOOLEAN : ServerCommits(t, bad)
      PROVE  MadeInv'
  BY <1>3, <1>8 DEF EngineCommit, ResetStream, ServerCommits, runVars
<1>9. CASE UNCHANGED vars BY <1>3, <1>9 DEF vars, runVars
<1> QED BY <1>4, <1>5, <1>6, <1>7, <1>8, <1>9 DEF Next

LEMMA WhoMade == ASSUME CdcAssumption PROVE Spec => []MadeInv
<1>1. Init => MadeInv BY DEF Init, MadeInv, NotEnsured
<1>2. IInv /\ MadeInv /\ [Next]_vars => MadeInv' BY MadeStep
<1> QED BY <1>1, <1>2, Invariant, PTL DEF Spec

\* The types: no stream reads, and no acknowledgement goes, past the end of
\* the log, for any streams and any number of faults.
THEOREM TypeCorrect == ASSUME CdcAssumption PROVE Spec => []TypeOK
<1>1. ASSUME IInv, MadeInv PROVE TypeOK
  <2>1. TypeInv BY <1>1 DEF IInv
  <2>2. /\ \A l \in DOMAIN wal : wal[l].table \in Stream /\ wal[l].bad \in BOOLEAN
        /\ slot.up \in BOOLEAN /\ slot.confirmed \in 0 .. CurrentWal
    <3>1. \A l \in DOMAIN wal : wal[l] \in Commit BY <2>1 DEF TypeInv
    <3>2. slot \in [up : BOOLEAN, confirmed : Point] BY <2>1 DEF TypeInv
    <3> QED BY <3>1, <3>2 DEF Commit, Point
  <2>3. \A t \in Stream : applied[t] \subseteq 1 .. CurrentWal /\ fed[t].rows \subseteq 1 .. CurrentWal
    BY <2>1 DEF TypeInv
  <2>4. /\ cursor \in [Stream -> Maybe] /\ floor \in [Stream -> Maybe]
        /\ {target, horizon, view} \subseteq Maybe /\ ensured.point \in Maybe
    BY <2>1, Positions DEF TypeInv
  <2>5. \A t \in Stream : pos[t] \in Point /\ since[t] \in Point /\ goal[t] \in Point
    BY <2>1 DEF TypeInv
  <2>6. \A t \in Stream : pos[t] <= CurrentWal /\ since[t] <= CurrentWal /\ goal[t] <= CurrentWal
    BY <2>1, <2>5, Positions DEF Point
  <2>7. pending \subseteq Stream /\ wedged \subseteq Stream BY <2>1 DEF TypeInv
  <2>8. \A t \in Stream : pc[t] \in {"idle", "copy", "copied", "change", "complete", "following",
                                     "tail", "done"}
    BY <2>1 DEF TypeInv, Reading
  <2>9. made \in {"no", "told", "untold"} BY <1>1 DEF MadeInv
  <2> QED BY <2>2, <2>3, <2>4, <2>6, <2>7, <2>8, <2>9 DEF TypeOK
<1> QED BY <1>1, Invariant, WhoMade, PTL

\* An acknowledgement moves the slot only past what every stream that will
\* resume has committed: what the server may discard, no stream needs.
THEOREM AckBehind == ASSUME CdcAssumption PROVE Spec => AckBehindDestination
<1> DEFINE Behind == slot.up /\ slot'.confirmed > slot.confirmed =>
                       \A t \in Stream : cursor[t] # Unset => slot'.confirmed <= cursor[t]
<1>1. ASSUME IInv, Next PROVE Behind
  <2> USE DEF serverVars, destVars, runVars, readVars, countVars, Ensure
  <2>0. TypeInv /\ TypeInv' BY <1>1, TypeStep DEF IInv
  <2>1. SUFFICES ASSUME slot.up, slot'.confirmed > slot.confirmed, NEW u \in Stream, cursor[u] # Unset
                 PROVE  slot'.confirmed <= cursor[u]
    OBVIOUS
  <2>2. slot.confirmed \in Nat BY <2>0, Positions DEF TypeInv
  <2>3. CreateSlot => slot' = slot BY <2>1 DEF CreateSlot
  <2>4. slot' # slot BY <2>1, <2>2
  <2>5. ~DropSlot
    <3>1. DropSlot => slot'.confirmed = 0 BY DEF DropSlot
    <3> QED BY <2>1, <2>2, <3>1
  <2>6. PICK t \in Stream : Complete(t)
    BY <1>1, <2>3, <2>4, <2>5 DEF Next, Read, StartRun, RunEnds, EnsureFails, AttemptFails, Crash,
       RefuseGap, DispatchSnapshot, DispatchChange, Copy, FlushBatch, FinishPass, PassFails, Follow,
       EngineCommit, ResetStream, ServerCommits
  <2>7. floor'[u] # Unset /\ slot'.confirmed <= floor'[u]
    <3>1. slot'.confirmed # slot.confirmed BY <2>1, <2>2
    <3> QED BY <1>1, <2>6, <3>1, AckSafe
  <2>8. cursor' = cursor /\ FloorOf(u)' BY <1>1, <2>6, FloorStep DEF Complete
  <2>9. floor'[u] <= cursor[u] BY <2>1, <2>7, <2>8 DEF FloorOf, Unset
  <2>10. slot'.confirmed \in Nat /\ floor'[u] \in Nat /\ cursor[u] \in Nat
    <3>1. Point' = Point /\ MaybePoint' = MaybePoint
      BY <2>6 DEF MaybePoint, Point, CurrentWal, Unset, Complete
    <3> QED BY <2>0, <3>1, Positions DEF TypeInv
  <2> QED BY <2>7, <2>9, <2>10
<1>2. ASSUME UNCHANGED vars, IInv PROVE Behind
  <2>1. slot.confirmed \in Nat /\ slot' = slot BY <1>2, Positions DEF IInv, TypeInv, vars, serverVars
  <2> QED BY <2>1
<1>3. IInv /\ [Next]_vars => [Behind]_vars BY <1>1
<1> QED BY <1>3, Invariant, PTL DEF Spec, AckBehindDestination

\* What the step that could open a gap does: nothing, unless the run reads
\* under a slot that another run made after a drop.
LEMMA GapStep ==
  ASSUME CdcAssumption, IInv, Next, NoGap, Trusted \/ ~ensured.known PROVE NoGap'
<1> USE DEF serverVars, destVars, runVars, readVars, countVars, Ensure
<1>0. TypeInv BY DEF IInv
<1>1. SUFFICES ASSUME NEW u \in Stream, cursor'[u] # Unset
               PROVE  CommitsOf(u, 0, cursor[u])' \subseteq applied'[u]
  BY DEF NoGap, Unset
<1>2. ASSUME wal' = wal, applied'[u] = applied[u], cursor'[u] = cursor[u]
      PROVE  CommitsOf(u, 0, cursor[u])' \subseteq applied'[u]
  BY <1>1, <1>2 DEF NoGap, CommitsOf
<1>3. ASSUME NEW t \in Stream, EngineCommit(t)
      PROVE  CommitsOf(u, 0, cursor[u])' \subseteq applied'[u]
  <2>1. CASE u = t
    <3>0. RuntimeOf(t) /\ CoverOf(t) BY DEF IInv
    <3>1. pc[t] \in Reading /\ fed[t].at = pos[t] /\ pos[t] # Unset /\ ensured.known
      <4>1. fed[t] # Nothing BY <1>3 DEF EngineCommit
      <4>2. pos[t] # Unset BY <1>0, Positions DEF TypeInv
      <4>3. pc[t] \in Reading /\ fed[t].at = pos[t] BY <3>0, <4>1 DEF RuntimeOf
      <4> QED BY <3>0, <4>2, <4>3 DEF RuntimeOf, Reading
    <3>2. cursor'[t] = pos[t] /\ applied'[t] = Held(t) /\ wal' = wal
      BY <1>0, <1>3, <3>1 DEF EngineCommit, TypeInv, Held
    <3>3. cursor[t] # Unset => CommitsOf(t, 0, cursor[t]) \subseteq Held(t) BY DEF NoGap, Held
    <3>4. CommitsOf(t, 0, pos[t]) \subseteq Held(t) BY <3>0, <3>1, <3>3 DEF CoverOf
    <3> QED BY <2>1, <3>2, <3>4 DEF CommitsOf
  <2>2. CASE u # t
    <3>1. wal' = wal /\ applied'[u] = applied[u] /\ cursor'[u] = cursor[u]
      BY <1>0, <1>3, <2>2 DEF EngineCommit, TypeInv
    <3> QED BY <1>2, <3>1
  <2> QED BY <2>1, <2>2
<1>4. ASSUME NEW t \in Stream, ResetStream(t)
      PROVE  CommitsOf(u, 0, cursor[u])' \subseteq applied'[u]
  <2>1. u # t BY <1>0, <1>1, <1>4 DEF ResetStream, TypeInv
  <2>2. wal' = wal /\ applied'[u] = applied[u] /\ cursor'[u] = cursor[u]
    BY <1>0, <1>4, <2>1 DEF ResetStream, TypeInv
  <2> QED BY <1>2, <2>2
<1>5. ASSUME NEW t \in Stream, NEW bad \in BOOLEAN, ServerCommits(t, bad)
      PROVE  CommitsOf(u, 0, cursor[u])' \subseteq applied'[u]
  <2>1. applied' = applied /\ cursor' = cursor BY <1>5 DEF ServerCommits
  <2>2. cursor[u] \in Point BY <1>0, <1>1, <2>1 DEF TypeInv, MaybePoint
  <2>3. {l \in 0 + 1 .. cursor[u] : wal'[l].table = u} = CommitsOf(u, 0, cursor[u])
    BY <1>0, <1>5, <2>2, LogGrows
  <2>4. CommitsOf(u, 0, cursor[u])' = CommitsOf(u, 0, cursor[u]) BY <2>1, <2>3 DEF CommitsOf
  <2> QED BY <1>1, <2>1, <2>4 DEF NoGap
<1>6. CASE ~\E t \in Stream : EngineCommit(t) \/ ResetStream(t) \/ \E bad \in BOOLEAN : ServerCommits(t, bad)
  <2>1. UNCHANGED <<wal, applied, cursor>>
    BY <1>6 DEF Next, Read, StartRun, RunEnds, EnsureFails, AttemptFails, Crash, DropSlot,
       RefuseGap, DispatchSnapshot, DispatchChange, Copy, FlushBatch, FinishPass, PassFails,
       Complete, Follow
  <2> QED BY <1>2, <2>1
<1> QED BY <1>3, <1>4, <1>5, <1>6

\* While nobody drops the slot, no failure, retry, crash or reset opens a gap.
THEOREM Gapless == ASSUME CdcAssumption, MaxDrop = 0 PROVE Spec => []NoGap
<1>1. Init => NoGap BY DEF Init, NoGap
<1>2. ASSUME IInv, NoGap, [Next]_vars PROVE NoGap'
  <2>1. drops = 0 BY <1>2 DEF IInv, TypeInv
  <2>2. CASE Next BY <1>2, <2>1, <2>2, GapStep DEF Trusted
  <2>3. CASE UNCHANGED vars
    BY <1>2, <2>3 DEF vars, serverVars, destVars, NoGap, CommitsOf, Unset
  <2> QED BY <1>2, <2>2, <2>3
<1>3. IInv /\ NoGap /\ [Next]_vars => NoGap' BY <1>2
<1> QED BY <1>1, <1>3, Invariant, PTL DEF Spec

\* After a drop a gap opens only in a run that was not told it made the slot: an
\* earlier run made it, or this one did and lost the answer.  A run that was told
\* refuses the stream.
THEOREM UntoldRun == ASSUME CdcAssumption PROVE Spec => GapNeedsUntoldRun
<1> DEFINE Untold == NoGap /\ ~NoGap' => drops > 0 /\ made # "told"
<1>1. ASSUME IInv, MadeInv, Next PROVE Untold
  <2>1. drops \in Nat /\ (drops # 0 => drops > 0)
    BY <1>1 DEF IInv, TypeInv, CdcAssumption
  <2>2. Trusted \/ ~ensured.known => (NoGap => NoGap') BY <1>1, GapStep
  <2> QED BY <1>1, <2>1, <2>2 DEF Trusted, MadeInv
<1>2. IInv /\ MadeInv /\ [Next]_vars => [Untold]_vars BY <1>1
<1> QED BY <1>2, Invariant, WhoMade, PTL DEF Spec, GapNeedsUntoldRun

\* The tables one run fills from the log end at one position, pinned by the
\* first of them, whatever failed and was read again.
THEOREM Instant == ASSUME CdcAssumption PROVE Spec => []OneInstant
<1>1. ASSUME IInv PROVE OneInstant
  <2>1. SUFFICES ASSUME NEW t \in Stream, NEW u \in Stream,
                        pc[t] = "done", goal[t] # 0, since[t] <= goal[t],
                        pc[u] = "done", goal[u] # 0, since[u] <= goal[u]
                 PROVE  pos[t] = pos[u]
    BY DEF OneInstant
  <2>2. InstantOf(t) /\ InstantOf(u) BY <1>1 DEF IInv
  <2>3. /\ since[t] \in Nat /\ goal[t] \in Nat /\ since[u] \in Nat /\ goal[u] \in Nat
    BY <1>1, Positions DEF IInv, TypeInv
  <2>4. pos[t] = target /\ pos[u] = target BY <2>1, <2>2, <2>3 DEF InstantOf
  <2> QED BY <2>4
<1> QED BY <1>1, Invariant, PTL

-----------------------------------------------------------------------------
(***************************************************************************)
(* PgApply                                                                 *)
(***************************************************************************)
CONSTANTS Keys, Values, FirstTable, MaxOps, BadMax, MaxDrift, MaxResets, MaxDeaths, BatchMax,
          Toast, Null
VARIABLES covers, table, columns, log, open, history, ops, bad, drifts, resets, deaths,
          confirmed, acursor, sink, aview, st, start, reflected, atarget, tx, msg, relation, txRows, ready,
          txError, apending

A == INSTANCE PgApply WITH MaxBad <- BadMax, cursor <- acursor, target <- atarget,
                           view <- aview, pending <- apending

-----------------------------------------------------------------------------
(* The inductive invariant *)

Copies   == [Keys -> Values \cup {Null}]
Rows     == [key : Keys, value : Values \cup {Null}, gone : BOOLEAN]
Tuples   == [key : Keys \cup {Null}, value : Values \cup {Null, Toast}]
Messages == [kind : {"insert"}, new : Tuples]
            \cup [kind : {"update"}, old : Tuples \cup {Null}, new : Tuples]
            \cup [kind : {"delete"}, old : Tuples]
            \cup [kind : {"truncate"}]
Committed == [msgs : Seq(Messages), columns : BOOLEAN]

\* What the pass makes of a message takes a table from before it to after it.
Carries(a, m, b) == A!Unappliable(m) \/ (A!RowsOf(m) \in Seq(Rows) /\ b = A!Merged(a, A!RowsOf(m)))

\* The tables between the messages of one transaction.
Leads(a, ms, p, b) ==
  /\ p \in [0 .. Len(ms) -> Copies] /\ p[0] = a /\ p[Len(ms)] = b
  /\ \A j \in 1 .. Len(ms) : Carries(p[j - 1], ms[j], p[j])

\* The server's table after n transactions.
Hist(n) == IF n = 0 THEN FirstTable ELSE history[n]

ServerInv ==
  /\ covers \in BOOLEAN /\ columns \in BOOLEAN
  /\ log \in Seq(Committed) /\ history \in Seq(Copies) /\ Len(history) = Len(log)
  /\ open \in Seq(Messages) /\ table \in Copies
  /\ \A i \in 1 .. Len(log) : \E p : Leads(Hist(i - 1), log[i].msgs, p, history[i])
  /\ \E p : Leads(Hist(Len(log)), open, p, table)

\* The transaction the destination will stand at when it has what was delivered.
Delivered == IF apending = A!Nothing THEN acursor ELSE apending.checkpoint
Later(m, n) == IF m > n THEN m ELSE n

\* A table whose rows are the server's at a position, or, where that is before
\* what the snapshot saw, still the snapshot's.
Fits(x, c) == \A k \in Keys : x[k] = Hist(c)[k] \/ (c < aview /\ x[k] = Hist(aview)[k])

\* Rows between two positions leave out only keys that nothing changed in between.
Touches(rows, k) == \E i \in DOMAIN rows : rows[i].key = k
Still(c, rows, d) ==
  \A k \in Keys : ~Touches(rows, k) => \A i \in c .. d : Hist(i)[k] = Hist(d)[k]

SinkInv ==
  /\ aview \in Nat /\ aview <= Len(log)
  /\ confirmed \in Nat /\ confirmed <= Len(log)
  /\ sink \in Copies
  /\ apending \in [rows : Seq(Rows), checkpoint : Nat \cup {Null}]
  /\ apending.checkpoint = Null => apending = A!Nothing
  /\ acursor = Null => sink = A!Empty
  /\ acursor # Null =>
       /\ acursor \in Nat /\ confirmed <= acursor /\ acursor <= Len(log)
       /\ Delivered \in Nat /\ acursor <= Delivered
       /\ Fits(sink, acursor)
  /\ Delivered # Null =>
       /\ Delivered \in Nat /\ confirmed <= Delivered /\ Delivered <= Len(log)
       /\ Fits(A!Merged(sink, apending.rows), Delivered)

\* A snapshot under way has read a position the slot has not passed, and nothing else
\* is under way.
SnapInv ==
  st = "snapshot" => acursor = Null /\ apending = A!Nothing /\ start \in Nat /\ confirmed <= start /\ start <= Len(log)

\* The rows that are ready continue what was delivered up to the last commit read,
\* and those of the transaction being read continue its first table.
PassInv ==
  st = "reading" =>
    /\ acursor # Null
    /\ tx \in Nat \ {0} /\ atarget \in Nat /\ tx <= atarget + 1 /\ atarget <= Len(log)
    /\ Delivered <= atarget /\ (apending # A!Nothing => Delivered < tx)
    /\ ready \in Seq(Rows) /\ txRows \in Seq(Rows)
    /\ A!Merged(Hist(Delivered), ready) = Hist(Later(Delivered, tx - 1))
    /\ Still(Delivered, ready, Later(Delivered, tx - 1))
    /\ tx <= atarget =>
         /\ msg \in 1 .. Len(log[tx].msgs) + 1
         /\ \E p : /\ Leads(Hist(tx - 1), log[tx].msgs, p, history[tx])
                   /\ ~txError => A!Merged(Hist(tx - 1), txRows) = p[msg - 1]

ApplyInv == ServerInv /\ SinkInv /\ SnapInv /\ PassInv

-----------------------------------------------------------------------------
(* Rows and merges *)

\* A key that has rows has a last one.
LEMMA LastRow ==
  ASSUME NEW S, NEW rows \in Seq(S), NEW k, NEW i \in DOMAIN rows, rows[i].key = k
  PROVE  /\ A!LastOf(rows, k) \in DOMAIN rows /\ rows[A!LastOf(rows, k)].key = k
         /\ \A j \in DOMAIN rows : rows[j].key = k => j <= A!LastOf(rows, k)
<1> DEFINE n == Len(rows)
           T == {n - j : j \in {x \in DOMAIN rows : rows[x].key = k}}
<1>1. n \in Nat /\ DOMAIN rows = 1 .. n OBVIOUS
<1>2. T \subseteq Nat /\ T # {} BY <1>1
<1>3. PICK m \in T : \A y \in T : ~ (<<y, m>> \in OpToRel(<, Nat))
  <2> HIDE DEF T
  <2> QED BY <1>2, NatLessThanWellFounded, WFMin
<1>4. \A y \in T : ~ (y < m) BY <1>2, <1>3 DEF OpToRel
<1>5. PICK g \in DOMAIN rows : rows[g].key = k /\ m = n - g OBVIOUS
<1>6. \A j \in DOMAIN rows : rows[j].key = k => j <= g
  <2> TAKE j \in DOMAIN rows
  <2> HAVE rows[j].key = k
  <2>1. n - j \in T OBVIOUS
  <2>2. ~ (n - j < m) BY <1>4, <2>1
  <2> QED BY <1>1, <1>5, <2>2
<1> HIDE DEF T, n
<1> QED BY <1>5, <1>6 DEF A!LastOf

\* The last one is the only one with nothing of its key after it.
LEMMA LastIs ==
  ASSUME NEW S, NEW rows \in Seq(S), NEW i \in DOMAIN rows,
         \A j \in DOMAIN rows : rows[j].key = rows[i].key => j <= i
  PROVE  A!LastOf(rows, rows[i].key) = i
<1>1. PICK l : l = A!LastOf(rows, rows[i].key) OBVIOUS
<1>2. l \in DOMAIN rows /\ rows[l].key = rows[i].key /\ i <= l BY <1>1, LastRow
<1>3. l <= i BY <1>2
<1>4. l \in Nat /\ i \in Nat BY <1>2
<1> QED BY <1>1, <1>2, <1>3, <1>4

\* What a merge makes of a key.
Value(r) == IF r.gone THEN Null ELSE r.value

LEMMA MergedRow ==
  ASSUME NEW S, NEW rows \in Seq(S), NEW a, NEW i \in DOMAIN rows, rows[i].key \in Keys,
         \A j \in DOMAIN rows : rows[j].key = rows[i].key => j <= i
  PROVE  A!Merged(a, rows)[rows[i].key] = Value(rows[i])
<1>1. A!LastOf(rows, rows[i].key) = i BY LastIs
<1> QED BY <1>1 DEF A!Merged, Value

LEMMA MergedElse ==
  ASSUME NEW rows, NEW a, NEW k \in Keys, \A j \in DOMAIN rows : rows[j].key # k
  PROVE  A!Merged(a, rows)[k] = a[k]
BY DEF A!Merged

LEMMA MergedType ==
  ASSUME NEW a \in Copies, NEW rows \in Seq(Rows)
  PROVE  A!Merged(a, rows) \in Copies
<1>1. \A k \in Keys : (\E i \in DOMAIN rows : rows[i].key = k) =>
        rows[A!LastOf(rows, k)] \in Rows
  BY LastRow
<1> QED BY <1>1 DEF A!Merged, Copies, Rows

\* Merging nothing changes nothing.
LEMMA MergeNothing ==
  ASSUME NEW a \in Copies
  PROVE  A!Merged(a, <<>>) = a
BY DEF A!Merged, Copies

\* Merging one list after the other is merging the two at once.
LEMMA MergeBoth ==
  ASSUME NEW a \in Copies, NEW r \in Seq(Rows), NEW s \in Seq(Rows)
  PROVE  A!Merged(A!Merged(a, r), s) = A!Merged(a, r \o s)
<1> DEFINE b == A!Merged(a, r)
           both == r \o s
<1>1. /\ both \in Seq(Rows) /\ Len(both) = Len(r) + Len(s)
      /\ \A i \in 1 .. Len(r) : both[i] = r[i]
      /\ \A i \in 1 .. Len(s) : both[Len(r) + i] = s[i]
      /\ \A i \in 1 .. Len(both) : i <= Len(r) \/ i - Len(r) \in 1 .. Len(s)
  OBVIOUS
<1>2. ASSUME NEW k \in Keys
      PROVE  A!Merged(b, s)[k] = A!Merged(a, both)[k]
  <2>1. CASE \E i \in DOMAIN s : s[i].key = k
    <3>1. PICK i : i = A!LastOf(s, k) OBVIOUS
    <3>2. /\ i \in DOMAIN s /\ s[i].key = k
          /\ \A j \in DOMAIN s : s[j].key = k => j <= i
      BY <2>1, <3>1, LastRow
    <3>3. A!Merged(b, s)[k] = Value(s[i]) BY <3>2, MergedRow
    <3>4. PICK l : l = Len(r) + i OBVIOUS
    <3>5. l \in DOMAIN both /\ both[l] = s[i] BY <1>1, <3>2, <3>4
    <3>6. \A j \in DOMAIN both : both[j].key = k => j <= l
      <4> TAKE j \in DOMAIN both
      <4> HAVE both[j].key = k
      <4>1. CASE j <= Len(r) BY <3>2, <3>4, <4>1
      <4>2. CASE ~ (j <= Len(r))
        <5>1. PICK y \in 1 .. Len(s) : y = j - Len(r) BY <1>1, <4>2
        <5>2. both[j] = s[y] BY <1>1, <5>1
        <5>3. y <= i BY <3>2, <5>2
        <5> QED BY <3>2, <3>4, <5>1, <5>3
      <4> QED BY <4>1, <4>2
    <3>7. A!Merged(a, both)[k] = Value(both[l])
      <4>1. both \in Seq(Rows) /\ both[l].key = k BY <3>2, <3>5
      <4> HIDE DEF both
      <4> QED BY <3>5, <3>6, <4>1, MergedRow
    <3> QED BY <3>3, <3>5, <3>7
  <2>2. CASE ~ \E i \in DOMAIN s : s[i].key = k
    <3>1. A!Merged(b, s)[k] = b[k] BY <2>2, MergedElse
    <3>2. CASE \E i \in DOMAIN r : r[i].key = k
      <4>1. PICK i : i = A!LastOf(r, k) OBVIOUS
      <4>2. /\ i \in DOMAIN r /\ r[i].key = k
            /\ \A j \in DOMAIN r : r[j].key = k => j <= i
        BY <3>2, <4>1, LastRow
      <4>3. b[k] = Value(r[i]) BY <4>2, MergedRow
      <4>4. i \in DOMAIN both /\ both[i] = r[i] BY <1>1, <4>2
      <4>5. \A j \in DOMAIN both : both[j].key = k => j <= i
        <5> TAKE j \in DOMAIN both
        <5> HAVE both[j].key = k
        <5>1. CASE j <= Len(r)
          <6>1. j \in DOMAIN r /\ both[j] = r[j] BY <1>1, <5>1
          <6> QED BY <4>2, <6>1
        <5>2. CASE ~ (j <= Len(r))
          <6>1. PICK y \in 1 .. Len(s) : y = j - Len(r) BY <1>1, <5>2
          <6>2. both[j] = s[y] BY <1>1, <6>1
          <6> QED BY <2>2, <6>1, <6>2
        <5> QED BY <5>1, <5>2
      <4>6. A!Merged(a, both)[k] = Value(both[i])
        <5>1. both \in Seq(Rows) /\ both[i].key = k BY <4>2, <4>4
        <5> HIDE DEF both
        <5> QED BY <4>4, <4>5, <5>1, MergedRow
      <4> QED BY <3>1, <4>3, <4>4, <4>6
    <3>3. CASE ~ \E i \in DOMAIN r : r[i].key = k
      <4>1. b[k] = a[k] BY <3>3, MergedElse
      <4>2. \A j \in DOMAIN both : both[j].key # k
        <5> TAKE j \in DOMAIN both
        <5>1. CASE j <= Len(r) BY <1>1, <3>3, <5>1
        <5>2. CASE ~ (j <= Len(r))
          <6>1. PICK y \in 1 .. Len(s) : y = j - Len(r) BY <1>1, <5>2
          <6> QED BY <1>1, <2>2, <6>1
        <5> QED BY <5>1, <5>2
      <4>3. A!Merged(a, both)[k] = a[k]
        <5> HIDE DEF both
        <5> QED BY <4>2, MergedElse
      <4> QED BY <3>1, <4>1, <4>3
    <3> QED BY <3>2, <3>3
  <2> QED BY <2>1, <2>2
<1>3. /\ A!Merged(b, s) = [k \in Keys |-> A!Merged(b, s)[k]]
      /\ A!Merged(a, both) = [k \in Keys |-> A!Merged(a, both)[k]]
  BY DEF A!Merged
<1> HIDE DEF b, both
<1>4. [k \in Keys |-> A!Merged(b, s)[k]] = [k \in Keys |-> A!Merged(a, both)[k]] BY <1>2
<1>5. A!Merged(b, s) = A!Merged(a, both) BY <1>3, <1>4
<1> QED BY <1>5 DEF b, both

LEMMA OneRow ==
  ASSUME NEW S, NEW x \in S
  PROVE  <<x>> \in Seq(S) /\ <<>> \o <<x>> = <<x>> /\ <<x>> \o <<>> = <<x>>
<1>1. <<x>> \in Seq(S) OBVIOUS
<1>2. <<>> \in Seq(S) OBVIOUS
<1>3. PICK r \in Seq(S) : r = <<x>> BY <1>1
<1>4. <<>> \o r = r /\ r \o <<>> = r OBVIOUS
<1> QED BY <1>1, <1>3, <1>4

LEMMA MergeOne ==
  ASSUME NEW a \in Copies, NEW r \in Rows
  PROVE  A!Merged(a, <<r>>) = [a EXCEPT ![r.key] = Value(r)]
<1>1. /\ <<r>> \in Seq(Rows) /\ DOMAIN <<r>> = {1} /\ <<r>>[1] = r /\ r.key \in Keys
  BY DEF Rows
<1>2. A!Merged(a, <<r>>)[r.key] = Value(r)
  <2>1. PICK one \in Seq(Rows) : one = <<r>> BY <1>1
  <2>2. DOMAIN one = {1} /\ one[1] = r BY <1>1, <2>1
  <2>3. \A j \in DOMAIN one : one[j].key = one[1].key => j <= 1 BY <2>2
  <2>4. A!Merged(a, one)[one[1].key] = Value(one[1]) BY <1>1, <2>2, <2>3, MergedRow
  <2> QED BY <2>1, <2>2, <2>4
<1>3. ASSUME NEW k \in Keys, k # r.key
      PROVE  A!Merged(a, <<r>>)[k] = a[k]
  BY <1>1, <1>3, MergedElse
<1>4. A!Merged(a, <<r>>) = [k \in Keys |-> A!Merged(a, <<r>>)[k]] BY DEF A!Merged
<1>5. a = [k \in Keys |-> a[k]] BY DEF Copies
<1>6. [k \in Keys |-> A!Merged(a, <<r>>)[k]] = [a EXCEPT ![r.key] = Value(r)]
  BY <1>1, <1>2, <1>3, <1>5
<1> QED BY <1>4, <1>6

-----------------------------------------------------------------------------
(* What the server writes, a pass makes good *)

LEMMA CarriesSame ==
  ASSUME covers' = covers, NEW a, NEW m, NEW b
  PROVE  Carries(a, m, b)' <=> Carries(a, m, b)
BY DEF Carries, A!Unappliable, A!RowsOf, A!DeletedRows, A!DeletedKey, A!OldOf, A!Substitute, A!Row

LEMMA LeadsSame ==
  ASSUME covers' = covers, NEW a, NEW ms, NEW p, NEW b
  PROVE  Leads(a, ms, p, b)' <=> Leads(a, ms, p, b)
<1>1. \A j \in 1 .. Len(ms) : Carries(p[j - 1], ms[j], p[j])' <=> Carries(p[j - 1], ms[j], p[j])
  BY CarriesSame
<1> QED BY <1>1 DEF Leads

\* One more message leads one table further.
LEMMA LeadsOn ==
  ASSUME NEW a, NEW ms \in Seq(Messages), NEW p, NEW b, Leads(a, ms, p, b),
         NEW m \in Messages, NEW c \in Copies, Carries(b, m, c)
  PROVE  \E q : Leads(a, Append(ms, m), q, c)
<1> DEFINE n == Len(ms)
           on == Append(ms, m)
           q == [j \in 0 .. n + 1 |-> IF j <= n THEN p[j] ELSE c]
<1>1. /\ n \in Nat /\ Len(on) = n + 1 /\ on[n + 1] = m
      /\ \A j \in 1 .. n : on[j] = ms[j]
  OBVIOUS
<1>2. p \in [0 .. n -> Copies] /\ p[0] = a /\ p[n] = b BY DEF Leads
<1>3. q \in [0 .. Len(on) -> Copies] /\ q[0] = a /\ q[Len(on)] = c BY <1>1, <1>2
<1>4. ASSUME NEW j \in 1 .. Len(on)
      PROVE  Carries(q[j - 1], on[j], q[j])
  <2>1. CASE j <= n
    <3>1. j \in 1 .. n /\ q[j - 1] = p[j - 1] /\ q[j] = p[j] /\ on[j] = ms[j] BY <1>1, <2>1
    <3>2. Carries(p[j - 1], ms[j], p[j]) BY <3>1 DEF Leads
    <3> QED BY <3>1, <3>2
  <2>2. CASE j = n + 1
    <3>1. q[j - 1] = b /\ q[j] = c /\ on[j] = m BY <1>1, <1>2, <2>2
    <3> QED BY <3>1
  <2> QED BY <1>1, <2>1, <2>2
<1> HIDE DEF q, on
<1> QED BY <1>3, <1>4 DEF Leads, on

LEMMA InsertCarries ==
  ASSUME A!ApplyAssumption, NEW a \in Copies, NEW k \in Keys, NEW v \in Values,
         NEW m, m = [kind |-> "insert", new |-> A!Tuple(k, v)]
  PROVE  m \in Messages /\ Carries(a, m, [a EXCEPT ![k] = v])
<1>1. m.kind = "insert" /\ m.new = A!Tuple(k, v) /\ m.new.key = k /\ m.new.value = v BY DEF A!Tuple
<1>2. m \in Messages BY <1>1 DEF Messages, Tuples, A!Tuple
<1>3. v # Toast /\ v # Null BY DEF A!ApplyAssumption
<1>4. A!Substitute(m) = v BY <1>1, <1>3 DEF A!Substitute
<1>5. A!DeletedKey(m) = Null BY <1>1 DEF A!DeletedKey, A!OldOf
<1>6. A!RowsOf(m) = <<>> \o <<A!Row(k, v, FALSE)>>
  BY <1>1, <1>3, <1>4, <1>5 DEF A!RowsOf, A!DeletedRows, A!Unappliable
<1>7. A!Row(k, v, FALSE) \in Rows /\ A!Row(k, v, FALSE).key = k /\ Value(A!Row(k, v, FALSE)) = v
  BY DEF A!Row, Rows, Value
<1>8. A!RowsOf(m) = <<A!Row(k, v, FALSE)>> BY <1>6, <1>7, OneRow
<1>9. A!Merged(a, A!RowsOf(m)) = [a EXCEPT ![k] = v] BY <1>7, <1>8, MergeOne
<1>10. A!RowsOf(m) \in Seq(Rows) BY <1>7, <1>8, OneRow
<1> QED BY <1>2, <1>9, <1>10 DEF Carries

LEMMA DeleteCarries ==
  ASSUME A!ApplyAssumption, NEW a \in Copies, NEW k \in Keys, NEW v \in Values \cup {Null},
         NEW m, m = [kind |-> "delete", old |-> A!Tuple(k, v)]
  PROVE  m \in Messages /\ Carries(a, m, [a EXCEPT ![k] = Null])
<1>1. m.kind = "delete" /\ m.old = A!Tuple(k, v) /\ m.old.key = k BY DEF A!Tuple
<1>2. m \in Messages BY <1>1 DEF Messages, Tuples, A!Tuple
<1>3. k # Null BY DEF A!ApplyAssumption
<1>4. A!DeletedKey(m) = k BY <1>1 DEF A!DeletedKey
<1>5. A!RowsOf(m) = <<A!Row(k, Null, TRUE)>> \o <<>>
  BY <1>1, <1>3, <1>4 DEF A!RowsOf, A!DeletedRows, A!Unappliable
<1>6. A!Row(k, Null, TRUE) \in Rows /\ A!Row(k, Null, TRUE).key = k /\ Value(A!Row(k, Null, TRUE)) = Null
  BY DEF A!Row, Rows, Value
<1>7. A!RowsOf(m) = <<A!Row(k, Null, TRUE)>> BY <1>5, <1>6, OneRow
<1>8. A!Merged(a, A!RowsOf(m)) = [a EXCEPT ![k] = Null] BY <1>6, <1>7, MergeOne
<1>9. A!RowsOf(m) \in Seq(Rows) BY <1>6, <1>7, OneRow
<1> QED BY <1>2, <1>8, <1>9 DEF Carries

\* A message that names no key, or no row, is held back.
LEMMA BadCarries ==
  ASSUME NEW a, NEW b, NEW m,
         \/ m = [kind |-> "truncate"]
         \/ m = [kind |-> "delete", old |-> A!Tuple(Null, Null)]
  PROVE  m \in Messages /\ Carries(a, m, b)
<1>1. CASE m = [kind |-> "truncate"]
  <2>1. m.kind = "truncate" /\ m \in Messages BY <1>1 DEF Messages
  <2> QED BY <2>1 DEF Carries, A!Unappliable
<1>2. CASE m = [kind |-> "delete", old |-> A!Tuple(Null, Null)]
  <2>1. m.kind = "delete" /\ m.old.key = Null BY <1>2 DEF A!Tuple
  <2>2. m \in Messages BY <1>2 DEF Messages, Tuples, A!Tuple
  <2> QED BY <2>1, <2>2 DEF Carries, A!Unappliable
<1> QED BY <1>1, <1>2

\* An update: its key stays or moves, its value is sent or left out.
LEMMA UpdateCarries ==
  ASSUME A!ApplyAssumption, NEW a \in Copies, NEW k \in Keys, NEW to \in Keys, NEW v \in Values,
         a[k] # Null, NEW sent \in {v} \cup (IF v = a[k] THEN {Toast} ELSE {}),
         NEW m,
         m = [kind |-> "update",
              old |-> IF covers \/ to # k THEN A!Tuple(k, IF covers THEN a[k] ELSE Null) ELSE Null,
              new |-> A!Tuple(to, sent)]
  PROVE  m \in Messages /\ Carries(a, m, [a EXCEPT ![k] = Null, ![to] = v])
<1> DEFINE old == IF covers \/ to # k THEN A!Tuple(k, IF covers THEN a[k] ELSE Null) ELSE Null
<1>1. /\ m.kind = "update" /\ m.old = old
      /\ m.new = A!Tuple(to, sent) /\ m.new.key = to /\ m.new.value = sent
  BY DEF A!Tuple
<1>2. a[k] \in Values /\ v # Toast /\ v # Null /\ k # Null /\ sent \in Values \cup {Toast}
  BY DEF A!ApplyAssumption, Copies
<1>3. old = Null \/ (old \in Tuples /\ old.key = k /\ old # Null)
  BY <1>2 DEF A!Tuple, Tuples, A!ApplyAssumption
<1>4. old # Null <=> (covers \/ to # k) BY <1>2 DEF A!Tuple, A!ApplyAssumption
<1>5. covers => old.value = a[k] BY DEF A!Tuple
<1>6. m \in Messages
  <2>1. A!Tuple(to, sent) \in Tuples BY <1>2 DEF A!Tuple, Tuples
  <2>2. old \in Tuples \cup {Null} BY <1>3
  <2> HIDE DEF old
  <2>3. m = [kind |-> "update", old |-> old, new |-> A!Tuple(to, sent)] BY DEF old
  <2> QED BY <2>1, <2>2, <2>3 DEF Messages
<1>7. A!OldOf(m) = old BY <1>1 DEF A!OldOf
<1> HIDE DEF old
<1>8. SUFFICES ASSUME ~ A!Unappliable(m)
               PROVE  Carries(a, m, [a EXCEPT ![k] = Null, ![to] = v])
  BY <1>6 DEF Carries
<1>9. A!Substitute(m) = v
  <2>1. CASE sent # Toast
    <3>1. sent = v BY <2>1
    <3> QED BY <1>1, <2>1, <3>1 DEF A!Substitute
  <2>2. CASE sent = Toast
    <3>1. v = a[k] BY <1>2, <2>2
    <3>2. A!Substitute(m) # Null BY <1>1, <1>8 DEF A!Unappliable
    <3>3. A!Substitute(m) = m.old.value /\ covers
      BY <1>1, <2>2, <3>2 DEF A!Substitute
    <3> QED BY <1>1, <1>5, <3>1, <3>3
  <2> QED BY <2>1, <2>2
<1>10. PICK put : put = A!Row(to, v, FALSE) OBVIOUS
<1>11. put \in Rows /\ put.key = to /\ Value(put) = v BY <1>10 DEF A!Row, Rows, Value
<1>12. CASE to = k
  <2>1. A!DeletedKey(m) = Null BY <1>1, <1>3, <1>7, <1>12 DEF A!DeletedKey
  <2>2. A!RowsOf(m) = <<>> \o <<put>>
    BY <1>1, <1>8, <1>9, <1>10, <2>1 DEF A!RowsOf, A!DeletedRows
  <2>3. A!RowsOf(m) = <<put>> BY <1>11, <2>2, OneRow
  <2>4. A!Merged(a, A!RowsOf(m)) = [a EXCEPT ![to] = v] BY <1>11, <2>3, MergeOne
  <2>5. [a EXCEPT ![to] = v] = [a EXCEPT ![k] = Null, ![to] = v] BY <1>12 DEF Copies
  <2>6. A!RowsOf(m) \in Seq(Rows) BY <1>11, <2>3, OneRow
  <2> QED BY <2>4, <2>5, <2>6 DEF Carries
<1>13. CASE to # k
  <2>1. A!DeletedKey(m) = k BY <1>1, <1>3, <1>4, <1>7, <1>13 DEF A!DeletedKey
  <2>2. PICK del : del = A!Row(k, Null, TRUE) OBVIOUS
  <2>3. del \in Rows /\ del.key = k /\ Value(del) = Null BY <2>2 DEF A!Row, Rows, Value
  <2>4. A!RowsOf(m) = <<del>> \o <<put>>
    BY <1>1, <1>2, <1>8, <1>9, <1>10, <2>1, <2>2 DEF A!RowsOf, A!DeletedRows
  <2>5. <<del>> \in Seq(Rows) /\ <<put>> \in Seq(Rows) BY <1>11, <2>3, OneRow
  <2>6. A!Merged(a, <<del>>) = [a EXCEPT ![k] = Null] BY <2>3, MergeOne
  <2>7. [a EXCEPT ![k] = Null] \in Copies BY DEF Copies
  <2>8. A!Merged([a EXCEPT ![k] = Null], <<put>>) = [[a EXCEPT ![k] = Null] EXCEPT ![to] = v]
    BY <1>11, <2>7, MergeOne
  <2>9. A!Merged(a, <<del>> \o <<put>>) = [a EXCEPT ![k] = Null, ![to] = v]
    <3>1. PICK d, r : d = <<del>> /\ r = <<put>> OBVIOUS
    <3>2. A!Merged(A!Merged(a, d), r) = A!Merged(a, d \o r) BY <2>5, <3>1, MergeBoth
    <3>3. A!Merged(a, d \o r) = [[a EXCEPT ![k] = Null] EXCEPT ![to] = v]
      BY <2>6, <2>8, <3>1, <3>2
    <3> QED BY <3>1, <3>3
  <2>10. A!RowsOf(m) \in Seq(Rows)
    <3>1. PICK d \in Seq(Rows), r \in Seq(Rows) : d = <<del>> /\ r = <<put>> BY <2>5
    <3>2. d \o r \in Seq(Rows) OBVIOUS
    <3> QED BY <2>4, <3>1, <3>2
  <2> QED BY <2>4, <2>9, <2>10 DEF Carries
<1> QED BY <1>12, <1>13

-----------------------------------------------------------------------------
(* The server's steps *)

\* A step that neither writes nor commits.
LEMMA ServerSame ==
  ASSUME ServerInv, UNCHANGED <<covers, log, history, open, table>>, columns' \in BOOLEAN
  PROVE  ServerInv'
<1>1. /\ covers' = covers /\ columns' \in BOOLEAN /\ log' = log /\ history' = history
      /\ open' = open /\ table' = table
  OBVIOUS
<1>2. \A i \in 1 .. Len(log) : \E p : Leads(Hist(i - 1), log[i].msgs, p, history[i])'
  <2> TAKE i \in 1 .. Len(log)
  <2>1. PICK a, ms, b : a = Hist(i - 1) /\ ms = log[i].msgs /\ b = history[i] OBVIOUS
  <2>2. PICK p : Leads(a, ms, p, b) BY <2>1 DEF ServerInv
  <2>3. Leads(a, ms, p, b)' BY <1>1, <2>2, LeadsSame
  <2>4. a = Hist(i - 1)' /\ ms = log'[i].msgs /\ b = history'[i] BY <1>1, <2>1 DEF Hist
  <2> QED BY <2>3, <2>4
<1>3. \E p : Leads(Hist(Len(log)), open, p, table)'
  <2>1. PICK a, ms, b : a = Hist(Len(log)) /\ ms = open /\ b = table OBVIOUS
  <2>2. PICK p : Leads(a, ms, p, b) BY <2>1 DEF ServerInv
  <2>3. Leads(a, ms, p, b)' BY <1>1, <2>2, LeadsSame
  <2>4. a = Hist(Len(log))' /\ ms = open' /\ b = table' BY <1>1, <2>1 DEF Hist
  <2> QED BY <2>3, <2>4
<1> QED BY <1>1, <1>2, <1>3 DEF ServerInv

\* A row operation leads the open transaction one table further.
LEMMA WriteKeeps ==
  ASSUME ServerInv, NEW m \in Messages, NEW c \in Copies, Carries(table, m, c), A!Writes(m, c)
  PROVE  ServerInv'
<1>1. /\ covers' = covers /\ columns' = columns /\ log' = log /\ history' = history
      /\ open' = Append(open, m) /\ table' = c
  BY DEF A!Writes
<1>2. \A i \in 1 .. Len(log) : \E p : Leads(Hist(i - 1), log[i].msgs, p, history[i])'
  <2> TAKE i \in 1 .. Len(log)
  <2>1. PICK a, ms, b : a = Hist(i - 1) /\ ms = log[i].msgs /\ b = history[i] OBVIOUS
  <2>2. PICK p : Leads(a, ms, p, b) BY <2>1 DEF ServerInv
  <2>3. Leads(a, ms, p, b)' BY <1>1, <2>2, LeadsSame
  <2>4. a = Hist(i - 1)' /\ ms = log'[i].msgs /\ b = history'[i] BY <1>1, <2>1 DEF Hist
  <2> QED BY <2>3, <2>4
<1>3. \E p : Leads(Hist(Len(log)), open, p, table)'
  <2>1. PICK a, ms, b : a = Hist(Len(log)) /\ ms = open /\ b = table OBVIOUS
  <2>2. PICK p : Leads(a, ms, p, b) BY <2>1 DEF ServerInv
  <2>3. PICK q : Leads(a, Append(ms, m), q, c) BY <2>1, <2>2, LeadsOn DEF ServerInv
  <2>4. Leads(a, Append(ms, m), q, c)' BY <1>1, <2>3, LeadsSame
  <2>5. a = Hist(Len(log))' /\ Append(ms, m) = open' /\ c = table' BY <1>1, <2>1 DEF Hist
  <2> QED BY <2>4, <2>5
<1> QED BY <1>1, <1>2, <1>3 DEF ServerInv

LEMMA CommitKeeps ==
  ASSUME ServerInv, A!ServerCommits
  PROVE  ServerInv'
<1> DEFINE n == Len(log)
<1>1. /\ covers' = covers /\ columns' = columns /\ table' = table /\ open' = <<>>
      /\ log' = Append(log, [msgs |-> open, columns |-> columns])
      /\ history' = Append(history, table)
  BY DEF A!ServerCommits
<1>2. /\ n \in Nat /\ Len(history) = n /\ Len(log') = n + 1 /\ Len(history') = n + 1
      /\ log' \in Seq(Committed) /\ history' \in Seq(Copies)
      /\ \A i \in 1 .. n : log'[i] = log[i] /\ history'[i] = history[i]
      /\ log'[n + 1].msgs = open /\ history'[n + 1] = table
  BY <1>1 DEF ServerInv, Committed
<1>3. \A i \in 0 .. n : Hist(i)' = Hist(i) BY <1>2 DEF Hist
<1>4. ASSUME NEW i \in 1 .. Len(log')
      PROVE  \E p : Leads(Hist(i - 1), log[i].msgs, p, history[i])'
  <2>1. CASE i <= n
    <3>1. PICK a, ms, b : a = Hist(i - 1) /\ ms = log[i].msgs /\ b = history[i] OBVIOUS
    <3>2. i \in 1 .. Len(log) BY <1>2, <2>1
    <3>3. PICK p : Leads(a, ms, p, b) BY <3>1, <3>2 DEF ServerInv
    <3>4. Leads(a, ms, p, b)' BY <1>1, <3>3, LeadsSame
    <3>5. a = Hist(i - 1)' /\ ms = log'[i].msgs /\ b = history'[i]
      BY <1>2, <1>3, <2>1, <3>1
    <3> QED BY <3>4, <3>5
  <2>2. CASE i = n + 1
    <3>1. PICK a, ms, b : a = Hist(n) /\ ms = open /\ b = table OBVIOUS
    <3>2. PICK p : Leads(a, ms, p, b) BY <3>1 DEF ServerInv
    <3>3. Leads(a, ms, p, b)' BY <1>1, <3>2, LeadsSame
    <3>4. a = Hist(i - 1)' /\ ms = log'[i].msgs /\ b = history'[i]
      BY <1>2, <1>3, <2>2, <3>1
    <3> QED BY <3>3, <3>4
  <2> QED BY <1>2, <2>1, <2>2
<1>5. \E p : Leads(Hist(Len(log)), open, p, table)'
  <2> DEFINE p == [j \in 0 .. 0 |-> table]
  <2>1. Hist(Len(log))' = table BY <1>2 DEF Hist
  <2>2. table \in Copies BY DEF ServerInv
  <2>3. Leads(Hist(Len(log)), open, p, table)' BY <1>1, <2>1, <2>2 DEF Leads
  <2> QED BY <2>3
<1>6. Len(history') = Len(log') /\ open' \in Seq(Messages) BY <1>1, <1>2
<1> HIDE DEF n
<1> QED BY <1>1, <1>2, <1>4, <1>5, <1>6 DEF ServerInv

\* The operations of the open transaction.
LEMMA RowOperations ==
  ASSUME A!ApplyAssumption, ServerInv, A!Insert \/ A!Update \/ A!Delete \/ A!Truncate
  PROVE  /\ ServerInv'
         /\ st # "reading" /\ UNCHANGED <<st, start, log, history, confirmed, acursor>>
         /\ UNCHANGED <<sink, aview, apending>>
<1>0. table \in Copies BY DEF ServerInv
<1>1. ASSUME NEW m, NEW c, A!Writes(m, c), m \in Messages, c \in Copies, Carries(table, m, c)
      PROVE  /\ ServerInv'
             /\ st # "reading" /\ UNCHANGED <<st, start, log, history, confirmed, acursor>>
             /\ UNCHANGED <<sink, aview, apending>>
  <2>1. ServerInv' BY <1>1, WriteKeeps
  <2>2. /\ st # "reading" /\ UNCHANGED <<st, start, log, history, confirmed, acursor>>
        /\ UNCHANGED <<sink, aview, apending>>
    BY <1>1 DEF A!Writes, A!Between, A!pass
  <2> QED BY <2>1, <2>2
<1>2. CASE A!Insert
  <2>1. PICK k \in Keys, v \in Values :
          A!Writes([kind |-> "insert", new |-> A!Tuple(k, v)], [table EXCEPT ![k] = v])
    BY <1>2 DEF A!Insert
  <2>2. PICK m : m = [kind |-> "insert", new |-> A!Tuple(k, v)] OBVIOUS
  <2>3. PICK c : c = [table EXCEPT ![k] = v] OBVIOUS
  <2>4. m \in Messages /\ Carries(table, m, c) BY <1>0, <2>2, <2>3, InsertCarries
  <2>5. c \in Copies BY <1>0, <2>3 DEF Copies
  <2> QED BY <1>1, <2>1, <2>2, <2>3, <2>4, <2>5
<1>3. CASE A!Update
  <2>1. PICK k \in Keys, to \in Keys, v \in Values :
          /\ table[k] # Null
          /\ \E sent \in {v} \cup (IF v = table[k] THEN {Toast} ELSE {}) :
               A!Writes([kind |-> "update",
                       old |-> IF covers \/ to # k THEN A!OldTuple(k) ELSE Null,
                       new |-> A!Tuple(to, sent)],
                      [table EXCEPT ![k] = Null, ![to] = v])
    BY <1>3 DEF A!Update
  <2>2. PICK sent \in {v} \cup (IF v = table[k] THEN {Toast} ELSE {}) :
          A!Writes([kind |-> "update",
                  old |-> IF covers \/ to # k THEN A!OldTuple(k) ELSE Null,
                  new |-> A!Tuple(to, sent)],
                 [table EXCEPT ![k] = Null, ![to] = v])
    BY <2>1
  <2>3. PICK m : m = [kind |-> "update",
                      old |-> IF covers \/ to # k THEN A!OldTuple(k) ELSE Null,
                      new |-> A!Tuple(to, sent)]
    OBVIOUS
  <2>4. PICK c : c = [table EXCEPT ![k] = Null, ![to] = v] OBVIOUS
  <2>5. m \in Messages /\ Carries(table, m, c)
    <3>1. m = [kind |-> "update",
               old |-> IF covers \/ to # k THEN A!Tuple(k, IF covers THEN table[k] ELSE Null)
                       ELSE Null,
               new |-> A!Tuple(to, sent)]
      BY <2>3 DEF A!OldTuple
    <3>2. m \in Messages /\ Carries(table, m, [table EXCEPT ![k] = Null, ![to] = v])
      BY <1>0, <2>1, <3>1, UpdateCarries
    <3> QED BY <2>4, <3>2
  <2>6. c \in Copies BY <1>0, <2>4 DEF Copies
  <2> QED BY <1>1, <2>2, <2>3, <2>4, <2>5, <2>6
<1>4. CASE A!Delete
  <2>1. PICK k \in Keys, keyless \in BOOLEAN :
          A!Writes([kind |-> "delete", old |-> IF keyless THEN A!Tuple(Null, Null) ELSE A!OldTuple(k)],
                 [table EXCEPT ![k] = Null])
    BY <1>4 DEF A!Delete
  <2>2. PICK m : m = [kind |-> "delete",
                      old |-> IF keyless THEN A!Tuple(Null, Null) ELSE A!OldTuple(k)]
    OBVIOUS
  <2>3. PICK c : c = [table EXCEPT ![k] = Null] OBVIOUS
  <2>4. m \in Messages /\ Carries(table, m, c)
    <3>1. CASE keyless
      <4>1. m = [kind |-> "delete", old |-> A!Tuple(Null, Null)] BY <2>2, <3>1
      <4> QED BY <4>1, BadCarries
    <3>2. CASE ~ keyless
      <4>1. PICK v : v = IF covers THEN table[k] ELSE Null OBVIOUS
      <4>2. v \in Values \cup {Null} BY <1>0, <4>1 DEF Copies
      <4>3. m = [kind |-> "delete", old |-> A!Tuple(k, v)] BY <2>2, <3>2, <4>1 DEF A!OldTuple
      <4> QED BY <1>0, <2>3, <4>2, <4>3, DeleteCarries
    <3> QED BY <3>1, <3>2
  <2>5. c \in Copies BY <1>0, <2>3 DEF Copies
  <2> QED BY <1>1, <2>1, <2>2, <2>3, <2>4, <2>5
<1>5. CASE A!Truncate
  <2>1. A!Writes([kind |-> "truncate"], [k \in Keys |-> Null]) BY <1>5 DEF A!Truncate
  <2>2. PICK m : m = [kind |-> "truncate"] OBVIOUS
  <2>3. PICK c : c = [k \in Keys |-> Null] OBVIOUS
  <2>4. m \in Messages /\ Carries(table, m, c) BY <2>2, BadCarries
  <2>5. c \in Copies BY <2>3 DEF Copies
  <2> QED BY <1>1, <2>1, <2>2, <2>3, <2>4, <2>5
<1> QED BY <1>2, <1>3, <1>4, <1>5

-----------------------------------------------------------------------------
(* The steps of the pass and the engine *)

LEMMA HistType ==
  ASSUME A!ApplyAssumption, ServerInv, NEW n \in 0 .. Len(log)
  PROVE  Hist(n) \in Copies
BY DEF ServerInv, Hist, A!ApplyAssumption, Copies

LEMMA Numbers == ASSUME A!ApplyAssumption, NEW n \in Nat PROVE n # Null
BY DEF A!ApplyAssumption

\* A longer log, or the same, holds the same tables.
LEMMA FitsSame ==
  ASSUME ServerInv, aview \in Nat, aview <= Len(log), aview' = aview,
         \A i \in 1 .. Len(log) : history'[i] = history[i],
         NEW c \in Nat, c <= Len(log), NEW x, Fits(x, c)
  PROVE  Fits(x, c)'
<1>1. Len(log) \in Nat BY DEF ServerInv
<1>2. Hist(c)' = Hist(c) /\ Hist(aview)' = Hist(aview) BY <1>1 DEF Hist
<1> QED BY <1>2 DEF Fits

LEMMA StillSame ==
  ASSUME history' = history, NEW c, NEW rows, NEW d
  PROVE  Still(c, rows, d)' <=> Still(c, rows, d)
BY DEF Still, Touches, Hist

\* Rows leave out what neither of two parts changes.
LEMMA StillBoth ==
  ASSUME NEW p \in Seq(Rows), NEW q \in Seq(Rows), NEW c \in Nat, NEW d \in Nat, NEW e \in Nat,
         Still(c, p, d), Still(d, q, e), c <= d, d <= e
  PROVE  Still(c, p \o q, e)
<1> SUFFICES ASSUME NEW k \in Keys, ~Touches(p \o q, k), NEW i \in c .. e
             PROVE  Hist(i)[k] = Hist(e)[k]
  BY DEF Still
<1>1. ~Touches(p, k) /\ ~Touches(q, k)
  <2>1. /\ \A j \in DOMAIN p : j \in DOMAIN (p \o q) /\ (p \o q)[j] = p[j]
        /\ \A j \in DOMAIN q : Len(p) + j \in DOMAIN (p \o q) /\ (p \o q)[Len(p) + j] = q[j]
    OBVIOUS
  <2> QED BY <2>1 DEF Touches
<1>2. \A j \in c .. d : Hist(j)[k] = Hist(d)[k] BY <1>1 DEF Still
<1>3. \A j \in d .. e : Hist(j)[k] = Hist(e)[k] BY <1>1 DEF Still
<1>4. CASE i <= d
  <2>1. i \in c .. d /\ d \in d .. e BY <1>4
  <2> QED BY <1>2, <1>3, <2>1
<1>5. CASE d <= i
  <2>1. i \in d .. e BY <1>5
  <2> QED BY <1>3, <2>1
<1> QED BY <1>4, <1>5

\* One transaction's rows leave out what it did not change.
LEMMA StillOne ==
  ASSUME NEW p \in Seq(Rows), NEW n \in Nat \ {0}, A!Merged(Hist(n - 1), p) = Hist(n)
  PROVE  Still(n - 1, p, n)
<1> SUFFICES ASSUME NEW k \in Keys, ~Touches(p, k), NEW i \in n - 1 .. n
             PROVE  Hist(i)[k] = Hist(n)[k]
  BY DEF Still
<1>1. PICK a, b : a = Hist(n - 1) /\ b = Hist(n) OBVIOUS
<1>2. A!Merged(a, p)[k] = a[k] BY MergedElse DEF Touches
<1>3. a[k] = b[k] BY <1>1, <1>2
<1>4. i = n - 1 \/ i = n OBVIOUS
<1> QED BY <1>1, <1>3, <1>4

LEMMA StillNone ==
  ASSUME NEW n \in Nat
  PROVE  Still(n, <<>>, n)
<1>1. \A i \in n .. n : i = n OBVIOUS
<1> QED BY <1>1 DEF Still

\* What is copied and then applied again converges: rows of the log take a table
\* that fits a position to one that fits the position they lead to.
LEMMA FitsOn ==
  ASSUME NEW x \in Copies, NEW rows \in Seq(Rows), NEW c \in Nat, NEW d \in Nat, c <= d,
         aview \in Nat, Fits(x, c), A!Merged(Hist(c), rows) = Hist(d), Still(c, rows, d)
  PROVE  Fits(A!Merged(x, rows), d)
<1> SUFFICES ASSUME NEW k \in Keys
             PROVE  \/ A!Merged(x, rows)[k] = Hist(d)[k]
                    \/ d < aview /\ A!Merged(x, rows)[k] = Hist(aview)[k]
  BY DEF Fits
<1>1. PICK a, b : a = Hist(c) /\ b = Hist(d) OBVIOUS
<1>2. CASE Touches(rows, k)
  <2>1. PICK l : l = A!LastOf(rows, k) OBVIOUS
  <2>2. /\ l \in DOMAIN rows /\ rows[l].key = k
        /\ \A j \in DOMAIN rows : rows[j].key = k => j <= l
    BY <1>2, <2>1, LastRow DEF Touches
  <2>3. A!Merged(x, rows)[k] = Value(rows[l]) /\ A!Merged(a, rows)[k] = Value(rows[l])
    BY <2>2, MergedRow
  <2> QED BY <1>1, <2>3
<1>3. CASE ~Touches(rows, k)
  <2>1. A!Merged(x, rows)[k] = x[k] BY <1>3, MergedElse DEF Touches
  <2>2. \A i \in c .. d : Hist(i)[k] = Hist(d)[k] BY <1>3 DEF Still
  <2>3. c \in c .. d OBVIOUS
  <2>4. CASE x[k] = Hist(c)[k] BY <2>1, <2>2, <2>3, <2>4
  <2>5. CASE c < aview /\ x[k] = Hist(aview)[k]
    <3>1. aview \in c .. d \/ d < aview BY <2>5
    <3> QED BY <2>1, <2>2, <2>5, <3>1
  <2> QED BY <2>4, <2>5 DEF Fits
<1> QED BY <1>2, <1>3

\* Nothing is committed or delivered, whatever the log grows by.
LEMMA SinkSame ==
  ASSUME A!ApplyAssumption, ServerInv, SinkInv,
         UNCHANGED <<confirmed, acursor, sink, aview, apending>>,
         Len(log') \in Nat, Len(log) <= Len(log'),
         \A i \in 1 .. Len(log) : history'[i] = history[i]
  PROVE  SinkInv'
<1>1. Delivered' = Delivered /\ A!Nothing' = A!Nothing /\ A!Empty' = A!Empty
  BY DEF Delivered, A!Nothing, A!Empty
<1>2. Len(log) \in Nat BY DEF ServerInv
<1>3. PICK y, z, c, d : y = sink /\ z = A!Merged(sink, apending.rows) /\ c = acursor /\ d = Delivered
  OBVIOUS
<1>4. y = sink' /\ z = A!Merged(sink, apending.rows)' /\ c = acursor' /\ d = Delivered'
  BY <1>1, <1>3 DEF A!Merged, A!LastOf
<1>5. c # Null => Fits(sink, acursor)'
  <2>1. c # Null => c \in Nat /\ c <= Len(log) /\ Fits(y, c) BY <1>3 DEF SinkInv
  <2>2. c # Null => Fits(y, c)' BY <2>1, FitsSame DEF SinkInv
  <2> QED BY <1>4, <2>2 DEF Fits, Hist
<1>6. d # Null => Fits(A!Merged(sink, apending.rows), Delivered)'
  <2>1. d # Null => d \in Nat /\ d <= Len(log) /\ Fits(z, d) BY <1>3 DEF SinkInv
  <2>2. d # Null => Fits(z, d)' BY <2>1, FitsSame DEF SinkInv
  <2> QED BY <1>4, <2>2 DEF Fits, Hist
<1>7. /\ aview' \in Nat /\ aview' <= Len(log')
      /\ confirmed' \in Nat /\ confirmed' <= Len(log')
      /\ acursor' # Null => acursor' \in Nat /\ acursor' <= Len(log')
      /\ Delivered' # Null => Delivered' \in Nat /\ Delivered' <= Len(log')
  BY <1>1, <1>2 DEF SinkInv
<1> QED BY <1>1, <1>3, <1>4, <1>5, <1>6, <1>7 DEF SinkInv

\* Nothing is read, and a snapshot's position stays.
LEMMA SnapSame ==
  ASSUME SnapInv, UNCHANGED <<start, confirmed, acursor, apending>>, st' = "snapshot" => st = "snapshot",
         Len(log) \in Nat, Len(log') \in Nat, Len(log) <= Len(log'), confirmed \in Nat
  PROVE  SnapInv'
BY DEF SnapInv, A!Nothing

\* Rows delivered with the position they lead to.
LEMMA DeliverKeeps ==
  ASSUME A!ApplyAssumption, ServerInv, SinkInv, NEW rows \in Seq(Rows), NEW n \in Nat,
         A!Deliver(rows, n), UNCHANGED <<log, history, confirmed, acursor, sink, aview>>,
         acursor # Null, Delivered <= n, n <= Len(log),
         A!Merged(Hist(Delivered), rows) = Hist(n), Still(Delivered, rows, n)
  PROVE  SinkInv' /\ Delivered' = n /\ apending' # A!Nothing
<1>1. PICK p \in Seq(Rows) : p = apending.rows BY DEF SinkInv
<1>2. apending' = [rows |-> p \o rows, checkpoint |-> n] BY <1>1 DEF A!Deliver
<1>3. apending' # A!Nothing /\ n # Null BY <1>2, Numbers DEF A!Nothing
<1>4. Delivered' = n BY <1>2, <1>3 DEF Delivered
<1>5. p \o rows \in Seq(Rows) OBVIOUS
<1>6. PICK c : c = Delivered OBVIOUS
<1>7. /\ c \in Nat /\ acursor \in Nat /\ acursor <= c /\ confirmed <= acursor /\ confirmed \in Nat
      /\ aview \in Nat /\ aview <= Len(log) /\ sink \in Copies
  BY <1>6 DEF SinkInv
<1>8. Fits(A!Merged(sink, p), c) BY <1>1, <1>6, <1>7, Numbers DEF SinkInv
<1>9. A!Merged(sink, p) \in Copies BY <1>7, MergedType
<1>10. Fits(A!Merged(A!Merged(sink, p), rows), n)
  <2>1. PICK x \in Copies : x = A!Merged(sink, p) BY <1>9
  <2>2. Fits(A!Merged(x, rows), n) BY <1>6, <1>7, <1>8, <2>1, FitsOn
  <2> QED BY <2>1, <2>2
<1>11. Fits(A!Merged(sink, p \o rows), n)
  <2>1. A!Merged(A!Merged(sink, p), rows) = A!Merged(sink, p \o rows) BY <1>7, MergeBoth
  <2> QED BY <1>10, <2>1
<1>12. PICK y, z : y = sink /\ z = A!Merged(sink, p \o rows) OBVIOUS
<1>13. /\ Len(log) \in Nat /\ log' = log /\ history' = history /\ aview' = aview
       /\ confirmed' = confirmed /\ acursor' = acursor /\ sink' = sink
  BY DEF ServerInv
<1>14. PICK m : m = acursor OBVIOUS
<1>15. m \in Nat /\ m <= Len(log) /\ Fits(y, m) BY <1>12, <1>14 DEF SinkInv
<1>16. Fits(y, m)' /\ Fits(z, n)' BY <1>7, <1>11, <1>12, <1>13, <1>15, FitsSame
<1>17. Fits(sink, acursor)' BY <1>12, <1>13, <1>14, <1>16 DEF Fits, Hist
<1>18. /\ apending' \in [rows : Seq(Rows), checkpoint : Nat \cup {Null}] /\ apending'.checkpoint = n
       /\ apending'.rows = p \o rows
  BY <1>2, <1>5
<1>19. A!Merged(sink, apending.rows)' = z
  <2>1. PICK q : q = p \o rows OBVIOUS
  <2>2. z = A!Merged(y, q) BY <1>12, <2>1
  <2>3. sink' = y /\ apending'.rows = q BY <1>12, <1>13, <1>18, <2>1
  <2> QED BY <2>2, <2>3 DEF A!Merged, A!LastOf
<1>20. Fits(A!Merged(sink, apending.rows), Delivered)' BY <1>4, <1>16, <1>19 DEF Fits, Hist
<1>21. /\ acursor' <= Delivered' /\ confirmed' <= Delivered' /\ Delivered' <= Len(log')
       /\ Delivered' \in Nat /\ acursor' \in Nat /\ acursor' # Null /\ acursor' <= Len(log')
       /\ confirmed' <= acursor' /\ confirmed' \in Nat /\ confirmed' <= Len(log')
       /\ aview' \in Nat /\ aview' <= Len(log') /\ sink' \in Copies
  <2>1. c <= n BY <1>6
  <2> QED BY <1>4, <1>7, <1>13, <1>14, <1>15, <2>1
<1> QED BY <1>3, <1>4, <1>17, <1>18, <1>20, <1>21 DEF SinkInv

\* A transaction about to be read continues the table before it by nothing.
LEMMA PassOpens ==
  ASSUME A!ApplyAssumption, ServerInv, UNCHANGED <<covers, log, history>>, NEW n \in 1 .. Len(log)
  PROVE  /\ 1 \in 1 .. Len(log'[n].msgs) + 1
         /\ \E p : /\ Leads(Hist(n - 1), log[n].msgs, p, history[n])'
                   /\ A!Merged(Hist(n - 1)', <<>>) = p[0]
<1>1. PICK a, ms, b : a = Hist(n - 1) /\ ms = log[n].msgs /\ b = history[n] OBVIOUS
<1>2. PICK p : Leads(a, ms, p, b) BY <1>1 DEF ServerInv
<1>3. Leads(a, ms, p, b)' BY <1>2, LeadsSame
<1>4. a = Hist(n - 1)' /\ ms = log'[n].msgs /\ b = history'[n] BY <1>1 DEF Hist
<1>5. ms \in Seq(Messages)
  <2>1. log[n] \in Committed BY DEF ServerInv
  <2> QED BY <1>1, <2>1 DEF Committed
<1>6. n - 1 \in 0 .. Len(log) BY DEF ServerInv
<1>7. a \in Copies BY <1>1, <1>6, HistType
<1>8. A!Merged(a, <<>>) = p[0] BY <1>2, <1>7, MergeNothing DEF Leads
<1> QED BY <1>3, <1>4, <1>5, <1>8

LEMMA StartKeeps ==
  ASSUME A!ApplyAssumption, ApplyInv, A!StartPass
  PROVE  ApplyInv'
<1> USE DEF ApplyInv
<1>1. /\ covers' = covers /\ columns' = columns /\ log' = log /\ history' = history
      /\ open' = open /\ table' = table /\ aview' = aview
      /\ confirmed' = confirmed /\ acursor' = acursor /\ sink' = sink /\ apending' = apending
      /\ apending = A!Nothing /\ columns \in BOOLEAN /\ acursor # Null /\ st' = "reading"
      /\ atarget' = Len(log) /\ tx' = confirmed + 1 /\ msg' = 1 /\ txRows' = <<>> /\ ready' = <<>>
  BY DEF A!StartPass, A!server, ServerInv
<1>2. ServerInv' BY <1>1, ServerSame
<1>3. Len(log) \in Nat BY DEF ServerInv
<1>4. SinkInv' BY <1>1, <1>3, SinkSame
<1>5. Delivered' = acursor /\ Delivered = acursor BY <1>1 DEF Delivered, A!Nothing
<1>6. /\ confirmed \in Nat /\ acursor \in Nat /\ confirmed <= acursor /\ acursor <= Len(log)
  BY <1>1 DEF SinkInv
<1>7. Later(Delivered, tx - 1)' = acursor BY <1>1, <1>5, <1>6 DEF Later
<1>8. Hist(acursor)' = Hist(acursor) BY <1>1 DEF Hist
<1>9. A!Merged(Hist(Delivered), ready)' = Hist(Later(Delivered, tx - 1))'
  <2>1. Hist(acursor) \in Copies BY <1>3, <1>6, HistType
  <2>2. A!Merged(Hist(acursor), <<>>) = Hist(acursor) BY <2>1, MergeNothing
  <2>3. Hist(Delivered)' = Hist(acursor) /\ Hist(Later(Delivered, tx - 1))' = Hist(acursor)
    BY <1>1, <1>5, <1>7, <1>8 DEF Hist
  <2> QED BY <1>1, <2>2, <2>3
<1>10. ASSUME tx' <= atarget'
       PROVE  /\ msg' \in 1 .. Len(log'[tx'].msgs) + 1
              /\ \E p : /\ Leads(Hist(tx - 1), log[tx].msgs, p, history[tx])'
                        /\ ~ txError' => A!Merged(Hist(tx - 1), txRows)' = p[msg' - 1]
  <2>1. PICK n : n = tx' OBVIOUS
  <2>2. n \in 1 .. Len(log) BY <1>1, <1>3, <1>6, <1>10, <2>1
  <2>3. PICK p : /\ Leads(Hist(n - 1), log[n].msgs, p, history[n])'
                 /\ A!Merged(Hist(n - 1)', <<>>) = p[0]
                 /\ 1 \in 1 .. Len(log'[n].msgs) + 1
    BY <1>1, <2>2, PassOpens
  <2>4. Leads(Hist(tx - 1), log[tx].msgs, p, history[tx])' BY <2>1, <2>3 DEF Hist
  <2>5. A!Merged(Hist(tx - 1), txRows)' = p[msg' - 1] BY <1>1, <2>1, <2>3 DEF Hist
  <2> QED BY <1>1, <2>1, <2>3, <2>4, <2>5
<1>11. /\ tx' \in Nat \ {0} /\ atarget' \in Nat /\ tx' <= atarget' + 1 /\ atarget' <= Len(log')
       /\ Delivered' <= atarget' /\ (apending' # A!Nothing' => Delivered' < tx')
       /\ ready' \in Seq(Rows) /\ txRows' \in Seq(Rows) /\ acursor' # Null
  BY <1>1, <1>3, <1>5, <1>6 DEF A!Nothing
<1>12. Still(Delivered, ready, Later(Delivered, tx - 1))'
  <2>1. PICK n \in Nat : n = acursor BY <1>6
  <2>2. Still(n, <<>>, n)' BY <1>1, <2>1, StillNone, StillSame
  <2> QED BY <1>1, <1>5, <1>7, <2>1, <2>2 DEF Still, Hist, Touches
<1>13. SnapInv' BY <1>1 DEF SnapInv
<1>14. PassInv' BY <1>9, <1>10, <1>11, <1>12 DEF PassInv
<1> QED BY <1>2, <1>4, <1>13, <1>14

\* Reading a relation message moves nothing a row depends on.
LEMMA PassSame ==
  ASSUME ServerInv, PassInv, st' = "reading" => st = "reading",
         UNCHANGED <<covers, log, history, apending, acursor,
                     tx, atarget, ready, txRows, txError, msg>>
  PROVE  PassInv'
<1> SUFFICES ASSUME st' = "reading" PROVE PassInv' BY DEF PassInv
<1>1. Delivered' = Delivered /\ Later(Delivered, tx - 1)' = Later(Delivered, tx - 1)
  BY DEF Delivered, Later
<1>2. /\ Hist(Delivered)' = Hist(Delivered) /\ Hist(tx - 1)' = Hist(tx - 1)
      /\ Hist(Later(Delivered, tx - 1))' = Hist(Later(Delivered, tx - 1))
  BY <1>1 DEF Hist
<1>3. ASSUME tx <= atarget
      PROVE  \E p : /\ Leads(Hist(tx - 1), log[tx].msgs, p, history[tx])'
                    /\ ~ txError' => A!Merged(Hist(tx - 1), txRows)' = p[msg' - 1]
  <2>1. PICK a, ms, b : a = Hist(tx - 1) /\ ms = log[tx].msgs /\ b = history[tx] OBVIOUS
  <2>2. PICK p : Leads(a, ms, p, b) /\ (~ txError => A!Merged(a, txRows) = p[msg - 1])
    BY <1>3, <2>1 DEF PassInv
  <2>3. Leads(a, ms, p, b)' BY <2>2, LeadsSame
  <2>4. a = Hist(tx - 1)' /\ ms = log'[tx'].msgs /\ b = history'[tx'] BY <1>2, <2>1
  <2> QED BY <2>2, <2>3, <2>4
<1>4. Still(Delivered, ready, Later(Delivered, tx - 1))'
  <2>1. PICK c, p, d : c = Delivered /\ p = ready /\ d = Later(Delivered, tx - 1) OBVIOUS
  <2>2. Still(c, p, d) BY <2>1 DEF PassInv
  <2>3. Still(c, p, d)' BY <2>2, StillSame
  <2>4. c = Delivered' /\ p = ready' /\ d = Later(Delivered, tx - 1)' BY <1>1, <2>1
  <2> QED BY <2>3, <2>4
<1> QED BY <1>1, <1>2, <1>3, <1>4 DEF PassInv, A!Nothing

LEMMA ChangeKeeps ==
  ASSUME A!ApplyAssumption, ApplyInv, A!OnChange
  PROVE  ApplyInv'
<1> USE DEF ApplyInv
<1>1. /\ covers' = covers /\ columns' = columns /\ log' = log /\ history' = history
      /\ open' = open /\ table' = table /\ aview' = aview /\ st' = st
      /\ confirmed' = confirmed /\ acursor' = acursor /\ sink' = sink /\ apending' = apending
      /\ st = "reading" /\ tx <= atarget /\ columns \in BOOLEAN
      /\ atarget' = atarget /\ tx' = tx /\ msg' = msg + 1 /\ ready' = ready
      /\ txRows' = txRows \o A!RowsOf(A!Current) /\ txError' = (txError \/ A!Unappliable(A!Current))
      /\ msg <= Len(log[tx].msgs)
  BY DEF A!OnChange, A!Untouched, A!server, ServerInv, A!Reading, A!InTransaction
<1>2. ServerInv' BY <1>1, ServerSame
<1>3. Len(log) \in Nat /\ tx \in 1 .. Len(log) BY <1>1 DEF ServerInv, PassInv
<1>4. SinkInv' BY <1>1, <1>3, SinkSame
<1>5. Delivered' = Delivered /\ Later(Delivered, tx - 1)' = Later(Delivered, tx - 1)
  BY <1>1 DEF Delivered, Later
<1>6. /\ Hist(Delivered)' = Hist(Delivered) /\ Hist(tx - 1)' = Hist(tx - 1)
      /\ Hist(Later(Delivered, tx - 1))' = Hist(Later(Delivered, tx - 1))
  BY <1>1, <1>5 DEF Hist
<1>7. PICK a, ms, b, m : a = Hist(tx - 1) /\ ms = log[tx].msgs /\ b = history[tx] /\ m = A!Current
  OBVIOUS
<1>8. PICK p : Leads(a, ms, p, b) /\ (~ txError => A!Merged(a, txRows) = p[msg - 1])
  BY <1>1, <1>7 DEF PassInv
<1>9. Leads(a, ms, p, b)' BY <1>1, <1>8, LeadsSame
<1>10. a = Hist(tx - 1)' /\ ms = log'[tx'].msgs /\ b = history'[tx'] BY <1>1, <1>6, <1>7
<1>11. ms \in Seq(Messages)
  <2>1. log[tx] \in Committed BY <1>3 DEF ServerInv
  <2> QED BY <1>7, <2>1 DEF Committed
<1>12. msg \in 1 .. Len(ms) BY <1>1, <1>7, <1>11 DEF PassInv
<1>13. m = ms[msg] BY <1>7 DEF A!Current
<1>14. Carries(p[msg - 1], m, p[msg]) BY <1>8, <1>12, <1>13 DEF Leads
<1>15. A!RowsOf(m) \in Seq(Rows)
  <2>1. CASE A!Unappliable(m)
    <3>1. A!RowsOf(m) = <<>> BY <2>1 DEF A!RowsOf
    <3> QED BY <3>1
  <2> QED BY <1>14, <2>1 DEF Carries
<1>16. txRows \in Seq(Rows) /\ txRows' = txRows \o A!RowsOf(m) BY <1>1, <1>7 DEF PassInv
<1>17. txRows' \in Seq(Rows)
  <2>1. PICK r \in Seq(Rows), s \in Seq(Rows) : r = txRows /\ s = A!RowsOf(m) BY <1>15, <1>16
  <2>2. r \o s \in Seq(Rows) OBVIOUS
  <2> QED BY <1>16, <2>1, <2>2
<1>18. a \in Copies
  <2>1. tx - 1 \in 0 .. Len(log) BY <1>3
  <2> QED BY <1>7, <2>1, HistType
<1>19. ASSUME ~ txError'
       PROVE  A!Merged(a, txRows') = p[msg' - 1]
  <2>1. ~ txError /\ ~ A!Unappliable(m) BY <1>1, <1>7, <1>19
  <2>2. p[msg] = A!Merged(p[msg - 1], A!RowsOf(m)) BY <1>14, <2>1 DEF Carries
  <2>3. A!Merged(a, txRows) = p[msg - 1] BY <1>8, <2>1
  <2>4. PICK r \in Seq(Rows), s \in Seq(Rows) : r = txRows /\ s = A!RowsOf(m) BY <1>15, <1>16
  <2>5. A!Merged(A!Merged(a, r), s) = A!Merged(a, r \o s) BY <1>18, MergeBoth
  <2>6. msg' - 1 = msg BY <1>1, <1>12
  <2> QED BY <1>16, <2>2, <2>3, <2>4, <2>5, <2>6
<1>20. msg' \in 1 .. Len(ms) + 1 BY <1>1, <1>11, <1>12
<1>21. \E q : /\ Leads(Hist(tx - 1), log[tx].msgs, q, history[tx])'
              /\ ~ txError' => A!Merged(Hist(tx - 1), txRows)' = q[msg' - 1]
  BY <1>9, <1>10, <1>19
<1>22. PassInv'
  <2>1. /\ tx' \in Nat \ {0} /\ atarget' \in Nat /\ tx' <= atarget' + 1 /\ atarget' <= Len(log')
        /\ Delivered' <= atarget' /\ (apending' # A!Nothing' => Delivered' < tx')
        /\ ready' \in Seq(Rows) /\ acursor' # Null
    BY <1>1, <1>5 DEF PassInv, A!Nothing
  <2>2. A!Merged(Hist(Delivered), ready)' = Hist(Later(Delivered, tx - 1))'
    BY <1>1, <1>6 DEF PassInv
  <2>3. Still(Delivered, ready, Later(Delivered, tx - 1))'
    <3>1. PICK c, q, d : c = Delivered /\ q = ready /\ d = Later(Delivered, tx - 1) OBVIOUS
    <3>2. Still(c, q, d) BY <1>1, <3>1 DEF PassInv
    <3>3. Still(c, q, d)' BY <1>1, <3>2, StillSame
    <3>4. c = Delivered' /\ q = ready' /\ d = Later(Delivered, tx - 1)' BY <1>1, <1>5, <3>1
    <3> QED BY <3>3, <3>4
  <2> QED BY <1>10, <1>17, <1>20, <1>21, <2>1, <2>2, <2>3 DEF PassInv
<1>23. SnapInv' BY <1>1 DEF SnapInv
<1> QED BY <1>2, <1>4, <1>22, <1>23

\* What reading on at the next transaction needs of the rows before it.
LEMMA AdvanceKeeps ==
  ASSUME A!ApplyAssumption, ServerInv, PassInv, A!Advance, st = "reading", tx <= atarget,
         UNCHANGED <<covers, log, history, atarget>>,
         Delivered' \in Nat, Delivered' <= atarget, Delivered' <= Len(log),
         apending' # A!Nothing => Delivered' <= tx,
         ready' \in Seq(Rows),
         NEW n, n = Later(Delivered', tx), A!Merged(Hist(Delivered)', ready') = Hist(n)',
         Still(Delivered, ready, n)', acursor' # Null
  PROVE  PassInv'
<1>1. tx' = tx + 1 /\ msg' = 1 /\ txRows' = <<>> BY DEF A!Advance
<1>2. /\ tx \in Nat \ {0} /\ atarget \in Nat /\ atarget <= Len(log) /\ Len(log) \in Nat
  BY DEF PassInv, ServerInv
<1>3. A!Merged(Hist(Delivered), ready)' = Hist(Later(Delivered, tx - 1))'
  <2>1. Later(Delivered, tx - 1)' = n BY <1>1, <1>2 DEF Later
  <2>2. Hist(Later(Delivered, tx - 1))' = Hist(n)' BY <2>1 DEF Hist
  <2> QED BY <2>2
<1>4. ASSUME tx' <= atarget'
      PROVE  /\ msg' \in 1 .. Len(log'[tx'].msgs) + 1
             /\ \E p : /\ Leads(Hist(tx - 1), log[tx].msgs, p, history[tx])'
                       /\ ~ txError' => A!Merged(Hist(tx - 1), txRows)' = p[msg' - 1]
  <2>1. PICK i : i = tx' OBVIOUS
  <2>2. i \in 1 .. Len(log) BY <1>1, <1>2, <1>4, <2>1
  <2>3. PICK p : /\ Leads(Hist(i - 1), log[i].msgs, p, history[i])'
                 /\ A!Merged(Hist(i - 1)', <<>>) = p[0]
                 /\ 1 \in 1 .. Len(log'[i].msgs) + 1
    BY <2>2, PassOpens
  <2>4. Leads(Hist(tx - 1), log[tx].msgs, p, history[tx])' BY <2>1, <2>3 DEF Hist
  <2>5. A!Merged(Hist(tx - 1), txRows)' = p[msg' - 1] BY <1>1, <2>1, <2>3 DEF Hist
  <2> QED BY <1>1, <2>1, <2>3, <2>4, <2>5
<1>5. /\ tx' \in Nat \ {0} /\ atarget' \in Nat /\ tx' <= atarget' + 1 /\ atarget' <= Len(log')
      /\ Delivered' <= atarget' /\ (apending' # A!Nothing' => Delivered' < tx')
      /\ txRows' \in Seq(Rows)
  BY <1>1, <1>2 DEF A!Nothing
<1>6. Still(Delivered, ready, Later(Delivered, tx - 1))'
  <2>1. Later(Delivered, tx - 1)' = n BY <1>1, <1>2 DEF Later
  <2> QED BY <2>1 DEF Still, Hist, Touches
<1> QED BY <1>3, <1>4, <1>5, <1>6 DEF PassInv

LEMMA OnCommitKeeps ==
  ASSUME A!ApplyAssumption, ApplyInv, A!OnCommit
  PROVE  ApplyInv'
<1> USE DEF ApplyInv
<1>1. /\ covers' = covers /\ columns' = columns /\ log' = log /\ history' = history
      /\ open' = open /\ table' = table
      /\ confirmed' = confirmed /\ acursor' = acursor /\ sink' = sink /\ aview' = aview
      /\ st = "reading" /\ tx <= atarget /\ columns \in BOOLEAN /\ atarget' = atarget
      /\ st' # "snapshot"
      /\ ~ (msg <= Len(log[tx].msgs))
  BY DEF A!OnCommit, A!Untouched, A!server, ServerInv, A!Reading, A!InTransaction, A!Refuse
<1>2. ServerInv' BY <1>1, ServerSame
<1>3. /\ Len(log) \in Nat /\ tx \in 1 .. Len(log) /\ tx \in Nat \ {0} /\ atarget \in Nat
      /\ atarget <= Len(log)
      /\ acursor \in Nat /\ Delivered \in Nat /\ acursor <= Delivered /\ Delivered <= atarget
      /\ apending # A!Nothing => Delivered < tx
      /\ acursor # Null
  <2>1. /\ acursor # Null /\ tx \in Nat \ {0} /\ atarget \in Nat /\ atarget <= Len(log)
        /\ Delivered <= atarget /\ (apending # A!Nothing => Delivered < tx)
    BY <1>1 DEF PassInv
  <2>2. acursor \in Nat /\ Delivered \in Nat /\ acursor <= Delivered BY <2>1 DEF SinkInv
  <2>3. Len(log) \in Nat BY DEF ServerInv
  <2> QED BY <1>1, <2>1, <2>2, <2>3
<1>35. SnapInv' BY <1>1 DEF SnapInv
<1>4. /\ ready \in Seq(Rows) /\ txRows \in Seq(Rows)
      /\ A!Merged(Hist(Delivered), ready) = Hist(Later(Delivered, tx - 1))
      /\ Still(Delivered, ready, Later(Delivered, tx - 1))
  BY <1>1 DEF PassInv
<1>5. CASE A!Applied
  <2>1. A!Advance /\ st' = st /\ ready' = ready /\ apending' = apending
    BY <1>5 DEF A!OnCommit
  <2>2. SinkInv' BY <1>1, <1>3, <2>1, SinkSame
  <2>3. Delivered' = Delivered BY <1>1, <2>1 DEF Delivered
  <2>4. tx <= Delivered BY <1>3, <1>5 DEF A!Applied
  <2>5. Later(Delivered, tx - 1) = Delivered /\ Later(Delivered', tx) = Delivered
    BY <1>3, <2>3, <2>4 DEF Later
  <2>6. PICK n : n = Delivered OBVIOUS
  <2>7. A!Merged(Hist(Delivered)', ready') = Hist(n)'
    <3>1. Hist(Delivered)' = Hist(n) /\ Hist(n)' = Hist(n) BY <1>1, <2>3, <2>6 DEF Hist
    <3> QED BY <1>4, <2>1, <2>5, <2>6, <3>1
  <2>8. /\ Delivered' \in Nat /\ Delivered' <= atarget /\ Delivered' <= Len(log)
        /\ (apending' # A!Nothing => Delivered' <= tx) /\ ready' \in Seq(Rows)
    BY <1>3, <1>4, <2>1, <2>3
  <2>9. Still(Delivered, ready, n)'
    <3>1. PICK c, q : c = Delivered /\ q = ready OBVIOUS
    <3>2. Still(c, q, n)' BY <1>1, <1>4, <2>5, <2>6, <3>1, StillSame
    <3> QED BY <2>1, <2>3, <3>1, <3>2 DEF Still, Hist, Touches
  <2>10. PassInv' BY <1>1, <1>3, <2>1, <2>5, <2>6, <2>7, <2>8, <2>9, AdvanceKeeps
  <2> QED BY <1>2, <1>35, <2>2, <2>10
<1>6. CASE ~ A!Applied /\ txError
  <2>1. st' = "refused" /\ apending' = apending BY <1>6 DEF A!OnCommit, A!Refuse
  <2>2. SinkInv' BY <1>1, <1>3, <2>1, SinkSame
  <2>3. PassInv' BY <2>1 DEF PassInv
  <2> QED BY <1>2, <1>35, <2>2, <2>3
<1>7. CASE ~ A!Applied /\ ~ txError
  <2>1. PICK both \in Seq(Rows) : both = ready \o txRows
    <3>1. PICK r \in Seq(Rows), s \in Seq(Rows) : r = ready /\ s = txRows BY <1>4
    <3>2. r \o s \in Seq(Rows) OBVIOUS
    <3> QED BY <3>1, <3>2
  <2>2. /\ A!Advance /\ st' = st
        /\ \/ ready' = <<>> /\ A!Deliver(both, tx)
           \/ ready' = both /\ apending' = apending
    BY <1>7, <2>1 DEF A!OnCommit
  <2>3. acursor < tx BY <1>3, <1>7 DEF A!Applied
  <2>4. Delivered < tx
    <3>1. CASE apending = A!Nothing BY <2>3, <3>1 DEF Delivered
    <3> QED BY <1>3, <3>1
  <2>45. Still(Delivered, both, tx)
    <3>1. PICK a, ms, b : a = Hist(tx - 1) /\ ms = log[tx].msgs /\ b = history[tx] OBVIOUS
    <3>2. PICK p : /\ Leads(a, ms, p, b) /\ A!Merged(a, txRows) = p[msg - 1]
                   /\ msg \in 1 .. Len(ms) + 1
      BY <1>1, <1>7, <3>1 DEF PassInv
    <3>3. ms \in Seq(Messages)
      <4>1. log[tx] \in Committed BY <1>3 DEF ServerInv
      <4> QED BY <3>1, <4>1 DEF Committed
    <3>4. msg - 1 = Len(ms) BY <1>1, <3>1, <3>2, <3>3
    <3>5. A!Merged(Hist(tx - 1), txRows) = Hist(tx) BY <1>3, <3>1, <3>2, <3>4 DEF Leads, Hist
    <3>6. PICK n \in Nat \ {0}, c \in Nat, d \in Nat : n = tx /\ c = Delivered /\ d = n - 1
      BY <1>3
    <3>7. PICK q \in Seq(Rows), h \in Seq(Rows) : q = txRows /\ h = ready BY <1>4
    <3>8. Still(d, q, n) BY <3>5, <3>6, <3>7, StillOne
    <3>9. Still(c, h, d)
      <4>1. Later(Delivered, tx - 1) = d BY <1>3, <2>4, <3>6 DEF Later
      <4> QED BY <1>4, <3>6, <3>7, <4>1
    <3>10. c <= d /\ d <= n BY <2>4, <3>6
    <3>11. Still(c, h \o q, n) BY <3>8, <3>9, <3>10, StillBoth
    <3> QED BY <2>1, <3>6, <3>7, <3>11
  <2>5. Later(Delivered, tx - 1) = tx - 1 BY <1>3, <2>4 DEF Later
  <2>6. A!Merged(Hist(Delivered), both) = Hist(tx)
    <3>1. PICK a, ms, b : a = Hist(tx - 1) /\ ms = log[tx].msgs /\ b = history[tx] OBVIOUS
    <3>2. PICK p : /\ Leads(a, ms, p, b) /\ A!Merged(a, txRows) = p[msg - 1]
                   /\ msg \in 1 .. Len(ms) + 1
      BY <1>1, <1>7, <3>1 DEF PassInv
    <3>3. ms \in Seq(Messages)
      <4>1. log[tx] \in Committed BY <1>3 DEF ServerInv
      <4> QED BY <3>1, <4>1 DEF Committed
    <3>4. msg - 1 = Len(ms) BY <1>1, <3>1, <3>2, <3>3
    <3>5. A!Merged(a, txRows) = b BY <3>2, <3>4 DEF Leads
    <3>6. b = Hist(tx) BY <1>3, <3>1 DEF Hist
    <3>7. A!Merged(Hist(Delivered), ready) = a BY <1>4, <2>5, <3>1
    <3>8. Hist(Delivered) \in Copies
      <4>1. Delivered \in 0 .. Len(log) BY <1>3
      <4> QED BY <4>1, HistType
    <3>9. PICK h, r, s : h = Hist(Delivered) /\ r = ready /\ s = txRows OBVIOUS
    <3>10. A!Merged(A!Merged(h, r), s) = A!Merged(h, r \o s) BY <1>4, <3>8, <3>9, MergeBoth
    <3> QED BY <2>1, <3>5, <3>6, <3>7, <3>9, <3>10
  <2>7. CASE ready' = <<>> /\ A!Deliver(both, tx)
    <3>1. SinkInv' /\ Delivered' = tx /\ apending' # A!Nothing
      BY <1>1, <1>3, <2>4, <2>6, <2>7, <2>45, DeliverKeeps
    <3>2. Later(Delivered', tx) = tx BY <1>3, <3>1 DEF Later
    <3>3. PICK n : n = tx OBVIOUS
    <3>4. A!Merged(Hist(Delivered)', ready') = Hist(n)'
      <4>1. n \in 0 .. Len(log) BY <1>3, <3>3
      <4>2. A!Merged(Hist(n), <<>>) = Hist(n) BY <4>1, HistType, MergeNothing
      <4>3. Hist(Delivered)' = Hist(n) /\ Hist(n)' = Hist(n) BY <1>1, <3>1, <3>3 DEF Hist
      <4> QED BY <2>7, <4>2, <4>3
    <3>5. /\ Delivered' \in Nat /\ Delivered' <= atarget /\ Delivered' <= Len(log)
          /\ (apending' # A!Nothing => Delivered' <= tx) /\ ready' \in Seq(Rows)
      BY <1>1, <1>3, <2>7, <3>1
    <3>6. Still(Delivered, ready, n)'
      <4>1. PICK m \in Nat : m = n BY <1>3, <3>3
      <4>2. Still(m, <<>>, m)' BY <1>1, StillNone, StillSame
      <4> QED BY <2>7, <3>1, <3>3, <4>1, <4>2 DEF Still, Hist, Touches
    <3>7. PassInv' BY <1>1, <1>3, <2>2, <3>2, <3>3, <3>4, <3>5, <3>6, AdvanceKeeps
    <3> QED BY <1>2, <1>35, <3>1, <3>7
  <2>8. CASE ready' = both /\ apending' = apending
    <3>1. SinkInv' BY <1>1, <1>3, <2>8, SinkSame
    <3>2. Delivered' = Delivered BY <1>1, <2>8 DEF Delivered
    <3>3. Later(Delivered', tx) = tx BY <1>3, <2>4, <3>2 DEF Later
    <3>4. PICK n : n = tx OBVIOUS
    <3>5. A!Merged(Hist(Delivered)', ready') = Hist(n)'
      <4>1. Hist(Delivered)' = Hist(Delivered) /\ Hist(n)' = Hist(n)
        BY <1>1, <3>2 DEF Hist
      <4> QED BY <2>6, <2>8, <3>4, <4>1
    <3>6. /\ Delivered' \in Nat /\ Delivered' <= atarget /\ Delivered' <= Len(log)
          /\ (apending' # A!Nothing => Delivered' <= tx) /\ ready' \in Seq(Rows)
      BY <1>3, <2>4, <2>8, <3>2
    <3>7. Still(Delivered, ready, n)'
      <4>1. PICK c, q : c = Delivered /\ q = both OBVIOUS
      <4>2. Still(c, q, n)' BY <1>1, <2>45, <3>4, <4>1, StillSame
      <4> QED BY <2>8, <3>2, <4>1, <4>2 DEF Still, Hist, Touches
    <3>8. PassInv' BY <1>1, <1>3, <2>2, <3>3, <3>4, <3>5, <3>6, <3>7, AdvanceKeeps
    <3> QED BY <1>2, <1>35, <3>1, <3>8
  <2> QED BY <2>2, <2>7, <2>8
<1> QED BY <1>5, <1>6, <1>7

LEMMA FinishKeeps ==
  ASSUME A!ApplyAssumption, ApplyInv, A!Finish
  PROVE  ApplyInv'
<1> USE DEF ApplyInv
<1>1. /\ covers' = covers /\ columns' = columns /\ log' = log /\ history' = history
      /\ open' = open /\ table' = table
      /\ confirmed' = confirmed /\ acursor' = acursor /\ sink' = sink /\ aview' = aview
      /\ st = "reading" /\ tx > atarget /\ st' = "idle" /\ columns \in BOOLEAN
      /\ A!Deliver(ready, A!Max({atarget, acursor}))
  BY DEF A!Finish, A!Untouched, A!server, ServerInv, A!PassOver
<1>2. ServerInv' BY <1>1, ServerSame
<1>3. /\ tx \in Nat /\ atarget \in Nat /\ tx = atarget + 1 /\ atarget <= Len(log)
      /\ acursor \in Nat /\ Delivered \in Nat /\ acursor <= Delivered /\ Delivered <= atarget
      /\ ready \in Seq(Rows) /\ A!Merged(Hist(Delivered), ready) = Hist(Later(Delivered, tx - 1))
      /\ Still(Delivered, ready, Later(Delivered, tx - 1)) /\ acursor # Null
  BY <1>1 DEF PassInv, SinkInv
<1>4. A!Max({atarget, acursor}) = atarget BY <1>3 DEF A!Max
<1>5. Later(Delivered, tx - 1) = atarget BY <1>3 DEF Later
<1>6. SinkInv' BY <1>1, <1>3, <1>4, <1>5, DeliverKeeps
<1>7. PassInv' /\ SnapInv' BY <1>1 DEF PassInv, SnapInv
<1> QED BY <1>2, <1>6, <1>7

\* The commit makes what was delivered the destination's.
LEMMA EngineKeeps ==
  ASSUME A!ApplyAssumption, ApplyInv, A!EngineCommit
  PROVE  ApplyInv'
<1> USE DEF ApplyInv
<1>1. /\ covers' = covers /\ columns' = columns /\ log' = log /\ history' = history
      /\ open' = open /\ table' = table /\ confirmed' = confirmed /\ aview' = aview
      /\ apending # A!Nothing /\ apending' = A!Nothing /\ columns \in BOOLEAN
      /\ sink' = A!Merged(sink, apending.rows) /\ acursor' = apending.checkpoint
      /\ st' = st /\ atarget' = atarget /\ tx' = tx /\ msg' = msg /\ ready' = ready
      /\ txRows' = txRows /\ txError' = txError /\ start' = start
  BY DEF A!EngineCommit, A!server, A!pass, ServerInv
<1>2. ServerInv' BY <1>1, ServerSame
<1>3. Delivered = apending.checkpoint /\ acursor' = Delivered /\ Delivered' = Delivered
  BY <1>1 DEF Delivered
<1>4. Delivered # Null BY <1>1, <1>3 DEF SinkInv
<1>5. PICK x, d : x = A!Merged(sink, apending.rows) /\ d = Delivered OBVIOUS
<1>6. /\ d \in Nat /\ d <= Len(log) /\ Len(log) \in Nat /\ confirmed \in Nat /\ confirmed <= d
      /\ confirmed <= Len(log) /\ aview \in Nat /\ aview <= Len(log) /\ sink \in Copies
      /\ apending.rows \in Seq(Rows) /\ Fits(x, d)
  BY <1>4, <1>5 DEF SinkInv, ServerInv
<1>7. x \in Copies BY <1>5, <1>6, MergedType
<1>8. Fits(x, d)' BY <1>1, <1>6, FitsSame
<1>9. /\ sink' = x /\ acursor' = d /\ Delivered' = d
  BY <1>1, <1>3, <1>5
<1>10. A!Merged(sink, apending.rows)' = x
  <2>1. apending'.rows = <<>> BY <1>1 DEF A!Nothing
  <2>2. A!Merged(x, <<>>) = x BY <1>7, MergeNothing
  <2> QED BY <1>9, <2>1, <2>2 DEF A!Merged, A!LastOf
<1>11. Fits(sink, acursor)' /\ Fits(A!Merged(sink, apending.rows), Delivered)'
  BY <1>8, <1>9, <1>10 DEF Fits, Hist
<1>12. /\ apending' \in [rows : Seq(Rows), checkpoint : Nat \cup {Null}]
       /\ apending'.checkpoint = Null => apending' = A!Nothing'
  BY <1>1 DEF A!Nothing
<1>13. d # Null BY <1>6, Numbers
<1>14. /\ aview' \in Nat /\ aview' <= Len(log') /\ confirmed' \in Nat /\ confirmed' <= Len(log')
       /\ sink' \in Copies /\ acursor' # Null /\ acursor' \in Nat /\ confirmed' <= acursor'
       /\ acursor' <= Len(log') /\ acursor' <= Delivered' /\ Delivered' \in Nat
       /\ confirmed' <= Delivered' /\ Delivered' <= Len(log')
  BY <1>1, <1>6, <1>7, <1>9, <1>13
<1>15. SinkInv' BY <1>11, <1>12, <1>14 DEF SinkInv
<1>16. PassInv'
  <2> SUFFICES ASSUME st' = "reading" PROVE PassInv' BY DEF PassInv
  <2>1. Later(Delivered, tx - 1)' = Later(Delivered, tx - 1) BY <1>1, <1>3 DEF Later
  <2>2. /\ Hist(tx - 1)' = Hist(tx - 1) /\ Hist(Delivered)' = Hist(Delivered)
        /\ Hist(Later(Delivered, tx - 1))' = Hist(Later(Delivered, tx - 1))
    BY <1>1, <1>3, <2>1 DEF Hist
  <2>3. ASSUME tx <= atarget
        PROVE  \E p : /\ Leads(Hist(tx - 1), log[tx].msgs, p, history[tx])'
                      /\ ~ txError' => A!Merged(Hist(tx - 1), txRows)' = p[msg' - 1]
    <3>1. PICK a, ms, b : a = Hist(tx - 1) /\ ms = log[tx].msgs /\ b = history[tx] OBVIOUS
    <3>2. PICK p : Leads(a, ms, p, b) /\ (~ txError => A!Merged(a, txRows) = p[msg - 1])
      BY <1>1, <2>3, <3>1 DEF PassInv
    <3>3. Leads(a, ms, p, b)' BY <1>1, <3>2, LeadsSame
    <3>4. a = Hist(tx - 1)' /\ ms = log'[tx'].msgs /\ b = history'[tx'] BY <1>1, <2>2, <3>1
    <3> QED BY <1>1, <3>2, <3>3, <3>4
  <2>4. apending' = A!Nothing' BY <1>1 DEF A!Nothing
  <2>5. Still(Delivered, ready, Later(Delivered, tx - 1))'
    <3>1. PICK c, q, e : c = Delivered /\ q = ready /\ e = Later(Delivered, tx - 1) OBVIOUS
    <3>2. Still(c, q, e) BY <1>1, <3>1 DEF PassInv
    <3>3. Still(c, q, e)' BY <1>1, <3>2, StillSame
    <3>4. c = Delivered' /\ q = ready' /\ e = Later(Delivered, tx - 1)' BY <1>1, <1>3, <2>1, <3>1
    <3> QED BY <3>3, <3>4
  <2> QED BY <1>1, <1>3, <1>14, <2>1, <2>2, <2>3, <2>4, <2>5 DEF PassInv
<1>17. SnapInv'
  <2>1. CASE st = "snapshot"
    <3>1. apending = A!Nothing BY <2>1 DEF SnapInv
    <3> QED BY <1>1, <3>1
  <2>2. CASE st # "snapshot" BY <1>1, <2>2 DEF SnapInv
  <2> QED BY <2>1, <2>2
<1> QED BY <1>2, <1>15, <1>16, <1>17

-----------------------------------------------------------------------------
(* The snapshot *)

\* The copy of a table into an empty destination is the table.
LEMMA CopyIsTable ==
  ASSUME A!ApplyAssumption, NEW seen \in Copies, NEW n \in Nat,
         NEW order \in [1 .. n -> {k \in Keys : seen[k] # Null}],
         \A k \in Keys : seen[k] # Null => \E i \in 1 .. n : order[i] = k
  PROVE  A!Copied(seen, order) \in Seq(Rows) /\ A!Merged(A!Empty, A!Copied(seen, order)) = seen
<1>1. PICK rows : rows = A!Copied(seen, order) OBVIOUS
<1>2. /\ DOMAIN rows = 1 .. n
      /\ \A i \in 1 .. n : rows[i] = A!Row(order[i], seen[order[i]], FALSE)
  BY <1>1 DEF A!Copied
<1>3. \A i \in 1 .. n : /\ order[i] \in Keys /\ seen[order[i]] # Null
                        /\ rows[i] \in Rows /\ rows[i].key = order[i] /\ Value(rows[i]) = seen[order[i]]
  <2> SUFFICES ASSUME NEW i \in 1 .. n
               PROVE  /\ order[i] \in Keys /\ seen[order[i]] # Null
                      /\ rows[i] \in Rows /\ rows[i].key = order[i] /\ Value(rows[i]) = seen[order[i]]
    OBVIOUS
  <2>1. order[i] \in Keys /\ seen[order[i]] # Null OBVIOUS
  <2>2. PICK k, v : k = order[i] /\ v = seen[order[i]] OBVIOUS
  <2>3. k \in Keys /\ v \in Values \cup {Null} BY <2>1, <2>2 DEF Copies
  <2>4. rows[i] = [key |-> k, value |-> v, gone |-> FALSE] BY <1>2, <2>2 DEF A!Row
  <2> QED BY <2>1, <2>2, <2>3, <2>4 DEF Rows, Value
<1>4. rows \in Seq(Rows)
  <2>1. rows = [i \in 1 .. n |-> A!Row(order[i], seen[order[i]], FALSE)] BY <1>1 DEF A!Copied
  <2>2. rows \in [1 .. n -> Rows] BY <1>2, <1>3, <2>1
  <2> QED BY <2>2
<1>5. ASSUME NEW k \in Keys PROVE A!Merged(A!Empty, rows)[k] = seen[k]
  <2>1. CASE seen[k] # Null
    <3>1. PICK i \in 1 .. n : order[i] = k BY <2>1
    <3>2. i \in DOMAIN rows /\ rows[i].key = k BY <1>2, <1>3, <3>1
    <3>3. PICK l : l = A!LastOf(rows, k) OBVIOUS
    <3>4. /\ l \in DOMAIN rows /\ rows[l].key = k
          /\ \A j \in DOMAIN rows : rows[j].key = k => j <= l
      BY <1>4, <3>2, <3>3, LastRow
    <3>5. A!Merged(A!Empty, rows)[k] = Value(rows[l]) BY <1>4, <3>4, MergedRow
    <3> QED BY <1>2, <1>3, <3>4, <3>5
  <2>2. CASE seen[k] = Null
    <3>1. \A j \in DOMAIN rows : rows[j].key # k BY <1>2, <1>3, <2>2
    <3>2. A!Merged(A!Empty, rows)[k] = A!Empty[k] BY <3>1, MergedElse
    <3> QED BY <2>2, <3>2 DEF A!Empty
  <2> QED BY <2>1, <2>2
<1>6. A!Merged(A!Empty, rows) = [k \in Keys |-> A!Merged(A!Empty, rows)[k]] BY DEF A!Merged
<1>7. seen = [k \in Keys |-> seen[k]] BY DEF Copies
<1> QED BY <1>1, <1>4, <1>5, <1>6, <1>7

\* The position first.
LEMMA HorizonKeeps ==
  ASSUME A!ApplyAssumption, ApplyInv, A!ReadHorizon
  PROVE  ApplyInv'
<1> USE DEF ApplyInv
<1>1. /\ UNCHANGED <<covers, log, history, open, table>> /\ columns' \in BOOLEAN
      /\ UNCHANGED <<confirmed, acursor, sink, aview, apending>>
      /\ acursor = Null /\ apending = A!Nothing /\ start' = Len(log) /\ st' = "snapshot"
  BY DEF A!ReadHorizon, A!server, ServerInv
<1>2. Len(log) \in Nat BY DEF ServerInv
<1>3. ServerInv' BY <1>1, ServerSame
<1>4. SinkInv' BY <1>1, <1>2, SinkSame
<1>5. SnapInv'
  <2>1. A!Nothing' = A!Nothing BY DEF A!Nothing
  <2> QED BY <1>1, <1>2, <2>1 DEF SnapInv, SinkInv
<1>6. PassInv' BY <1>1 DEF PassInv
<1> QED BY <1>3, <1>4, <1>5, <1>6

\* Then the copy, which sees all up to that position and perhaps more.
LEMMA CopyKeeps ==
  ASSUME A!ApplyAssumption, ApplyInv, A!CopyTable
  PROVE  ApplyInv'
<1> USE DEF ApplyInv
<1>1. PICK n, seen, held, c : /\ n = Len(log) /\ seen = Hist(n) /\ c = start
                             /\ held = {k \in Keys : seen[k] # Null}
  OBVIOUS
<1>2. PICK order \in A!Bijection(1 .. A!Cardinality(held), held) :
        apending' = [rows |-> A!Copied(seen, order), checkpoint |-> c]
  <2>1. seen = A!History(Len(log)) BY <1>1 DEF A!History, Hist
  <2> QED BY <1>1, <2>1 DEF A!CopyTable
<1>3. /\ covers' = covers /\ columns' = columns /\ log' = log /\ history' = history
      /\ open' = open /\ table' = table /\ confirmed' = confirmed /\ aview' = n
      /\ columns \in BOOLEAN /\ sink' = sink /\ acursor' = acursor
      /\ st = "snapshot" /\ st' = "idle"
  BY <1>1 DEF A!CopyTable, A!server, A!PassOver, ServerInv
<1>4. /\ n \in Nat /\ c \in Nat /\ confirmed <= c /\ c <= n /\ acursor = Null
      /\ confirmed \in Nat /\ confirmed <= n /\ sink = A!Empty /\ sink \in Copies
  BY <1>1, <1>3 DEF ServerInv, SnapInv, SinkInv
<1>5. ServerInv' BY <1>3, ServerSame
<1>6. seen \in Copies BY <1>1, <1>4, HistType
<1>7. A!Cardinality(held) \in Nat
  <2>1. IsFiniteSet(Keys)
    <3>1. A!IsFiniteSet(Keys) BY DEF A!ApplyAssumption
    <3> QED BY <3>1 DEF A!IsFiniteSet, IsFiniteSet
  <2>2. held \in SUBSET Keys BY <1>1
  <2>3. Cardinality(held) \in Nat BY <2>1, <2>2, FS_Subset, FS_CardinalityType
  <2>4. A!Cardinality(held) = Cardinality(held) BY DEF A!Cardinality, Cardinality
  <2> QED BY <2>3, <2>4
<1>8. PICK m \in Nat : m = A!Cardinality(held) BY <1>7
<1>9. order \in [1 .. m -> held] /\ \A k \in held : \E i \in 1 .. m : order[i] = k
  BY <1>2, <1>8 DEF A!Bijection, A!Injection, A!Surjection
<1>10. PICK rows : rows = A!Copied(seen, order) OBVIOUS
<1>11. rows \in Seq(Rows) /\ A!Merged(A!Empty, rows) = seen
  BY <1>1, <1>6, <1>9, <1>10, CopyIsTable
<1>12. apending' = [rows |-> rows, checkpoint |-> c] /\ c # Null BY <1>2, <1>4, <1>10, Numbers
<1>13. /\ apending' # A!Nothing /\ Delivered' = c
       /\ apending' \in [rows : Seq(Rows), checkpoint : Nat \cup {Null}]
       /\ apending'.rows = rows /\ apending'.checkpoint = c
  <2>1. apending' # A!Nothing BY <1>12 DEF A!Nothing
  <2>2. A!Nothing' = A!Nothing BY DEF A!Nothing
  <2> QED BY <1>4, <1>11, <1>12, <2>1, <2>2 DEF Delivered
<1>14. A!Merged(sink, apending.rows)' = seen
  <2>1. PICK y, z : y = sink /\ z = A!Merged(y, rows) OBVIOUS
  <2>2. PICK q : q = rows OBVIOUS
  <2>3. z = A!Merged(y, q) BY <2>1, <2>2
  <2>4. sink' = y /\ apending'.rows = q BY <1>3, <1>13, <2>1, <2>2
  <2>5. A!Merged(sink, apending.rows)' = z BY <2>3, <2>4 DEF A!Merged, A!LastOf
  <2> QED BY <1>4, <1>11, <2>1, <2>5
<1>15. Fits(seen, c)'
  <2>1. Hist(n)' = seen /\ Hist(c)' = Hist(c) /\ aview' = n BY <1>1, <1>3 DEF Hist
  <2>2. CASE c = n BY <2>1, <2>2 DEF Fits, Hist
  <2>3. CASE c < n
    <3>1. c < aview' /\ Hist(aview)' = seen BY <2>1, <2>3 DEF Hist
    <3> QED BY <3>1 DEF Fits, Hist
  <2> QED BY <1>4, <2>2, <2>3
<1>16. Fits(A!Merged(sink, apending.rows), Delivered)' BY <1>13, <1>14, <1>15 DEF Fits, Hist
<1>17. /\ aview' \in Nat /\ aview' <= Len(log') /\ confirmed' \in Nat /\ confirmed' <= Len(log')
       /\ sink' \in Copies /\ acursor' = Null /\ sink' = A!Empty' /\ Delivered' \in Nat
       /\ confirmed' <= Delivered' /\ Delivered' <= Len(log') /\ apending'.checkpoint # Null
  BY <1>1, <1>3, <1>4, <1>12, <1>13 DEF A!Empty
<1>18. SinkInv' BY <1>13, <1>16, <1>17 DEF SinkInv
<1>19. PassInv' /\ SnapInv' BY <1>3 DEF PassInv, SnapInv
<1> QED BY <1>5, <1>18, <1>19

\* The state is reset and the destination emptied.
LEMMA ResetKeeps ==
  ASSUME A!ApplyAssumption, ApplyInv, A!ResetState
  PROVE  ApplyInv'
<1> USE DEF ApplyInv
<1>1. /\ covers' = covers /\ columns' = columns /\ log' = log /\ history' = history
      /\ open' = open /\ table' = table /\ confirmed' = confirmed /\ apending' = apending
      /\ st = "idle" /\ st' = st /\ apending = A!Nothing /\ columns \in BOOLEAN
      /\ sink' = A!Empty /\ acursor' = Null /\ aview' = aview
  BY DEF A!ResetState, A!server, A!pass, ServerInv
<1>2. ServerInv' BY <1>1, ServerSame
<1>3. /\ Delivered' = Null /\ A!Empty \in Copies /\ A!Empty' = A!Empty
      /\ apending' = A!Nothing'
  BY <1>1 DEF Delivered, A!Nothing, A!Empty, Copies
<1>4. /\ apending' \in [rows : Seq(Rows), checkpoint : Nat \cup {Null}]
  BY <1>1 DEF A!Nothing
<1>5. SinkInv' BY <1>1, <1>3, <1>4 DEF SinkInv
<1>6. PassInv' /\ SnapInv' BY <1>1 DEF PassInv, SnapInv
<1> QED BY <1>2, <1>5, <1>6

LEMMA ApplyInit ==
  ASSUME A!ApplyAssumption, A!Init
  PROVE  ApplyInv
<1>1. /\ covers \in BOOLEAN /\ columns = FALSE /\ log = <<>> /\ history = <<>> /\ open = <<>>
      /\ table = FirstTable /\ table \in Copies /\ aview = 0
      /\ confirmed = 0 /\ acursor = Null /\ sink = A!Empty /\ st = "idle" /\ apending = A!Nothing
  BY DEF A!Init, A!ApplyAssumption, Copies
<1>2. Hist(0) = FirstTable BY DEF Hist
<1>3. \E p : Leads(Hist(Len(log)), open, p, table)
  <2> DEFINE p == [j \in 0 .. 0 |-> table]
  <2>1. Leads(Hist(Len(log)), open, p, table) BY <1>1, <1>2 DEF Leads
  <2> QED BY <2>1
<1>4. ServerInv
  <2>1. log \in Seq(Committed) /\ history \in Seq(Copies) /\ open \in Seq(Messages) BY <1>1
  <2>2. Len(log) = 0 /\ Len(history) = 0 BY <1>1
  <2>3. \A i \in 1 .. Len(log) : \E p : Leads(Hist(i - 1), log[i].msgs, p, history[i])
    <3>1. 1 .. Len(log) = {} BY <2>2
    <3> QED BY <3>1
  <2> QED BY <1>1, <1>3, <2>1, <2>2, <2>3 DEF ServerInv
<1>5. SinkInv
  <2>1. Delivered = Null /\ Len(log) = 0 BY <1>1 DEF Delivered
  <2>2. apending \in [rows : Seq(Rows), checkpoint : Nat \cup {Null}] BY <1>1 DEF A!Nothing
  <2>3. A!Empty \in Copies BY DEF A!Empty, Copies
  <2> QED BY <1>1, <2>1, <2>2, <2>3 DEF SinkInv
<1>6. PassInv /\ SnapInv BY <1>1 DEF PassInv, SnapInv
<1> QED BY <1>4, <1>5, <1>6 DEF ApplyInv

LEMMA ApplyStep ==
  ASSUME A!ApplyAssumption, ApplyInv, [A!Next]_A!vars
  PROVE  ApplyInv'
<1>0. /\ ServerInv /\ SinkInv /\ SnapInv /\ PassInv /\ Len(log) \in Nat /\ columns \in BOOLEAN
      /\ confirmed \in Nat
  BY DEF ApplyInv, ServerInv, SinkInv
<1>1. CASE A!Insert \/ A!Update \/ A!Delete \/ A!Truncate
  <2>1. /\ ServerInv' /\ st # "reading" /\ UNCHANGED <<st, start, log, history, confirmed, acursor>>
        /\ UNCHANGED <<sink, aview, apending>>
    BY <1>0, <1>1, RowOperations
  <2>2. SinkInv' BY <1>0, <2>1, SinkSame
  <2>3. PassInv' BY <2>1 DEF PassInv
  <2>4. SnapInv' BY <1>0, <2>1, SnapSame
  <2> QED BY <2>1, <2>2, <2>3, <2>4 DEF ApplyInv
<1>2. CASE A!ServerCommits
  <2>1. /\ st # "reading" /\ UNCHANGED <<st, start, confirmed, acursor, sink, aview, apending>>
        /\ log' = Append(log, [msgs |-> open, columns |-> columns])
        /\ history' = Append(history, table)
    BY <1>2 DEF A!ServerCommits, A!Between, A!pass
  <2>2. ServerInv' BY <1>0, <1>2, CommitKeeps
  <2>3. /\ Len(log') \in Nat /\ Len(log) <= Len(log')
        /\ \A i \in 1 .. Len(log) : history'[i] = history[i]
    BY <1>0, <2>1 DEF ServerInv
  <2>4. SinkInv' BY <1>0, <2>1, <2>3, SinkSame
  <2>5. PassInv' BY <2>1 DEF PassInv
  <2>6. SnapInv' BY <1>0, <2>1, <2>3, SnapSame
  <2> QED BY <2>2, <2>4, <2>5, <2>6 DEF ApplyInv
<1>3. CASE A!AlterTable
  <2>1. /\ st # "reading" /\ UNCHANGED <<st, start, confirmed, acursor, sink, aview, apending>>
        /\ UNCHANGED <<covers, log, history, open, table>> /\ columns' = ~ columns
    BY <1>3 DEF A!AlterTable, A!Between, A!pass
  <2>2. ServerInv' BY <1>0, <2>1, ServerSame
  <2>3. SinkInv' BY <1>0, <2>1, SinkSame
  <2>4. PassInv' BY <2>1 DEF PassInv
  <2>5. SnapInv' BY <1>0, <2>1, SnapSame
  <2> QED BY <2>2, <2>3, <2>4, <2>5 DEF ApplyInv
<1>4. CASE A!StartPass BY <1>4, StartKeeps
<1>5. CASE A!OnRelation
  <2>1. /\ UNCHANGED <<covers, columns, log, history, open, table>>
        /\ UNCHANGED <<confirmed, acursor, sink, aview, apending>>
        /\ UNCHANGED <<tx, atarget, ready, txRows, txError, msg>>
        /\ st' = "reading" => st = "reading"
        /\ st' # "snapshot"
    BY <1>5 DEF A!OnRelation, A!Refuse, A!Reading, A!Untouched, A!server
  <2>2. ServerInv' BY <1>0, <2>1, ServerSame
  <2>3. SinkInv' BY <1>0, <2>1, SinkSame
  <2>4. PassInv' BY <1>0, <2>1, PassSame
  <2>5. SnapInv' BY <2>1 DEF SnapInv
  <2> QED BY <2>2, <2>3, <2>4, <2>5 DEF ApplyInv
<1>6. CASE A!OnChange BY <1>6, ChangeKeeps
<1>7. CASE A!OnCommit BY <1>7, OnCommitKeeps
<1>8. CASE A!Finish BY <1>8, FinishKeeps
<1>9. CASE A!EngineCommit BY <1>9, EngineKeeps
<1>10. CASE A!Acknowledge
  <2>1. /\ UNCHANGED <<covers, columns, log, history, open, table, acursor, sink, aview, apending>>
        /\ confirmed' = acursor /\ st' = st /\ acursor # Null /\ start' = start
        /\ st # "reading"
    BY <1>10 DEF A!Acknowledge, A!Between, A!server, A!pass
  <2>2. ServerInv' BY <1>0, <2>1, ServerSame
  <2>3. acursor \in Nat /\ acursor <= Len(log) /\ Delivered \in Nat /\ acursor <= Delivered
    BY <1>0, <2>1 DEF SinkInv
  <2>4. SinkInv'
    <3>1. PICK y, z, c, d : /\ y = sink /\ z = A!Merged(sink, apending.rows) /\ c = acursor
                            /\ d = Delivered
      OBVIOUS
    <3>2. /\ y = sink' /\ z = A!Merged(sink, apending.rows)' /\ c = acursor' /\ d = Delivered'
      BY <2>1, <3>1 DEF A!Merged, A!LastOf, Delivered, A!Nothing
    <3>3. d # Null /\ d <= Len(log) /\ Fits(y, c) /\ Fits(z, d)
      BY <1>0, <2>1, <2>3, <3>1, Numbers DEF SinkInv
    <3>4. /\ aview \in Nat /\ aview <= Len(log) /\ aview' = aview /\ history' = history
          /\ c \in Nat /\ d \in Nat /\ c <= Len(log)
      BY <1>0, <2>1, <2>3, <3>1 DEF SinkInv
    <3>5. Fits(y, c)' /\ Fits(z, d)' BY <1>0, <3>3, <3>4, FitsSame
    <3>6. Fits(sink, acursor)' /\ Fits(A!Merged(sink, apending.rows), Delivered)'
      BY <3>2, <3>5 DEF Fits, Hist
    <3>7. A!Nothing' = A!Nothing BY DEF A!Nothing
    <3> QED BY <1>0, <2>1, <2>3, <3>1, <3>2, <3>3, <3>6, <3>7 DEF SinkInv
  <2>5. PassInv' BY <2>1 DEF PassInv
  <2>6. SnapInv' BY <1>0, <2>1 DEF SnapInv
  <2> QED BY <2>2, <2>4, <2>5, <2>6 DEF ApplyInv
<1>11. CASE A!Crash \/ A!RunEnds
  <2>1. /\ UNCHANGED <<covers, columns, log, history, open, table>>
        /\ UNCHANGED <<confirmed, acursor, sink, aview>>
        /\ apending' = A!Nothing /\ st' = "idle"
    BY <1>11 DEF A!Crash, A!RunEnds, A!Died, A!PassOver, A!server
  <2>2. ServerInv' BY <1>0, <2>1, ServerSame
  <2>3. sink \in Copies BY <1>0 DEF SinkInv
  <2>4. PICK y, c : y = sink /\ c = acursor OBVIOUS
  <2>5. /\ y = sink' /\ c = acursor' /\ c = Delivered' /\ A!Merged(sink, apending.rows)' = y
        /\ A!Nothing' = A!Nothing
    <3>1. apending'.rows = <<>> BY <2>1 DEF A!Nothing
    <3>2. A!Merged(y, <<>>) = y BY <2>3, <2>4, MergeNothing
    <3>3. Delivered' = acursor BY <2>1 DEF Delivered, A!Nothing
    <3> QED BY <2>1, <2>4, <3>1, <3>2, <3>3 DEF A!Merged, A!LastOf, A!Nothing
  <2>6. ASSUME c # Null
        PROVE  Fits(sink, acursor)' /\ Fits(A!Merged(sink, apending.rows), Delivered)'
    <3>1. c \in Nat /\ c <= Len(log) /\ Fits(y, c) BY <1>0, <2>4, <2>6 DEF SinkInv
    <3>2. aview \in Nat /\ aview <= Len(log) /\ aview' = aview /\ history' = history
      BY <1>0, <2>1 DEF SinkInv
    <3>3. Fits(y, c)' BY <1>0, <3>1, <3>2, FitsSame
    <3> QED BY <2>5, <3>3 DEF Fits, Hist
  <2>7. apending' \in [rows : Seq(Rows), checkpoint : Nat \cup {Null}] BY <2>1 DEF A!Nothing
  <2>8. c # Null => c \in Nat /\ confirmed <= c /\ c <= Len(log) BY <1>0, <2>4 DEF SinkInv
  <2>9. c = Null => sink' = A!Empty' BY <1>0, <2>1, <2>4 DEF SinkInv, A!Empty
  <2>10. /\ aview' \in Nat /\ aview' <= Len(log') /\ confirmed' \in Nat /\ confirmed' <= Len(log')
         /\ sink' \in Copies /\ log' = log /\ confirmed' = confirmed
    BY <1>0, <2>1 DEF SinkInv
  <2>11. SinkInv' BY <2>1, <2>5, <2>6, <2>7, <2>8, <2>9, <2>10 DEF SinkInv
  <2>12. PassInv' /\ SnapInv' BY <2>1 DEF PassInv, SnapInv
  <2> QED BY <2>2, <2>11, <2>12 DEF ApplyInv
<1>12. CASE A!ReadHorizon BY <1>12, HorizonKeeps
<1>13. CASE A!CopyTable BY <1>13, CopyKeeps
<1>14. CASE A!CopyFails
  <2>1. /\ UNCHANGED <<covers, columns, log, history, open, table>>
        /\ UNCHANGED <<confirmed, acursor, sink, aview, apending>> /\ st' = "refused"
    BY <1>14 DEF A!CopyFails, A!Refuse, A!server
  <2>2. ServerInv' BY <1>0, <2>1, ServerSame
  <2>3. SinkInv' BY <1>0, <2>1, SinkSame
  <2>4. PassInv' /\ SnapInv' BY <2>1 DEF PassInv, SnapInv
  <2> QED BY <2>2, <2>3, <2>4 DEF ApplyInv
<1>15. CASE A!ResetState BY <1>15, ResetKeeps
<1>16. CASE UNCHANGED A!vars
  <2>1. /\ UNCHANGED <<covers, columns, log, history, open, table>>
        /\ UNCHANGED <<confirmed, acursor, sink, aview, apending, start>>
        /\ UNCHANGED <<tx, atarget, ready, txRows, txError, msg, st>>
    BY <1>16 DEF A!vars, A!server, A!pass
  <2>2. ServerInv' BY <1>0, <2>1, ServerSame
  <2>3. SinkInv' BY <1>0, <2>1, SinkSame
  <2>4. PassInv' BY <1>0, <2>1, PassSame
  <2>5. SnapInv' BY <1>0, <2>1, SnapSame
  <2> QED BY <2>2, <2>3, <2>4, <2>5 DEF ApplyInv
<1> QED BY <1>1, <1>2, <1>3, <1>4, <1>5, <1>6, <1>7, <1>8, <1>9, <1>10, <1>11, <1>12, <1>13,
           <1>14, <1>15, <1>16
        DEF A!Next

\* Where the destination has a cursor, each of its rows is the source's there, or,
\* while the cursor is before what the snapshot saw, the snapshot's: whatever was
\* committed between the position read and the copy and is applied again, the pass
\* refuses, the engine splits and a crash repeats (cdc/read.rs, cdc/apply.rs).
THEOREM SinkOfHistory ==
  ASSUME A!ApplyAssumption
  PROVE  A!Spec => []A!SinkIsHistory
<1>1. A!Init => ApplyInv BY ApplyInit
<1>2. ApplyInv /\ [A!Next]_A!vars => ApplyInv' BY ApplyStep
<1>3. ApplyInv => A!SinkIsHistory
  BY DEF ApplyInv, SinkInv, Fits, Hist, A!History, A!SinkIsHistory
<1> QED BY <1>1, <1>2, <1>3, PTL DEF A!Spec

=============================================================================
