------------------------------ MODULE FileLease ------------------------------
(***************************************************************************)
(* The session lease of the file destination (destination/lease.rs), with  *)
(* the document primitives of location/kind.rs and location/s3.rs it runs  *)
(* on.  One lease document per pipeline scope says which session may wipe  *)
(* and write the scope.  A session acquires the document (create, take     *)
(* over a stale one, reacquire its own), renews it from a heartbeat task,  *)
(* checks its own evidence before every write, and removes the document    *)
(* when it closes.                                                         *)
(*                                                                         *)
(* Every storage call is one step; between two calls anything else may     *)
(* happen: other sessions, the session's own heartbeat, the clock.  A      *)
(* session has two threads, its main one (pc) and its heartbeat (beat).    *)
(* One tick of `now' stands for one second of the real constants.          *)
(***************************************************************************)
EXTENDS Integers, FiniteSets

CONSTANTS
  Owner,      \* connector instances; one session of each at a time
  Token,      \* Token[o]: the owner string mint_owner gives the instance
  Build,      \* Build[o]: the LEASE_FORMAT_VERSION the instance was built with
  Skew,       \* Skew[o]: what the host's clock adds to `now'
  Arm,        \* "local" (a directory) or "s3" (a bucket)
  Heartbeat,  \* HEARTBEAT_SECS
  TTL,        \* TTL_SECS
  MaxStall,   \* longest a write runs past the lease check that admitted it
  MaxOpen,    \* longest an open runs past the stamp it wrote (its wipe included),
              \* not counting a wait for a torn document
  Closed,     \* windows no other thread interleaves with, see MainInWindow
  Faults,     \* which of "blip", "crash" happen
  MaxStray,   \* bound: heartbeat writes of dropped sessions in flight
  MaxTime     \* bound: the clock stops here

Windows == {"write", "unlink", "reacquire", "release", "beat"}

ASSUME ConstantsAssumption ==
  /\ Token \in [Owner -> Nat]
  /\ Build \in [Owner -> Nat]
  /\ Skew \in [Owner -> Nat]
  /\ Arm \in {"local", "s3"}
  /\ Heartbeat \in Nat \ {0}
  /\ TTL \in Nat /\ TTL > 2 * Heartbeat
  /\ MaxStall \in Nat /\ MaxOpen \in Nat
  /\ Closed \subseteq Windows
  /\ Faults \subseteq {"blip", "crash"}
  /\ MaxStray \in Nat /\ MaxTime \in Nat

SelfExpiryAtTTL == TTL                 \* a variant: no margin before a takeover
SelfExpiry == TTL - 2 * Heartbeat
UndecodableWait == Heartbeat

VARIABLES
  now,        \* real time
  doc,        \* the lease document, or NoDoc
  pc,         \* where the main thread of each session is
  stamp,      \* `now' of acquire's loop top, on the session's clock
  snap,       \* the holder document acquire last judged
  until,      \* when the current wait or guarded write must have ended
  lost,       \* Lease.lost
  lastOk,     \* Lease.last_ok_ms
  beat,       \* the heartbeat task
  beatSnap,   \* the document the current beat read
  beatAt,     \* the session's clock when it read it
  stray       \* heartbeat writes still in flight after their session's end

docVars  == <<now, doc>>
mainVars == <<pc, stamp, snap, until>>
heldVars == <<lost, lastOk>>
beatVars == <<beat, beatSnap, beatAt, stray>>
vars     == <<docVars, mainVars, heldVars, beatVars>>

-----------------------------------------------------------------------------
(* The document and its clock *)

Clock(o) == now + Skew[o]

LeaseDoc == [state : {"absent", "torn", "whole"}, owner : Nat, renewed : Nat, ver : Nat]
NoDoc == [state |-> "absent", owner |-> 0, renewed |-> 0, ver |-> 0]

\* fresh_doc: acquired and renewed at the same stamp.
Fresh(o, t) == [state |-> "whole", owner |-> Token[o], renewed |-> t, ver |-> Build[o]]

\* decode: bytes of a create still in flight (or abandoned) do not parse; a
\* document of a newer format parses and is refused by its version.
Exists(d) == d.state # "absent"
Unparseable(d) == d.state = "torn"
NewerVersion(o, d) == d.state = "whole" /\ d.ver > Build[o]
DecodesAnyVersion(o, d) == d.state = "whole"    \* a variant: the version is not looked at
Decodes(o, d) == d.state = "whole" /\ d.ver <= Build[o]
Mine(o, d) == Decodes(o, d) /\ d.owner = Token[o]

ReplaceAlwaysSucceeds(version) == TRUE    \* a variant: no compare-and-swap on S3
\* replace_doc_if: a compare-and-swap on the version read (S3), an
\* unconditional tmp+rename (local).
ReplaceSucceeds(version) == Arm = "local" \/ doc = version

-----------------------------------------------------------------------------
(* Threads and windows *)

Opening == {"create", "write", "read", "wait", "takeover", "unlink", "reacquire"}
Live    == {"wipe", "held", "io"}
PC      == {"closed", "dead", "release"} \cup Opening \cup Live

\* The session is inside a call that touches the scope's staging or tables.
Busy(o) == pc[o] \in {"wipe", "io"}

\* A window is a pair of storage calls the code relies on nothing separating.
MainInWindow(o) == pc[o] \in Closed
BeatInWindow(o) == beat[o] = "read" /\ "beat" \in Closed

MainFree(o) ==
  /\ \A p \in Owner : p # o => ~MainInWindow(p)
  /\ \A p \in Owner : ~BeatInWindow(p)
BeatFree(o) ==
  /\ \A p \in Owner : ~MainInWindow(p)
  /\ \A p \in Owner : p # o => ~BeatInWindow(p)
AllFree == \A p \in Owner : ~MainInWindow(p) /\ ~BeatInWindow(p)

Init ==
  /\ now = 0
  /\ doc = NoDoc
  /\ pc = [o \in Owner |-> "closed"]
  /\ stamp = [o \in Owner |-> 0]
  /\ snap = [o \in Owner |-> NoDoc]
  /\ until = [o \in Owner |-> 0]
  /\ lost = [o \in Owner |-> FALSE]
  /\ lastOk = [o \in Owner |-> 0]
  /\ beat = [o \in Owner |-> "off"]
  /\ beatSnap = [o \in Owner |-> NoDoc]
  /\ beatAt = [o \in Owner |-> 0]
  /\ stray = {}

-----------------------------------------------------------------------------
(* acquire_with_wait *)

Goto(o, l) == pc' = [pc EXCEPT ![o] = l]

\* The top of the loop: sample the clock, then try the exclusive create.
LoopTop(o) ==
  /\ Goto(o, "create")
  /\ stamp' = [stamp EXCEPT ![o] = Clock(o)]
  /\ snap' = [snap EXCEPT ![o] = NoDoc]
  /\ until' = [until EXCEPT ![o] = 0]

\* The session is over (l is "closed", or "dead" with its process) and its
\* locals go with it; the engine may open a closed one again.
EndSession(o, l) ==
  /\ Goto(o, l)
  /\ stamp' = [stamp EXCEPT ![o] = 0]
  /\ snap' = [snap EXCEPT ![o] = NoDoc]
  /\ until' = [until EXCEPT ![o] = 0]

\* An error or a refusal ends the attempt before there is a Lease.
Refuse(o) == EndSession(o, "closed")

DropLease(o) ==
  /\ lost' = [lost EXCEPT ![o] = FALSE]
  /\ lastOk' = [lastOk EXCEPT ![o] = 0]

\* A variant: the new lease counts as one beat old.
AcquiredBackdated(o) ==
  /\ Goto(o, "wipe")
  /\ lost' = [lost EXCEPT ![o] = FALSE]
  /\ lastOk' = [lastOk EXCEPT ![o] = stamp[o] - Heartbeat]
  /\ beat' = [beat EXCEPT ![o] = "idle"]
  /\ snap' = [snap EXCEPT ![o] = NoDoc]
  /\ until' = [until EXCEPT ![o] = 0]
  /\ UNCHANGED <<stamp, beatSnap, beatAt, stray>>

\* Lease::new, start_heartbeat: the session now believes it holds the lease,
\* and goes straight on to prepare_staging's wipe.
Acquired(o) ==
  /\ Goto(o, "wipe")
  /\ lost' = [lost EXCEPT ![o] = FALSE]
  /\ lastOk' = [lastOk EXCEPT ![o] = stamp[o]]
  /\ beat' = [beat EXCEPT ![o] = "idle"]
  /\ snap' = [snap EXCEPT ![o] = NoDoc]
  /\ until' = [until EXCEPT ![o] = 0]
  /\ UNCHANGED <<stamp, beatSnap, beatAt, stray>>

Open(o) ==
  /\ pc[o] = "closed"
  /\ LoopTop(o)
  /\ UNCHANGED <<docVars, heldVars, beatVars>>

\* create_doc_exclusive on S3 lands the whole document or finds one.
CreateS3(o) ==
  /\ pc[o] = "create" /\ Arm = "s3" /\ doc = NoDoc
  /\ doc' = Fresh(o, stamp[o])
  /\ Acquired(o)
  /\ UNCHANGED now

\* The local arm opens with O_EXCL, leaving an empty file, and writes after.
CreateLocal(o) ==
  /\ pc[o] = "create" /\ Arm = "local" /\ doc = NoDoc
  /\ doc' = [Fresh(o, stamp[o]) EXCEPT !.state = "torn"]
  /\ Goto(o, "write")
  /\ UNCHANGED <<now, stamp, snap, until, heldVars, beatVars>>

\* write_all goes to the inode the create opened, unlinked meanwhile or not.
WriteAll(o) ==
  /\ pc[o] = "write"
  /\ doc' = IF Unparseable(doc) /\ doc.owner = Token[o]
            THEN [doc EXCEPT !.state = "whole"] ELSE doc
  /\ Acquired(o)
  /\ UNCHANGED now

AlreadyExists(o) ==
  /\ pc[o] = "create" /\ Exists(doc)
  /\ Goto(o, "read")
  /\ UNCHANGED <<docVars, stamp, snap, until, heldVars, beatVars>>

Proceed(o, l) ==
  /\ Goto(o, l)
  /\ snap' = [snap EXCEPT ![o] = doc]
  /\ UNCHANGED <<stamp, until>>

\* Variants of the judgement: the age test is off by one; a foreign lease is
\* never old enough.
JudgeHolderEarly(o) ==
  \/ doc.owner = Token[o] /\ Proceed(o, "reacquire")
  \/ doc.owner # Token[o] /\ stamp[o] - doc.renewed >= TTL /\ Proceed(o, "takeover")
  \/ doc.owner # Token[o] /\ stamp[o] - doc.renewed < TTL /\ Refuse(o)
JudgeHolderNever(o) ==
  \/ doc.owner = Token[o] /\ Proceed(o, "reacquire")
  \/ doc.owner # Token[o] /\ Refuse(o)

\* What acquire does with a holder it could decode.
JudgeHolder(o) ==
  \/ doc.owner = Token[o] /\ Proceed(o, "reacquire")
  \/ doc.owner # Token[o] /\ stamp[o] - doc.renewed > TTL /\ Proceed(o, "takeover")
  \/ doc.owner # Token[o] /\ stamp[o] - doc.renewed <= TTL /\ Refuse(o)

Read(o) ==
  /\ pc[o] = "read"
  /\ \/ doc = NoDoc /\ LoopTop(o)
     \/ NewerVersion(o, doc) /\ Refuse(o)
     \/ /\ Unparseable(doc)
        /\ Goto(o, "wait")
        /\ until' = [until EXCEPT ![o] = now + UndecodableWait]
        /\ UNCHANGED <<stamp, snap>>
     \/ Decodes(o, doc) /\ JudgeHolder(o)
  /\ UNCHANGED <<docVars, heldVars, beatVars>>

\* The read after UNDECODABLE_WAIT.  Still unparseable is taken for debris,
\* and the stamps of the takeover are sampled anew.
Reread(o) ==
  /\ pc[o] = "wait" /\ now >= until[o]
  /\ \/ doc = NoDoc /\ LoopTop(o)
     \/ NewerVersion(o, doc) /\ Refuse(o)
     \/ /\ Unparseable(doc)
        /\ Goto(o, "takeover")
        /\ snap' = [snap EXCEPT ![o] = doc]
        /\ stamp' = [stamp EXCEPT ![o] = Clock(o)]
        /\ UNCHANGED until
     \/ Decodes(o, doc) /\ JudgeHolder(o)
  /\ UNCHANGED <<docVars, heldVars, beatVars>>

\* takeover on S3: one compare-and-swap; a lost race goes back to the loop top.
TakeoverS3(o) ==
  /\ pc[o] = "takeover" /\ Arm = "s3"
  /\ \/ /\ ReplaceSucceeds(snap[o])
        /\ doc' = Fresh(o, stamp[o])
        /\ Acquired(o)
     \/ /\ ~ReplaceSucceeds(snap[o])
        /\ LoopTop(o)
        /\ UNCHANGED <<doc, heldVars, beatVars>>
  /\ UNCHANGED now

\* Variants of the recheck: none at all; owner only; any undecodable document.
StillExpectedAlways(o) == Exists(doc)
StillExpectedOwner(o) ==
  IF Unparseable(snap[o]) THEN Unparseable(doc) ELSE doc.owner = snap[o].owner
StillExpectedUndecodable(o) ==
  IF Unparseable(snap[o])
  THEN Exists(doc) /\ ~Decodes(o, doc)
  ELSE Decodes(o, doc) /\ doc.owner = snap[o].owner /\ doc.renewed = snap[o].renewed

\* takeover on the local arm rechecks what it is about to unlink ...
StillExpected(o) ==
  IF Unparseable(snap[o])
  THEN Unparseable(doc)
  ELSE Decodes(o, doc) /\ doc.owner = snap[o].owner /\ doc.renewed = snap[o].renewed

Recheck(o) ==
  /\ pc[o] = "takeover" /\ Arm = "local"
  /\ IF StillExpected(o)
     THEN Goto(o, "unlink") /\ UNCHANGED <<stamp, snap, until>>
     ELSE LoopTop(o)
  /\ UNCHANGED <<docVars, heldVars, beatVars>>

\* ... and delete_doc_exclusive unlinks whatever is there; won or lost, the
\* loop goes round.
Unlink(o) ==
  /\ pc[o] = "unlink"
  /\ doc' = NoDoc
  /\ LoopTop(o)
  /\ UNCHANGED <<now, heldVars, beatVars>>

\* The same owner's document: the engine's own retry, no takeover.
Reacquire(o) ==
  /\ pc[o] = "reacquire"
  /\ \/ /\ ReplaceSucceeds(snap[o])
        /\ doc' = Fresh(o, stamp[o])
        /\ Acquired(o)
     \/ /\ ~ReplaceSucceeds(snap[o])
        /\ LoopTop(o)
        /\ UNCHANGED <<doc, heldVars, beatVars>>
  /\ UNCHANGED now

\* Any storage call of acquire may fail and end the attempt ...
AcquireFails(o) ==
  /\ "blip" \in Faults
  /\ pc[o] \in Opening
  /\ Refuse(o)
  /\ UNCHANGED <<docVars, heldVars, beatVars>>

\* ... and on S3 a write may land although its caller is told it failed.
AcquireLandsUnseen(o) ==
  /\ "blip" \in Faults /\ Arm = "s3"
  /\ \/ pc[o] = "create" /\ doc = NoDoc
     \/ pc[o] \in {"takeover", "reacquire"} /\ ReplaceSucceeds(snap[o])
  /\ doc' = Fresh(o, stamp[o])
  /\ Refuse(o)
  /\ UNCHANGED <<now, heldVars, beatVars>>

-----------------------------------------------------------------------------
(* The held session *)

EndWipe(o) ==
  /\ pc[o] = "wipe"
  /\ Goto(o, "held")
  /\ stamp' = [stamp EXCEPT ![o] = 0]
  /\ UNCHANGED <<docVars, snap, until, heldVars, beatVars>>

CheckStillHeld(o) == ~lost[o] /\ Clock(o) - lastOk[o] <= SelfExpiry

\* write and publish check the lease once, then do all their IO.
StartWrite(o) ==
  /\ pc[o] = "held" /\ CheckStillHeld(o)
  /\ Goto(o, "io")
  /\ until' = [until EXCEPT ![o] = now + MaxStall]
  /\ UNCHANGED <<docVars, stamp, snap, heldVars, beatVars>>

\* A variant: a write that went through counts as evidence of the lease.
EndWriteRenews(o) ==
  /\ pc[o] = "io"
  /\ Goto(o, "held")
  /\ until' = [until EXCEPT ![o] = 0]
  /\ lastOk' = [lastOk EXCEPT ![o] = Clock(o)]
  /\ UNCHANGED <<docVars, stamp, snap, lost, beatVars>>

EndWrite(o) ==
  /\ pc[o] = "io"
  /\ Goto(o, "held")
  /\ until' = [until EXCEPT ![o] = 0]
  /\ UNCHANGED <<docVars, stamp, snap, heldVars, beatVars>>

ForgetBeat(o) ==
  /\ beatSnap' = [beatSnap EXCEPT ![o] = NoDoc]
  /\ beatAt' = [beatAt EXCEPT ![o] = 0]

\* Stopping the heartbeat.  A request already sent on S3 may still land; a
\* local call already running finishes unless the stop is awaited.
StopBeat(o, awaited) ==
  /\ beat' = [beat EXCEPT ![o] = "off"]
  /\ \/ stray' = stray
     \/ /\ beat[o] = "read" /\ (Arm = "s3" \/ ~awaited)
        /\ Cardinality(stray) < MaxStray
        /\ stray' = stray \cup {[owner |-> o, snap |-> beatSnap[o], at |-> beatAt[o]]}
  /\ ForgetBeat(o)

\* release: stop the heartbeat, skip when lost, read, go on only if still ours.
Release(o) ==
  /\ pc[o] = "held"
  /\ StopBeat(o, TRUE)
  /\ DropLease(o)
  /\ EndSession(o, IF ~lost[o] /\ Mine(o, doc) THEN "release" ELSE "closed")
  /\ UNCHANGED docVars

\* The delete names no version; its failure is swallowed.
ReleaseDelete(o) ==
  /\ pc[o] = "release"
  /\ doc' = NoDoc \/ ("blip" \in Faults /\ doc' = doc)
  /\ Goto(o, "closed")
  /\ UNCHANGED <<now, stamp, snap, until, heldVars, beatVars>>

\* A session dropped without release (an error, a panic): Drop aborts only.
Abandon(o) ==
  /\ pc[o] \in {"wipe", "held"}
  /\ StopBeat(o, FALSE)
  /\ DropLease(o)
  /\ EndSession(o, "closed")
  /\ UNCHANGED docVars

\* The process dies; its owner token is never used again.
Crash(o) ==
  /\ "crash" \in Faults
  /\ pc[o] # "dead"
  /\ StopBeat(o, Arm = "local")
  /\ DropLease(o)
  /\ EndSession(o, "dead")
  /\ UNCHANGED docVars

-----------------------------------------------------------------------------
(* renew: one heartbeat *)

BeatLost(o) ==
  /\ lost' = [lost EXCEPT ![o] = TRUE]
  /\ beat' = [beat EXCEPT ![o] = "off"]
  /\ ForgetBeat(o)

\* A variant: the owner of the document is not looked at.
BeatReadAnyOwner(o) ==
  /\ beat[o] = "idle"
  /\ \/ /\ ~Exists(doc)
        /\ BeatLost(o)
     \/ /\ Decodes(o, doc)
        /\ beat' = [beat EXCEPT ![o] = "read"]
        /\ beatSnap' = [beatSnap EXCEPT ![o] = doc]
        /\ beatAt' = [beatAt EXCEPT ![o] = Clock(o)]
        /\ UNCHANGED lost
  /\ UNCHANGED <<docVars, mainVars, lastOk, stray>>

\* Absent, foreign or newer is a definitive loss; unparseable is not.
BeatRead(o) ==
  /\ beat[o] = "idle"
  /\ ~Unparseable(doc)
  /\ \/ /\ ~Mine(o, doc)
        /\ BeatLost(o)
     \/ /\ Mine(o, doc)
        /\ beat' = [beat EXCEPT ![o] = "read"]
        /\ beatSnap' = [beatSnap EXCEPT ![o] = doc]
        /\ beatAt' = [beatAt EXCEPT ![o] = Clock(o)]
        /\ UNCHANGED lost
  /\ UNCHANGED <<docVars, mainVars, lastOk, stray>>

\* The stamp is sampled some time between the read and the write.
BeatReplace(o) ==
  /\ beat[o] = "read"
  /\ \/ /\ ReplaceSucceeds(beatSnap[o])
        /\ \E t \in beatAt[o] .. Clock(o) :
             /\ doc' = [beatSnap[o] EXCEPT !.renewed = t]
             /\ lastOk' = [lastOk EXCEPT ![o] = t]
        /\ beat' = [beat EXCEPT ![o] = "idle"]
        /\ ForgetBeat(o)
        /\ UNCHANGED lost
     \/ /\ ~ReplaceSucceeds(beatSnap[o])
        /\ BeatLost(o)
        /\ UNCHANGED <<doc, lastOk>>
  /\ UNCHANGED <<now, mainVars, stray>>

\* A transient error, on S3 possibly after the write landed: not a loss.
BeatBlip(o) ==
  /\ "blip" \in Faults
  /\ beat[o] = "read"
  /\ \/ doc' = doc
     \/ /\ Arm = "s3" /\ ReplaceSucceeds(beatSnap[o])
        /\ \E t \in beatAt[o] .. Clock(o) : doc' = [beatSnap[o] EXCEPT !.renewed = t]
  /\ beat' = [beat EXCEPT ![o] = "idle"]
  /\ ForgetBeat(o)
  /\ UNCHANGED <<now, mainVars, heldVars, stray>>

\* The write of a heartbeat whose session is gone lands, or never does.
StrayLands(s) ==
  /\ \/ /\ ReplaceSucceeds(s.snap)
        /\ \E t \in s.at .. Clock(s.owner) : doc' = [s.snap EXCEPT !.renewed = t]
     \/ doc' = doc
  /\ stray' = stray \ {s}
  /\ UNCHANGED <<now, mainVars, heldVars, beat, beatSnap, beatAt>>

-----------------------------------------------------------------------------

Tick ==
  /\ now < MaxTime
  /\ \A o \in Owner :
       /\ pc[o] \in {"io", "wait"} => now < until[o]
       /\ pc[o] \in (Opening \ {"wait"}) \cup {"wipe"} => Clock(o) < stamp[o] + MaxOpen
  /\ now' = now + 1
  /\ UNCHANGED <<doc, mainVars, heldVars, beatVars>>

Acquire(o) ==
  \/ Open(o) \/ CreateS3(o) \/ CreateLocal(o) \/ WriteAll(o) \/ AlreadyExists(o)
  \/ Read(o) \/ Reread(o) \/ TakeoverS3(o) \/ Recheck(o) \/ Unlink(o) \/ Reacquire(o)
Main(o) ==
  \/ Acquire(o) \/ AcquireFails(o) \/ AcquireLandsUnseen(o)
  \/ EndWipe(o) \/ StartWrite(o) \/ EndWrite(o)
  \/ Release(o) \/ ReleaseDelete(o) \/ Abandon(o) \/ Crash(o)
Beat(o) == BeatRead(o) \/ BeatReplace(o) \/ BeatBlip(o)

Next ==
  \/ \E o \in Owner : MainFree(o) /\ Main(o)
  \/ \E o \in Owner : BeatFree(o) /\ Beat(o)
  \/ AllFree /\ \E s \in stray : StrayLands(s)
  \/ AllFree /\ Tick

Spec == Init /\ [][Next]_vars

-----------------------------------------------------------------------------
(* Properties *)

Stray == [owner : Owner, snap : LeaseDoc, at : Nat]

\* Types of every variable.
TypeOK ==
  /\ now \in Nat
  /\ doc \in LeaseDoc
  /\ pc \in [Owner -> PC]
  /\ stamp \in [Owner -> Nat]
  /\ snap \in [Owner -> LeaseDoc]
  /\ until \in [Owner -> Nat]
  /\ lost \in [Owner -> BOOLEAN]
  /\ lastOk \in [Owner -> Nat]
  /\ beat \in [Owner -> {"off", "idle", "read"}]
  /\ beatSnap \in [Owner -> LeaseDoc]
  /\ beatAt \in [Owner -> Nat]
  /\ stray \subseteq Stray

\* Two sessions are never both inside a call that wipes or writes the scope:
\* what Lease exists for (lease.rs, Load::open, Load::write, Load::publish).
MutualExclusion == \A o, p \in Owner : Busy(o) /\ Busy(p) => o = p

\* While no host's clock finds a live session's document older than TTL, no
\* step of anyone removes it or puts another owner's in its place (the age
\* test of acquire, its recheck and compare-and-swap, release's re-read).
FreshHolderKept ==
  [][\A o \in Owner :
       (/\ pc[o] \in Live /\ Mine(o, doc)
        /\ \A p \in Owner : Clock(p) - doc.renewed <= TTL)
       => doc'.state = "whole" /\ doc'.owner = Token[o]]_vars

\* A document is never replaced by one of an older format, and only a build
\* that understands it removes it (DecodeFailure::NewerVersion is never debris).
NewerFormatRespected ==
  [][doc' # doc /\ doc.state = "whole" =>
       IF Exists(doc') THEN doc'.ver >= doc.ver
                       ELSE \E o \in Owner : pc'[o] # pc[o] /\ Build[o] >= doc.ver]_vars

-----------------------------------------------------------------------------
(* Why the lease excludes on S3: the inductive invariant *)

\* The deployment the S3 argument is about: tokens tell sessions apart, no
\* release is caught between its read and its delete, and stalls and clock
\* differences together stay inside the margins of the protocol.
S3Deployment ==
  /\ Arm = "s3" /\ "release" \in Closed
  /\ \A o, p \in Owner : Token[o] = Token[p] => o = p
  /\ \A o, p \in Owner : SelfExpiry + MaxStall + Skew[p] <= TTL + Skew[o]
  /\ \A o, p \in Owner : MaxOpen + Skew[p] <= TTL + Skew[o]

Owns(o) == doc.state = "whole" /\ doc.owner = Token[o]
\* Some host's clock has passed the TTL of this session's last evidence.
Expirable(o) == \E p \in Owner : Clock(p) > lastOk[o] + TTL

DocInv == doc.state # "torn" /\ \A o \in Owner : Owns(o) => doc.renewed <= Clock(o)
OpenInv ==
  \A o \in Owner :
    /\ pc[o] \notin {"write", "wait", "unlink"}
    /\ pc[o] \in Opening \cup {"wipe"} =>
         stamp[o] <= Clock(o) /\ Clock(o) <= stamp[o] + MaxOpen
    /\ pc[o] = "takeover" => stamp[o] > snap[o].renewed + TTL
    /\ pc[o] = "reacquire" => snap[o].state = "whole" /\ snap[o].owner = Token[o]
\* A session that may be inside a write still owns the document, or its own
\* evidence is already too old for any write to be admitted.
HoldInv ==
  \A o \in Owner : pc[o] \in Live =>
    /\ lastOk[o] <= Clock(o)
    /\ (Owns(o) /\ lastOk[o] <= doc.renewed) \/ Expirable(o)
BeatInv ==
  \A o \in Owner :
    /\ beat[o] # "off" => pc[o] \in Live
    /\ beat[o] = "read" =>
         /\ beatSnap[o].state = "whole" /\ beatSnap[o].owner = Token[o]
         /\ beatSnap[o].renewed <= beatAt[o] /\ lastOk[o] <= beatAt[o]
StrayInv ==
  \A s \in stray :
    s.snap.state = "whole" /\ s.snap.owner = Token[s.owner] /\ s.snap.renewed <= s.at
ReleaseInv == \A o \in Owner : pc[o] = "release" => Owns(o)
BusyInv ==
  \A o \in Owner :
    /\ pc[o] = "io" => now <= until[o]
                       /\ until[o] + Skew[o] <= lastOk[o] + SelfExpiry + MaxStall
    /\ pc[o] = "wipe" => stamp[o] <= lastOk[o]

\* The invariant the S3 proof runs on: a live session owns the document or is
\* too old to be admitted, and every pending step acts on what it judged.
S3Inv == TypeOK /\ DocInv /\ OpenInv /\ HoldInv /\ BeatInv /\ StrayInv /\ ReleaseInv /\ BusyInv

-----------------------------------------------------------------------------
(* Why it excludes on a local directory: no compare-and-swap, but windows *)

\* The same margins, with every pair of calls the code documents as a residual
\* window undisturbed.
LocalDeployment ==
  /\ Arm = "local" /\ Closed = Windows
  /\ \A o, p \in Owner : Token[o] = Token[p] => o = p
  /\ \A o, p \in Owner : SelfExpiry + MaxStall + Skew[p] <= TTL + Skew[o]
  /\ \A o, p \in Owner : MaxOpen + Skew[p] <= TTL + Skew[o]

\* Whole or torn, a document says which build wrote it, at a stamp that has passed.
LocalDocInv ==
  \A o \in Owner :
    Exists(doc) /\ doc.owner = Token[o] => doc.renewed <= Clock(o) /\ doc.ver = Build[o]
\* What a session may still do rests on a document nobody else can have changed.
LocalOpenInv ==
  \A o \in Owner :
    /\ pc[o] \in Opening \cup {"wipe"} => stamp[o] <= Clock(o)
    /\ pc[o] \in {"create", "write", "read", "reacquire", "wipe"} =>
         Clock(o) <= stamp[o] + MaxOpen
    /\ pc[o] = "write" =>
         Unparseable(doc) /\ doc.owner = Token[o] /\ doc.renewed = stamp[o]
    /\ pc[o] = "wait" => ~Owns(o)
    /\ pc[o] = "takeover" => Unparseable(snap[o]) \/ stamp[o] > snap[o].renewed + TTL
    /\ pc[o] = "unlink" =>
         Unparseable(doc) \/ (Decodes(o, doc) /\ stamp[o] > doc.renewed + TTL)
    /\ pc[o] = "reacquire" => Owns(o)
LocalBeatInv ==
  /\ stray = {}
  /\ \A o \in Owner :
       /\ beat[o] # "off" => pc[o] \in Live
       /\ beat[o] = "read" =>
            /\ doc = beatSnap[o] /\ Owns(o)
            /\ doc.renewed <= beatAt[o] /\ lastOk[o] <= beatAt[o]

\* The invariant the local proof runs on.
LocalInv ==
  TypeOK /\ LocalDocInv /\ LocalOpenInv /\ HoldInv /\ LocalBeatInv /\ ReleaseInv /\ BusyInv

-----------------------------------------------------------------------------
(* Liveness *)

\* tokio runs the heartbeat and the session's own calls, storage answers, and
\* the clock goes on.  Nothing is assumed of an abandoned write (stray), of
\* crashes, or of when a session is closed.
Fairness ==
  /\ \A o \in Owner :
       /\ WF_vars(MainFree(o) /\ Acquire(o))
       /\ WF_vars(MainFree(o) /\ (EndWipe(o) \/ EndWrite(o) \/ ReleaseDelete(o)))
       /\ WF_vars(BeatFree(o) /\ BeatRead(o))
       /\ WF_vars(BeatFree(o) /\ BeatReplace(o))
  /\ WF_vars(AllFree /\ Tick)

FairSpec == Spec /\ Fairness

\* A session whose document is gone or someone else's comes to refuse its own
\* writes, or it wins the document back: renew sets lost, or the self-expiry of
\* check_still_held does what a heartbeat could not (with clock left for it).
OustedSessionStops ==
  \A o \in Owner :
    (pc[o] \in Live /\ ~Mine(o, doc) /\ lastOk[o] + SelfExpiry < MaxTime + Skew[o])
    ~> ~(pc[o] \in Live /\ CheckStillHeld(o)) \/ Mine(o, doc)

\* A session that refuses its own writes goes on refusing them: a loss is never
\* taken back, and an expired session works again only by a heartbeat it had
\* under way that put its own document back (lost, check_still_held, renew).
StoppedStays ==
  [][\A o \in Owner :
       pc[o] \in Live /\ pc'[o] \in Live /\ ~CheckStillHeld(o) /\ CheckStillHeld(o)' =>
         ~lost[o] /\ beat[o] = "read" /\ Mine(o, doc')]_vars

\* With the documented windows closed an ousted session is out for good: as long
\* as it lives it neither wins the document back nor, once stopped, works again
\* (renew re-reads before it replaces; check_still_held has no other evidence).
OustedForGood ==
  [][\A o \in Owner :
       pc[o] \in Live /\ pc'[o] \in Live /\ ~Mine(o, doc) =>
         ~Mine(o, doc') /\ (CheckStillHeld(o)' => CheckStillHeld(o))]_vars

\* When every other session is dead, the lease one of them left, whole or torn,
\* does not keep the last one out: with the clock still to pass its TTL, the
\* last session comes to hold (acquire's takeover), unless it began to wait for
\* a torn document when the bounded clock had too little left.
DeadLeaseReclaimed ==
  \A p \in Owner :
    (/\ \A o \in Owner \ {p} : pc[o] = "dead"
     /\ stray = {}
     /\ ~NewerVersion(p, [doc EXCEPT !.state = "whole"])
     /\ now + TTL + UndecodableWait < MaxTime)
    ~> pc[p] \in Live \cup {"dead"} \/ (pc[p] = "wait" /\ until[p] > MaxTime)

=============================================================================
