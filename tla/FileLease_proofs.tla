-------------------------- MODULE FileLease_proofs --------------------------
(***************************************************************************)
(* Theorems of FileLease.  The type invariant holds on both arms and for   *)
(* every choice of windows, stalls and clocks.  In an S3 deployment        *)
(* (S3Deployment) sessions exclude each other, a fresh holder keeps its    *)
(* document and a newer build's document survives an older one, along the  *)
(* inductive invariant S3Inv.  In a local one (LocalDeployment), which has *)
(* no compare-and-swap but windows nothing interleaves with, the same      *)
(* three hold along LocalInv.                                              *)
(***************************************************************************)
EXTENDS FileLease, TLAPS

\* A host's clock reads a natural number.
LEMMA ClockType ==
  ASSUME TypeOK, NEW o \in Owner
  PROVE  Clock(o) \in Nat
<1>1. Skew[o] \in Nat BY ConstantsAssumption DEF ConstantsAssumption
<1>2. now \in Nat BY DEF TypeOK
<1> QED BY <1>1, <1>2 DEF Clock

\* What the actions are built from keeps every main-thread variable typed.
LEMMA LoopTopType ==
  ASSUME TypeOK, NEW o \in Owner, LoopTop(o)
  PROVE  /\ pc' \in [Owner -> PC] /\ stamp' \in [Owner -> Nat]
         /\ snap' \in [Owner -> LeaseDoc] /\ until' \in [Owner -> Nat]
BY ClockType DEF TypeOK, LoopTop, Goto, PC, Opening, Live, NoDoc, LeaseDoc

\* A session that ends leaves typed variables.
LEMMA EndSessionType ==
  ASSUME TypeOK, NEW o \in Owner, NEW l \in PC, EndSession(o, l)
  PROVE  /\ pc' \in [Owner -> PC] /\ stamp' \in [Owner -> Nat]
         /\ snap' \in [Owner -> LeaseDoc] /\ until' \in [Owner -> Nat]
BY DEF TypeOK, EndSession, Goto, PC, Opening, Live, NoDoc, LeaseDoc

\* So does one that starts to hold: evidence, heartbeat and stop flag.
LEMMA AcquiredType ==
  ASSUME TypeOK, NEW o \in Owner, Acquired(o)
  PROVE  /\ pc' \in [Owner -> PC] /\ stamp' \in [Owner -> Nat]
         /\ snap' \in [Owner -> LeaseDoc] /\ until' \in [Owner -> Nat]
         /\ lost' \in [Owner -> BOOLEAN] /\ lastOk' \in [Owner -> Nat]
         /\ beat' \in [Owner -> {"off", "idle", "read"}]
         /\ beatSnap' \in [Owner -> LeaseDoc] /\ beatAt' \in [Owner -> Nat]
         /\ stray' \subseteq Stray
BY DEF TypeOK, Acquired, Goto, PC, Opening, Live, NoDoc, LeaseDoc, Stray

\* Stopping a heartbeat, its request on the wire perhaps becoming a stray.
LEMMA StopBeatType ==
  ASSUME TypeOK, NEW o \in Owner, NEW w \in BOOLEAN, StopBeat(o, w), DropLease(o)
  PROVE  /\ lost' \in [Owner -> BOOLEAN] /\ lastOk' \in [Owner -> Nat]
         /\ beat' \in [Owner -> {"off", "idle", "read"}]
         /\ beatSnap' \in [Owner -> LeaseDoc] /\ beatAt' \in [Owner -> Nat]
         /\ stray' \subseteq Stray
<1>1. [owner |-> o, snap |-> beatSnap[o], at |-> beatAt[o]] \in Stray
  BY DEF TypeOK, Stray
<1>2. /\ lost' \in [Owner -> BOOLEAN] /\ lastOk' \in [Owner -> Nat]
      /\ beat' \in [Owner -> {"off", "idle", "read"}]
      /\ beatSnap' \in [Owner -> LeaseDoc] /\ beatAt' \in [Owner -> Nat]
  BY DEF TypeOK, StopBeat, DropLease, ForgetBeat, NoDoc, LeaseDoc
<1>3. stray' \subseteq Stray
  BY <1>1 DEF TypeOK, StopBeat
<1> QED BY <1>2, <1>3

\* fresh_doc makes a lease document.
LEMMA FreshType ==
  ASSUME TypeOK, NEW o \in Owner
  PROVE  Fresh(o, stamp[o]) \in LeaseDoc
BY ConstantsAssumption DEF ConstantsAssumption, TypeOK, Fresh, LeaseDoc

\* Judging a foreign holder ends in a takeover or a refusal, both typed.
LEMMA JudgeType ==
  ASSUME TypeOK, NEW o \in Owner, JudgeHolder(o)
  PROVE  /\ pc' \in [Owner -> PC] /\ stamp' \in [Owner -> Nat]
         /\ snap' \in [Owner -> LeaseDoc] /\ until' \in [Owner -> Nat]
<1>1. CASE Proceed(o, "reacquire") \/ Proceed(o, "takeover")
  BY <1>1 DEF TypeOK, Proceed, Goto, PC, Opening, Live
<1>2. CASE Refuse(o)
  BY <1>2, EndSessionType DEF Refuse, PC
<1> QED BY <1>1, <1>2 DEF JudgeHolder

\* Every step of acquire keeps the types.
LEMMA AcquireKeepsTypes ==
  ASSUME TypeOK, NEW o \in Owner, Acquire(o)
  PROVE  TypeOK'
<1>1. CASE Open(o)
  BY <1>1, LoopTopType DEF Open, TypeOK, docVars, heldVars, beatVars
<1>2. CASE CreateS3(o)
  BY <1>2, FreshType, AcquiredType DEF CreateS3, TypeOK
<1>3. CASE CreateLocal(o)
  <2>1. doc' \in LeaseDoc
    BY <1>3, FreshType DEF CreateLocal, LeaseDoc
  <2> QED BY <1>3, <2>1 DEF CreateLocal, TypeOK, Goto, PC, Opening, Live, heldVars, beatVars
<1>4. CASE WriteAll(o)
  <2>1. doc' \in LeaseDoc
    BY <1>4 DEF WriteAll, TypeOK, LeaseDoc
  <2> QED BY <1>4, <2>1, AcquiredType DEF WriteAll, TypeOK
<1>5. CASE AlreadyExists(o)
  BY <1>5 DEF AlreadyExists, TypeOK, Goto, PC, Opening, Live, docVars, heldVars, beatVars
<1>6. CASE Read(o)
  <2>1. /\ pc' \in [Owner -> PC] /\ stamp' \in [Owner -> Nat]
        /\ snap' \in [Owner -> LeaseDoc] /\ until' \in [Owner -> Nat]
    <3>1. CASE LoopTop(o) BY <3>1, LoopTopType
    <3>2. CASE Refuse(o) BY <3>2, EndSessionType DEF Refuse, PC
    <3>3. CASE Goto(o, "wait") /\ until' = [until EXCEPT ![o] = now + UndecodableWait]
               /\ UNCHANGED <<stamp, snap>>
      BY <3>3, ConstantsAssumption
      DEF ConstantsAssumption, TypeOK, Goto, PC, Opening, Live, UndecodableWait
    <3>4. CASE JudgeHolder(o) BY <3>4, JudgeType
    <3> QED BY <1>6, <3>1, <3>2, <3>3, <3>4 DEF Read
  <2> QED BY <1>6, <2>1 DEF Read, TypeOK, docVars, heldVars, beatVars
<1>7. CASE Reread(o)
  <2>1. /\ pc' \in [Owner -> PC] /\ stamp' \in [Owner -> Nat]
        /\ snap' \in [Owner -> LeaseDoc] /\ until' \in [Owner -> Nat]
    <3>1. CASE LoopTop(o) BY <3>1, LoopTopType
    <3>2. CASE Refuse(o) BY <3>2, EndSessionType DEF Refuse, PC
    <3>3. CASE Goto(o, "takeover") /\ snap' = [snap EXCEPT ![o] = doc]
               /\ stamp' = [stamp EXCEPT ![o] = Clock(o)] /\ UNCHANGED until
      BY <3>3, ClockType DEF TypeOK, Goto, PC, Opening, Live
    <3>4. CASE JudgeHolder(o) BY <3>4, JudgeType
    <3> QED BY <1>7, <3>1, <3>2, <3>3, <3>4 DEF Reread
  <2> QED BY <1>7, <2>1 DEF Reread, TypeOK, docVars, heldVars, beatVars
<1>8. CASE TakeoverS3(o)
  <2>1. CASE doc' = Fresh(o, stamp[o]) /\ Acquired(o)
    BY <1>8, <2>1, FreshType, AcquiredType DEF TakeoverS3, TypeOK
  <2>2. CASE LoopTop(o) /\ UNCHANGED <<doc, heldVars, beatVars>>
    BY <1>8, <2>2, LoopTopType DEF TakeoverS3, TypeOK, heldVars, beatVars
  <2> QED BY <1>8, <2>1, <2>2 DEF TakeoverS3
<1>9. CASE Recheck(o)
  <2>1. CASE LoopTop(o)
    BY <1>9, <2>1, LoopTopType DEF Recheck, TypeOK, docVars, heldVars, beatVars
  <2>2. CASE Goto(o, "unlink") /\ UNCHANGED <<stamp, snap, until>>
    BY <1>9, <2>2 DEF Recheck, TypeOK, Goto, PC, Opening, Live, docVars, heldVars, beatVars
  <2> QED BY <1>9, <2>1, <2>2 DEF Recheck
<1>10. CASE Unlink(o)
  BY <1>10, LoopTopType DEF Unlink, TypeOK, NoDoc, LeaseDoc, heldVars, beatVars
<1>11. CASE Reacquire(o)
  <2>1. CASE doc' = Fresh(o, stamp[o]) /\ Acquired(o)
    BY <1>11, <2>1, FreshType, AcquiredType DEF Reacquire, TypeOK
  <2>2. CASE LoopTop(o) /\ UNCHANGED <<doc, heldVars, beatVars>>
    BY <1>11, <2>2, LoopTopType DEF Reacquire, TypeOK, heldVars, beatVars
  <2> QED BY <1>11, <2>1, <2>2 DEF Reacquire
<1> QED BY <1>1, <1>2, <1>3, <1>4, <1>5, <1>6, <1>7, <1>8, <1>9, <1>10, <1>11 DEF Acquire

\* Every other step of a session's main thread keeps the types.
LEMMA MainKeepsTypes ==
  ASSUME TypeOK, NEW o \in Owner, Main(o)
  PROVE  TypeOK'
<1>1. CASE Acquire(o) BY <1>1, AcquireKeepsTypes
<1>2. CASE AcquireFails(o)
  BY <1>2, EndSessionType DEF AcquireFails, Refuse, PC, TypeOK, docVars, heldVars, beatVars
<1>3. CASE AcquireLandsUnseen(o)
  BY <1>3, EndSessionType, FreshType
  DEF AcquireLandsUnseen, Refuse, PC, TypeOK, heldVars, beatVars
<1>4. CASE EndWipe(o)
  BY <1>4 DEF EndWipe, TypeOK, Goto, PC, Opening, Live, docVars, heldVars, beatVars
<1>5. CASE StartWrite(o)
  BY <1>5, ConstantsAssumption
  DEF ConstantsAssumption, StartWrite, TypeOK, Goto, PC, Opening, Live, docVars, heldVars, beatVars
<1>6. CASE EndWrite(o)
  BY <1>6 DEF EndWrite, TypeOK, Goto, PC, Opening, Live, docVars, heldVars, beatVars
<1>7. CASE Release(o)
  <2>1. (IF ~lost[o] /\ Mine(o, doc) THEN "release" ELSE "closed") \in PC
    BY DEF PC
  <2> QED BY <1>7, <2>1, EndSessionType, StopBeatType DEF Release, TypeOK, docVars
<1>8. CASE ReleaseDelete(o)
  BY <1>8 DEF ReleaseDelete, TypeOK, Goto, PC, Opening, Live, NoDoc, LeaseDoc, heldVars, beatVars
<1>9. CASE Abandon(o)
  BY <1>9, EndSessionType, StopBeatType DEF Abandon, TypeOK, PC, docVars
<1>10. CASE Crash(o)
  BY <1>10, EndSessionType, StopBeatType DEF Crash, TypeOK, PC, docVars
<1> QED BY <1>1, <1>2, <1>3, <1>4, <1>5, <1>6, <1>7, <1>8, <1>9, <1>10 DEF Main

\* A heartbeat that finds it lost the lease keeps the types.
LEMMA BeatLostType ==
  ASSUME TypeOK, NEW o \in Owner, BeatLost(o)
  PROVE  /\ lost' \in [Owner -> BOOLEAN]
         /\ beat' \in [Owner -> {"off", "idle", "read"}]
         /\ beatSnap' \in [Owner -> LeaseDoc] /\ beatAt' \in [Owner -> Nat]
<1>1. lost' \in [Owner -> BOOLEAN] BY DEF TypeOK, BeatLost
<1>2. NoDoc \in LeaseDoc BY DEF NoDoc, LeaseDoc
<1>3. /\ beat' \in [Owner -> {"off", "idle", "read"}]
      /\ beatSnap' \in [Owner -> LeaseDoc] /\ beatAt' \in [Owner -> Nat]
  BY <1>2 DEF TypeOK, BeatLost, ForgetBeat
<1> QED BY <1>1, <1>3

\* Every step of a heartbeat, live or stray, keeps the types.
LEMMA BeatKeepsTypes ==
  ASSUME TypeOK, NEW o \in Owner, Beat(o)
  PROVE  TypeOK'
<1>1. CASE BeatRead(o)
  <2>1. CASE BeatLost(o)
    BY <1>1, <2>1, BeatLostType DEF BeatRead, TypeOK, docVars, mainVars
  <2>2. CASE ~BeatLost(o)
    <3>1. UNCHANGED <<lost, lastOk, stray, docVars, mainVars>>
      BY <1>1, <2>2 DEF BeatRead
    <3>2. /\ beat' = [beat EXCEPT ![o] = "read"]
          /\ beatSnap' = [beatSnap EXCEPT ![o] = doc]
          /\ beatAt' = [beatAt EXCEPT ![o] = Clock(o)]
      BY <1>1, <2>2 DEF BeatRead
    <3>3. /\ beat' \in [Owner -> {"off", "idle", "read"}]
          /\ beatSnap' \in [Owner -> LeaseDoc] /\ beatAt' \in [Owner -> Nat]
      BY <3>2, ClockType DEF TypeOK
    <3> QED BY <3>1, <3>3 DEF TypeOK, docVars, mainVars
  <2> QED BY <2>1, <2>2
<1>2. CASE BeatReplace(o)
  <2>1. \A t \in beatAt[o] .. Clock(o) : t \in Nat
    BY ClockType DEF TypeOK
  <2>2. \A t \in Nat : [beatSnap[o] EXCEPT !.renewed = t] \in LeaseDoc
    BY DEF TypeOK, LeaseDoc
  <2>3. CASE ReplaceSucceeds(beatSnap[o])
    <3>1. PICK t \in beatAt[o] .. Clock(o) :
            doc' = [beatSnap[o] EXCEPT !.renewed = t] /\ lastOk' = [lastOk EXCEPT ![o] = t]
      BY <1>2, <2>3 DEF BeatReplace
    <3>2. doc' \in LeaseDoc /\ lastOk' \in [Owner -> Nat]
      BY <2>1, <2>2, <3>1 DEF TypeOK
    <3>3. UNCHANGED <<lost, now, mainVars, stray>>
      BY <1>2, <2>3 DEF BeatReplace
    <3>4. /\ beat' \in [Owner -> {"off", "idle", "read"}]
          /\ beatSnap' \in [Owner -> LeaseDoc] /\ beatAt' \in [Owner -> Nat]
      <4>1. NoDoc \in LeaseDoc BY DEF NoDoc, LeaseDoc
      <4>2. beat' = [beat EXCEPT ![o] = "idle"] /\ ForgetBeat(o)
        BY <1>2, <2>3 DEF BeatReplace
      <4> QED BY <4>1, <4>2 DEF ForgetBeat, TypeOK
    <3> QED BY <3>2, <3>3, <3>4 DEF TypeOK, mainVars
  <2>4. CASE ~ReplaceSucceeds(beatSnap[o])
    BY <1>2, <2>4, BeatLostType DEF BeatReplace, TypeOK, mainVars
  <2> QED BY <2>3, <2>4
<1>3. CASE BeatBlip(o)
  <2>1. \A t \in beatAt[o] .. Clock(o) : t \in Nat
    BY ConstantsAssumption DEF ConstantsAssumption, TypeOK, Clock
  <2>2. \A t \in Nat : [beatSnap[o] EXCEPT !.renewed = t] \in LeaseDoc
    BY DEF TypeOK, LeaseDoc
  <2> QED BY <1>3, <2>1, <2>2
          DEF BeatBlip, ForgetBeat, TypeOK, NoDoc, LeaseDoc, mainVars, heldVars
<1> QED BY <1>1, <1>2, <1>3 DEF Beat

\* A request of a forgotten heartbeat keeps the types.
LEMMA StrayKeepsTypes ==
  ASSUME TypeOK, NEW s \in stray, StrayLands(s)
  PROVE  TypeOK'
<1>1. s \in Stray BY DEF TypeOK
<1>2. \A t \in s.at .. Clock(s.owner) : t \in Nat
  BY <1>1, ConstantsAssumption DEF ConstantsAssumption, TypeOK, Clock, Stray
<1>3. \A t \in Nat : [s.snap EXCEPT !.renewed = t] \in LeaseDoc
  BY <1>1 DEF Stray, LeaseDoc
<1> QED BY <1>2, <1>3 DEF StrayLands, TypeOK, mainVars, heldVars

\* The type invariant of the lease protocol, on both arms, whatever the
\* windows, the stalls and the clocks of the hosts.
THEOREM TypeCorrect == Spec => []TypeOK
<1>1. Init => TypeOK
  BY DEF Init, TypeOK, PC, NoDoc, LeaseDoc, Stray
<1>2. TypeOK /\ [Next]_vars => TypeOK'
  <2> SUFFICES ASSUME TypeOK, [Next]_vars PROVE TypeOK' OBVIOUS
  <2>1. CASE UNCHANGED vars
    BY <2>1 DEF TypeOK, vars, docVars, mainVars, heldVars, beatVars
  <2>2. CASE \E o \in Owner : Main(o) BY <2>2, MainKeepsTypes
  <2>3. CASE \E o \in Owner : Beat(o) BY <2>3, BeatKeepsTypes
  <2>4. CASE \E s \in stray : StrayLands(s) BY <2>4, StrayKeepsTypes
  <2>5. CASE Tick
    BY <2>5 DEF Tick, TypeOK, mainVars, heldVars, beatVars
  <2> QED BY <2>1, <2>2, <2>3, <2>4, <2>5 DEF Next
<1> QED BY <1>1, <1>2, PTL DEF Spec

-----------------------------------------------------------------------------
(* Mutual exclusion on S3 *)

\* The numbers the arguments below compare.
LEMMA Numbers ==
  ASSUME TypeOK, NEW o \in Owner
  PROVE  /\ Skew[o] \in Nat /\ Token[o] \in Nat /\ Clock(o) \in Nat
         /\ stamp[o] \in Nat /\ lastOk[o] \in Nat /\ until[o] \in Nat /\ beatAt[o] \in Nat
         /\ doc.renewed \in Nat /\ snap[o].renewed \in Nat /\ beatSnap[o].renewed \in Nat
         /\ now \in Nat
BY ClockType, ConstantsAssumption DEF ConstantsAssumption, TypeOK, LeaseDoc

\* The limits of a deployment are numbers.
LEMMA Bounds ==
  /\ TTL \in Nat /\ Heartbeat \in Nat /\ MaxStall \in Nat /\ MaxOpen \in Nat
  /\ SelfExpiry \in Nat
BY ConstantsAssumption DEF ConstantsAssumption, SelfExpiry

\* A session whose document another one is about to write over has evidence
\* some clock has already found expired.
LEMMA Displaced ==
  ASSUME S3Deployment, S3Inv, NEW o \in Owner, NEW p \in Owner, p # o, pc[p] \in Live,
         \/ pc[o] = "create" /\ doc = NoDoc
         \/ pc[o] \in {"takeover", "reacquire"} /\ doc = snap[o]
  PROVE  Expirable(p)
<1>1. CASE ~Owns(p) BY <1>1 DEF S3Inv, HoldInv
<1>2. CASE Owns(p) /\ ~Expirable(p)
  <2>1. lastOk[p] <= doc.renewed BY <1>2 DEF S3Inv, HoldInv
  <2>2. pc[o] = "takeover" /\ doc = snap[o]
    BY <1>2 DEF S3Inv, OpenInv, Owns, NoDoc, S3Deployment
  <2>3. stamp[o] > doc.renewed + TTL /\ stamp[o] <= Clock(o)
    BY <2>2 DEF S3Inv, OpenInv, Opening
  <2>4. Clock(o) > lastOk[p] + TTL
    BY <2>1, <2>3, Numbers, Bounds DEF S3Inv
  <2> QED BY <1>2, <2>4 DEF Expirable
<1> QED BY <1>1, <1>2

\* A step of o's main thread that leaves document, clock, lease and heartbeats
\* alone, and takes no session out of or into the held state.
LEMMA MoveKeeps ==
  ASSUME S3Inv, TypeOK', NEW o \in Owner, NEW l \in PC,
         UNCHANGED <<docVars, heldVars, beatVars>>,
         Goto(o, l),
         \A p \in Owner : p # o => stamp'[p] = stamp[p] /\ snap'[p] = snap[p] /\ until'[p] = until[p],
         l \in Live <=> pc[o] \in Live,
         l \notin {"write", "wait", "unlink", "release"},
         l \in Opening \cup {"wipe"} =>
           stamp'[o] <= Clock(o) /\ Clock(o) <= stamp'[o] + MaxOpen,
         l = "takeover" => stamp'[o] > snap'[o].renewed + TTL,
         l = "reacquire" => snap'[o].state = "whole" /\ snap'[o].owner = Token[o],
         l = "io" => now <= until'[o]
                     /\ until'[o] + Skew[o] <= lastOk[o] + SelfExpiry + MaxStall,
         l # "wipe"
  PROVE  S3Inv'
<1> USE DEF docVars, heldVars, beatVars, Goto
<1>0. /\ pc' = [pc EXCEPT ![o] = l] /\ pc \in [Owner -> PC]
      /\ doc' = doc /\ now' = now /\ lastOk' = lastOk /\ stray' = stray
      /\ beat' = beat /\ beatSnap' = beatSnap /\ beatAt' = beatAt
  BY DEF S3Inv, TypeOK
<1>1. DocInv' BY <1>0 DEF S3Inv, DocInv, Owns, Clock
<1>2. OpenInv' BY <1>0 DEF S3Inv, OpenInv, Clock
<1>3. HoldInv' BY <1>0 DEF S3Inv, HoldInv, Owns, Expirable, Clock
<1>4. BeatInv' BY <1>0 DEF S3Inv, BeatInv
<1>5. StrayInv' BY <1>0 DEF S3Inv, StrayInv
<1>6. ReleaseInv' BY <1>0 DEF S3Inv, ReleaseInv, Owns
<1>7. BusyInv' BY <1>0 DEF S3Inv, BusyInv
<1> QED BY <1>1, <1>2, <1>3, <1>4, <1>5, <1>6, <1>7 DEF S3Inv

\* The document becomes o's fresh one, written at a stamp within MaxOpen.
LEMMA FreshDocKeeps ==
  ASSUME S3Deployment, S3Inv, TypeOK', NEW o \in Owner, NEW l \in {"wipe", "closed"},
         pc[o] \in {"create", "takeover", "reacquire"},
         \A p \in Owner : pc[p] = "release" => p = o,
         pc[o] = "create" => doc = NoDoc,
         pc[o] \in {"takeover", "reacquire"} => doc = snap[o],
         doc' = Fresh(o, stamp[o]), now' = now,
         Goto(o, l),
         \A p \in Owner : p # o =>
            /\ stamp'[p] = stamp[p] /\ snap'[p] = snap[p] /\ until'[p] = until[p]
            /\ lastOk'[p] = lastOk[p] /\ beat'[p] = beat[p],
         beatSnap' = beatSnap, beatAt' = beatAt, stray' = stray,
         l = "wipe" => stamp'[o] = stamp[o] /\ lastOk'[o] = stamp[o] /\ beat'[o] = "idle",
         l = "closed" => beat'[o] = beat[o]
  PROVE  S3Inv'
<1>0. pc' = [pc EXCEPT ![o] = l] /\ pc \in [Owner -> PC]
  BY DEF S3Inv, TypeOK, Goto
<1>a. /\ stamp[o] <= Clock(o) /\ Clock(o) <= stamp[o] + MaxOpen
      /\ doc'.state = "whole" /\ doc'.owner = Token[o] /\ doc'.renewed = stamp[o]
  BY DEF S3Inv, OpenInv, Opening, Fresh
<1>b. \A p \in Owner : p # o => Token[p] # Token[o] BY DEF S3Deployment
<1>c. \A p \in Owner : p # o /\ pc[p] \in Live => Expirable(p) BY Displaced
<1>d. beat[o] = "off" BY DEF S3Inv, BeatInv, Live
<1>1. DocInv' BY <1>a, <1>b DEF DocInv, Owns, Clock
<1>2. OpenInv' BY <1>0, <1>a DEF S3Inv, OpenInv, Opening, Clock
<1>3. HoldInv'
  <2> SUFFICES ASSUME NEW p \in Owner, pc'[p] \in Live
               PROVE  /\ lastOk'[p] <= Clock(p)'
                      /\ (Owns(p)' /\ lastOk'[p] <= doc'.renewed) \/ Expirable(p)'
    BY DEF HoldInv
  <2>1. CASE p = o
    <3>1. l = "wipe" BY <1>0, <2>1 DEF Live
    <3>2. lastOk'[o] = stamp[o] /\ stamp[o] \in Nat BY <3>1, Numbers DEF S3Inv
    <3> QED BY <1>a, <2>1, <3>2 DEF Owns, Clock
  <2>2. CASE p # o
    <3>1. pc[p] \in Live /\ lastOk'[p] = lastOk[p] BY <1>0, <2>2
    <3>2. Expirable(p) BY <1>c, <2>2, <3>1
    <3>3. lastOk[p] <= Clock(p) BY <3>1 DEF S3Inv, HoldInv
    <3> QED BY <3>1, <3>2, <3>3 DEF Expirable, Clock
  <2> QED BY <2>1, <2>2
<1>4. BeatInv'
  <2> SUFFICES ASSUME NEW p \in Owner
               PROVE  /\ beat'[p] # "off" => pc'[p] \in Live
                      /\ beat'[p] = "read" =>
                           /\ beatSnap'[p].state = "whole" /\ beatSnap'[p].owner = Token[p]
                           /\ beatSnap'[p].renewed <= beatAt'[p] /\ lastOk'[p] <= beatAt'[p]
    BY DEF BeatInv
  <2>1. CASE p = o BY <1>0, <1>d, <2>1 DEF Live
  <2>2. CASE p # o BY <1>0, <2>2 DEF S3Inv, BeatInv
  <2> QED BY <2>1, <2>2
<1>5. StrayInv' BY DEF S3Inv, StrayInv
<1>6. ReleaseInv' BY <1>0 DEF ReleaseInv
<1>7. BusyInv'
  <2>1. stamp[o] \in Nat BY Numbers DEF S3Inv
  <2> QED BY <1>0, <2>1 DEF S3Inv, BusyInv
<1> QED BY <1>1, <1>2, <1>3, <1>4, <1>5, <1>6, <1>7 DEF S3Inv

\* A session ends: its lease is dropped and its heartbeat stopped.
LEMMA EndKeeps ==
  ASSUME S3Inv, TypeOK', NEW o \in Owner, NEW l \in {"closed", "dead", "release"},
         NEW w \in BOOLEAN, StopBeat(o, w), DropLease(o), EndSession(o, l), UNCHANGED docVars,
         l = "release" => Owns(o)
  PROVE  S3Inv'
<1>0. /\ pc' = [pc EXCEPT ![o] = l] /\ pc \in [Owner -> PC]
      /\ doc' = doc /\ now' = now
      /\ lastOk' = [lastOk EXCEPT ![o] = 0] /\ stamp' = [stamp EXCEPT ![o] = 0]
      /\ snap' = [snap EXCEPT ![o] = NoDoc] /\ until' = [until EXCEPT ![o] = 0]
      /\ beat' = [beat EXCEPT ![o] = "off"] /\ beatSnap' = [beatSnap EXCEPT ![o] = NoDoc]
      /\ beatAt' = [beatAt EXCEPT ![o] = 0]
  BY DEF S3Inv, TypeOK, Goto, StopBeat, DropLease, EndSession, ForgetBeat, docVars
<1>1. DocInv' BY <1>0 DEF S3Inv, DocInv, Owns, Clock
<1>2. OpenInv' BY <1>0 DEF S3Inv, OpenInv, Opening, Clock, TypeOK
<1>3. HoldInv' BY <1>0 DEF S3Inv, HoldInv, Owns, Expirable, Clock, Live, TypeOK
<1>4. BeatInv' BY <1>0 DEF S3Inv, BeatInv, TypeOK
<1>5. StrayInv'
  <2>1. CASE stray' = stray BY <2>1 DEF S3Inv, StrayInv
  <2>2. CASE beat[o] = "read"
             /\ stray' = stray \cup {[owner |-> o, snap |-> beatSnap[o], at |-> beatAt[o]]}
    BY <2>2 DEF S3Inv, StrayInv, BeatInv
  <2> QED BY <2>1, <2>2 DEF StopBeat
<1>6. ReleaseInv' BY <1>0 DEF S3Inv, ReleaseInv, Owns
<1>7. BusyInv' BY <1>0 DEF S3Inv, BusyInv, TypeOK
<1> QED BY <1>1, <1>2, <1>3, <1>4, <1>5, <1>6, <1>7 DEF S3Inv

\* Back to the loop top, from a step that changed nothing else.
LEMMA LoopTopKeeps ==
  ASSUME S3Inv, TypeOK', NEW o \in Owner, LoopTop(o), pc[o] \notin Live,
         UNCHANGED <<docVars, heldVars, beatVars>>
  PROVE  S3Inv'
<1>1. stamp'[o] = Clock(o) BY DEF LoopTop, S3Inv, TypeOK
<1>2. Clock(o) <= Clock(o) + MaxOpen BY Numbers, Bounds DEF S3Inv
<1>3. \A p \in Owner : p # o => stamp'[p] = stamp[p] /\ snap'[p] = snap[p] /\ until'[p] = until[p]
  BY DEF LoopTop, S3Inv, TypeOK
<1>4. Clock(o) \in Nat BY Numbers DEF S3Inv
<1> QED BY <1>1, <1>2, <1>3, <1>4, MoveKeeps, "create" \in PC DEF LoopTop, PC, Opening, Live

\* An attempt that fails or is refused.
LEMMA RefuseKeeps ==
  ASSUME S3Inv, TypeOK', NEW o \in Owner, Refuse(o), pc[o] \notin Live,
         UNCHANGED <<docVars, heldVars, beatVars>>
  PROVE  S3Inv'
<1>1. \A p \in Owner : p # o => stamp'[p] = stamp[p] /\ snap'[p] = snap[p] /\ until'[p] = until[p]
  BY DEF Refuse, EndSession, S3Inv, TypeOK
<1> QED BY <1>1, MoveKeeps DEF Refuse, EndSession, PC, Opening, Live

\* One step of acquire preserves the invariant.
LEMMA AcquireKeepsS3Inv ==
  ASSUME S3Deployment, S3Inv, TypeOK', NEW o \in Owner, MainFree(o), Acquire(o)
  PROVE  S3Inv'
<1>0. \A p \in Owner : pc[p] = "release" => p = o
  BY DEF MainFree, MainInWindow, S3Deployment
<1>1. CASE Open(o) BY <1>1, LoopTopKeeps DEF Open, Live
<1>2. CASE CreateS3(o)
  <2>1. /\ \A p \in Owner : p # o =>
            /\ stamp'[p] = stamp[p] /\ snap'[p] = snap[p] /\ until'[p] = until[p]
            /\ lastOk'[p] = lastOk[p] /\ beat'[p] = beat[p]
        /\ stamp'[o] = stamp[o] /\ lastOk'[o] = stamp[o] /\ beat'[o] = "idle"
    BY <1>2 DEF CreateS3, Acquired, S3Inv, TypeOK
  <2> QED BY <1>0, <1>2, <2>1, FreshDocKeeps DEF CreateS3, Acquired
<1>3. CASE CreateLocal(o) BY <1>3 DEF CreateLocal, S3Deployment
<1>4. CASE WriteAll(o) BY <1>4 DEF WriteAll, S3Inv, OpenInv
<1>5. CASE AlreadyExists(o)
  <2>1. stamp[o] <= Clock(o) /\ Clock(o) <= stamp[o] + MaxOpen
    BY <1>5 DEF AlreadyExists, S3Inv, OpenInv, Opening
  <2> QED BY <1>5, <2>1, MoveKeeps DEF AlreadyExists, PC, Opening, Live
<1>6. CASE Read(o)
  <2>1. /\ pc[o] = "read" /\ UNCHANGED <<docVars, heldVars, beatVars>> BY <1>6 DEF Read
  <2>2. stamp[o] <= Clock(o) /\ Clock(o) <= stamp[o] + MaxOpen
    BY <2>1 DEF S3Inv, OpenInv, Opening
  <2>3. CASE LoopTop(o) BY <2>1, <2>3, LoopTopKeeps DEF Live
  <2>4. CASE Refuse(o) BY <2>1, <2>4, RefuseKeeps DEF Live
  <2>5. CASE Unparseable(doc) BY <2>5 DEF Unparseable, S3Inv, DocInv
  <2>6. CASE Decodes(o, doc) /\ doc.owner = Token[o] /\ Proceed(o, "reacquire")
    <3>1. /\ \A p \in Owner : p # o => snap'[p] = snap[p]
          /\ snap'[o] = doc /\ stamp' = stamp /\ until' = until /\ Goto(o, "reacquire")
      BY <2>6 DEF Proceed, S3Inv, TypeOK
    <3>2. snap'[o].state = "whole" /\ snap'[o].owner = Token[o] BY <2>6, <3>1 DEF Decodes
    <3> QED BY <2>1, <2>2, <3>1, <3>2, MoveKeeps DEF PC, Opening, Live
  <2>7. CASE stamp[o] - doc.renewed > TTL /\ Proceed(o, "takeover")
    <3>1. /\ \A p \in Owner : p # o => snap'[p] = snap[p]
          /\ snap'[o] = doc /\ stamp' = stamp /\ until' = until /\ Goto(o, "takeover")
      BY <2>7 DEF Proceed, S3Inv, TypeOK
    <3>2. stamp'[o] > snap'[o].renewed + TTL BY <2>7, <3>1, Numbers, Bounds DEF S3Inv
    <3> QED BY <2>1, <2>2, <3>1, <3>2, MoveKeeps DEF PC, Opening, Live
  <2> QED BY <1>6, <2>3, <2>4, <2>5, <2>6, <2>7 DEF Read, JudgeHolder
<1>7. CASE Reread(o) BY <1>7 DEF Reread, S3Inv, OpenInv
<1>8. CASE TakeoverS3(o)
  <2>1. CASE ReplaceSucceeds(snap[o]) /\ doc' = Fresh(o, stamp[o]) /\ Acquired(o)
    <3>1. /\ \A p \in Owner : p # o =>
              /\ stamp'[p] = stamp[p] /\ snap'[p] = snap[p] /\ until'[p] = until[p]
              /\ lastOk'[p] = lastOk[p] /\ beat'[p] = beat[p]
          /\ stamp'[o] = stamp[o] /\ lastOk'[o] = stamp[o] /\ beat'[o] = "idle"
      BY <2>1 DEF Acquired, S3Inv, TypeOK
    <3>2. doc = snap[o] BY <2>1 DEF ReplaceSucceeds, S3Deployment
    <3> QED BY <1>0, <1>8, <2>1, <3>1, <3>2, FreshDocKeeps DEF TakeoverS3, Acquired
  <2>2. CASE LoopTop(o) /\ UNCHANGED <<doc, heldVars, beatVars>>
    BY <1>8, <2>2, LoopTopKeeps DEF TakeoverS3, Live, docVars
  <2> QED BY <1>8, <2>1, <2>2 DEF TakeoverS3
<1>9. CASE Recheck(o) BY <1>9 DEF Recheck, S3Deployment
<1>10. CASE Unlink(o) BY <1>10 DEF Unlink, S3Inv, OpenInv
<1>11. CASE Reacquire(o)
  <2>1. CASE ReplaceSucceeds(snap[o]) /\ doc' = Fresh(o, stamp[o]) /\ Acquired(o)
    <3>1. /\ \A p \in Owner : p # o =>
              /\ stamp'[p] = stamp[p] /\ snap'[p] = snap[p] /\ until'[p] = until[p]
              /\ lastOk'[p] = lastOk[p] /\ beat'[p] = beat[p]
          /\ stamp'[o] = stamp[o] /\ lastOk'[o] = stamp[o] /\ beat'[o] = "idle"
      BY <2>1 DEF Acquired, S3Inv, TypeOK
    <3>2. doc = snap[o] BY <2>1 DEF ReplaceSucceeds, S3Deployment
    <3> QED BY <1>0, <1>11, <2>1, <3>1, <3>2, FreshDocKeeps DEF Reacquire, Acquired
  <2>2. CASE LoopTop(o) /\ UNCHANGED <<doc, heldVars, beatVars>>
    BY <1>11, <2>2, LoopTopKeeps DEF Reacquire, Live, docVars
  <2> QED BY <1>11, <2>1, <2>2 DEF Reacquire
<1> QED BY <1>1, <1>2, <1>3, <1>4, <1>5, <1>6, <1>7, <1>8, <1>9, <1>10, <1>11 DEF Acquire

\* One step of a session's main thread preserves the invariant.
LEMMA MainKeepsS3Inv ==
  ASSUME S3Deployment, S3Inv, TypeOK', NEW o \in Owner, MainFree(o), Main(o)
  PROVE  S3Inv'
<1>0. \A p \in Owner : pc[p] = "release" => p = o
  BY DEF MainFree, MainInWindow, S3Deployment
<1>1. CASE Acquire(o) BY <1>1, AcquireKeepsS3Inv
<1>2. CASE AcquireFails(o) BY <1>2, RefuseKeeps DEF AcquireFails, Opening, Live
<1>3. CASE AcquireLandsUnseen(o)
  <2>1. /\ pc[o] \in {"create", "takeover", "reacquire"}
        /\ pc[o] = "create" => doc = NoDoc
        /\ pc[o] \in {"takeover", "reacquire"} => doc = snap[o]
    BY <1>3 DEF AcquireLandsUnseen, ReplaceSucceeds, S3Deployment
  <2>2. \A p \in Owner : p # o =>
           /\ stamp'[p] = stamp[p] /\ snap'[p] = snap[p] /\ until'[p] = until[p]
           /\ lastOk'[p] = lastOk[p] /\ beat'[p] = beat[p]
    BY <1>3 DEF AcquireLandsUnseen, Refuse, EndSession, heldVars, beatVars, S3Inv, TypeOK
  <2> QED BY <1>0, <1>3, <2>1, <2>2, FreshDocKeeps
          DEF AcquireLandsUnseen, Refuse, EndSession, heldVars, beatVars
<1>4. CASE EndWipe(o)
  <2>1. \A p \in Owner : p # o => stamp'[p] = stamp[p] BY <1>4 DEF EndWipe, S3Inv, TypeOK
  <2> QED BY <1>4, <2>1, MoveKeeps DEF EndWipe, PC, Opening, Live
<1>5. CASE StartWrite(o)
  <2>1. /\ \A p \in Owner : p # o => until'[p] = until[p]
        /\ until'[o] = now + MaxStall
    BY <1>5 DEF StartWrite, S3Inv, TypeOK
  <2>2. now + Skew[o] - lastOk[o] <= SelfExpiry
    <3>1. CheckStillHeld(o) BY <1>5 DEF StartWrite
    <3>2. Clock(o) - lastOk[o] <= SelfExpiry BY <3>1 DEF CheckStillHeld
    <3> QED BY <3>2, Numbers, Bounds DEF Clock, S3Inv
  <2>3. now <= until'[o] /\ until'[o] + Skew[o] <= lastOk[o] + SelfExpiry + MaxStall
    BY <2>1, <2>2, Numbers, Bounds DEF S3Inv
  <2> QED BY <1>5, <2>1, <2>3, MoveKeeps DEF StartWrite, PC, Opening, Live
<1>6. CASE EndWrite(o)
  <2>1. \A p \in Owner : p # o => until'[p] = until[p] BY <1>6 DEF EndWrite, S3Inv, TypeOK
  <2> QED BY <1>6, <2>1, MoveKeeps DEF EndWrite, PC, Opening, Live
<1>7. CASE Release(o)
  <2>1. Mine(o, doc) => Owns(o) BY DEF Mine, Decodes, Owns
  <2> QED BY <1>7, <2>1, EndKeeps DEF Release
<1>8. CASE ReleaseDelete(o)
  <2>1. /\ pc' = [pc EXCEPT ![o] = "closed"] /\ pc \in [Owner -> PC] /\ pc[o] = "release"
        /\ now' = now /\ UNCHANGED <<stamp, snap, until, lost, lastOk>>
        /\ UNCHANGED <<beat, beatSnap, beatAt, stray>>
        /\ doc' = NoDoc \/ doc' = doc
    BY <1>8 DEF ReleaseDelete, S3Inv, TypeOK, Goto, heldVars, beatVars
  <2>2. \A p \in Owner : p # o => ~Owns(p)
    BY <2>1 DEF S3Inv, ReleaseInv, Owns, S3Deployment
  <2>3. DocInv' BY <2>1 DEF S3Inv, DocInv, Owns, Clock, NoDoc
  <2>4. OpenInv' BY <2>1 DEF S3Inv, OpenInv, Opening, Clock
  <2>5. HoldInv' BY <2>1, <2>2 DEF S3Inv, HoldInv, Owns, Expirable, Clock, Live
  <2>6. BeatInv' BY <2>1 DEF S3Inv, BeatInv, Live
  <2>7. StrayInv' BY <2>1 DEF S3Inv, StrayInv
  <2>8. ReleaseInv' BY <1>0, <2>1 DEF ReleaseInv
  <2>9. BusyInv' BY <2>1 DEF S3Inv, BusyInv
  <2> QED BY <2>3, <2>4, <2>5, <2>6, <2>7, <2>8, <2>9 DEF S3Inv
<1>9. CASE Abandon(o) BY <1>9, EndKeeps DEF Abandon
<1>10. CASE Crash(o) BY <1>10, EndKeeps DEF Crash
<1> QED BY <1>1, <1>2, <1>3, <1>4, <1>5, <1>6, <1>7, <1>8, <1>9, <1>10 DEF Main

\* A renewal of o's document, at a stamp t no earlier than what it replaces.
LEMMA RenewKeeps ==
  ASSUME S3Deployment, S3Inv, TypeOK', NEW o \in Owner, NEW t \in Nat, t <= Clock(o),
         Owns(o), doc.renewed <= t,
         doc' = [doc EXCEPT !.renewed = t], now' = now, mainVars' = mainVars,
         \A p \in Owner : p # o => lastOk'[p] = lastOk[p] /\ beat'[p] = beat[p]
                                   /\ beatSnap'[p] = beatSnap[p] /\ beatAt'[p] = beatAt[p],
         \/ lastOk'[o] = lastOk[o]
         \/ lastOk'[o] = t /\ lastOk[o] <= t /\ pc[o] \in Live,
         \/ beat'[o] = "idle" /\ pc[o] \in Live
         \/ lastOk'[o] = lastOk[o] /\ beat'[o] = beat[o] /\ beatSnap'[o] = beatSnap[o] /\ beatAt'[o] = beatAt[o],
         stray' \subseteq stray
  PROVE  S3Inv'
<1>0. /\ pc' = pc /\ stamp' = stamp /\ snap' = snap /\ until' = until
      /\ doc'.state = "whole" /\ doc'.owner = Token[o] /\ doc'.renewed = t
  BY DEF mainVars, S3Inv, TypeOK, LeaseDoc, Owns
<1>1. \A p \in Owner : p # o => ~Owns(p) BY DEF Owns, S3Deployment
<1>2. DocInv' BY <1>0, <1>1 DEF S3Deployment, DocInv, Owns, Clock
<1>3. OpenInv' BY <1>0 DEF S3Inv, OpenInv, Clock
<1>4. HoldInv'
  <2> SUFFICES ASSUME NEW p \in Owner, pc[p] \in Live
               PROVE  /\ lastOk'[p] <= Clock(p)'
                      /\ (Owns(p)' /\ lastOk'[p] <= doc'.renewed) \/ Expirable(p)'
    BY <1>0 DEF HoldInv
  <2>1. CASE p = o
    <3>1. lastOk[o] \in Nat /\ doc.renewed \in Nat /\ Clock(o) \in Nat BY Numbers DEF S3Inv
    <3>2. /\ lastOk[o] <= Clock(o)
          /\ lastOk[o] <= doc.renewed \/ Expirable(o)
      BY <2>1 DEF S3Inv, HoldInv
    <3>3. CASE lastOk'[o] = t BY <1>0, <2>1, <3>3 DEF Owns, Clock
    <3>4. CASE lastOk'[o] = lastOk[o]
      BY <1>0, <2>1, <3>1, <3>2, <3>4 DEF Owns, Clock, Expirable
    <3> QED BY <3>3, <3>4
  <2>2. CASE p # o BY <1>1, <2>2 DEF S3Inv, HoldInv, Expirable, Clock
  <2> QED BY <2>1, <2>2
<1>5. BeatInv'
  <2> SUFFICES ASSUME NEW p \in Owner
               PROVE  /\ beat'[p] # "off" => pc'[p] \in Live
                      /\ beat'[p] = "read" =>
                           /\ beatSnap'[p].state = "whole" /\ beatSnap'[p].owner = Token[p]
                           /\ beatSnap'[p].renewed <= beatAt'[p] /\ lastOk'[p] <= beatAt'[p]
    BY DEF BeatInv
  <2>1. CASE p = o BY <1>0, <2>1 DEF S3Inv, BeatInv
  <2>2. CASE p # o BY <1>0, <2>2 DEF S3Inv, BeatInv
  <2> QED BY <2>1, <2>2
<1>6. StrayInv' BY DEF S3Inv, StrayInv
<1>7. ReleaseInv' BY <1>0, <1>1 DEF S3Inv, ReleaseInv, Owns
<1>8. BusyInv'
  <2> SUFFICES ASSUME NEW p \in Owner
               PROVE  /\ pc[p] = "io" => now <= until[p]
                           /\ until[p] + Skew[p] <= lastOk'[p] + SelfExpiry + MaxStall
                      /\ pc[p] = "wipe" => stamp[p] <= lastOk'[p]
    BY <1>0 DEF BusyInv
  <2>1. lastOk[p] <= lastOk'[p] /\ lastOk'[p] \in Nat
    BY Numbers DEF S3Inv, TypeOK
  <2> QED BY <2>1, Numbers, Bounds DEF S3Inv, BusyInv
<1> QED BY <1>2, <1>3, <1>4, <1>5, <1>6, <1>7, <1>8 DEF S3Inv

\* A heartbeat that finds out it lost, or fails, or only reads.
LEMMA BeatMoveKeeps ==
  ASSUME S3Inv, TypeOK', NEW o \in Owner,
         UNCHANGED <<docVars, mainVars, lastOk>>, stray' \subseteq stray,
         \A p \in Owner : p # o => beat'[p] = beat[p] /\ beatSnap'[p] = beatSnap[p]
                                   /\ beatAt'[p] = beatAt[p],
         beat'[o] # "off" => pc[o] \in Live,
         beat'[o] = "read" =>
           /\ beatSnap'[o].state = "whole" /\ beatSnap'[o].owner = Token[o]
           /\ beatSnap'[o].renewed <= beatAt'[o] /\ lastOk[o] <= beatAt'[o]
  PROVE  S3Inv'
<1>0. /\ pc' = pc /\ stamp' = stamp /\ snap' = snap /\ until' = until
      /\ doc' = doc /\ now' = now /\ lastOk' = lastOk
  BY DEF mainVars, docVars
<1>1. DocInv' /\ OpenInv' /\ HoldInv' /\ ReleaseInv' /\ BusyInv'
  BY <1>0 DEF S3Inv, DocInv, OpenInv, HoldInv, ReleaseInv, BusyInv, Owns, Expirable, Clock
<1>2. BeatInv' BY <1>0 DEF S3Inv, BeatInv
<1>3. StrayInv' BY DEF S3Inv, StrayInv
<1> QED BY <1>1, <1>2, <1>3 DEF S3Inv

\* One step of a heartbeat preserves the invariant.
LEMMA BeatKeepsS3Inv ==
  ASSUME S3Deployment, S3Inv, TypeOK', NEW o \in Owner, BeatFree(o), Beat(o)
  PROVE  S3Inv'
<1>1. CASE BeatRead(o)
  <2>1. pc[o] \in Live BY <1>1 DEF BeatRead, S3Inv, BeatInv
  <2>2. CASE BeatLost(o)
    <3>1. /\ \A p \in Owner : p # o => beat'[p] = beat[p] /\ beatSnap'[p] = beatSnap[p]
                                        /\ beatAt'[p] = beatAt[p]
          /\ beat'[o] = "off"
      BY <2>2 DEF BeatLost, ForgetBeat, S3Inv, TypeOK
    <3> QED BY <1>1, <3>1, BeatMoveKeeps DEF BeatRead
  <2>3. CASE ~BeatLost(o)
    <3>1. /\ \A p \in Owner : p # o => beat'[p] = beat[p] /\ beatSnap'[p] = beatSnap[p]
                                        /\ beatAt'[p] = beatAt[p]
          /\ beat'[o] = "read" /\ beatSnap'[o] = doc /\ beatAt'[o] = Clock(o)
      BY <1>1, <2>3 DEF BeatRead, S3Inv, TypeOK
    <3>2. Owns(o) BY <1>1, <2>3 DEF BeatRead, Mine, Decodes, Owns
    <3>3. doc.renewed <= Clock(o) /\ lastOk[o] <= Clock(o)
      BY <2>1, <3>2 DEF S3Inv, DocInv, HoldInv
    <3> QED BY <1>1, <2>1, <3>1, <3>2, <3>3, BeatMoveKeeps DEF BeatRead, Owns
  <2> QED BY <2>2, <2>3
<1>2. ASSUME beat[o] = "read", ReplaceSucceeds(beatSnap[o]), NEW t \in beatAt[o] .. Clock(o)
      PROVE  /\ t \in Nat /\ t <= Clock(o) /\ Owns(o) /\ doc.renewed <= t /\ lastOk[o] <= t
             /\ doc = beatSnap[o] /\ pc[o] \in Live
  <2>1. /\ doc = beatSnap[o] /\ Owns(o) /\ pc[o] \in Live
        /\ doc.renewed <= beatAt[o] /\ lastOk[o] <= beatAt[o]
    BY <1>2 DEF ReplaceSucceeds, S3Deployment, S3Inv, BeatInv, Owns
  <2>2. t \in Nat /\ beatAt[o] <= t /\ t <= Clock(o) BY Numbers DEF S3Inv
  <2> QED BY <2>1, <2>2, Numbers DEF S3Inv
<1>3. CASE BeatReplace(o)
  <2>1. CASE ReplaceSucceeds(beatSnap[o])
    <3>1. PICK t \in beatAt[o] .. Clock(o) :
            doc' = [beatSnap[o] EXCEPT !.renewed = t] /\ lastOk' = [lastOk EXCEPT ![o] = t]
      BY <1>3, <2>1 DEF BeatReplace
    <3>2. /\ \A p \in Owner : p # o => lastOk'[p] = lastOk[p] /\ beat'[p] = beat[p]
                                   /\ beatSnap'[p] = beatSnap[p] /\ beatAt'[p] = beatAt[p]
          /\ beat'[o] = "idle" /\ lastOk'[o] = t
      BY <1>3, <2>1, <3>1 DEF BeatReplace, ForgetBeat, S3Inv, TypeOK
    <3>3. beat[o] = "read" /\ now' = now /\ mainVars' = mainVars /\ stray' = stray
      BY <1>3 DEF BeatReplace
    <3>4. /\ t \in Nat /\ t <= Clock(o) /\ Owns(o) /\ doc.renewed <= t /\ lastOk[o] <= t
          /\ doc = beatSnap[o] /\ pc[o] \in Live
      BY <1>2, <2>1, <3>3
    <3> QED BY <3>1, <3>2, <3>3, <3>4, RenewKeeps
  <2>2. CASE ~ReplaceSucceeds(beatSnap[o])
    <3>1. /\ \A p \in Owner : p # o => beat'[p] = beat[p] /\ beatSnap'[p] = beatSnap[p]
                                        /\ beatAt'[p] = beatAt[p]
          /\ beat'[o] = "off"
      BY <1>3, <2>2 DEF BeatReplace, BeatLost, ForgetBeat, S3Inv, TypeOK
    <3> QED BY <1>3, <2>2, <3>1, BeatMoveKeeps DEF BeatReplace, docVars
  <2> QED BY <2>1, <2>2
<1>4. CASE BeatBlip(o)
  <2>1. /\ \A p \in Owner : p # o => beat'[p] = beat[p] /\ beatSnap'[p] = beatSnap[p]
                                      /\ beatAt'[p] = beatAt[p]
        /\ beat'[o] = "idle" /\ beat[o] = "read"
        /\ now' = now /\ lastOk' = lastOk /\ stray' = stray /\ mainVars' = mainVars
    BY <1>4 DEF BeatBlip, ForgetBeat, S3Inv, TypeOK, heldVars
  <2>2. pc[o] \in Live BY <2>1 DEF S3Inv, BeatInv
  <2>3. CASE doc' = doc BY <2>1, <2>2, <2>3, BeatMoveKeeps DEF docVars
  <2>4. CASE ReplaceSucceeds(beatSnap[o])
             /\ \E t \in beatAt[o] .. Clock(o) : doc' = [beatSnap[o] EXCEPT !.renewed = t]
    <3>1. PICK t \in beatAt[o] .. Clock(o) : doc' = [beatSnap[o] EXCEPT !.renewed = t]
      BY <2>4
    <3>2. /\ t \in Nat /\ t <= Clock(o) /\ Owns(o) /\ doc.renewed <= t /\ lastOk[o] <= t
          /\ doc = beatSnap[o]
      BY <1>2, <2>1, <2>4
    <3> QED BY <2>1, <2>2, <3>1, <3>2, RenewKeeps
  <2> QED BY <1>4, <2>3, <2>4 DEF BeatBlip
<1> QED BY <1>1, <1>3, <1>4 DEF Beat

\* A stray heartbeat write preserves the invariant.
LEMMA StrayKeepsS3Inv ==
  ASSUME S3Deployment, S3Inv, TypeOK', NEW s \in stray, StrayLands(s)
  PROVE  S3Inv'
<1>1. s \in Stray /\ s.owner \in Owner /\ s.at \in Nat /\ s.snap \in LeaseDoc
  BY DEF S3Inv, TypeOK, Stray
<1>2. s.snap.state = "whole" /\ s.snap.owner = Token[s.owner] /\ s.snap.renewed <= s.at
  BY DEF S3Inv, StrayInv
<1>3. CASE doc' = doc
  BY <1>1, <1>3, BeatMoveKeeps DEF StrayLands, docVars, heldVars, S3Inv, BeatInv
<1>4. CASE ReplaceSucceeds(s.snap)
           /\ \E t \in s.at .. Clock(s.owner) : doc' = [s.snap EXCEPT !.renewed = t]
  <2>1. PICK t \in s.at .. Clock(s.owner) : doc' = [s.snap EXCEPT !.renewed = t] BY <1>4
  <2>2. doc = s.snap /\ Owns(s.owner)
    BY <1>2, <1>4 DEF ReplaceSucceeds, S3Deployment, Owns
  <2>3. t \in Nat /\ s.at <= t /\ t <= Clock(s.owner) BY <1>1, Numbers DEF S3Inv
  <2>4. doc.renewed <= t BY <1>1, <1>2, <2>2, <2>3, Numbers DEF S3Inv
  <2> QED BY <1>1, <2>1, <2>2, <2>3, <2>4, RenewKeeps DEF StrayLands, heldVars
<1> QED BY <1>3, <1>4 DEF StrayLands

\* The clock goes on: no window is open, no write or open is at its limit.
LEMMA TickKeepsS3Inv ==
  ASSUME S3Deployment, S3Inv, TypeOK', Tick
  PROVE  S3Inv'
<1>0. /\ now' = now + 1 /\ doc' = doc /\ pc' = pc /\ stamp' = stamp /\ snap' = snap
      /\ until' = until /\ lastOk' = lastOk /\ stray' = stray
      /\ beat' = beat /\ beatSnap' = beatSnap /\ beatAt' = beatAt
  BY DEF Tick, mainVars, heldVars, beatVars
<1>1. \A o \in Owner : Clock(o)' = Clock(o) + 1 BY <1>0, Numbers DEF Clock, S3Inv
<1>2. DocInv' BY <1>0, <1>1, Numbers DEF S3Inv, DocInv, Owns
<1>3. OpenInv'
  <2>1. \A o \in Owner : pc[o] \in Opening \cup {"wipe"} => Clock(o) < stamp[o] + MaxOpen
    BY DEF Tick, S3Inv, OpenInv
  <2> QED BY <1>0, <1>1, <2>1, Numbers, Bounds DEF S3Inv, OpenInv
<1>4. HoldInv' BY <1>0, <1>1, Numbers, Bounds DEF S3Inv, HoldInv, Owns, Expirable
<1>5. BeatInv' BY <1>0 DEF S3Inv, BeatInv
<1>6. StrayInv' BY <1>0 DEF S3Inv, StrayInv
<1>7. ReleaseInv' BY <1>0 DEF S3Inv, ReleaseInv, Owns
<1>8. BusyInv'
  <2>1. \A o \in Owner : pc[o] = "io" => now < until[o] BY DEF Tick
  <2> QED BY <1>0, <2>1, Numbers DEF S3Inv, BusyInv
<1> QED BY <1>2, <1>3, <1>4, <1>5, <1>6, <1>7, <1>8 DEF S3Inv

\* In an S3 deployment the inductive invariant holds of every behaviour.
THEOREM S3Invariant ==
  ASSUME S3Deployment
  PROVE  Spec => []S3Inv
<1>1. Init => S3Inv
  <2> SUFFICES ASSUME Init PROVE S3Inv OBVIOUS
  <2>1. TypeOK BY DEF Init, TypeOK, PC, NoDoc, LeaseDoc, Stray
  <2>2. DocInv /\ OpenInv /\ HoldInv /\ BeatInv /\ StrayInv /\ ReleaseInv /\ BusyInv
    BY DEF Init, DocInv, OpenInv, HoldInv, BeatInv, StrayInv, ReleaseInv, BusyInv,
           Owns, NoDoc, Opening, Live
  <2> QED BY <2>1, <2>2 DEF S3Inv
<1>2. TypeOK' /\ S3Inv /\ [Next]_vars => S3Inv'
  <2> SUFFICES ASSUME TypeOK', S3Inv, [Next]_vars PROVE S3Inv' OBVIOUS
  <2>1. CASE UNCHANGED vars
    <3>1. /\ pc' = pc /\ stamp' = stamp /\ snap' = snap /\ until' = until
          /\ doc' = doc /\ now' = now /\ lastOk' = lastOk /\ stray' = stray
          /\ beat' = beat /\ beatSnap' = beatSnap /\ beatAt' = beatAt
      BY <2>1 DEF vars, docVars, mainVars, heldVars, beatVars
    <3> QED BY <3>1 DEF S3Inv, DocInv, OpenInv, HoldInv, BeatInv, StrayInv, ReleaseInv,
                        BusyInv, Owns, Expirable, Clock
  <2>2. CASE \E o \in Owner : MainFree(o) /\ Main(o) BY <2>2, MainKeepsS3Inv
  <2>3. CASE \E o \in Owner : BeatFree(o) /\ Beat(o) BY <2>3, BeatKeepsS3Inv
  <2>4. CASE AllFree /\ \E s \in stray : StrayLands(s) BY <2>4, StrayKeepsS3Inv
  <2>5. CASE AllFree /\ Tick BY <2>5, TickKeepsS3Inv
  <2> QED BY <2>1, <2>2, <2>3, <2>4, <2>5 DEF Next
<1> QED BY <1>1, <1>2, TypeCorrect, PTL DEF Spec

\* A session inside a write or its opening wipe has evidence no clock finds
\* expired, so it owns the document.
LEMMA BusyOwns ==
  ASSUME S3Deployment, S3Inv, NEW o \in Owner, Busy(o)
  PROVE  Owns(o)
<1>1. ~Expirable(o)
  <2> SUFFICES ASSUME NEW p \in Owner PROVE ~(Clock(p) > lastOk[o] + TTL) BY DEF Expirable
  <2>1. CASE pc[o] = "io"
    <3>1. now <= until[o] /\ until[o] + Skew[o] <= lastOk[o] + SelfExpiry + MaxStall
      BY <2>1 DEF S3Inv, BusyInv
    <3>2. SelfExpiry + MaxStall + Skew[p] <= TTL + Skew[o] BY DEF S3Deployment
    <3> QED BY <3>1, <3>2, Numbers, Bounds DEF Clock, S3Inv
  <2>2. CASE pc[o] = "wipe"
    <3>1. stamp[o] <= lastOk[o] /\ Clock(o) <= stamp[o] + MaxOpen
      BY <2>2 DEF S3Inv, BusyInv, OpenInv
    <3>2. MaxOpen + Skew[p] <= TTL + Skew[o] BY DEF S3Deployment
    <3> QED BY <3>1, <3>2, Numbers, Bounds DEF Clock, S3Inv
  <2> QED BY <2>1, <2>2 DEF Busy
<1> QED BY <1>1 DEF S3Inv, HoldInv, Busy, Live

\* For any number of sessions and any constants within the margins of
\* S3Deployment, no two sessions are ever both wiping or writing the scope.
THEOREM S3MutualExclusion ==
  ASSUME S3Deployment
  PROVE  Spec => []MutualExclusion
<1>1. S3Inv => MutualExclusion
  <2> SUFFICES ASSUME S3Inv, NEW o \in Owner, NEW p \in Owner, Busy(o), Busy(p) PROVE o = p
    BY DEF MutualExclusion
  <2>1. Owns(o) /\ Owns(p) BY BusyOwns
  <2> QED BY <2>1 DEF Owns, S3Deployment
<1> QED BY <1>1, S3Invariant, PTL

-----------------------------------------------------------------------------
(* What happens to the document on S3 *)

\* A write of o's fresh document, over nothing or over the one o judged.
FreshDoc(o) ==
  /\ \/ pc[o] = "create" /\ doc = NoDoc
     \/ pc[o] \in {"takeover", "reacquire"} /\ doc = snap[o]
  /\ doc' = Fresh(o, stamp[o])

\* A renewal by the heartbeat of a session, alive or gone.
Renewed == \E t \in Nat : doc' = [doc EXCEPT !.renewed = t]

Deleted(o) == pc[o] = "release" /\ doc' = NoDoc /\ pc'[o] = "closed"

\* On S3 the main thread of a session touches the document in two ways.
LEMMA MainDocSteps ==
  ASSUME S3Deployment, S3Inv, NEW o \in Owner, Main(o)
  PROVE  doc' = doc \/ FreshDoc(o) \/ Deleted(o)
<1>1. Arm = "s3" /\ pc[o] \notin {"write", "unlink"} BY DEF S3Deployment, S3Inv, OpenInv
<1>2. CASE Acquire(o)
  <2>1. CASE CreateS3(o) BY <2>1 DEF CreateS3, FreshDoc
  <2>2. CASE TakeoverS3(o) BY <1>1, <2>2 DEF TakeoverS3, ReplaceSucceeds, FreshDoc
  <2>3. CASE Reacquire(o) BY <1>1, <2>3 DEF Reacquire, ReplaceSucceeds, FreshDoc
  <2>4. CASE Open(o) \/ AlreadyExists(o) \/ Read(o) \/ Reread(o) \/ Recheck(o)
    BY <2>4 DEF Open, AlreadyExists, Read, Reread, Recheck, docVars
  <2> QED BY <1>1, <1>2, <2>1, <2>2, <2>3, <2>4 DEF Acquire, CreateLocal, WriteAll, Unlink
<1>3. CASE AcquireLandsUnseen(o)
  BY <1>1, <1>3 DEF AcquireLandsUnseen, ReplaceSucceeds, FreshDoc
<1>4. CASE ReleaseDelete(o) BY <1>4 DEF ReleaseDelete, Deleted, Goto, S3Inv, TypeOK
<1>5. CASE AcquireFails(o) \/ EndWipe(o) \/ StartWrite(o) \/ EndWrite(o)
  BY <1>5 DEF AcquireFails, EndWipe, StartWrite, EndWrite, docVars
<1>6. CASE Release(o) \/ Abandon(o) \/ Crash(o)
  BY <1>6 DEF Release, Abandon, Crash, docVars
<1> QED BY <1>2, <1>3, <1>4, <1>5, <1>6 DEF Main

\* Heartbeats, those of forgotten sessions too, renew the document or leave it.
LEMMA BeatDocSteps ==
  ASSUME S3Deployment, S3Inv,
         (\E o \in Owner : Beat(o)) \/ (\E s \in stray : StrayLands(s))
  PROVE  doc' = doc \/ Renewed
<1>1. Arm = "s3" BY DEF S3Deployment
<1>2. CASE \E o \in Owner : Beat(o)
  <2>1. PICK o \in Owner : Beat(o) BY <1>2
  <2>2. \A t \in beatAt[o] .. Clock(o) : t \in Nat BY Numbers DEF S3Inv
  <2>3. CASE BeatRead(o) BY <2>3 DEF BeatRead, docVars
  <2>4. CASE BeatReplace(o) BY <1>1, <2>2, <2>4 DEF BeatReplace, ReplaceSucceeds, Renewed
  <2>5. CASE BeatBlip(o) BY <1>1, <2>2, <2>5 DEF BeatBlip, ReplaceSucceeds, Renewed
  <2> QED BY <2>1, <2>3, <2>4, <2>5 DEF Beat
<1>3. CASE \E s \in stray : StrayLands(s)
  <2>1. PICK s \in stray : StrayLands(s) BY <1>3
  <2>2. s.at \in Nat /\ s.owner \in Owner BY DEF S3Inv, TypeOK, Stray
  <2>3. \A t \in s.at .. Clock(s.owner) : t \in Nat BY <2>2, Numbers DEF S3Inv
  <2> QED BY <1>1, <2>1, <2>3 DEF StrayLands, ReplaceSucceeds, Renewed
<1> QED BY <1>2, <1>3

\* Every step of the system leaves the document alone or does one of the three.
LEMMA DocSteps ==
  ASSUME S3Deployment, S3Inv, [Next]_vars
  PROVE  doc' = doc \/ Renewed \/ \E p \in Owner : FreshDoc(p) \/ Deleted(p)
<1>1. CASE \E p \in Owner : Main(p) BY <1>1, MainDocSteps
<1>2. CASE (\E p \in Owner : Beat(p)) \/ (\E s \in stray : StrayLands(s))
  BY <1>2, BeatDocSteps
<1>3. CASE Tick BY <1>3 DEF Tick
<1>4. CASE UNCHANGED vars BY <1>4 DEF vars, docVars
<1> QED BY <1>1, <1>2, <1>3, <1>4 DEF Next

\* In an S3 deployment no step of anyone, whatever fails or dies, removes or
\* replaces the document of a live session that no host's clock finds expired.
THEOREM S3FreshHolderKept ==
  ASSUME S3Deployment
  PROVE  Spec => FreshHolderKept
<1> DEFINE Fresher(o) == /\ pc[o] \in Live /\ Mine(o, doc)
                         /\ \A p \in Owner : Clock(p) - doc.renewed <= TTL
           Kept(o) == doc'.state = "whole" /\ doc'.owner = Token[o]
<1>1. S3Inv /\ [Next]_vars => \A o \in Owner : Fresher(o) => Kept(o)
  <2> SUFFICES ASSUME S3Inv, [Next]_vars, NEW o \in Owner, Fresher(o) PROVE Kept(o)
    OBVIOUS
  <2>1. doc.state = "whole" /\ doc.owner = Token[o] BY DEF Mine, Decodes
  <2>2. CASE doc' = doc BY <2>1, <2>2
  <2>3. CASE Renewed
    <3>1. doc \in LeaseDoc BY DEF S3Inv, TypeOK
    <3> QED BY <2>1, <2>3, <3>1 DEF Renewed, LeaseDoc
  <2>4. ASSUME NEW p \in Owner, FreshDoc(p) PROVE Kept(o)
    <3>1. pc[p] # "create" BY <2>1, <2>4 DEF FreshDoc, NoDoc
    <3>2. doc = snap[p] /\ pc[p] \in {"takeover", "reacquire"} BY <2>4, <3>1 DEF FreshDoc
    <3>3. pc[p] # "takeover"
      <4> SUFFICES ASSUME pc[p] = "takeover" PROVE FALSE OBVIOUS
      <4>1. stamp[p] > doc.renewed + TTL /\ stamp[p] <= Clock(p)
        BY <3>2 DEF S3Inv, OpenInv, Opening
      <4>2. Clock(p) - doc.renewed <= TTL OBVIOUS
      <4> QED BY <4>1, <4>2, Numbers, Bounds DEF S3Inv
    <3>4. Token[p] = Token[o] BY <2>1, <3>2, <3>3 DEF S3Inv, OpenInv
    <3> QED BY <2>4, <3>4 DEF FreshDoc, Fresh
  <2>5. ASSUME NEW p \in Owner, Deleted(p) PROVE Kept(o)
    <3>1. pc[p] = "release" /\ Owns(p) BY <2>5 DEF Deleted, S3Inv, ReleaseInv
    <3>2. p = o BY <2>1, <3>1 DEF Owns, S3Deployment
    <3> QED BY <3>1, <3>2 DEF Live
  <2> QED BY <2>2, <2>3, <2>4, <2>5, DocSteps
<1>2. S3Inv /\ [Next]_vars => [\A o \in Owner : Fresher(o) => Kept(o)]_vars BY <1>1
<1> QED BY <1>2, S3Invariant, PTL DEF Spec, FreshHolderKept

\* A session owns only what its own build wrote, and is about to write over what
\* its build could decode.
FormatInv ==
  \A o \in Owner :
    /\ Owns(o) => doc.ver = Build[o]
    /\ pc[o] \in {"takeover", "reacquire"} => snap[o].ver <= Build[o]

\* A session comes to act on the document only by decoding it.
LEMMA Judged ==
  ASSUME S3Deployment, S3Inv, [Next]_vars, NEW o \in Owner,
         pc'[o] \in {"takeover", "reacquire"}
  PROVE  \/ pc'[o] = pc[o] /\ snap'[o] = snap[o]
         \/ snap'[o] = doc /\ Decodes(o, doc)
<1>0. /\ pc \in [Owner -> PC] /\ snap \in [Owner -> LeaseDoc]
      /\ pc[o] \notin {"write", "wait", "unlink"} /\ Arm = "s3"
  BY DEF S3Inv, TypeOK, OpenInv, S3Deployment
<1>1. CASE UNCHANGED mainVars BY <1>1 DEF mainVars
<1>2. ASSUME NEW p \in Owner, p # o, Main(p)
      PROVE  pc'[o] = pc[o] /\ snap'[o] = snap[o]
  <2> USE <1>0, <1>2 DEF Goto
  <2>1. CASE Acquire(p)
    BY <2>1 DEF Acquire, Open, CreateS3, CreateLocal, WriteAll, AlreadyExists, Read, Reread,
         TakeoverS3, Recheck, Unlink, Reacquire, LoopTop, Refuse, EndSession, Proceed,
         JudgeHolder, Acquired
  <2>2. CASE AcquireFails(p) \/ AcquireLandsUnseen(p)
    BY <2>2 DEF AcquireFails, AcquireLandsUnseen, Refuse, EndSession
  <2>3. CASE EndWipe(p) \/ StartWrite(p) \/ EndWrite(p) \/ ReleaseDelete(p)
    BY <2>3 DEF EndWipe, StartWrite, EndWrite, ReleaseDelete
  <2>4. CASE Release(p) \/ Abandon(p) \/ Crash(p)
    BY <2>4 DEF Release, Abandon, Crash, EndSession
  <2> QED BY <2>1, <2>2, <2>3, <2>4 DEF Main
<1>3. CASE Main(o)
  <2> USE <1>0 DEF Goto
  <2>1. CASE Read(o)
    <3>1. Decodes(o, doc) /\ JudgeHolder(o)
      BY <2>1 DEF Read, LoopTop, Refuse, EndSession
    <3>2. snap'[o] = doc BY <3>1 DEF JudgeHolder, Proceed, Refuse, EndSession
    <3> QED BY <3>1, <3>2
  <2>2. CASE Reread(o) BY <2>2 DEF Reread
  <2>3. CASE Acquire(o) /\ ~Read(o) /\ ~Reread(o)
    BY <2>3 DEF Acquire, Open, CreateS3, CreateLocal, WriteAll, AlreadyExists,
         TakeoverS3, Recheck, Unlink, Reacquire, LoopTop, Acquired
  <2>4. CASE AcquireFails(o) \/ AcquireLandsUnseen(o)
    BY <2>4 DEF AcquireFails, AcquireLandsUnseen, Refuse, EndSession
  <2>5. CASE EndWipe(o) \/ StartWrite(o) \/ EndWrite(o) \/ ReleaseDelete(o)
    BY <2>5 DEF EndWipe, StartWrite, EndWrite, ReleaseDelete
  <2>6. CASE Release(o) \/ Abandon(o) \/ Crash(o)
    BY <2>6 DEF Release, Abandon, Crash, EndSession
  <2> QED BY <1>3, <2>1, <2>2, <2>3, <2>4, <2>5, <2>6 DEF Main
<1>4. CASE UNCHANGED vars BY <1>1, <1>4 DEF vars
<1>5. CASE \E p \in Owner : Beat(p)
  BY <1>1, <1>5 DEF Beat, BeatRead, BeatReplace, BeatBlip
<1>6. CASE (\E s \in stray : StrayLands(s)) \/ Tick
  BY <1>1, <1>6 DEF StrayLands, Tick
<1> QED BY <1>2, <1>3, <1>4, <1>5, <1>6 DEF Next

\* FormatInv is inductive beside S3Inv.
LEMMA FormatKeeps ==
  ASSUME S3Deployment, S3Inv, FormatInv, [Next]_vars
  PROVE  FormatInv'
<1>0. /\ doc \in LeaseDoc /\ \A o \in Owner : Build[o] \in Nat
      /\ \A o, p \in Owner : Token[o] = Token[p] => o = p
  BY ConstantsAssumption DEF ConstantsAssumption, S3Inv, TypeOK, S3Deployment
<1>1. ASSUME NEW o \in Owner, Owns(o)' PROVE doc'.ver = Build[o]
  <2>1. CASE doc' = doc BY <1>1, <2>1 DEF Owns, FormatInv
  <2>2. CASE Renewed BY <1>0, <1>1, <2>2 DEF Renewed, Owns, FormatInv, LeaseDoc
  <2>3. ASSUME NEW p \in Owner, FreshDoc(p) PROVE doc'.ver = Build[o]
    <3>1. doc'.owner = Token[p] /\ doc'.ver = Build[p] BY <2>3 DEF FreshDoc, Fresh
    <3>2. doc'.owner = Token[o] BY <1>1 DEF Owns
    <3> QED BY <1>0, <3>1, <3>2
  <2>4. ASSUME NEW p \in Owner, Deleted(p) PROVE FALSE
    BY <1>1, <2>4 DEF Deleted, Owns, NoDoc
  <2> QED BY <2>1, <2>2, <2>3, <2>4, DocSteps
<1>2. ASSUME NEW o \in Owner, pc'[o] \in {"takeover", "reacquire"}
      PROVE  snap'[o].ver <= Build[o]
  BY <1>2, Judged DEF FormatInv, Decodes
<1> QED BY <1>1, <1>2 DEF FormatInv

\* In an S3 deployment no build replaces a document of a newer format or removes it.
THEOREM S3NewerFormatRespected ==
  ASSUME S3Deployment
  PROVE  Spec => NewerFormatRespected
<1>1. Init => FormatInv
  BY DEF Init, FormatInv, Owns, NoDoc
<1>2. S3Inv /\ FormatInv /\ [Next]_vars => FormatInv'
  <2>1. CASE [Next]_vars BY <2>1, FormatKeeps
  <2> QED BY <2>1
<1>3. S3Inv /\ FormatInv /\ [Next]_vars =>
        [doc' # doc /\ doc.state = "whole" =>
           IF Exists(doc') THEN doc'.ver >= doc.ver
                           ELSE \E o \in Owner : pc'[o] # pc[o] /\ Build[o] >= doc.ver]_vars
  <2> SUFFICES ASSUME S3Inv, FormatInv, [Next]_vars, doc' # doc, doc.state = "whole"
               PROVE  IF Exists(doc') THEN doc'.ver >= doc.ver
                      ELSE \E o \in Owner : pc'[o] # pc[o] /\ Build[o] >= doc.ver
    OBVIOUS
  <2>0. doc \in LeaseDoc /\ doc.ver \in Nat /\ \A o \in Owner : Build[o] \in Nat
    BY ConstantsAssumption DEF ConstantsAssumption, S3Inv, TypeOK, LeaseDoc
  <2>1. CASE Renewed
    <3>1. doc'.ver = doc.ver /\ doc'.state = "whole" BY <2>0, <2>1 DEF Renewed, LeaseDoc
    <3> QED BY <2>0, <3>1 DEF Exists
  <2>2. ASSUME NEW p \in Owner, FreshDoc(p)
        PROVE  doc'.state = "whole" /\ doc'.ver >= doc.ver
    <3>1. doc = snap[p] /\ pc[p] \in {"takeover", "reacquire"} BY <2>2 DEF FreshDoc, NoDoc
    <3>2. doc.ver <= Build[p] BY <3>1 DEF FormatInv
    <3>3. doc'.state = "whole" /\ doc'.ver = Build[p] BY <2>2 DEF FreshDoc, Fresh
    <3> QED BY <2>0, <3>2, <3>3
  <2>3. ASSUME NEW p \in Owner, Deleted(p)
        PROVE  /\ ~Exists(doc')
               /\ pc'[p] # pc[p] /\ Build[p] >= doc.ver
    <3>1. Owns(p) BY <2>3 DEF Deleted, S3Inv, ReleaseInv
    <3>2. doc.ver = Build[p] BY <3>1 DEF FormatInv
    <3> QED BY <2>0, <2>3, <3>2 DEF Deleted, Exists, NoDoc
  <2> QED BY <2>1, <2>2, <2>3, DocSteps DEF Exists
<1> QED BY <1>1, <1>2, <1>3, S3Invariant, PTL DEF Spec, NewerFormatRespected

-----------------------------------------------------------------------------
(* The local directory *)

\* While a main thread moves nobody else is inside a window, nor any heartbeat.
LEMMA MainAlone ==
  ASSUME LocalDeployment, NEW o \in Owner, MainFree(o)
  PROVE  /\ \A p \in Owner : p # o => pc[p] \notin {"write", "unlink", "reacquire", "release"}
         /\ \A p \in Owner : beat[p] # "read"
BY DEF LocalDeployment, MainFree, MainInWindow, BeatInWindow, Windows

\* While a heartbeat moves no main thread is inside a window, nor another beat.
LEMMA BeatAlone ==
  ASSUME LocalDeployment, NEW o \in Owner, BeatFree(o)
  PROVE  /\ \A p \in Owner : pc[p] \notin {"write", "unlink", "reacquire", "release"}
         /\ \A p \in Owner : p # o => beat[p] # "read"
BY DEF LocalDeployment, BeatFree, MainInWindow, BeatInWindow, Windows

\* A step of o's main thread that leaves document, clock, lease and heartbeats
\* alone, and takes no session out of or into the held state.
LEMMA LocalMoveKeeps ==
  ASSUME LocalInv, TypeOK', NEW o \in Owner, NEW l \in PC,
         UNCHANGED <<docVars, heldVars, beatVars>>,
         Goto(o, l),
         \A p \in Owner : p # o => stamp'[p] = stamp[p] /\ snap'[p] = snap[p] /\ until'[p] = until[p],
         l \in Live <=> pc[o] \in Live,
         l \notin {"write", "release", "wipe"},
         l \in Opening => stamp'[o] <= Clock(o),
         l \in {"create", "read", "reacquire"} => Clock(o) <= stamp'[o] + MaxOpen,
         l = "wait" => ~Owns(o),
         l = "takeover" => Unparseable(snap'[o]) \/ stamp'[o] > snap'[o].renewed + TTL,
         l = "unlink" =>
           Unparseable(doc) \/ (Decodes(o, doc) /\ stamp'[o] > doc.renewed + TTL),
         l = "reacquire" => Owns(o),
         l = "io" => now <= until'[o]
                     /\ until'[o] + Skew[o] <= lastOk[o] + SelfExpiry + MaxStall
  PROVE  LocalInv'
<1> USE DEF docVars, heldVars, beatVars, Goto
<1>0. /\ pc' = [pc EXCEPT ![o] = l] /\ pc \in [Owner -> PC]
      /\ doc' = doc /\ now' = now /\ lastOk' = lastOk /\ stray' = stray
      /\ beat' = beat /\ beatSnap' = beatSnap /\ beatAt' = beatAt
  BY DEF LocalInv, TypeOK
<1>1. LocalDocInv' BY <1>0 DEF LocalInv, LocalDocInv, Clock
<1>2. LocalOpenInv'
  <2> SUFFICES ASSUME NEW p \in Owner
               PROVE  /\ pc'[p] \in Opening \cup {"wipe"} => stamp'[p] <= Clock(p)
                      /\ pc'[p] \in {"create", "write", "read", "reacquire", "wipe"} =>
                           Clock(p) <= stamp'[p] + MaxOpen
                      /\ pc'[p] = "write" =>
                           Unparseable(doc) /\ doc.owner = Token[p] /\ doc.renewed = stamp'[p]
                      /\ pc'[p] = "wait" => ~Owns(p)
                      /\ pc'[p] = "takeover" =>
                           Unparseable(snap'[p]) \/ stamp'[p] > snap'[p].renewed + TTL
                      /\ pc'[p] = "unlink" =>
                           Unparseable(doc) \/ (Decodes(p, doc) /\ stamp'[p] > doc.renewed + TTL)
                      /\ pc'[p] = "reacquire" => Owns(p)
    BY <1>0 DEF LocalOpenInv, Owns, Clock, Unparseable, Decodes
  <2>1. CASE p = o BY <1>0, <2>1
  <2>2. CASE p # o BY <1>0, <2>2 DEF LocalInv, LocalOpenInv
  <2> QED BY <2>1, <2>2
<1>3. HoldInv' BY <1>0 DEF LocalInv, HoldInv, Owns, Expirable, Clock
<1>4. LocalBeatInv' BY <1>0 DEF LocalInv, LocalBeatInv, Owns
<1>5. ReleaseInv' BY <1>0 DEF LocalInv, ReleaseInv, Owns
<1>6. BusyInv' BY <1>0 DEF LocalInv, BusyInv
<1> QED BY <1>1, <1>2, <1>3, <1>4, <1>5, <1>6 DEF LocalInv

\* The main thread of o removes the document or writes its own, which displaces
\* nobody whose evidence is fresh.
LEMMA LocalWriteKeeps ==
  ASSUME LocalDeployment, LocalInv, TypeOK', NEW o \in Owner, MainFree(o), pc[o] \notin Live,
         NEW l \in {"write", "wipe", "create", "closed"}, Goto(o, l), now' = now,
         \/ doc' = NoDoc
         \/ doc'.owner = Token[o] /\ doc'.ver = Build[o] /\ doc'.renewed <= Clock(o),
         \A p \in Owner : p # o /\ pc[p] \in Live => ~Owns(p) \/ Expirable(p),
         \A p \in Owner : p # o =>
            /\ stamp'[p] = stamp[p] /\ snap'[p] = snap[p] /\ until'[p] = until[p]
            /\ lastOk'[p] = lastOk[p] /\ beat'[p] = beat[p],
         UNCHANGED <<beatSnap, beatAt, stray>>,
         l # "closed" => stamp'[o] <= Clock(o) /\ Clock(o) <= stamp'[o] + MaxOpen,
         l = "write" => Unparseable(doc') /\ doc'.owner = Token[o] /\ doc'.renewed = stamp'[o],
         l = "wipe" => /\ doc'.state = "whole" /\ doc'.owner = Token[o]
                       /\ doc'.renewed = stamp'[o]
                       /\ lastOk'[o] = stamp'[o] /\ beat'[o] = "idle",
         l # "wipe" => beat'[o] = beat[o]
  PROVE  LocalInv'
<1>0. /\ pc' = [pc EXCEPT ![o] = l] /\ pc \in [Owner -> PC]
      /\ \A p \in Owner : p # o => Token[p] # Token[o]
      /\ \A p \in Owner : p # o => ~Owns(p)'
      /\ \A p \in Owner : Clock(p)' = Clock(p)
  BY DEF LocalInv, TypeOK, Goto, LocalDeployment, Owns, NoDoc, Clock
<1>a. \A p \in Owner : p # o => pc[p] \notin {"write", "unlink", "reacquire", "release"}
  BY MainAlone
<1>b. \A p \in Owner : beat[p] # "read" BY MainAlone
<1>c. beat[o] = "off" BY DEF LocalInv, LocalBeatInv, TypeOK
<1>1. LocalDocInv'
  BY <1>0 DEF LocalDocInv, Exists, NoDoc
<1>2. LocalOpenInv'
  <2>1. ASSUME NEW p \in Owner, p # o
        PROVE  /\ pc'[p] \in Opening \cup {"wipe"} => stamp'[p] <= Clock(p)
               /\ pc'[p] \in {"create", "read", "wipe"} => Clock(p) <= stamp'[p] + MaxOpen
               /\ pc'[p] = "takeover" =>
                    Unparseable(snap'[p]) \/ stamp'[p] > snap'[p].renewed + TTL
               /\ pc'[p] \notin {"write", "unlink", "reacquire"}
               /\ ~Owns(p)'
    BY <1>0, <1>a, <2>1 DEF LocalInv, LocalOpenInv
  <2>2. /\ pc'[o] \in Opening \cup {"wipe"} => stamp'[o] <= Clock(o)
        /\ pc'[o] \in {"create", "write", "read", "reacquire", "wipe"} =>
             Clock(o) <= stamp'[o] + MaxOpen
        /\ pc'[o] = "write" =>
             Unparseable(doc') /\ doc'.owner = Token[o] /\ doc'.renewed = stamp'[o]
        /\ pc'[o] \notin {"wait", "takeover", "unlink", "reacquire"}
    BY <1>0 DEF Opening
  <2>3. \A p \in Owner : Clock(p)' = Clock(p) BY <1>0
  <2>4. Unparseable(doc)' = Unparseable(doc')
        /\ \A p \in Owner : Unparseable(snap[p])' = Unparseable(snap'[p])
    BY DEF Unparseable
  <2> QED BY <2>1, <2>2, <2>3, <2>4 DEF LocalOpenInv
<1>3. HoldInv'
  <2> SUFFICES ASSUME NEW p \in Owner, pc'[p] \in Live
               PROVE  /\ lastOk'[p] <= Clock(p)'
                      /\ (Owns(p)' /\ lastOk'[p] <= doc'.renewed) \/ Expirable(p)'
    BY DEF HoldInv
  <2>1. CASE p = o
    <3>1. l = "wipe" BY <1>0, <2>1 DEF Live
    <3>2. stamp'[o] \in Nat BY DEF TypeOK
    <3> QED BY <1>0, <2>1, <3>1, <3>2 DEF Owns
  <2>2. CASE p # o
    <3>1. pc[p] \in Live /\ lastOk'[p] = lastOk[p] BY <1>0, <2>2
    <3>2. lastOk[p] <= Clock(p) /\ Expirable(p) BY <2>2, <3>1 DEF LocalInv, HoldInv
    <3> QED BY <1>0, <3>1, <3>2 DEF Expirable
  <2> QED BY <2>1, <2>2
<1>4. LocalBeatInv'
  <2>1. \A p \in Owner : beat'[p] # "read" BY <1>b, <1>c
  <2>2. \A p \in Owner : beat'[p] # "off" => pc'[p] \in Live
    BY <1>0, <1>c DEF LocalInv, LocalBeatInv, Live
  <2>3. stray' = {} BY DEF LocalInv, LocalBeatInv
  <2> QED BY <2>1, <2>2, <2>3 DEF LocalBeatInv
<1>5. ReleaseInv' BY <1>0, <1>a DEF ReleaseInv
<1>6. BusyInv'
  <2>1. stamp'[o] \in Nat BY DEF TypeOK
  <2> QED BY <1>0, <2>1 DEF LocalInv, BusyInv
<1> QED BY <1>1, <1>2, <1>3, <1>4, <1>5, <1>6 DEF LocalInv

\* A session ends: its lease is dropped and its heartbeat stopped.
LEMMA LocalEndKeeps ==
  ASSUME LocalDeployment, LocalInv, TypeOK', NEW o \in Owner, MainFree(o),
         NEW l \in {"closed", "dead", "release"},
         NEW w \in BOOLEAN, StopBeat(o, w), DropLease(o), EndSession(o, l), UNCHANGED docVars,
         l = "release" => Owns(o)
  PROVE  LocalInv'
<1>0. /\ pc' = [pc EXCEPT ![o] = l] /\ pc \in [Owner -> PC]
      /\ doc' = doc /\ now' = now
      /\ lastOk' = [lastOk EXCEPT ![o] = 0] /\ stamp' = [stamp EXCEPT ![o] = 0]
      /\ snap' = [snap EXCEPT ![o] = NoDoc] /\ until' = [until EXCEPT ![o] = 0]
      /\ beat' = [beat EXCEPT ![o] = "off"] /\ beatSnap' = [beatSnap EXCEPT ![o] = NoDoc]
      /\ beatAt' = [beatAt EXCEPT ![o] = 0]
  BY DEF LocalInv, TypeOK, Goto, StopBeat, DropLease, EndSession, ForgetBeat, docVars
<1>a. stray' = stray BY MainAlone DEF StopBeat
<1>1. LocalDocInv' BY <1>0 DEF LocalInv, LocalDocInv, Clock
<1>2. LocalOpenInv'
  BY <1>0 DEF LocalInv, LocalOpenInv, Opening, Clock, TypeOK, Owns, Decodes, Unparseable
<1>3. HoldInv' BY <1>0 DEF LocalInv, HoldInv, Owns, Expirable, Clock, Live, TypeOK
<1>4. LocalBeatInv' BY <1>0, <1>a DEF LocalInv, LocalBeatInv, TypeOK, Owns
<1>5. ReleaseInv' BY <1>0 DEF LocalInv, ReleaseInv, Owns
<1>6. BusyInv' BY <1>0 DEF LocalInv, BusyInv, TypeOK
<1> QED BY <1>1, <1>2, <1>3, <1>4, <1>5, <1>6 DEF LocalInv

\* Back to the loop top, from a step that changed nothing else.
LEMMA LocalLoopTopKeeps ==
  ASSUME LocalInv, TypeOK', NEW o \in Owner, LoopTop(o), pc[o] \notin Live,
         UNCHANGED <<docVars, heldVars, beatVars>>
  PROVE  LocalInv'
<1>1. stamp'[o] = Clock(o) BY DEF LoopTop, LocalInv, TypeOK
<1>2. Clock(o) \in Nat /\ Clock(o) <= Clock(o) + MaxOpen BY Numbers, Bounds DEF LocalInv
<1>3. \A p \in Owner : p # o => stamp'[p] = stamp[p] /\ snap'[p] = snap[p] /\ until'[p] = until[p]
  BY DEF LoopTop, LocalInv, TypeOK
<1> QED BY <1>1, <1>2, <1>3, LocalMoveKeeps, "create" \in PC DEF LoopTop, PC, Opening, Live

\* An attempt that fails or is refused.
LEMMA LocalRefuseKeeps ==
  ASSUME LocalInv, TypeOK', NEW o \in Owner, Refuse(o), pc[o] \notin Live,
         UNCHANGED <<docVars, heldVars, beatVars>>
  PROVE  LocalInv'
<1>1. \A p \in Owner : p # o => stamp'[p] = stamp[p] /\ snap'[p] = snap[p] /\ until'[p] = until[p]
  BY DEF Refuse, EndSession, LocalInv, TypeOK
<1> QED BY <1>1, LocalMoveKeeps DEF Refuse, EndSession, PC, Opening, Live

\* What acquire does with a holder it could decode, at the first read or after a
\* wait: its own document only at the first.
LEMMA LocalJudgeKeeps ==
  ASSUME LocalInv, TypeOK', NEW o \in Owner, pc[o] \in {"read", "wait"},
         Decodes(o, doc), JudgeHolder(o), UNCHANGED <<docVars, heldVars, beatVars>>
  PROVE  LocalInv'
<1>1. stamp[o] <= Clock(o) /\ (pc[o] = "read" => Clock(o) <= stamp[o] + MaxOpen)
  BY DEF LocalInv, LocalOpenInv, Opening
<1>2. CASE Refuse(o) BY <1>2, LocalRefuseKeeps DEF Live
<1>3. CASE doc.owner = Token[o] /\ Proceed(o, "reacquire")
  <2>1. Owns(o) BY <1>3 DEF Owns, Decodes
  <2>2. pc[o] = "read" BY <2>1 DEF LocalInv, LocalOpenInv
  <2>3. /\ \A p \in Owner : p # o => snap'[p] = snap[p]
        /\ stamp' = stamp /\ until' = until /\ Goto(o, "reacquire")
    BY <1>3 DEF Proceed, LocalInv, TypeOK
  <2> QED BY <1>1, <2>1, <2>2, <2>3, LocalMoveKeeps DEF PC, Opening, Live
<1>4. CASE stamp[o] - doc.renewed > TTL /\ Proceed(o, "takeover")
  <2>1. /\ \A p \in Owner : p # o => snap'[p] = snap[p]
        /\ snap'[o] = doc /\ stamp' = stamp /\ until' = until /\ Goto(o, "takeover")
    BY <1>4 DEF Proceed, LocalInv, TypeOK
  <2>2. stamp'[o] > snap'[o].renewed + TTL BY <1>4, <2>1, Numbers, Bounds DEF LocalInv
  <2> QED BY <1>1, <2>1, <2>2, LocalMoveKeeps DEF PC, Opening, Live
<1> QED BY <1>2, <1>3, <1>4 DEF JudgeHolder

\* One step of acquire preserves the invariant.
LEMMA AcquireKeepsLocalInv ==
  ASSUME LocalDeployment, LocalInv, TypeOK', NEW o \in Owner, MainFree(o), Acquire(o)
  PROVE  LocalInv'
<1>0. /\ pc[o] \in Opening \cup {"wipe"} => stamp[o] <= Clock(o)
      /\ pc[o] \in {"create", "write", "read", "reacquire", "wipe"} =>
           Clock(o) <= stamp[o] + MaxOpen
  BY DEF LocalInv, LocalOpenInv
<1>1. CASE Open(o) BY <1>1, LocalLoopTopKeeps DEF Open, Live
<1>2. CASE CreateS3(o) BY <1>2 DEF CreateS3, LocalDeployment
<1>3. CASE CreateLocal(o)
  <2>1. /\ doc'.state = "torn" /\ doc'.owner = Token[o] /\ doc'.ver = Build[o]
        /\ doc'.renewed = stamp[o]
    BY <1>3 DEF CreateLocal, Fresh
  <2>2. \A p \in Owner : ~Owns(p) BY <1>3 DEF CreateLocal, Owns, NoDoc
  <2>3. /\ pc[o] = "create" /\ Goto(o, "write") /\ now' = now
        /\ UNCHANGED <<stamp, snap, until, lastOk, beat, beatSnap, beatAt, stray>>
    BY <1>3 DEF CreateLocal, heldVars, beatVars
  <2> QED BY <1>0, <2>1, <2>2, <2>3, LocalWriteKeeps DEF Opening, Live, Unparseable
<1>4. CASE WriteAll(o)
  <2>1. /\ Unparseable(doc) /\ doc.owner = Token[o] /\ doc.renewed = stamp[o] /\ doc \in LeaseDoc
        /\ doc.ver = Build[o] /\ pc[o] = "write"
    BY <1>4 DEF WriteAll, LocalInv, LocalOpenInv, LocalDocInv, Exists, Unparseable, TypeOK
  <2>2. /\ doc'.state = "whole" /\ doc'.owner = Token[o] /\ doc'.ver = Build[o]
        /\ doc'.renewed = stamp[o]
    BY <1>4, <2>1 DEF WriteAll, LeaseDoc
  <2>3. \A p \in Owner : ~Owns(p) BY <2>1 DEF Owns, Unparseable
  <2>4. /\ Goto(o, "wipe") /\ now' = now
        /\ \A p \in Owner : p # o =>
              /\ stamp'[p] = stamp[p] /\ snap'[p] = snap[p] /\ until'[p] = until[p]
              /\ lastOk'[p] = lastOk[p] /\ beat'[p] = beat[p]
        /\ stamp'[o] = stamp[o] /\ lastOk'[o] = stamp[o] /\ beat'[o] = "idle"
        /\ UNCHANGED <<beatSnap, beatAt, stray>>
    BY <1>4 DEF WriteAll, Acquired, LocalInv, TypeOK
  <2> QED BY <1>0, <2>1, <2>2, <2>3, <2>4, LocalWriteKeeps DEF Opening, Live
<1>5. CASE AlreadyExists(o)
  BY <1>0, <1>5, LocalMoveKeeps DEF AlreadyExists, PC, Opening, Live
<1>6. CASE Read(o)
  <2>1. /\ pc[o] = "read" /\ UNCHANGED <<docVars, heldVars, beatVars>> BY <1>6 DEF Read
  <2>2. CASE LoopTop(o) BY <2>1, <2>2, LocalLoopTopKeeps DEF Live
  <2>3. CASE Refuse(o) BY <2>1, <2>3, LocalRefuseKeeps DEF Live
  <2>4. CASE Unparseable(doc) /\ Goto(o, "wait") /\ UNCHANGED <<stamp, snap>>
             /\ until' = [until EXCEPT ![o] = now + UndecodableWait]
    <3>1. \A p \in Owner : p # o => until'[p] = until[p] BY <2>4 DEF LocalInv, TypeOK
    <3>2. ~Owns(o) BY <2>4 DEF Owns, Unparseable
    <3> QED BY <1>0, <2>1, <2>4, <3>1, <3>2, LocalMoveKeeps DEF PC, Opening, Live
  <2>5. CASE Decodes(o, doc) /\ JudgeHolder(o) BY <2>1, <2>5, LocalJudgeKeeps
  <2> QED BY <1>6, <2>2, <2>3, <2>4, <2>5 DEF Read
<1>7. CASE Reread(o)
  <2>1. /\ pc[o] = "wait" /\ UNCHANGED <<docVars, heldVars, beatVars>> BY <1>7 DEF Reread
  <2>2. CASE LoopTop(o) BY <2>1, <2>2, LocalLoopTopKeeps DEF Live
  <2>3. CASE Refuse(o) BY <2>1, <2>3, LocalRefuseKeeps DEF Live
  <2>4. CASE Unparseable(doc) /\ Goto(o, "takeover") /\ snap' = [snap EXCEPT ![o] = doc]
             /\ stamp' = [stamp EXCEPT ![o] = Clock(o)] /\ UNCHANGED until
    <3>1. /\ \A p \in Owner : p # o => snap'[p] = snap[p] /\ stamp'[p] = stamp[p]
          /\ snap'[o] = doc /\ stamp'[o] = Clock(o)
      BY <2>4 DEF LocalInv, TypeOK
    <3>2. Clock(o) \in Nat BY Numbers DEF LocalInv
    <3> QED BY <2>1, <2>4, <3>1, <3>2, LocalMoveKeeps DEF PC, Opening, Live
  <2>5. CASE Decodes(o, doc) /\ JudgeHolder(o) BY <2>1, <2>5, LocalJudgeKeeps
  <2> QED BY <1>7, <2>2, <2>3, <2>4, <2>5 DEF Reread
<1>8. CASE TakeoverS3(o) BY <1>8 DEF TakeoverS3, LocalDeployment
<1>9. CASE Recheck(o)
  <2>1. pc[o] = "takeover" /\ UNCHANGED <<docVars, heldVars, beatVars>> BY <1>9 DEF Recheck
  <2>2. CASE LoopTop(o) BY <2>1, <2>2, LocalLoopTopKeeps DEF Live
  <2>3. CASE StillExpected(o) /\ Goto(o, "unlink") /\ UNCHANGED <<stamp, snap, until>>
    <3>1. Unparseable(snap[o]) \/ stamp[o] > snap[o].renewed + TTL
      BY <2>1 DEF LocalInv, LocalOpenInv
    <3>2. Unparseable(doc) \/ (Decodes(o, doc) /\ stamp[o] > doc.renewed + TTL)
      BY <2>3, <3>1 DEF StillExpected
    <3> QED BY <1>0, <2>1, <2>3, <3>2, LocalMoveKeeps DEF PC, Opening, Live
  <2> QED BY <1>9, <2>2, <2>3 DEF Recheck
<1>10. CASE Unlink(o)
  <2>1. /\ pc[o] = "unlink" /\ doc' = NoDoc /\ now' = now /\ LoopTop(o)
        /\ UNCHANGED <<heldVars, beatVars>>
    BY <1>10 DEF Unlink
  <2>2. /\ stamp'[o] = Clock(o) /\ Clock(o) \in Nat /\ Clock(o) <= Clock(o) + MaxOpen
        /\ \A p \in Owner : p # o => stamp'[p] = stamp[p] /\ snap'[p] = snap[p] /\ until'[p] = until[p]
    BY <2>1, Numbers, Bounds DEF LoopTop, LocalInv, TypeOK
  <2>3. ASSUME NEW p \in Owner, pc[p] \in Live, Owns(p) PROVE Expirable(p)
    <3>1. stamp[o] > doc.renewed + TTL
      BY <2>1, <2>3 DEF LocalInv, LocalOpenInv, Owns, Unparseable
    <3>2. lastOk[p] <= doc.renewed \/ Expirable(p) BY <2>3 DEF LocalInv, HoldInv
    <3>3. lastOk[p] <= doc.renewed => Clock(o) > lastOk[p] + TTL
      BY <1>0, <2>1, <3>1, Numbers, Bounds DEF LocalInv, Opening
    <3> QED BY <3>2, <3>3 DEF Expirable
  <2> QED BY <2>1, <2>2, <2>3, LocalWriteKeeps DEF LoopTop, heldVars, beatVars, Live
<1>11. CASE Reacquire(o)
  <2>1. /\ pc[o] = "reacquire" /\ doc' = Fresh(o, stamp[o]) /\ Acquired(o) /\ now' = now
    BY <1>11 DEF Reacquire, ReplaceSucceeds, LocalDeployment
  <2>2. /\ doc'.state = "whole" /\ doc'.owner = Token[o] /\ doc'.ver = Build[o]
        /\ doc'.renewed = stamp[o]
    BY <2>1 DEF Fresh
  <2>3. \A p \in Owner : p # o => ~Owns(p)
    BY <2>1 DEF LocalInv, LocalOpenInv, Owns, LocalDeployment
  <2>4. /\ Goto(o, "wipe")
        /\ \A p \in Owner : p # o =>
              /\ stamp'[p] = stamp[p] /\ snap'[p] = snap[p] /\ until'[p] = until[p]
              /\ lastOk'[p] = lastOk[p] /\ beat'[p] = beat[p]
        /\ stamp'[o] = stamp[o] /\ lastOk'[o] = stamp[o] /\ beat'[o] = "idle"
        /\ UNCHANGED <<beatSnap, beatAt, stray>>
    BY <2>1 DEF Acquired, LocalInv, TypeOK
  <2> QED BY <1>0, <2>1, <2>2, <2>3, <2>4, LocalWriteKeeps DEF Opening, Live
<1> QED BY <1>1, <1>2, <1>3, <1>4, <1>5, <1>6, <1>7, <1>8, <1>9, <1>10, <1>11 DEF Acquire

\* One step of a session's main thread preserves the invariant.
LEMMA MainKeepsLocalInv ==
  ASSUME LocalDeployment, LocalInv, TypeOK', NEW o \in Owner, MainFree(o), Main(o)
  PROVE  LocalInv'
<1>1. CASE Acquire(o) BY <1>1, AcquireKeepsLocalInv
<1>2. CASE AcquireFails(o) BY <1>2, LocalRefuseKeeps DEF AcquireFails, Opening, Live
<1>3. CASE AcquireLandsUnseen(o) BY <1>3 DEF AcquireLandsUnseen, LocalDeployment
<1>4. CASE EndWipe(o)
  <2>1. \A p \in Owner : p # o => stamp'[p] = stamp[p] BY <1>4 DEF EndWipe, LocalInv, TypeOK
  <2> QED BY <1>4, <2>1, LocalMoveKeeps DEF EndWipe, PC, Opening, Live
<1>5. CASE StartWrite(o)
  <2>1. /\ \A p \in Owner : p # o => until'[p] = until[p]
        /\ until'[o] = now + MaxStall
    BY <1>5 DEF StartWrite, LocalInv, TypeOK
  <2>2. now + Skew[o] - lastOk[o] <= SelfExpiry
    <3>1. CheckStillHeld(o) BY <1>5 DEF StartWrite
    <3>2. Clock(o) - lastOk[o] <= SelfExpiry BY <3>1 DEF CheckStillHeld
    <3> QED BY <3>2, Numbers, Bounds DEF Clock, LocalInv
  <2>3. now <= until'[o] /\ until'[o] + Skew[o] <= lastOk[o] + SelfExpiry + MaxStall
    BY <2>1, <2>2, Numbers, Bounds DEF LocalInv
  <2> QED BY <1>5, <2>1, <2>3, LocalMoveKeeps DEF StartWrite, PC, Opening, Live
<1>6. CASE EndWrite(o)
  <2>1. \A p \in Owner : p # o => until'[p] = until[p] BY <1>6 DEF EndWrite, LocalInv, TypeOK
  <2> QED BY <1>6, <2>1, LocalMoveKeeps DEF EndWrite, PC, Opening, Live
<1>7. CASE Release(o)
  <2>1. Mine(o, doc) => Owns(o) BY DEF Mine, Decodes, Owns
  <2> QED BY <1>7, <2>1, LocalEndKeeps DEF Release
<1>8. CASE ReleaseDelete(o)
  <2>1. /\ pc[o] = "release" /\ Owns(o) /\ Goto(o, "closed") /\ now' = now
        /\ UNCHANGED <<stamp, snap, until, heldVars, beatVars>>
        /\ doc' = NoDoc \/ doc' = doc
    BY <1>8 DEF ReleaseDelete, LocalInv, ReleaseInv
  <2>2. \A p \in Owner : p # o => ~Owns(p) BY <2>1 DEF Owns, LocalDeployment
  <2>3. doc' = doc =>
          doc'.owner = Token[o] /\ doc'.ver = Build[o] /\ doc'.renewed <= Clock(o)
    BY <2>1 DEF Owns, LocalInv, LocalDocInv, Exists
  <2> QED BY <2>1, <2>2, <2>3, LocalWriteKeeps DEF heldVars, beatVars, Live
<1>9. CASE Abandon(o) BY <1>9, LocalEndKeeps DEF Abandon
<1>10. CASE Crash(o) BY <1>10, LocalEndKeeps, LocalDeployment DEF Crash, LocalDeployment
<1> QED BY <1>1, <1>2, <1>3, <1>4, <1>5, <1>6, <1>7, <1>8, <1>9, <1>10 DEF Main

\* A heartbeat's step that leaves the document alone.
LEMMA LocalBeatMoveKeeps ==
  ASSUME LocalInv, TypeOK', NEW o \in Owner, pc[o] \in Live, doc' = doc, now' = now,
         UNCHANGED <<mainVars, lastOk, stray>>,
         \A p \in Owner : p # o => beat'[p] = beat[p] /\ beatSnap'[p] = beatSnap[p]
                                   /\ beatAt'[p] = beatAt[p],
         \/ beat'[o] \in {"off", "idle"}
         \/ Owns(o) /\ beatSnap'[o] = doc /\ beatAt'[o] = Clock(o)
  PROVE  LocalInv'
<1>0. pc' = pc /\ stamp' = stamp /\ snap' = snap /\ until' = until BY DEF mainVars
<1>1. LocalDocInv' BY <1>0 DEF LocalInv, LocalDocInv, Clock
<1>2. LocalOpenInv'
  BY <1>0 DEF LocalInv, LocalOpenInv, Opening, Clock, Owns, Decodes, Unparseable
<1>3. HoldInv' BY <1>0 DEF LocalInv, HoldInv, Owns, Expirable, Clock
<1>4. LocalBeatInv'
  <2>1. Owns(o) => doc.renewed <= Clock(o)
    BY DEF LocalInv, LocalDocInv, Owns, Exists
  <2>2. lastOk[o] <= Clock(o) BY DEF LocalInv, HoldInv
  <2> QED BY <1>0, <2>1, <2>2 DEF LocalInv, LocalBeatInv, Owns
<1>5. ReleaseInv' BY <1>0 DEF LocalInv, ReleaseInv, Owns
<1>6. BusyInv' BY <1>0 DEF LocalInv, BusyInv
<1> QED BY <1>1, <1>2, <1>3, <1>4, <1>5, <1>6 DEF LocalInv

\* A renewal of o's document, at a stamp t no earlier than what it replaces.
LEMMA LocalRenewKeeps ==
  ASSUME LocalDeployment, LocalInv, TypeOK', NEW o \in Owner, BeatFree(o), pc[o] \in Live,
         NEW t \in Nat, t <= Clock(o), Owns(o), doc.renewed <= t, lastOk[o] <= t,
         doc' = [doc EXCEPT !.renewed = t], now' = now, UNCHANGED <<mainVars, stray>>,
         \A p \in Owner : p # o => lastOk'[p] = lastOk[p] /\ beat'[p] = beat[p],
         lastOk'[o] = t, beat'[o] = "idle"
  PROVE  LocalInv'
<1>0. /\ pc' = pc /\ stamp' = stamp /\ snap' = snap /\ until' = until
      /\ doc'.state = "whole" /\ doc'.owner = Token[o] /\ doc'.renewed = t /\ doc'.ver = doc.ver
      /\ \A p \in Owner : Clock(p)' = Clock(p)
  BY DEF mainVars, LocalInv, TypeOK, LeaseDoc, Owns, Clock
<1>a. /\ \A p \in Owner : pc[p] \notin {"write", "unlink", "reacquire", "release"}
      /\ \A p \in Owner : p # o => beat[p] # "read"
  BY BeatAlone
<1>b. \A p \in Owner : p # o => Token[p] # Token[o] /\ ~Owns(p)
  BY DEF Owns, LocalDeployment
<1>1. LocalDocInv'
  <2>1. doc.ver = Build[o] BY DEF LocalInv, LocalDocInv, Owns, Exists
  <2> QED BY <1>0, <1>b, <2>1 DEF LocalDocInv
<1>2. LocalOpenInv'
  <2> SUFFICES ASSUME NEW p \in Owner
               PROVE  /\ pc'[p] \in Opening \cup {"wipe"} => stamp'[p] <= Clock(p)'
                      /\ pc'[p] \in {"create", "write", "read", "reacquire", "wipe"} =>
                           Clock(p)' <= stamp'[p] + MaxOpen
                      /\ pc'[p] = "wait" => ~Owns(p)'
                      /\ pc'[p] = "takeover" =>
                           Unparseable(snap'[p]) \/ stamp'[p] > snap'[p].renewed + TTL
                      /\ pc'[p] \notin {"write", "unlink", "reacquire"}
    BY DEF LocalOpenInv, Unparseable
  <2>1. pc'[p] = "wait" => ~Owns(p)' BY <1>0, <1>b DEF Live, Owns
  <2> QED BY <1>0, <1>a, <2>1 DEF LocalInv, LocalOpenInv
<1>3. HoldInv'
  <2>1. ASSUME NEW p \in Owner, p # o, pc[p] \in Live
        PROVE  lastOk'[p] <= Clock(p)' /\ Expirable(p)'
    <3>1. lastOk[p] <= Clock(p) /\ Expirable(p) BY <1>b, <2>1 DEF LocalInv, HoldInv
    <3> QED BY <1>0, <2>1, <3>1 DEF Expirable
  <2>2. Owns(o)' /\ lastOk'[o] <= Clock(o)' /\ lastOk'[o] <= doc'.renewed
    BY <1>0 DEF Owns
  <2> QED BY <1>0, <2>1, <2>2 DEF HoldInv
<1>4. LocalBeatInv' BY <1>0, <1>a DEF LocalInv, LocalBeatInv
<1>5. ReleaseInv' BY <1>0, <1>a DEF ReleaseInv
<1>6. BusyInv'
  <2>1. lastOk[o] \in Nat /\ until[o] \in Nat /\ stamp[o] \in Nat BY Numbers DEF LocalInv
  <2>2. Skew[o] \in Nat /\ SelfExpiry \in Nat /\ MaxStall \in Nat BY Numbers, Bounds DEF LocalInv
  <2> QED BY <1>0, <2>1, <2>2 DEF LocalInv, BusyInv
<1> QED BY <1>1, <1>2, <1>3, <1>4, <1>5, <1>6 DEF LocalInv

\* One step of a heartbeat preserves the invariant.
LEMMA BeatKeepsLocalInv ==
  ASSUME LocalDeployment, LocalInv, TypeOK', NEW o \in Owner, BeatFree(o), Beat(o)
  PROVE  LocalInv'
<1>0. pc[o] \in Live
  BY DEF Beat, BeatRead, BeatReplace, BeatBlip, LocalInv, LocalBeatInv
<1>1. CASE BeatRead(o)
  <2>1. UNCHANGED <<docVars, mainVars, lastOk, stray>> BY <1>1 DEF BeatRead
  <2>2. CASE BeatLost(o)
    <3>1. /\ \A p \in Owner : p # o => beat'[p] = beat[p] /\ beatSnap'[p] = beatSnap[p]
                                        /\ beatAt'[p] = beatAt[p]
          /\ beat'[o] = "off"
      BY <2>2 DEF BeatLost, ForgetBeat, LocalInv, TypeOK
    <3> QED BY <1>0, <2>1, <3>1, LocalBeatMoveKeeps DEF docVars
  <2>3. CASE /\ Mine(o, doc) /\ beat' = [beat EXCEPT ![o] = "read"]
             /\ beatSnap' = [beatSnap EXCEPT ![o] = doc]
             /\ beatAt' = [beatAt EXCEPT ![o] = Clock(o)]
    <3>1. /\ \A p \in Owner : p # o => beat'[p] = beat[p] /\ beatSnap'[p] = beatSnap[p]
                                        /\ beatAt'[p] = beatAt[p]
          /\ beatSnap'[o] = doc /\ beatAt'[o] = Clock(o)
      BY <2>3 DEF LocalInv, TypeOK
    <3>2. Owns(o) BY <2>3 DEF Mine, Decodes, Owns
    <3> QED BY <1>0, <2>1, <3>1, <3>2, LocalBeatMoveKeeps DEF docVars
  <2> QED BY <1>1, <2>2, <2>3 DEF BeatRead
<1>2. CASE BeatReplace(o)
  <2>1. PICK t \in beatAt[o] .. Clock(o) :
          doc' = [beatSnap[o] EXCEPT !.renewed = t] /\ lastOk' = [lastOk EXCEPT ![o] = t]
    BY <1>2 DEF BeatReplace, ReplaceSucceeds, LocalDeployment
  <2>2. /\ doc = beatSnap[o] /\ Owns(o) /\ doc.renewed <= beatAt[o] /\ lastOk[o] <= beatAt[o]
    BY <1>2 DEF BeatReplace, LocalInv, LocalBeatInv
  <2>3. t \in Nat /\ t <= Clock(o) /\ doc.renewed <= t /\ lastOk[o] <= t
    BY <2>2, Numbers DEF LocalInv
  <2>4. /\ now' = now /\ UNCHANGED <<mainVars, stray>>
        /\ \A p \in Owner : p # o => lastOk'[p] = lastOk[p] /\ beat'[p] = beat[p]
        /\ lastOk'[o] = t /\ beat'[o] = "idle"
    BY <1>2, <2>1 DEF BeatReplace, ReplaceSucceeds, LocalDeployment, LocalInv, TypeOK
  <2>5. doc' = [doc EXCEPT !.renewed = t] BY <2>1, <2>2
  <2> QED BY <1>0, <2>2, <2>3, <2>4, <2>5, LocalRenewKeeps
<1>3. CASE BeatBlip(o)
  <2>1. /\ \A p \in Owner : p # o => beat'[p] = beat[p] /\ beatSnap'[p] = beatSnap[p]
                                      /\ beatAt'[p] = beatAt[p]
        /\ beat'[o] = "idle"
    BY <1>3 DEF BeatBlip, ForgetBeat, LocalInv, TypeOK
  <2> QED BY <1>0, <1>3, <2>1, LocalBeatMoveKeeps DEF BeatBlip, LocalDeployment, heldVars
<1> QED BY <1>1, <1>2, <1>3 DEF Beat

\* The clock goes on: no window is open, no write or open is at its limit.
LEMMA TickKeepsLocalInv ==
  ASSUME LocalDeployment, LocalInv, TypeOK', AllFree, Tick
  PROVE  LocalInv'
<1>0. /\ now' = now + 1 /\ doc' = doc /\ pc' = pc /\ stamp' = stamp /\ snap' = snap
      /\ until' = until /\ lastOk' = lastOk /\ stray' = stray
      /\ beat' = beat /\ beatSnap' = beatSnap /\ beatAt' = beatAt
  BY DEF Tick, mainVars, heldVars, beatVars
<1>1. \A o \in Owner : Clock(o)' = Clock(o) + 1 BY <1>0, Numbers DEF Clock, LocalInv
<1>2. LocalDocInv' BY <1>0, <1>1, Numbers DEF LocalInv, LocalDocInv
<1>3. LocalOpenInv'
  <2> SUFFICES ASSUME NEW p \in Owner
               PROVE  /\ pc[p] \in Opening \cup {"wipe"} => stamp[p] <= Clock(p) + 1
                      /\ pc[p] \in {"create", "write", "read", "reacquire", "wipe"} =>
                           Clock(p) + 1 <= stamp[p] + MaxOpen
                      /\ pc[p] = "write" =>
                           Unparseable(doc) /\ doc.owner = Token[p] /\ doc.renewed = stamp[p]
                      /\ pc[p] = "wait" => ~Owns(p)
                      /\ pc[p] = "takeover" =>
                           Unparseable(snap[p]) \/ stamp[p] > snap[p].renewed + TTL
                      /\ pc[p] = "unlink" =>
                           Unparseable(doc) \/ (Decodes(p, doc) /\ stamp[p] > doc.renewed + TTL)
                      /\ pc[p] = "reacquire" => Owns(p)
    BY <1>0, <1>1 DEF LocalOpenInv, Owns, Unparseable, Decodes
  <2>1. pc[p] \in {"create", "write", "read", "reacquire", "wipe"} =>
          Clock(p) < stamp[p] + MaxOpen
    BY DEF Tick, Opening
  <2> QED BY <2>1, Numbers, Bounds DEF LocalInv, LocalOpenInv
<1>4. HoldInv' BY <1>0, <1>1, Numbers, Bounds DEF LocalInv, HoldInv, Owns, Expirable
<1>5. LocalBeatInv' BY <1>0 DEF LocalInv, LocalBeatInv, Owns
<1>6. ReleaseInv' BY <1>0 DEF LocalInv, ReleaseInv, Owns
<1>7. BusyInv'
  <2>1. \A o \in Owner : pc[o] = "io" => now < until[o] BY DEF Tick
  <2> QED BY <1>0, <2>1, Numbers DEF LocalInv, BusyInv
<1> QED BY <1>2, <1>3, <1>4, <1>5, <1>6, <1>7 DEF LocalInv

\* In a local deployment the inductive invariant holds of every behaviour.
LEMMA LocalInvariant ==
  ASSUME LocalDeployment
  PROVE  Spec => []LocalInv
<1>1. Init => LocalInv
  <2> SUFFICES ASSUME Init PROVE LocalInv OBVIOUS
  <2>1. TypeOK BY DEF Init, TypeOK, PC, NoDoc, LeaseDoc, Stray
  <2>2. LocalDocInv /\ LocalOpenInv /\ HoldInv /\ LocalBeatInv /\ ReleaseInv /\ BusyInv
    BY DEF Init, LocalDocInv, LocalOpenInv, HoldInv, LocalBeatInv, ReleaseInv, BusyInv,
           Owns, Exists, NoDoc, Opening, Live
  <2> QED BY <2>1, <2>2 DEF LocalInv
<1>2. TypeOK' /\ LocalInv /\ [Next]_vars => LocalInv'
  <2> SUFFICES ASSUME TypeOK', LocalInv, [Next]_vars PROVE LocalInv' OBVIOUS
  <2>1. CASE UNCHANGED vars
    <3>1. /\ pc' = pc /\ stamp' = stamp /\ snap' = snap /\ until' = until
          /\ doc' = doc /\ now' = now /\ lastOk' = lastOk /\ stray' = stray
          /\ beat' = beat /\ beatSnap' = beatSnap /\ beatAt' = beatAt
      BY <2>1 DEF vars, docVars, mainVars, heldVars, beatVars
    <3>2. LocalDocInv' /\ LocalOpenInv'
      BY <3>1 DEF LocalInv, LocalDocInv, LocalOpenInv, Owns, Clock, Exists, Unparseable, Decodes
    <3>3. HoldInv' /\ LocalBeatInv' /\ ReleaseInv' /\ BusyInv'
      BY <3>1 DEF LocalInv, HoldInv, LocalBeatInv, ReleaseInv, BusyInv, Owns, Expirable, Clock
    <3> QED BY <3>2, <3>3 DEF LocalInv
  <2>2. CASE \E o \in Owner : MainFree(o) /\ Main(o) BY <2>2, MainKeepsLocalInv
  <2>3. CASE \E o \in Owner : BeatFree(o) /\ Beat(o) BY <2>3, BeatKeepsLocalInv
  <2>4. CASE AllFree /\ \E s \in stray : StrayLands(s) BY <2>4 DEF LocalInv, LocalBeatInv
  <2>5. CASE AllFree /\ Tick BY <2>5, TickKeepsLocalInv
  <2> QED BY <2>1, <2>2, <2>3, <2>4, <2>5 DEF Next
<1> QED BY <1>1, <1>2, TypeCorrect, PTL DEF Spec

\* A session inside a write or its opening wipe owns the document here too.
LEMMA LocalBusyOwns ==
  ASSUME LocalDeployment, LocalInv, NEW o \in Owner, Busy(o)
  PROVE  Owns(o)
<1>1. ~Expirable(o)
  <2> SUFFICES ASSUME NEW p \in Owner PROVE ~(Clock(p) > lastOk[o] + TTL) BY DEF Expirable
  <2>1. CASE pc[o] = "io"
    <3>1. now <= until[o] /\ until[o] + Skew[o] <= lastOk[o] + SelfExpiry + MaxStall
      BY <2>1 DEF LocalInv, BusyInv
    <3>2. SelfExpiry + MaxStall + Skew[p] <= TTL + Skew[o] BY DEF LocalDeployment
    <3> QED BY <3>1, <3>2, Numbers, Bounds DEF Clock, LocalInv
  <2>2. CASE pc[o] = "wipe"
    <3>1. stamp[o] <= lastOk[o] /\ Clock(o) <= stamp[o] + MaxOpen
      BY <2>2 DEF LocalInv, BusyInv, LocalOpenInv
    <3>2. MaxOpen + Skew[p] <= TTL + Skew[o] BY DEF LocalDeployment
    <3> QED BY <3>1, <3>2, Numbers, Bounds DEF Clock, LocalInv
  <2> QED BY <2>1, <2>2 DEF Busy
<1> QED BY <1>1 DEF LocalInv, HoldInv, Busy, Live

\* On a local directory whose residual windows nothing interleaves with, no two
\* sessions are ever both wiping or writing the scope.
THEOREM LocalMutualExclusion ==
  ASSUME LocalDeployment
  PROVE  Spec => []MutualExclusion
<1>1. LocalInv => MutualExclusion
  <2> SUFFICES ASSUME LocalInv, NEW o \in Owner, NEW p \in Owner, Busy(o), Busy(p) PROVE o = p
    BY DEF MutualExclusion
  <2>1. Owns(o) /\ Owns(p) BY LocalBusyOwns
  <2> QED BY <2>1 DEF Owns, LocalDeployment
<1> QED BY <1>1, LocalInvariant, PTL

-----------------------------------------------------------------------------
(* What happens to the document on a local directory *)

\* o writes its fresh document over its own.
Rewritten(o) == pc[o] = "reacquire" /\ doc' = Fresh(o, stamp[o])
\* o unlinks what it rechecked.
Unlinked(o) == pc[o] = "unlink" /\ doc' = NoDoc /\ pc'[o] = "create"

\* The main thread of a session touches a local document in four ways.
LEMMA LocalMainDocSteps ==
  ASSUME LocalDeployment, LocalInv, NEW o \in Owner, Main(o)
  PROVE  \/ doc' = doc \/ doc.state # "whole"
         \/ Rewritten(o) \/ Unlinked(o) \/ Deleted(o)
<1>1. Arm = "local" /\ pc \in [Owner -> PC] BY DEF LocalDeployment, LocalInv, TypeOK
<1>2. CASE Acquire(o)
  <2>1. CASE CreateS3(o) \/ TakeoverS3(o) BY <1>1, <2>1 DEF CreateS3, TakeoverS3
  <2>2. CASE CreateLocal(o) BY <2>2 DEF CreateLocal, NoDoc
  <2>3. CASE WriteAll(o) BY <2>3 DEF WriteAll, Unparseable
  <2>4. CASE Unlink(o) BY <1>1, <2>4 DEF Unlink, Unlinked, LoopTop, Goto
  <2>5. CASE Reacquire(o) BY <1>1, <2>5 DEF Reacquire, ReplaceSucceeds, Rewritten
  <2>6. CASE Open(o) \/ AlreadyExists(o) \/ Read(o) \/ Reread(o) \/ Recheck(o)
    BY <2>6 DEF Open, AlreadyExists, Read, Reread, Recheck, docVars
  <2> QED BY <1>2, <2>1, <2>2, <2>3, <2>4, <2>5, <2>6 DEF Acquire
<1>3. CASE AcquireLandsUnseen(o) BY <1>1, <1>3 DEF AcquireLandsUnseen
<1>4. CASE ReleaseDelete(o) BY <1>1, <1>4 DEF ReleaseDelete, Deleted, Goto
<1>5. CASE AcquireFails(o) \/ EndWipe(o) \/ StartWrite(o) \/ EndWrite(o)
  BY <1>5 DEF AcquireFails, EndWipe, StartWrite, EndWrite, docVars
<1>6. CASE Release(o) \/ Abandon(o) \/ Crash(o)
  BY <1>6 DEF Release, Abandon, Crash, docVars
<1> QED BY <1>2, <1>3, <1>4, <1>5, <1>6 DEF Main

\* Every step leaves a whole document alone, renews it, or does one of three.
LEMMA LocalDocSteps ==
  ASSUME LocalDeployment, LocalInv, [Next]_vars, doc.state = "whole"
  PROVE  doc' = doc \/ Renewed \/ \E p \in Owner : Rewritten(p) \/ Unlinked(p) \/ Deleted(p)
<1>1. CASE \E p \in Owner : Main(p) BY <1>1, LocalMainDocSteps
<1>2. CASE \E p \in Owner : Beat(p)
  <2>1. PICK p \in Owner : Beat(p) BY <1>2
  <2>2. \A t \in beatAt[p] .. Clock(p) : t \in Nat BY Numbers DEF LocalInv
  <2>3. CASE BeatRead(p) BY <2>3 DEF BeatRead, docVars
  <2>4. CASE BeatReplace(p)
    <3>1. doc = beatSnap[p] BY <2>4 DEF BeatReplace, LocalInv, LocalBeatInv
    <3> QED BY <2>2, <2>4, <3>1 DEF BeatReplace, Renewed
  <2>5. CASE BeatBlip(p) BY <2>5 DEF BeatBlip, LocalDeployment
  <2> QED BY <2>1, <2>3, <2>4, <2>5 DEF Beat
<1>3. stray = {} BY DEF LocalInv, LocalBeatInv
<1>4. CASE Tick BY <1>4 DEF Tick
<1>5. CASE UNCHANGED vars BY <1>5 DEF vars, docVars
<1> QED BY <1>1, <1>2, <1>3, <1>4, <1>5 DEF Next

\* On a local directory, with the windows undisturbed, no step of anyone removes
\* or replaces the document of a live session no host's clock finds expired.
THEOREM LocalFreshHolderKept ==
  ASSUME LocalDeployment
  PROVE  Spec => FreshHolderKept
<1> DEFINE Fresher(o) == /\ pc[o] \in Live /\ Mine(o, doc)
                         /\ \A p \in Owner : Clock(p) - doc.renewed <= TTL
           Kept(o) == doc'.state = "whole" /\ doc'.owner = Token[o]
<1>1. LocalInv /\ [Next]_vars => \A o \in Owner : Fresher(o) => Kept(o)
  <2> SUFFICES ASSUME LocalInv, [Next]_vars, NEW o \in Owner, Fresher(o) PROVE Kept(o)
    OBVIOUS
  <2>1. doc.state = "whole" /\ doc.owner = Token[o] BY DEF Mine, Decodes
  <2>2. CASE doc' = doc BY <2>1, <2>2
  <2>3. CASE Renewed
    <3>1. doc \in LeaseDoc BY DEF LocalInv, TypeOK
    <3> QED BY <2>1, <2>3, <3>1 DEF Renewed, LeaseDoc
  <2>4. ASSUME NEW p \in Owner, Rewritten(p) PROVE Kept(o)
    <3>1. Token[p] = Token[o] BY <2>1, <2>4 DEF Rewritten, LocalInv, LocalOpenInv, Owns
    <3> QED BY <2>4, <3>1 DEF Rewritten, Fresh
  <2>5. ASSUME NEW p \in Owner, Unlinked(p) PROVE FALSE
    <3>1. stamp[p] > doc.renewed + TTL /\ stamp[p] <= Clock(p)
      BY <2>1, <2>5 DEF Unlinked, LocalInv, LocalOpenInv, Opening, Unparseable
    <3>2. Clock(p) - doc.renewed <= TTL OBVIOUS
    <3> QED BY <3>1, <3>2, Numbers, Bounds DEF LocalInv
  <2>6. ASSUME NEW p \in Owner, Deleted(p) PROVE Kept(o)
    <3>1. pc[p] = "release" /\ Owns(p) BY <2>6 DEF Deleted, LocalInv, ReleaseInv
    <3>2. p = o BY <2>1, <3>1 DEF Owns, LocalDeployment
    <3> QED BY <3>1, <3>2 DEF Live
  <2> QED BY <2>1, <2>2, <2>3, <2>4, <2>5, <2>6, LocalDocSteps
<1>2. LocalInv /\ [Next]_vars => [\A o \in Owner : Fresher(o) => Kept(o)]_vars BY <1>1
<1> QED BY <1>2, LocalInvariant, PTL DEF Spec, FreshHolderKept

\* Nor, there, does a build replace a document of a newer format or remove it.
THEOREM LocalNewerFormatRespected ==
  ASSUME LocalDeployment
  PROVE  Spec => NewerFormatRespected
<1>1. LocalInv /\ [Next]_vars =>
        [doc' # doc /\ doc.state = "whole" =>
           IF Exists(doc') THEN doc'.ver >= doc.ver
                           ELSE \E o \in Owner : pc'[o] # pc[o] /\ Build[o] >= doc.ver]_vars
  <2> SUFFICES ASSUME LocalInv, [Next]_vars, doc' # doc, doc.state = "whole"
               PROVE  IF Exists(doc') THEN doc'.ver >= doc.ver
                      ELSE \E o \in Owner : pc'[o] # pc[o] /\ Build[o] >= doc.ver
    OBVIOUS
  <2>0. doc \in LeaseDoc /\ doc.ver \in Nat /\ \A o \in Owner : Build[o] \in Nat
    BY ConstantsAssumption DEF ConstantsAssumption, LocalInv, TypeOK, LeaseDoc
  <2>1. CASE Renewed
    <3>1. doc'.ver = doc.ver /\ doc'.state = "whole" BY <2>0, <2>1 DEF Renewed, LeaseDoc
    <3> QED BY <2>0, <3>1 DEF Exists
  <2>2. ASSUME NEW p \in Owner, Owns(p) PROVE doc.ver = Build[p]
    BY <2>2 DEF LocalInv, LocalDocInv, Owns, Exists
  <2>3. ASSUME NEW p \in Owner, Rewritten(p)
        PROVE  doc'.state = "whole" /\ doc'.ver >= doc.ver
    <3>1. doc.ver = Build[p] BY <2>2, <2>3 DEF Rewritten, LocalInv, LocalOpenInv
    <3> QED BY <2>0, <2>3, <3>1 DEF Rewritten, Fresh
  <2>4. ASSUME NEW p \in Owner, Unlinked(p)
        PROVE  ~Exists(doc') /\ pc'[p] # pc[p] /\ Build[p] >= doc.ver
    <3>1. Decodes(p, doc) BY <2>4 DEF Unlinked, LocalInv, LocalOpenInv, Unparseable
    <3> QED BY <2>0, <2>4, <3>1 DEF Unlinked, Exists, NoDoc, Decodes
  <2>5. ASSUME NEW p \in Owner, Deleted(p)
        PROVE  ~Exists(doc') /\ pc'[p] # pc[p] /\ Build[p] >= doc.ver
    <3>1. doc.ver = Build[p] BY <2>2, <2>5 DEF Deleted, LocalInv, ReleaseInv
    <3> QED BY <2>0, <2>5, <3>1 DEF Deleted, Exists, NoDoc
  <2> QED BY <2>1, <2>3, <2>4, <2>5, LocalDocSteps DEF Exists
<1> QED BY <1>1, LocalInvariant, PTL DEF Spec, NewerFormatRespected

=============================================================================
