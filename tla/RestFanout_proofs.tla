------------------------- MODULE RestFanout_proofs -------------------------
(***************************************************************************)
(* Theorems of RestFanout, for any parents, any concurrency limit and any  *)
(* number of revoked, expired and failed tokens and requests: children     *)
(* share a token soundly, and the checkpoint covers every one of them; and *)
(* of RestRead, the stream without a parent, as an instance, for any list, *)
(* page size and configuration.                                            *)
(***************************************************************************)
EXTENDS RestFanout, TLAPS, FiniteSetTheorems, SequenceTheorems

Child == [st : {"waiting", "attach", "fetching", "flight", "rejected", "page", "done"},
          page : Nat \ {0}, gen : Nat, tok : Nat \cup {Null}, retried : BOOLEAN]

\* Of the children, only c moves.
Only(c) == \A d \in Children \ {c} : child'[d] = child[d]

\* A child has a whole number of pages.
LEMMA PagesCounted ==
  ASSUME FanoutAssumption, NEW c \in Children PROVE Len(Lists[c]) \in Nat
<1>1. Lists[c] \in Seq(Nat) BY DEF FanoutAssumption, Children
<1> QED BY <1>1

-----------------------------------------------------------------------------
(* What the actions do to the child that takes them *)

\* A child that only changes its state keeps its page, token and retry flag.
LEMMA MovesEffect ==
  ASSUME TypeOK, NEW c \in Children,
         NEW st \in {"attach", "fetching", "rejected", "page", "done"}, Moves(c, st)
  PROVE  /\ child' \in [Children -> Child] /\ Only(c)
         /\ child'[c].st = st /\ child'[c].page = child[c].page /\ child'[c].gen = child[c].gen
         /\ child'[c].tok = child[c].tok /\ child'[c].retried = child[c].retried
<1> DEFINE r == [child[c] EXCEPT !.st = st]
<1>1. child \in [Children -> Child] BY DEF TypeOK, Child
<1>2. r \in Child BY <1>1 DEF Child
<1>3. child' = [child EXCEPT ![c] = r] BY DEF Moves
<1>4. child'[c] = r /\ child' \in [Children -> Child] /\ Only(c)
  BY <1>1, <1>2, <1>3 DEF Only
<1> QED BY <1>1, <1>4 DEF Child

\* A child that takes the token keeps its page and retry flag.
LEMMA CarryEffect ==
  ASSUME TypeOK, NEW c \in Children, NEW t \in Nat, NEW g \in Nat, Carry(c, t, g)
  PROVE  /\ child' \in [Children -> Child] /\ Only(c)
         /\ child'[c].st = "flight" /\ child'[c].page = child[c].page /\ child'[c].gen = g
         /\ child'[c].tok = t /\ child'[c].retried = child[c].retried
<1> DEFINE r == [child[c] EXCEPT !.st = "flight", !.tok = t, !.gen = g]
<1>1. child \in [Children -> Child] BY DEF TypeOK, Child
<1>2. /\ r \in Child /\ r.st = "flight" /\ r.tok = t /\ r.gen = g
      /\ r.page = child[c].page /\ r.retried = child[c].retried
  BY <1>1 DEF Child
<1>3. child' = [child EXCEPT ![c] = r] BY DEF Carry
<1> HIDE DEF r
<1>4. child'[c] = r /\ child' \in [Children -> Child] /\ Only(c)
  BY <1>1, <1>2, <1>3 DEF Only
<1> QED BY <1>2, <1>4

\* A child that goes again remembers that it does.
LEMMA AgainEffect ==
  ASSUME TypeOK, NEW c \in Children, Again(c)
  PROVE  /\ child' \in [Children -> Child] /\ Only(c)
         /\ child'[c].st = "attach" /\ child'[c].page = child[c].page /\ child'[c].retried
<1> DEFINE r == [child[c] EXCEPT !.st = "attach", !.retried = TRUE]
<1>1. child \in [Children -> Child] BY DEF TypeOK, Child
<1>2. r \in Child /\ r.st = "attach" /\ r.retried /\ r.page = child[c].page
  BY <1>1 DEF Child
<1>3. child' = [child EXCEPT ![c] = r] BY DEF Again
<1> HIDE DEF r
<1>4. child'[c] = r /\ child' \in [Children -> Child] /\ Only(c)
  BY <1>1, <1>2, <1>3 DEF Only
<1> QED BY <1>2, <1>4

\* A child that pushed its page turns to the next, or is done after the last.
LEMMA PushEffect ==
  ASSUME FanoutAssumption, TypeOK, NEW c \in Children, Push(c)
  PROVE  /\ child' \in [Children -> Child] /\ Only(c)
         /\ child'[c].st \in {"attach", "done"} /\ ~child'[c].retried
         /\ child'[c].page = child[c].page + 1
         /\ child'[c].st = "done" => child[c].page >= Len(Lists[c])
<1> DEFINE s == IF child[c].page < Len(Lists[c]) THEN "attach" ELSE "done"
           r == [child[c] EXCEPT !.page = @ + 1, !.retried = FALSE, !.st = s]
<1>1. child \in [Children -> Child] BY DEF TypeOK, Child
<1>2. child[c].page \in Nat /\ Len(Lists[c]) \in Nat
  BY <1>1, PagesCounted DEF Child
<1>3. child[c].page < Len(Lists[c]) \/ child[c].page >= Len(Lists[c])
  BY <1>2
<1>4. s = "attach" \/ (s = "done" /\ ~(child[c].page < Len(Lists[c])))
  OBVIOUS
<1> HIDE DEF s
<1>7. child[c].page + 1 \in Nat \ {0} /\ s \in {"attach", "done"}
  BY <1>2, <1>4
<1>8. r \in Child /\ r.st = s /\ ~r.retried /\ r.page = child[c].page + 1
  BY <1>1, <1>7 DEF Child
<1>5. child' = [child EXCEPT ![c] = r] BY DEF Push, s
<1> HIDE DEF r
<1>6. child'[c] = r /\ child' \in [Children -> Child] /\ Only(c)
  BY <1>1, <1>8, <1>5 DEF Only
<1> QED BY <1>3, <1>4, <1>6, <1>8

-----------------------------------------------------------------------------
(* Type correctness *)

\* The initial state is well typed.
LEMMA TypeInit == ASSUME FanoutAssumption, Init PROVE TypeOK
<1>1. Idle \in Child BY DEF Idle, Child
<1>2. child \in [Children -> Child] BY <1>1 DEF Init
<1>3. /\ chan \in Seq(Children \X Nat)
      /\ valid \subseteq 1 .. issued
  BY DEF Init
<1> QED BY <1>2, <1>3 DEF Init, TypeOK, Child

\* A step of a child keeps the state well typed.
LEMMA TypeChild ==
  ASSUME FanoutAssumption, TypeOK, NEW c \in Children,
         \/ Start(c) \/ Attach(c) \/ Fetch(c) \/ Respond(c) \/ OnUnauthorized(c) \/ Push(c)
         \/ FetchFails(c) \/ RequestFails(c)
  PROVE  TypeOK'
<1>0. child \in [Children -> Child] BY DEF TypeOK, Child
<1>1. CASE Start(c)
  <2>1. child' \in [Children -> Child] BY <1>1, MovesEffect DEF Start
  <2> QED BY <1>1, <2>1 DEF TypeOK, Start, token, feed, Child
<1>2. CASE Attach(c)
  <2>1. child' \in [Children -> Child]
    BY <1>2, MovesEffect, CarryEffect DEF Attach, TypeOK
  <2>2. lock' \in Children \cup {Null} BY <1>2 DEF Attach, TypeOK
  <2> QED BY <1>2, <2>1, <2>2 DEF TypeOK, Attach, feed, Child
<1>3. CASE Fetch(c)
  <2>1. issued' \in Nat /\ generation' \in Nat /\ cached' \in Nat BY <1>3 DEF Fetch, TypeOK
  <2>2. child' \in [Children -> Child] BY <1>3, <2>1, CarryEffect DEF Fetch
  <2>3. valid' \subseteq 1 .. issued' BY <1>3 DEF Fetch, TypeOK
  <2> QED BY <1>3, <2>1, <2>2, <2>3 DEF TypeOK, Fetch, feed, Child
<1>4. CASE Respond(c)
  <2>1. child' \in [Children -> Child] BY <1>4, MovesEffect DEF Respond
  <2> QED BY <1>4, <2>1 DEF TypeOK, Respond, token, feed, Child
<1>5. CASE OnUnauthorized(c)
  <2>1. child' \in [Children -> Child]
    BY <1>0, <1>5, AgainEffect DEF OnUnauthorized, Fail
  <2>2. /\ cached' \in Nat \cup {Null} /\ expired' \in BOOLEAN /\ generation' \in Nat
        /\ lock' \in Children \cup {Null} /\ driven' \in {"running", "done", "failed"}
        /\ UNCHANGED <<chan, fwd, valid, issued, revoked, expirations, failed, feed>>
    BY <1>5 DEF OnUnauthorized, Fail, Evict, TypeOK, token, feed
  <2> QED BY <2>1, <2>2 DEF TypeOK, feed, Child
<1>6. CASE Push(c)
  <2>1. child' \in [Children -> Child] BY <1>6, PushEffect
  <2>2. child[c].page \in Nat BY <1>0 DEF Child
  <2>3. chan' \in Seq(Children \X Nat) BY <1>6, <2>2 DEF Push, TypeOK
  <2> QED BY <1>6, <2>1, <2>3 DEF TypeOK, Push, token, feed, Child
<1>7. CASE FetchFails(c) \/ RequestFails(c)
  <2>1. failed' \in Nat /\ driven' = "failed" /\ lock' = Null
    BY <1>7 DEF TypeOK, FetchFails, RequestFails, Fail
  <2>2. UNCHANGED <<child, chan, fwd, cached, expired, generation, valid, issued, revoked,
                    expirations, feed>>
    BY <1>7 DEF FetchFails, RequestFails, Fail
  <2> QED BY <2>1, <2>2 DEF TypeOK, feed
<1> QED BY <1>1, <1>2, <1>3, <1>4, <1>5, <1>6, <1>7

\* Every step keeps the state well typed.
LEMMA TypeStep == ASSUME FanoutAssumption, TypeOK, [Next]_vars PROVE TypeOK'
<1>1. CASE Forward
  <2>1. chan' \in Seq(Children \X Nat) BY <1>1 DEF Forward, TypeOK
  <2> QED BY <1>1, <2>1 DEF TypeOK, Forward, token
<1>2. CASE ForwardEnds \/ DriveDone \/ Join \/ Close
  BY <1>2 DEF TypeOK, ForwardEnds, DriveDone, Join, Close, token, feed
<1>3. CASE Revoke \/ Expire
  <2>1. /\ valid' \subseteq 1 .. issued' /\ revoked' \in Nat
        /\ expirations' \in Nat /\ expired' \in BOOLEAN
    <3>1. CASE Revoke BY <3>1 DEF TypeOK, Revoke
    <3>2. CASE Expire BY <3>2 DEF TypeOK, Expire
    <3> QED BY <1>3, <3>1, <3>2
  <2>2. UNCHANGED <<child, chan, fwd, driven, cached, generation, lock, issued, failed, feed>>
    BY <1>3 DEF Revoke, Expire
  <2> QED BY <2>1, <2>2 DEF TypeOK, feed
<1>4. CASE UNCHANGED vars
  BY <1>4 DEF TypeOK, vars
<1> QED BY <1>1, <1>2, <1>3, <1>4, TypeChild DEF Next, Reads

\* The state is well typed in every behaviour.
THEOREM TypeCorrect == ASSUME FanoutAssumption PROVE Spec => []TypeOK
<1>1. Init => TypeOK BY TypeInit
<1>2. TypeOK /\ [Next]_vars => TypeOK' BY TypeStep
<1> QED BY <1>1, <1>2, PTL DEF Spec

-----------------------------------------------------------------------------
(* Tokens *)

\* The tokens accepted are finitely many.
LEMMA ValidFinite ==
  ASSUME TypeOK
  PROVE  IsFiniteSet(valid) /\ Cardinality(valid) \in Nat /\ Cardinality(valid) <= issued
<1>1. issued \in Nat /\ valid \in SUBSET (1 .. issued) BY DEF TypeOK
<1>2. IsFiniteSet(1 .. issued) /\ Cardinality(1 .. issued) = issued
  BY <1>1, FS_Interval
<1>3. IsFiniteSet(valid) /\ Cardinality(valid) <= Cardinality(1 .. issued)
  BY <1>1, <1>2, FS_Subset
<1> QED BY <1>2, <1>3, FS_CardinalityType

\* Two dead tokens are two that were taken back.
LEMMA TwoDead ==
  ASSUME TypeOK, TokensCounted, NEW t \in 1 .. issued, t \notin valid, Dead(t - 1)
  PROVE  revoked > 1
<1>1. PICK u \in 1 .. t - 1 : u \notin valid BY DEF Dead
<1>2. issued \in Nat /\ u \in 1 .. issued /\ u # t BY <1>1 DEF TypeOK
<1> DEFINE I == 1 .. issued
           J == I \ {t}
           K == J \ {u}
<1>3. IsFiniteSet(I) /\ Cardinality(I) = issued BY <1>2, FS_Interval
<1>4. t \in I /\ u \in J /\ valid \subseteq K BY <1>1, <1>2 DEF TypeOK
<1> HIDE DEF I
<1>5. IsFiniteSet(J) /\ Cardinality(J) = issued - 1
  BY <1>3, <1>4, FS_RemoveElement
<1> HIDE DEF J
<1>6. IsFiniteSet(K) /\ Cardinality(K) = Cardinality(J) - 1
  BY <1>4, <1>5, FS_RemoveElement
<1> HIDE DEF K
<1>9. Cardinality(valid) <= Cardinality(K) BY <1>4, <1>6, FS_Subset
<1>7. Cardinality(valid) <= issued - 2 BY <1>2, <1>5, <1>6, <1>9, ValidFinite
<1>8. issued = Cardinality(valid) + revoked BY DEF TokensCounted
<1> QED BY <1>2, <1>7, <1>8, ValidFinite DEF TypeOK

\* At the start nothing was issued, and no child carries anything.
LEMMA TokenInit == ASSUME FanoutAssumption, Init PROVE TokenInv
<1>1. Null \notin Nat BY DEF FanoutAssumption
<1>2. \A c \in Children : child[c].st = "waiting" /\ ~child[c].retried BY DEF Init, Idle
<1>3. TokensCounted
  <2>1. valid = {} /\ cached = Null /\ issued = 0 /\ revoked = 0 /\ expirations = 0
    BY DEF Init
  <2>2. valid \ Usable = {} BY <2>1
  <2>3. Cardinality(valid) = 0 /\ Cardinality(valid \ Usable) = 0
    BY <2>1, <2>2, FS_EmptySet
  <2> QED BY <2>1, <2>3 DEF TokensCounted
<1> QED BY <1>2, <1>3 DEF Init, TokenInv, FetchAlone, CarriedToken, RetryHasDead,
                          OneRevocationForgiven, At

\* A step that leaves the token alone, and the children but for one that
\* neither fetches nor carries afterwards.
LEMMA TokenKept ==
  ASSUME TypeOK, TokenInv, UNCHANGED <<token, failed>>, driven' \in {driven, "done"},
         NEW c \in Children, Only(c),
         \/ child'[c] = child[c]
         \/ child'[c].st \in {"attach", "page", "done"} /\ ~child'[c].retried
         \/ child'[c].st \in {"page", "done"}
         \/ child'[c].st = "attach" /\ Dead(IF cached = Null THEN issued ELSE cached - 1)
         \/ /\ child'[c].st = "rejected" /\ child[c].st = "flight" /\ child[c].tok \notin valid
            /\ child'[c].tok = child[c].tok /\ child'[c].gen = child[c].gen
            /\ child'[c].retried = child[c].retried
  PROVE  TokenInv'
<1>1. UNCHANGED <<cached, expired, generation, lock, valid, issued, revoked, expirations>>
  BY DEF token
<1>2. TokensCounted' BY <1>1 DEF TokenInv, TokensCounted, Usable
<1>3. FetchAlone' BY <1>1 DEF TokenInv, FetchAlone, At, Usable, Only
<1>4. CarriedToken' BY <1>1 DEF TokenInv, CarriedToken, Only
<1>5. RetryHasDead' BY <1>1 DEF TokenInv, RetryHasDead, Dead, Only
<1>6. OneRevocationForgiven' BY <1>1 DEF TokenInv, OneRevocationForgiven
<1> QED BY <1>2, <1>3, <1>4, <1>5, <1>6 DEF TokenInv

\* The read fails: a request did, or a second token died.
LEMMA TokenFail ==
  ASSUME TypeOK, TokenInv, Fail, failed' \in Nat, failed' >= failed, failed' > 0 \/ revoked > 1
  PROVE  TokenInv'
<1>1. UNCHANGED <<child, cached, expired, generation, valid, issued, revoked, expirations>>
      /\ driven' = "failed"
  BY DEF Fail
<1>2. TokensCounted' BY <1>1 DEF TokenInv, TokensCounted, Usable
<1>3. FetchAlone' BY <1>1 DEF FetchAlone, At
<1>4. CarriedToken' BY <1>1 DEF TokenInv, CarriedToken
<1>5. RetryHasDead' BY <1>1 DEF TokenInv, RetryHasDead, Dead
<1>6. OneRevocationForgiven' BY <1>1 DEF OneRevocationForgiven
<1> QED BY <1>2, <1>3, <1>4, <1>5, <1>6 DEF TokenInv

\* Attach takes a usable token, or the lock on an unusable one.
LEMMA TokenAttach ==
  ASSUME FanoutAssumption, TypeOK, TokenInv, NEW c \in Children, Attach(c) PROVE TokenInv'
<1>0. c # Null BY DEF FanoutAssumption, Children
<1>1. /\ child[c].st = "attach" /\ lock = Null /\ driven = "running"
      /\ UNCHANGED <<driven, cached, expired, generation, valid, issued, revoked, expirations, failed>>
  BY DEF Attach, At
<1>2. CASE cached # Null /\ ~expired
  <2>1. cached \in Nat /\ generation \in Nat BY <1>2 DEF TypeOK
  <2>2. Carry(c, cached, generation) /\ lock' = lock BY <1>2 DEF Attach
  <2>3. /\ Only(c) /\ child'[c].st = "flight" /\ child'[c].tok = cached
        /\ child'[c].gen = generation /\ child'[c].retried = child[c].retried
    BY <2>1, <2>2, CarryEffect
  <2>4. cached \in 1 .. issued BY <1>2 DEF TokenInv, TokensCounted
  <2>5. TokensCounted' BY <1>1 DEF TokenInv, TokensCounted, Usable
  <2>6. FetchAlone' BY <1>1, <2>2, <2>3 DEF TokenInv, FetchAlone, At, Usable, Only
  <2>7. CarriedToken' BY <1>1, <2>1, <2>3, <2>4 DEF TokenInv, CarriedToken, Only
  <2>8. RetryHasDead' BY <1>1, <1>2, <2>3 DEF TokenInv, RetryHasDead, Dead, Only
  <2>9. OneRevocationForgiven' BY <1>1 DEF TokenInv, OneRevocationForgiven
  <2> QED BY <2>5, <2>6, <2>7, <2>8, <2>9 DEF TokenInv
<1>3. CASE ~(cached # Null /\ ~expired)
  <2>1. Moves(c, "fetching") /\ lock' = c BY <1>3 DEF Attach
  <2>2. Only(c) /\ child'[c].st = "fetching" /\ child'[c].retried = child[c].retried
    BY <2>1, MovesEffect
  <2>3. Usable = {} /\ Usable' = {} BY <1>1, <1>3 DEF Usable
  <2>4. \A d \in Children : ~At(d, "fetching")
    BY <1>0, <1>1 DEF TokenInv, FetchAlone, FanoutAssumption, Children
  <2>5. TokensCounted' BY <1>1 DEF TokenInv, TokensCounted, Usable
  <2>6. FetchAlone' BY <1>1, <2>1, <2>2, <2>3, <2>4 DEF FetchAlone, At, Only
  <2>7. CarriedToken' BY <1>1, <2>2 DEF TokenInv, CarriedToken, Only
  <2>8. RetryHasDead' BY <1>1, <2>2 DEF TokenInv, RetryHasDead, Dead, Only
  <2>9. OneRevocationForgiven' BY <1>1 DEF TokenInv, OneRevocationForgiven
  <2> QED BY <2>5, <2>6, <2>7, <2>8, <2>9 DEF TokenInv
<1> QED BY <1>2, <1>3

\* Fetch issues one token more, which nobody carries but the child itself.
LEMMA TokenFetch ==
  ASSUME FanoutAssumption, TypeOK, TokenInv, NEW c \in Children, Fetch(c) PROVE TokenInv'
<1> DEFINE n == issued + 1
<1>1. /\ child[c].st = "fetching" /\ driven = "running" /\ At(c, "fetching")
      /\ issued' = n /\ valid' = valid \cup {n} /\ cached' = n /\ ~expired'
      /\ generation' = generation + 1 /\ lock' = Null
      /\ UNCHANGED <<driven, revoked, expirations, failed>>
  BY DEF Fetch, At
<1>2. issued \in Nat /\ generation \in Nat /\ n \in Nat /\ n # Null
  BY DEF TypeOK, FanoutAssumption
<1>3. Carry(c, n, generation + 1) BY <1>1 DEF Fetch
<1>4. /\ Only(c) /\ child'[c].st = "flight" /\ child'[c].tok = n
      /\ child'[c].gen = generation + 1 /\ child'[c].retried = child[c].retried
  BY <1>2, <1>3, CarryEffect
<1>5. lock = c /\ Usable = {} /\ \A d \in Children \ {c} : child[d].st # "fetching"
  BY <1>1 DEF TokenInv, FetchAlone, At
<1>6. Usable' = {n} BY <1>1, <1>2 DEF Usable
<1>7. n \notin valid BY <1>2 DEF TypeOK
<1>8. TokensCounted'
  <2>1. Cardinality(valid') = Cardinality(valid) + 1
    BY <1>1, <1>7, ValidFinite, FS_AddElement
  <2>2. valid' \ Usable' = valid \ Usable BY <1>1, <1>5, <1>6, <1>7
  <2>3. issued' = Cardinality(valid') + revoked'
    BY <1>1, <1>2, <2>1, ValidFinite DEF TokenInv, TokensCounted, TypeOK
  <2>4. Cardinality(valid' \ Usable') <= expirations'
    BY <1>1, <2>2 DEF TokenInv, TokensCounted
  <2>5. cached' \in 1 .. issued' BY <1>1, <1>2
  <2> QED BY <2>3, <2>4, <2>5 DEF TokensCounted
<1>9. FetchAlone' BY <1>4, <1>5 DEF FetchAlone, At, Only
<1>10. CarriedToken'
  <2>1. ASSUME NEW d \in Children, d # c, child'[d].st \in {"flight", "rejected"}
        PROVE  /\ child'[d].tok \in 1 .. issued' /\ child'[d].gen <= generation'
               /\ child'[d].gen # generation' /\ child'[d].tok < cached'
               /\ child'[d].st = "rejected" => child'[d].tok \notin valid'
    <3>1. child'[d] = child[d] BY <1>4, <2>1 DEF Only
    <3>2. /\ child[d].tok \in 1 .. issued /\ child[d].gen <= generation
          /\ child[d].st = "rejected" => child[d].tok \notin valid
      BY <2>1, <3>1 DEF TokenInv, CarriedToken
    <3>3. child[d].gen \in Nat BY DEF TypeOK
    <3> QED BY <1>1, <1>2, <3>1, <3>2, <3>3
  <2> QED BY <1>1, <1>2, <1>4, <2>1 DEF CarriedToken
<1>11. RetryHasDead'
  <2>1. valid' \ valid \subseteq Nat \ (1 .. issued) BY <1>1, <1>2
  <2>4. Dead(IF cached = Null THEN issued ELSE cached - 1) => Dead(issued)
    BY <1>2 DEF TokenInv, TokensCounted, Dead
  <2>2. ASSUME NEW d \in Children, child'[d].retried,
               child'[d].st \in {"flight", "rejected"}
        PROVE  Dead(child[d].tok - 1)'
    <3>1. CASE d = c
      <4>1. Dead(IF cached = Null THEN issued ELSE cached - 1)
        BY <1>1, <1>4, <2>2, <3>1 DEF TokenInv, RetryHasDead
      <4>2. Dead(issued) BY <4>1, <2>4
      <4>3. child'[d].tok - 1 = issued BY <1>2, <1>4, <3>1
      <4> QED BY <1>2, <2>1, <4>2, <4>3 DEF Dead
    <3>2. CASE d # c
      <4>1. child'[d] = child[d] BY <1>4, <3>2 DEF Only
      <4>2. child[d].tok \in 1 .. issued /\ Dead(child[d].tok - 1)
        BY <2>2, <4>1 DEF TokenInv, CarriedToken, RetryHasDead
      <4> QED BY <1>2, <2>1, <4>1, <4>2 DEF Dead
    <3> QED BY <3>1, <3>2
  <2>3. ASSUME NEW d \in Children, child'[d].retried,
               child'[d].st \in {"attach", "fetching"}
        PROVE  Dead(cached - 1)'
    <3>1. child'[d] = child[d] BY <1>4, <2>3 DEF Only
    <3>2. Dead(IF cached = Null THEN issued ELSE cached - 1)
      BY <2>3, <3>1 DEF TokenInv, RetryHasDead
    <3>3. Dead(issued) BY <3>2, <2>4
    <3>4. cached' - 1 = issued BY <1>1, <1>2
    <3> QED BY <1>2, <2>1, <3>3, <3>4 DEF Dead
  <2>5. \A d \in Children : child'[d].retried => child'[d].st # "waiting"
    BY <1>4 DEF TokenInv, RetryHasDead, Only
  <2>6. cached' # Null BY <1>1, <1>2
  <2> QED BY <2>2, <2>3, <2>5, <2>6 DEF RetryHasDead
<1>12. OneRevocationForgiven' BY <1>1 DEF OneRevocationForgiven
<1> QED BY <1>8, <1>9, <1>10, <1>11, <1>12 DEF TokenInv

\* A rejection: the carrier's generation is the current one only while its
\* token is the cached one, so what is evicted was taken back.
LEMMA TokenUnauthorized ==
  ASSUME FanoutAssumption, TypeOK, TokenInv, NEW c \in Children, OnUnauthorized(c) PROVE TokenInv'
<1>1. /\ child[c].st = "rejected" /\ driven = "running" /\ lock = Null
      /\ UNCHANGED failed
  BY DEF OnUnauthorized, At
<1>2. /\ child[c].tok \in 1 .. issued /\ child[c].tok \notin valid
      /\ child[c].gen <= generation /\ child[c].gen \in Nat /\ generation \in Nat
      /\ child[c].gen = generation => cached = child[c].tok
      /\ child[c].gen < generation /\ cached # Null => child[c].tok < cached
      /\ issued \in Nat /\ failed \in Nat /\ Null \notin Nat
      /\ cached # Null => cached \in 1 .. issued
  BY <1>1 DEF TokenInv, CarriedToken, TokensCounted, TypeOK, FanoutAssumption
<1>3. CASE child[c].retried
  <2>1. Fail BY <1>3 DEF OnUnauthorized
  <2>2. revoked > 1 BY <1>1, <1>2, <1>3, TwoDead DEF TokenInv, RetryHasDead
  <2> QED BY <1>1, <1>2, <2>1, <2>2, TokenFail
<1>4. CASE ~child[c].retried /\ child[c].gen # generation
  <2>1. Again(c) /\ UNCHANGED <<token, driven>> BY <1>4 DEF OnUnauthorized
  <2>2. Only(c) /\ child'[c].st = "attach" BY <2>1, AgainEffect
  <2>3. Dead(IF cached = Null THEN issued ELSE cached - 1)
    BY <1>2, <1>4 DEF Dead
  <2> QED BY <1>1, <2>1, <2>2, <2>3, TokenKept
<1>5. CASE ~child[c].retried /\ child[c].gen = generation
  <2>1. /\ Again(c) /\ cached' = Null /\ generation' = generation + 1
        /\ UNCHANGED <<expired, lock, valid, issued, revoked, expirations, driven>>
    BY <1>2, <1>5 DEF OnUnauthorized, Evict
  <2>2. Only(c) /\ child'[c].st = "attach" BY <2>1, AgainEffect
  <2>3. valid \ Usable = valid /\ valid' \ Usable' = valid
    BY <1>2, <1>5, <2>1 DEF Usable
  <2>4. TokensCounted' BY <2>1, <2>3 DEF TokenInv, TokensCounted
  <2>5. FetchAlone' BY <1>1, <1>2, <2>1, <2>2 DEF TokenInv, FetchAlone, At, Usable, Only,
                                                FanoutAssumption, Children
  <2>6. CarriedToken'
    <3>1. ASSUME NEW d \in Children, child'[d].st \in {"flight", "rejected"}
          PROVE  /\ child'[d] = child[d] /\ child[d].tok \in 1 .. issued
                 /\ child[d].gen < generation'
                 /\ child[d].st = "rejected" => child[d].tok \notin valid
      <4>1. d # c /\ child'[d] = child[d] BY <2>2, <3>1 DEF Only
      <4>2. child[d].gen \in Nat BY DEF TypeOK
      <4> QED BY <1>2, <2>1, <3>1, <4>1, <4>2 DEF TokenInv, CarriedToken
    <3>2. \A d \in Children : child[d].gen \in Nat BY DEF TypeOK
    <3> QED BY <1>2, <2>1, <3>1, <3>2 DEF CarriedToken
  <2>7. RetryHasDead'
    <3>1. Dead(issued) /\ cached \in 1 .. issued BY <1>2, <1>5 DEF Dead
    <3> QED BY <2>1, <2>2, <3>1 DEF TokenInv, RetryHasDead, Dead, Only
  <2>8. OneRevocationForgiven' BY <1>1, <2>1 DEF OneRevocationForgiven
  <2> QED BY <2>4, <2>5, <2>6, <2>7, <2>8 DEF TokenInv
<1> QED BY <1>3, <1>4, <1>5

\* The issuer takes one token back.
LEMMA TokenRevoke ==
  ASSUME FanoutAssumption, TypeOK, TokenInv, Revoke PROVE TokenInv'
<1>1. PICK t \in valid : valid' = valid \ {t} BY DEF Revoke
<1>2. /\ revoked' = revoked + 1 /\ driven = "running"
      /\ UNCHANGED <<child, driven, cached, expired, generation, lock, issued, expirations, failed>>
  BY DEF Revoke
<1>3. TokensCounted'
  <2>1. Cardinality(valid') = Cardinality(valid) - 1 BY <1>1, ValidFinite, FS_RemoveElement
  <2>2. issued' = Cardinality(valid') + revoked'
    BY <1>2, <2>1, ValidFinite DEF TokenInv, TokensCounted, TypeOK
  <2>3. IsFiniteSet(valid \ Usable) BY ValidFinite, FS_Difference
  <2>4. valid' \ Usable' \in SUBSET (valid \ Usable) BY <1>1, <1>2 DEF Usable
  <2>5. /\ Cardinality(valid' \ Usable') <= Cardinality(valid \ Usable)
        /\ Cardinality(valid' \ Usable') \in Nat /\ Cardinality(valid \ Usable) \in Nat
    BY <2>3, <2>4, FS_Subset, FS_CardinalityType
  <2>6. Cardinality(valid' \ Usable') <= expirations'
    BY <1>2, <2>5 DEF TokenInv, TokensCounted, TypeOK
  <2> QED BY <1>2, <2>2, <2>6 DEF TokenInv, TokensCounted
<1>4. FetchAlone' BY <1>2 DEF TokenInv, FetchAlone, At, Usable
<1>5. CarriedToken' BY <1>1, <1>2 DEF TokenInv, CarriedToken
<1>6. RetryHasDead' BY <1>1, <1>2 DEF TokenInv, RetryHasDead, Dead
<1>7. OneRevocationForgiven' BY <1>2 DEF OneRevocationForgiven
<1> QED BY <1>3, <1>4, <1>5, <1>6, <1>7 DEF TokenInv

\* The cached token reaches its margin: it is accepted and not used again.
LEMMA TokenExpire ==
  ASSUME FanoutAssumption, TypeOK, TokenInv, Expire PROVE TokenInv'
<1>1. /\ expirations' = expirations + 1 /\ driven = "running" /\ expired'
      /\ UNCHANGED <<child, driven, cached, valid, generation, lock, issued, revoked, failed>>
  BY DEF Expire
<1>2. TokensCounted'
  <2>1. IsFiniteSet(valid \ Usable) BY ValidFinite, FS_Difference
  <2>2. Usable' = {} /\ valid' \ Usable' = valid BY <1>1 DEF Usable
  <2>3. Cardinality(valid) <= Cardinality(valid \ Usable) + 1
    <3>1. CASE Usable = {}
      <4>1. valid \ Usable = valid BY <3>1
      <4> QED BY <4>1, ValidFinite
    <3>2. CASE Usable = {cached}
      <4>1. Cardinality(valid \ {cached}) =
              IF cached \in valid THEN Cardinality(valid) - 1 ELSE Cardinality(valid)
        BY ValidFinite, FS_RemoveElement
      <4> QED BY <3>2, <4>1, ValidFinite
    <3> QED BY <3>1, <3>2 DEF Usable
  <2>4. Cardinality(valid \ Usable) \in Nat BY <2>1, FS_CardinalityType
  <2>5. Cardinality(valid' \ Usable') <= expirations'
    BY <1>1, <2>2, <2>3, <2>4, ValidFinite DEF TokenInv, TokensCounted, TypeOK
  <2> QED BY <1>1, <2>5 DEF TokenInv, TokensCounted
<1>3. FetchAlone' BY <1>1 DEF TokenInv, FetchAlone, At, Usable
<1>4. CarriedToken' BY <1>1 DEF TokenInv, CarriedToken
<1>5. RetryHasDead' BY <1>1 DEF TokenInv, RetryHasDead, Dead
<1>6. OneRevocationForgiven' BY <1>1 DEF TokenInv, OneRevocationForgiven
<1> QED BY <1>2, <1>3, <1>4, <1>5, <1>6 DEF TokenInv

\* A child that starts has nothing to retry.
LEMMA TokenStart ==
  ASSUME FanoutAssumption, TypeOK, TokenInv, NEW c \in Children, Start(c) PROVE TokenInv'
<1>1. child[c].st = "waiting" /\ Moves(c, "attach") /\ UNCHANGED <<driven, token, failed>>
  BY DEF Start, At
<1>2. ~child[c].retried BY <1>1 DEF TokenInv, RetryHasDead
<1>3. Only(c) /\ child'[c].st = "attach" /\ child'[c].retried = child[c].retried
  BY <1>1, MovesEffect
<1> QED BY <1>1, <1>2, <1>3, TokenKept

\* An answer: a rejected token is not one the issuer accepts.
LEMMA TokenRespond ==
  ASSUME FanoutAssumption, TypeOK, TokenInv, NEW c \in Children, Respond(c) PROVE TokenInv'
<1>1. child[c].st = "flight" /\ driven = "running" /\ UNCHANGED <<driven, token, failed>>
  BY DEF Respond, At
<1>2. \/ Moves(c, "done") \/ Moves(c, "page")
      \/ Moves(c, "rejected") /\ child[c].tok \notin valid
  BY DEF Respond
<1>3. CASE Moves(c, "done") \/ Moves(c, "page")
  <2>1. Only(c) /\ child'[c].st \in {"page", "done"} BY <1>3, MovesEffect
  <2> QED BY <1>1, <2>1, TokenKept
<1>4. CASE Moves(c, "rejected") /\ child[c].tok \notin valid
  <2>1. /\ Only(c) /\ child'[c].st = "rejected" /\ child'[c].tok = child[c].tok
        /\ child'[c].gen = child[c].gen /\ child'[c].retried = child[c].retried
    BY <1>4, MovesEffect
  <2> QED BY <1>1, <1>4, <2>1, TokenKept
<1> QED BY <1>2, <1>3, <1>4

\* A page pushed ends the retry.
LEMMA TokenPush ==
  ASSUME FanoutAssumption, TypeOK, TokenInv, NEW c \in Children, Push(c) PROVE TokenInv'
<1>1. Only(c) /\ child'[c].st \in {"attach", "done"} /\ ~child'[c].retried BY PushEffect
<1>2. UNCHANGED <<driven, token, failed>> BY DEF Push
<1> QED BY <1>1, <1>2, TokenKept

\* A request that fails otherwise ends the read.
LEMMA TokenRequestFails ==
  ASSUME TypeOK, TokenInv, NEW c \in Children, FetchFails(c) \/ RequestFails(c) PROVE TokenInv'
<1>1. Fail /\ failed' = failed + 1 BY DEF FetchFails, RequestFails
<1>2. failed \in Nat BY DEF TypeOK
<1> QED BY <1>1, <1>2, TokenFail

\* The steps that touch neither the children nor the token.
LEMMA TokenElse ==
  ASSUME TypeOK, TokenInv, UNCHANGED <<child, token, failed>>, driven' \in {driven, "done"}
  PROVE  TokenInv'
<1>1. UNCHANGED <<cached, expired, generation, lock, valid, issued, revoked, expirations>>
  BY DEF token
<1>2. TokensCounted' BY <1>1 DEF TokenInv, TokensCounted, Usable
<1>3. FetchAlone' BY <1>1 DEF TokenInv, FetchAlone, At, Usable
<1>4. CarriedToken' BY <1>1 DEF TokenInv, CarriedToken
<1>5. RetryHasDead' BY <1>1 DEF TokenInv, RetryHasDead, Dead
<1>6. OneRevocationForgiven' BY <1>1 DEF TokenInv, OneRevocationForgiven
<1> QED BY <1>2, <1>3, <1>4, <1>5, <1>6 DEF TokenInv

\* Every step keeps the invariant of the token.
LEMMA TokenStep ==
  ASSUME FanoutAssumption, TypeOK, TokenInv, [Next]_vars PROVE TokenInv'
<1>1. CASE \E c \in Children : \/ Start(c) \/ Attach(c) \/ Fetch(c) \/ Respond(c)
                               \/ OnUnauthorized(c) \/ Push(c)
  BY <1>1, TokenStart, TokenAttach, TokenFetch, TokenRespond, TokenUnauthorized, TokenPush
<1>2. CASE \E c \in Children : FetchFails(c) \/ RequestFails(c)
  BY <1>2, TokenRequestFails
<1>3. CASE Forward \/ ForwardEnds \/ DriveDone \/ Join \/ Close \/ UNCHANGED vars
  <2>1. UNCHANGED <<child, token, failed>> /\ driven' \in {driven, "done"}
    BY <1>3 DEF Forward, ForwardEnds, DriveDone, Join, Close, vars, token
  <2> QED BY <2>1, TokenElse
<1>4. CASE Revoke \/ Expire
  BY <1>4, TokenRevoke, TokenExpire
<1> QED BY <1>1, <1>2, <1>3, <1>4 DEF Next, Reads

\* The inductive invariant of the token, in every behaviour.
THEOREM TokenInvariant == ASSUME FanoutAssumption PROVE Spec => [](TypeOK /\ TokenInv)
<1>1. Init => TypeOK /\ TokenInv BY TypeInit, TokenInit
<1>2. TypeOK /\ TokenInv /\ [Next]_vars => TypeOK' /\ TokenInv' BY TypeStep, TokenStep
<1> QED BY <1>1, <1>2, PTL DEF Spec

\* However many children meet however many dead tokens, each is fetched
\* again once (current_token under its mutex).
THEOREM TokenFetchedOnce == ASSUME FanoutAssumption PROVE Spec => []OneFetchPerToken
<1>1. TypeOK /\ TokenInv => OneFetchPerToken
  <2> SUFFICES ASSUME TypeOK, TokenInv PROVE OneFetchPerToken OBVIOUS
  <2>1. IsFiniteSet(valid \ Usable) BY ValidFinite, FS_Difference
  <2>2. Cardinality(valid) <= Cardinality(valid \ Usable) + 1
    <3>1. CASE Usable = {}
      <4>1. valid \ Usable = valid BY <3>1
      <4> QED BY <4>1, ValidFinite
    <3>2. CASE Usable = {cached}
      <4>1. Cardinality(valid \ {cached}) =
              IF cached \in valid THEN Cardinality(valid) - 1 ELSE Cardinality(valid)
        BY ValidFinite, FS_RemoveElement
      <4> QED BY <3>2, <4>1, ValidFinite
    <3> QED BY <3>1, <3>2 DEF Usable
  <2>3. Cardinality(valid \ Usable) \in Nat BY <2>1, FS_CardinalityType
  <2> QED BY <2>2, <2>3, ValidFinite DEF TokenInv, TokensCounted, OneFetchPerToken, TypeOK
<1> QED BY <1>1, TokenInvariant, PTL

\* One revoked token fails no child, whoever notices first (on_unauthorized).
THEOREM RevocationForgiven == ASSUME FanoutAssumption PROVE Spec => []OneRevocationForgiven
<1>1. TypeOK /\ TokenInv => OneRevocationForgiven BY DEF TokenInv
<1> QED BY <1>1, TokenInvariant, PTL

\* A token the issuer accepts is never evicted, however late the rejections
\* of its predecessors come in (the generation of on_unauthorized).
THEOREM FreshTokenStays == ASSUME FanoutAssumption PROVE Spec => FreshTokenKept
<1>1. ASSUME TypeOK, TokenInv, [Next]_vars, cached # Null, cached' = Null
      PROVE  cached \notin valid
  <2>1. \E c \in Children : OnUnauthorized(c) /\ child[c].st = "rejected"
                            /\ child[c].gen = generation
    <3>1. Null \notin Nat /\ issued + 1 \in Nat BY <1>1 DEF FanoutAssumption, TypeOK
    <3>2. CASE \E c \in Children : Fetch(c) BY <1>1, <3>1, <3>2 DEF Fetch
    <3>3. CASE \E c \in Children : OnUnauthorized(c)
      BY <1>1, <3>3 DEF OnUnauthorized, At, Fail, token
    <3>4. CASE \E c \in Children : \/ Start(c) \/ Attach(c) \/ Respond(c) \/ Push(c)
                                   \/ FetchFails(c) \/ RequestFails(c)
      BY <1>1, <3>4 DEF Start, Attach, Respond, Push, FetchFails, RequestFails, Fail, token
    <3>5. CASE Forward \/ ForwardEnds \/ DriveDone \/ Join \/ Close \/ Revoke \/ Expire
               \/ UNCHANGED vars
      BY <1>1, <3>5 DEF Forward, ForwardEnds, DriveDone, Join, Close, Revoke, Expire, vars, token
    <3> QED BY <1>1, <3>2, <3>3, <3>4, <3>5 DEF Next, Reads
  <2> QED BY <1>1, <2>1 DEF TokenInv, CarriedToken
<1>2. TypeOK /\ TokenInv /\ [Next]_vars
        => [cached # Null /\ cached' = Null => cached \notin valid]_vars
  BY <1>1
<1> QED BY <1>2, TokenInvariant, PTL DEF Spec, FreshTokenKept
-----------------------------------------------------------------------------
(* The checkpoint *)

\* At the start no page was pushed.
LEMMA FeedInit == ASSUME FanoutAssumption, Init PROVE FeedInv
<1>1. \A c \in Children : child[c].st = "waiting" /\ child[c].page = 1 BY DEF Init, Idle
<1>2. \A c \in Children : \A i \in 1 .. child[c].page - 1 : FALSE BY <1>1
<1> QED BY <1>1, <1>2 DEF Init, FeedInv, CheckpointCoversChildren

\* A step of the children that pushes nothing.
LEMMA FeedKept ==
  ASSUME TypeOK, FeedInv, UNCHANGED <<chan, fwd, feed>>, NEW c \in Children, Only(c),
         child'[c].page = child[c].page,
         child'[c].st = "done" => child'[c].page > Len(Lists[c]),
         driven = "done" => child' = child,
         driven' = driven \/ (driven = "running" /\ driven' = "failed")
  PROVE  FeedInv'
<1>1. UNCHANGED <<closed, out, checkpoint>> BY DEF feed
<1>2. \A d \in Children : child'[d].page = child[d].page BY DEF Only
<1>3. \A d \in Children : \A i \in 1 .. child'[d].page - 1 :
          closed' \/ <<d, i>> \in out' \/ InChannel(<<d, i>>)'
  BY <1>1, <1>2 DEF FeedInv, InChannel
<1>4. \A d \in Children : child'[d].st = "done" => child'[d].page > Len(Lists[d])
  BY DEF FeedInv, Only
<1> QED BY <1>1, <1>3, <1>4 DEF FeedInv, CheckpointCoversChildren

\* A pushed page is in the channel, and those before it still are.
LEMMA FeedPush ==
  ASSUME FanoutAssumption, TypeOK, FeedInv, NEW c \in Children, Push(c) PROVE FeedInv'
<1> DEFINE p == <<c, child[c].page>>
<1>1. /\ driven = "running" /\ chan' = Append(chan, p)
      /\ UNCHANGED <<fwd, driven, closed, out, checkpoint>>
  BY DEF Push, At, feed
<1>2. child \in [Children -> Child] /\ chan \in Seq(Children \X Nat) BY DEF TypeOK, Child
<1>3. child[c].page \in Nat /\ Len(Lists[c]) \in Nat BY <1>2, PagesCounted DEF Child
<1>4. /\ Only(c) /\ child'[c].page = child[c].page + 1
      /\ child'[c].st = "done" => child[c].page >= Len(Lists[c])
  BY PushEffect
<1>5. p \in Children \X Nat BY <1>3
<1> HIDE DEF p
<1>6. (\E k \in DOMAIN chan' : chan'[k] = p) /\ \A q : InChannel(q) => InChannel(q)'
  <2>1. /\ DOMAIN chan' = 1 .. Len(chan) + 1 /\ DOMAIN chan = 1 .. Len(chan)
        /\ Len(chan) \in Nat /\ chan'[Len(chan) + 1] = p
        /\ \A k \in 1 .. Len(chan) : chan'[k] = chan[k]
    BY <1>1, <1>2, <1>5
  <2>2. \E k \in DOMAIN chan' : chan'[k] = p BY <2>1
  <2>3. \A q : (\E k \in DOMAIN chan : chan[k] = q) => \E k \in DOMAIN chan' : chan'[k] = q
    BY <2>1
  <2> QED BY <2>2, <2>3 DEF InChannel
<1>7. \A d \in Children : \A i \in 1 .. child'[d].page - 1 :
          closed' \/ <<d, i>> \in out' \/ InChannel(<<d, i>>)'
  <2>1. SUFFICES ASSUME NEW d \in Children, NEW i \in 1 .. child'[d].page - 1
                 PROVE  closed' \/ <<d, i>> \in out' \/ InChannel(<<d, i>>)'
    OBVIOUS
  <2>2. CASE d # c
    <3>1. child'[d] = child[d] BY <2>2, <1>4 DEF Only
    <3> QED BY <2>1, <3>1, <1>1, <1>6 DEF FeedInv
  <2>3. CASE d = c /\ i = child[c].page
    <3>1. <<d, i>> = p BY <2>3 DEF p
    <3>2. \E k \in DOMAIN chan' : chan'[k] = <<d, i>> BY <1>6, <3>1
    <3> QED BY <3>2 DEF InChannel
  <2>4. CASE d = c /\ i # child[c].page
    <3>1. i \in 1 .. child[c].page - 1 BY <2>1, <2>4, <1>3, <1>4
    <3> QED BY <3>1, <2>4, <1>1, <1>6 DEF FeedInv
  <2> QED BY <2>2, <2>3, <2>4
<1>8. \A d \in Children : child'[d].st = "done" => child'[d].page > Len(Lists[d])
  BY <1>3, <1>4 DEF FeedInv, Only
<1>9. fwd' = "ended" /\ ~closed' => chan' = <<>> /\ driven' # "running"
  BY <1>1 DEF FeedInv
<1>10. CheckpointCoversChildren' BY <1>1 DEF FeedInv, CheckpointCoversChildren
<1> QED BY <1>1, <1>7, <1>8, <1>9, <1>10 DEF FeedInv

\* The page at the head of the channel goes to the feed.
LEMMA FeedForward == ASSUME TypeOK, FeedInv, Forward PROVE FeedInv'
<1>1. /\ chan # <<>> /\ chan' = Tail(chan) /\ UNCHANGED <<child, driven, closed, checkpoint>>
      /\ IF closed THEN fwd' = "ended" /\ out' = out
                   ELSE out' = out \cup {Head(chan)} /\ fwd' = fwd /\ fwd = "open"
  BY DEF Forward
<1>2. /\ DOMAIN chan = 1 .. Len(chan) /\ Len(chan) \in Nat \ {0} /\ Head(chan) = chan[1]
      /\ DOMAIN chan' = 1 .. Len(chan) - 1
      /\ \A k \in 1 .. Len(chan) - 1 : chan'[k] = chan[k + 1]
  BY <1>1 DEF TypeOK
<1>3. \A q : InChannel(q) => q = Head(chan) \/ InChannel(q)'
  <2>1. SUFFICES ASSUME NEW q, NEW k \in 1 .. Len(chan), chan[k] = q, k # 1
                 PROVE  InChannel(q)'
    BY <1>2 DEF InChannel
  <2>2. k - 1 \in 1 .. Len(chan) - 1 /\ chan'[k - 1] = q BY <1>2, <2>1
  <2> QED BY <1>2, <2>2 DEF InChannel
<1>4. \A d \in Children : \A i \in 1 .. child'[d].page - 1 :
          closed' \/ <<d, i>> \in out' \/ InChannel(<<d, i>>)'
  BY <1>1, <1>3 DEF FeedInv
<1>5. CheckpointCoversChildren' BY <1>1 DEF FeedInv, CheckpointCoversChildren
<1> QED BY <1>1, <1>4, <1>5 DEF FeedInv

\* Both halves have ended with every child done: nothing is on its way.
LEMMA FeedJoin == ASSUME FanoutAssumption, TypeOK, FeedInv, Join PROVE FeedInv'
<1>1. /\ fwd = "ended" /\ checkpoint' = Checkpointed
      /\ UNCHANGED <<child, chan, fwd, driven, closed, out>>
  BY DEF Join
<1>2. ASSUME checkpoint' # Null, NEW c \in Children, NEW i \in DOMAIN Lists[c]
      PROVE  <<c, i>> \in out
  <2>1. driven = "done" /\ ~closed BY <1>1, <1>2 DEF Checkpointed
  <2>2. chan = <<>> BY <1>1, <2>1 DEF FeedInv
  <2>3. child[c].page > Len(Lists[c]) BY <2>1 DEF FeedInv
  <2>4. child[c].page \in Nat /\ Len(Lists[c]) \in Nat BY PagesCounted DEF TypeOK
  <2>5. i \in 1 .. Len(Lists[c])
    <3>1. Lists[c] \in Seq(Nat) BY DEF FanoutAssumption, Children
    <3> QED BY <3>1
  <2>6. i \in 1 .. child[c].page - 1 BY <2>3, <2>4, <2>5
  <2> QED BY <2>1, <2>2, <2>6 DEF FeedInv, InChannel
<1>3. CheckpointCoversChildren' BY <1>1, <1>2 DEF CheckpointCoversChildren
<1>4. \A d \in Children : \A i \in 1 .. child'[d].page - 1 :
          closed' \/ <<d, i>> \in out' \/ InChannel(<<d, i>>)'
  BY <1>1 DEF FeedInv, InChannel
<1> QED BY <1>1, <1>3, <1>4 DEF FeedInv

\* Every step keeps the pages on their way.
LEMMA FeedStep == ASSUME FanoutAssumption, TypeOK, FeedInv, [Next]_vars PROVE FeedInv'
<1>1. ASSUME NEW c \in Children, \/ Start(c) \/ Attach(c) \/ Fetch(c) \/ Respond(c)
                                 \/ OnUnauthorized(c) \/ FetchFails(c) \/ RequestFails(c)
      PROVE  FeedInv'
  <2>1. CASE Start(c) BY <2>1, MovesEffect, FeedKept DEF Start, At
  <2>2. CASE Attach(c)
    <3>1. /\ Only(c) /\ child'[c].page = child[c].page /\ child'[c].st # "done"
      BY <2>2, MovesEffect, CarryEffect DEF Attach, TypeOK
    <3> QED BY <2>2, <3>1, FeedKept DEF Attach, At
  <2>3. CASE Fetch(c)
    <3>1. cached' \in Nat /\ generation' \in Nat BY <2>3 DEF Fetch, TypeOK
    <3>2. /\ Only(c) /\ child'[c].page = child[c].page /\ child'[c].st # "done"
      BY <2>3, <3>1, CarryEffect DEF Fetch
    <3> QED BY <2>3, <3>2, FeedKept DEF Fetch, At
  <2>4. CASE Respond(c)
    <3>1. PICK st \in {"done", "page", "rejected"} :
              Moves(c, st) /\ (st = "done" => Lists[c] = <<>>)
      BY <2>4 DEF Respond
    <3>2. Only(c) /\ child'[c].page = child[c].page /\ child'[c].st = st
      BY <3>1, MovesEffect
    <3>3. st = "done" => child'[c].page > Len(Lists[c])
      <4>1. child[c].page \in Nat \ {0} BY DEF TypeOK
      <4> QED BY <3>1, <3>2, <4>1
    <3> QED BY <2>4, <3>2, <3>3, FeedKept DEF Respond, At
  <2>5. CASE OnUnauthorized(c)
    <3>1. CASE Again(c)
      <4>1. Only(c) /\ child'[c].page = child[c].page /\ child'[c].st = "attach"
        BY <3>1, AgainEffect
      <4>2. driven' = driven \/ driven' = "failed"
        BY <2>5 DEF OnUnauthorized, Fail
      <4> QED BY <2>5, <4>1, <4>2, FeedKept DEF OnUnauthorized, At
    <3>2. CASE Fail
      <4>1. child' = child /\ driven' = "failed" BY <3>2 DEF Fail
      <4>2. UNCHANGED <<chan, fwd, feed>> /\ driven = "running"
        BY <2>5 DEF OnUnauthorized, At
      <4> QED BY <4>1, <4>2, FeedKept DEF Only, FeedInv
    <3> QED BY <2>5, <3>1, <3>2 DEF OnUnauthorized
  <2>6. CASE FetchFails(c) \/ RequestFails(c)
    <3>1. child' = child /\ driven' = "failed" /\ driven = "running"
          /\ UNCHANGED <<chan, fwd, feed>>
      BY <2>6 DEF FetchFails, RequestFails, Fail, At
    <3> QED BY <3>1, FeedKept DEF Only, FeedInv
  <2> QED BY <1>1, <2>1, <2>2, <2>3, <2>4, <2>5, <2>6
<1>2. CASE ForwardEnds
  BY <1>2 DEF ForwardEnds, SendersGone, feed, FeedInv, InChannel, CheckpointCoversChildren
<1>3. CASE DriveDone
  BY <1>3 DEF DriveDone, feed, FeedInv, InChannel, CheckpointCoversChildren
<1>4. CASE Close
  BY <1>4 DEF Close, FeedInv, CheckpointCoversChildren
<1>5. CASE Revoke \/ Expire \/ UNCHANGED vars
  BY <1>5 DEF Revoke, Expire, vars, feed, FeedInv, InChannel, CheckpointCoversChildren
<1> QED BY <1>1, <1>2, <1>3, <1>4, <1>5, FeedPush, FeedForward, FeedJoin DEF Next, Reads

\* A checkpoint covers every page of every child (fanout.rs read_children):
\* whatever failed, was cancelled or is still in the channel holds it back.
THEOREM CheckpointCovers ==
  ASSUME FanoutAssumption PROVE Spec => []CheckpointCoversChildren
<1>1. Init => TypeOK /\ FeedInv BY TypeInit, FeedInit
<1>2. TypeOK /\ FeedInv /\ [Next]_vars => (TypeOK /\ FeedInv)' BY TypeStep, FeedStep
<1>3. FeedInv => CheckpointCoversChildren BY DEF FeedInv
<1> QED BY <1>1, <1>2, <1>3, PTL DEF Spec

-----------------------------------------------------------------------------
(***************************************************************************)
(* RestRead                                                                *)
(***************************************************************************)
CONSTANTS MaxItems, MaxValue, PageSize, MaxPages, MaxTrouble, Configs
VARIABLES config, items, phase, since, ask, asked, pages, total, send, page, max, pushed,
          rcheckpoint, committed, got, sent, clean, trouble, ignored

R == INSTANCE RestRead WITH checkpoint <- rcheckpoint

\* The instance counts as FiniteSets does.
LEMMA SameCount == ASSUME NEW S PROVE R!Cardinality(S) = Cardinality(S)
BY DEF R!Cardinality, Cardinality

-----------------------------------------------------------------------------
(* The list and its pages *)

Ascends(it) == it \in Seq(Nat) /\ \A i, j \in DOMAIN it : i < j => it[i] <= it[j]

ItemsOK == Ascends(items)

\* What the start parameter s cuts off the list, and what it leaves.
CutAt(it, s) == Cardinality({i \in DOMAIN it : s # Null /\ it[i] < s})
After(it, s) == [k \in 1 .. Len(it) - CutAt(it, s) |-> CutAt(it, s) + k]

LEMMA ListedRest == R!Listed = After(items, since)
BY SameCount DEF R!Listed, R!Before, CutAt, After

\* The start parameter cuts off the head of the list.
LEMMA HeadCut ==
  ASSUME NEW it, Ascends(it), NEW s \in Nat \cup {Null}
  PROVE  /\ CutAt(it, s) \in 0 .. Len(it)
         /\ \A i \in DOMAIN it : i <= CutAt(it, s) <=> (s # Null /\ it[i] < s)
<1>1. PICK B, n, c : B = {i \in DOMAIN it : s # Null /\ it[i] < s} /\ n = Len(it) /\ c = CutAt(it, s) OBVIOUS
<1>2. n \in Nat /\ DOMAIN it = 1 .. n BY <1>1, LenProperties DEF Ascends
<1>3. \A i \in 1 .. n : i \in B <=> (s # Null /\ it[i] < s) BY <1>1, <1>2
<1>4. B \subseteq 1 .. n BY <1>1, <1>2
<1>5. IsFiniteSet(1 .. n) /\ Cardinality(1 .. n) = n
  <2>1. 1 \in Int /\ n \in Int BY <1>2
  <2>2. IsFiniteSet(1 .. n) /\ Cardinality(1 .. n) = IF 1 > n THEN 0 ELSE n - 1 + 1
    BY <2>1, FS_Interval
  <2> QED BY <1>2, <2>2
<1>6. IsFiniteSet(B) /\ c \in Nat /\ c <= n
  <2>1. c = Cardinality(B) BY <1>1 DEF CutAt
  <2> QED BY <1>4, <1>5, <2>1, FS_Subset, FS_CardinalityType
<1>7. \A i, j \in 1 .. n : i < j /\ j \in B => i \in B
  <2> TAKE i, j \in 1 .. n
  <2> HAVE i < j /\ j \in B
  <2>1. it[i] \in Nat /\ it[j] \in Nat BY <1>1, ElementOfSeq DEF Ascends
  <2>2. it[i] <= it[j] BY <1>2 DEF Ascends
  <2>3. s \in Nat /\ s # Null /\ it[j] < s BY <1>3
  <2> QED BY <1>3, <2>1, <2>2, <2>3
<1>8. ASSUME NEW i \in 1 .. n, i \in B PROVE i <= c
  <2>1. 1 .. i \subseteq B BY <1>2, <1>7, <1>8
  <2>2. 1 \in Int /\ i \in Int /\ i >= 1 BY <1>2
  <2>3. Cardinality(1 .. i) = IF 1 > i THEN 0 ELSE i - 1 + 1 BY <2>2, FS_Interval
  <2>4. Cardinality(1 .. i) <= Cardinality(B) BY <1>6, <2>1, FS_Subset
  <2>5. PICK d : d = Cardinality(1 .. i) OBVIOUS
  <2>6. d = i BY <2>2, <2>3, <2>5
  <2> QED BY <1>1, <2>4, <2>5, <2>6 DEF CutAt
<1>9. ASSUME NEW i \in 1 .. n, i \notin B PROVE c < i
  <2>1. B \subseteq 1 .. (i - 1) BY <1>2, <1>4, <1>7, <1>9
  <2>2. 1 \in Int /\ i - 1 \in Int /\ i >= 1 BY <1>2
  <2>3. /\ IsFiniteSet(1 .. (i - 1))
        /\ Cardinality(1 .. (i - 1)) = IF 1 > i - 1 THEN 0 ELSE (i - 1) - 1 + 1
    BY <2>2, FS_Interval
  <2>4. Cardinality(B) <= Cardinality(1 .. (i - 1)) BY <2>1, <2>3, FS_Subset
  <2>5. PICK d : d = Cardinality(1 .. (i - 1)) OBVIOUS
  <2>6. d = i - 1 BY <2>2, <2>3, <2>5
  <2>7. c <= d BY <1>1, <2>4, <2>5 DEF CutAt
  <2> QED BY <1>6, <2>2, <2>6, <2>7
<1>10. \A i \in 1 .. n : i <= c <=> i \in B BY <1>6, <1>8, <1>9
<1> QED BY <1>1, <1>2, <1>3, <1>6, <1>10

\* What is listed: the rest, in order.
LEMMA RestIs ==
  ASSUME NEW it, Ascends(it), NEW s \in Nat \cup {Null}
  PROVE  /\ After(it, s) \in Seq(DOMAIN it)
         /\ Len(After(it, s)) = Len(it) - CutAt(it, s)
         /\ \A k \in 1 .. Len(After(it, s)) : After(it, s)[k] = CutAt(it, s) + k
<1>1. PICK n, c : n = Len(it) /\ c = CutAt(it, s) OBVIOUS
<1>2. n \in Nat /\ DOMAIN it = 1 .. n BY <1>1, LenProperties DEF Ascends
<1>3. c \in 0 .. n BY <1>1, HeadCut
<1>4. After(it, s) = [k \in 1 .. (n - c) |-> c + k] BY <1>1 DEF After, CutAt
<1>5. n - c \in Nat /\ \A k \in 1 .. (n - c) : c + k \in 1 .. n BY <1>2, <1>3
<1>6. After(it, s) \in [1 .. (n - c) -> 1 .. n] BY <1>4, <1>5
<1>7. After(it, s) \in Seq(1 .. n) BY <1>5, <1>6, SeqDef
<1>8. DOMAIN After(it, s) = 1 .. (n - c) BY <1>4
<1>9. Len(After(it, s)) \in Nat /\ DOMAIN After(it, s) = 1 .. Len(After(it, s)) BY <1>7, LenProperties
<1>10. Len(After(it, s)) = n - c
  <2>1. PICK m, d : m = Len(After(it, s)) /\ d = n - c OBVIOUS
  <2>2. m \in Nat /\ d \in Nat /\ 1 .. m = 1 .. d BY <1>5, <1>8, <1>9, <2>1
  <2>3. \A i \in Nat : i \in 1 .. m <=> i \in 1 .. d BY <2>2
  <2>4. m = d
    <3>1. m <= d
      <4>1. CASE m = 0 BY <2>2, <4>1
      <4>2. CASE m # 0 BY <2>2, <2>3, <4>2
      <4> QED BY <4>1, <4>2
    <3>2. d <= m
      <4>1. CASE d = 0 BY <2>2, <4>1
      <4>2. CASE d # 0 BY <2>2, <2>3, <4>2
      <4> QED BY <4>1, <4>2
    <3> QED BY <2>2, <3>1, <3>2
  <2> QED BY <2>1, <2>4
<1>11. \A k \in 1 .. (n - c) : After(it, s)[k] = c + k BY <1>4
<1> QED BY <1>1, <1>2, <1>7, <1>10, <1>11

LEMMA MinOfTwo == ASSUME NEW a \in Int, NEW b \in Int PROVE R!Min({a, b}) = IF a <= b THEN a ELSE b
BY DEF R!Min

\* A page, as a part of a list.
LEMMA PageOf ==
  ASSUME NEW S, NEW L \in Seq(S), NEW f \in Nat, NEW p \in Nat \ {0}
  PROVE  LET q == SubSeq(L, f + 1, R!Min({f + p, Len(L)}))
         IN  /\ q \in Seq(S)
             /\ Len(q) = IF f >= Len(L) THEN 0 ELSE IF f + p <= Len(L) THEN p ELSE Len(L) - f
             /\ \A i \in 1 .. Len(q) : f + i \in 1 .. Len(L) /\ q[i] = L[f + i]
<1>1. PICK n : n = Len(L) OBVIOUS
<1>2. n \in Nat BY <1>1, LenProperties
<1>3. PICK e : e = R!Min({f + p, n}) OBVIOUS
<1>4. e = IF f + p <= n THEN f + p ELSE n BY <1>2, <1>3, MinOfTwo
<1>5. e \in Nat /\ e <= n BY <1>2, <1>4
<1>6. PICK q : q = SubSeq(L, f + 1, e) OBVIOUS
<1>7. q \in Seq(S) /\ Len(q) = (IF f + 1 <= e THEN e - f ELSE 0)
      /\ \A i \in 1 .. Len(q) : q[i] = L[f + i]
  BY <1>1, <1>5, <1>6
<1>8. PICK m : m = Len(q) OBVIOUS
<1>9. m = IF f >= n THEN 0 ELSE IF f + p <= n THEN p ELSE n - f BY <1>2, <1>4, <1>7, <1>8
<1>10. \A i \in 1 .. m : f + i \in 1 .. n BY <1>2, <1>9
<1> QED BY <1>1, <1>3, <1>6, <1>7, <1>8, <1>9, <1>10

-----------------------------------------------------------------------------
(* The inductive invariant *)

Cursor == Nat \cup {Null}
Active == {"next", "sending", "page"}

RestType ==
  /\ ItemsOK /\ config \in R!Config /\ R!Valid(config)
  /\ since \in Cursor /\ max \in Cursor /\ committed \in Cursor /\ rcheckpoint \in Cursor
  /\ sent \in Seq(DOMAIN items) /\ page.records \in Seq(DOMAIN items) /\ total \in Nat
  /\ phase \in Active => /\ ask \in Cursor
                         /\ config.family = "page" => ask \in Nat \ {0}
                         /\ config.family = "offset" => ask \in Nat

\* The page at hand is the one asked for, unless an action dropped it.
PageOK ==
  phase = "page" =>
    /\ page.token \in {Null, R!TokenAfter}
    /\ page.records = R!PageAt \/ (ignored /\ page.records = <<>>)
    /\ clean => page.records = R!PageAt /\ page.token = R!TokenAfter

\* The records below c are in S.
Covered(c, S) == c # Null => \A i \in DOMAIN items : items[i] < c => i \in S

CoverOK ==
  config.incremental /\ ~ignored =>
    /\ Covered(committed, got) /\ Covered(since, got)
    /\ Covered(rcheckpoint, got \cup pushed)
    /\ phase \in Active =>
         /\ Covered(max, got \cup pushed)
         /\ \A k \in 1 .. Len(R!Listed) : k <= R!From => R!Listed[k] \in got \cup pushed

Least(a, b) == IF a <= b THEN a ELSE b

\* A read without trouble has sent the list up to where it asks.
WholeOK ==
  clean =>
    /\ config.stuck => phase # "done"
    /\ R!Carries(config) /\ ~config.stuck =>
         /\ phase \in Active =>
              /\ total = Len(sent) + (IF phase = "page" THEN Len(page.records) ELSE 0)
              /\ Len(sent) = Least(R!From, Len(R!Listed))
              /\ \A k \in 1 .. Len(sent) : sent[k] = R!Listed[k]
         /\ phase = "done" => sent = R!Listed

\* Each turn of the send loop uses up a reason for one.
SendOK ==
  /\ send \in [waited : BOOLEAN, reauth : BOOLEAN, count : Nat]
  /\ send.count <= 1 + (IF send.waited THEN 1 ELSE 0) + (IF send.reauth THEN 1 ELSE 0)

StuckOK ==
  config.stuck => /\ pages \in 0 .. 2 /\ (pages = 2 => 0 \in asked)
                  /\ phase = "next" => (ask = Null /\ pages = 0) \/ ask = 0

RestInv == RestType /\ PageOK /\ CoverOK /\ WholeOK /\ SendOK /\ StuckOK

LEMMA SameList ==
  ASSUME UNCHANGED <<config, items, since, ask>>
  PROVE  R!Listed' = R!Listed /\ R!From' = R!From /\ R!PageAt' = R!PageAt /\ R!TokenAfter' = R!TokenAfter
<1>1. R!Listed' = R!Listed BY DEF R!Listed, R!Before
<1>2. R!From' = R!From BY DEF R!From, R!Carried
<1> QED BY <1>1, <1>2 DEF R!PageAt, R!TokenAfter

LEMMA FromNat ==
  ASSUME R!RestAssumption, RestType, phase \in Active
  PROVE  R!From \in Nat
<1>1. CASE config.family = "page"
  <2>1. PICK a, p \in Nat : a = ask - 1 /\ p = PageSize BY <1>1 DEF RestType, R!RestAssumption
  <2>2. a * p \in Nat OBVIOUS
  <2> QED BY <1>1, <2>1, <2>2 DEF R!From
<1>2. CASE config.family # "page" BY <1>2 DEF R!From, RestType, Cursor
<1> QED BY <1>1, <1>2

\* The page at the position asked for.
LEMMA PageIs ==
  ASSUME R!RestAssumption, RestType, phase \in Active
  PROVE  /\ R!PageAt \in Seq(DOMAIN items)
         /\ Len(R!PageAt) = (IF R!From >= Len(R!Listed) THEN 0
                           ELSE IF R!From + PageSize <= Len(R!Listed) THEN PageSize
                           ELSE Len(R!Listed) - R!From)
         /\ \A i \in 1 .. Len(R!PageAt) : R!From + i \in 1 .. Len(R!Listed) /\ R!PageAt[i] = R!Listed[R!From + i]
<1>1. PICK S, L : S = DOMAIN items /\ L = R!Listed OBVIOUS
<1>2. PICK f, p : f = R!From /\ p = PageSize OBVIOUS
<1>3. f \in Nat /\ p \in Nat \ {0} BY <1>2, FromNat DEF R!RestAssumption
<1>4. ItemsOK /\ since \in Nat \cup {Null} BY DEF RestType, Cursor
<1>5. L \in Seq(S) BY <1>1, <1>4, RestIs, ListedRest DEF ItemsOK
<1>6. PICK q : q = SubSeq(L, f + 1, R!Min({f + p, Len(L)})) OBVIOUS
<1>7. q = R!PageAt BY <1>1, <1>2, <1>6 DEF R!PageAt
<1>8. /\ q \in Seq(S)
      /\ Len(q) = IF f >= Len(L) THEN 0 ELSE IF f + p <= Len(L) THEN p ELSE Len(L) - f
      /\ \A i \in 1 .. Len(q) : f + i \in 1 .. Len(L) /\ q[i] = L[f + i]
  BY <1>3, <1>5, <1>6, PageOf
<1> QED BY <1>1, <1>2, <1>7, <1>8

LEMMA RestInit == ASSUME R!RestAssumption, R!Init PROVE RestInv
<1>1. PICK n \in 0 .. MaxItems : items \in [1 .. n -> 1 .. MaxValue] BY DEF R!Init
<1>2. n \in Nat /\ 1 .. MaxValue \subseteq Nat BY DEF R!RestAssumption
<1>3. items \in [1 .. n -> Nat] BY <1>1, <1>2
<1>4. items \in Seq(Nat) BY <1>2, <1>3, SeqDef
<1>5. ItemsOK BY <1>4 DEF R!Init, ItemsOK, Ascends
<1>6. <<>> \in Seq(DOMAIN items) BY EmptySeq
<1>7. /\ phase = "idle" /\ since = Null /\ max = Null /\ committed = Null /\ rcheckpoint = Null
      /\ sent = <<>> /\ page = R!NoPage /\ total = 0 /\ pages = 0 /\ send = R!Fresh
      /\ config \in R!Config /\ R!Valid(config)
  BY DEF R!Init, R!RestAssumption
<1>8. RestType BY <1>5, <1>6, <1>7 DEF RestType, Cursor, Active, R!NoPage
<1>9. PageOK /\ CoverOK /\ WholeOK BY <1>7 DEF PageOK, CoverOK, Covered, WholeOK, Active
<1>10. SendOK BY <1>7 DEF SendOK, R!Fresh
<1>11. StuckOK BY <1>7 DEF StuckOK
<1> QED BY <1>8, <1>9, <1>10, <1>11 DEF RestInv

-----------------------------------------------------------------------------
(* The steps *)

LEMMA FreshOK == send' = R!Fresh => SendOK'
BY DEF SendOK, R!Fresh

\* Without its stream a run leaves what is committed.
LEMMA EndsKeeps ==
  ASSUME RestInv, NEW how \in {"idle", "refused"}, R!Ends(how),
         UNCHANGED <<config, items, committed, got, ignored>>
  PROVE  RestInv'
<1>1. /\ phase' \in {"idle", "refused"} /\ pushed' = {} /\ rcheckpoint' = Null
      /\ page' = R!NoPage /\ send' = R!Fresh
      /\ UNCHANGED <<since, ask, asked, pages, total, max, sent>>
  BY DEF R!Ends
<1>2. RestType'
  <2>1. page'.records = <<>> BY <1>1 DEF R!NoPage
  <2>2. page'.records \in Seq(DOMAIN items) BY <2>1, EmptySeq
  <2> QED BY <1>1, <2>2 DEF RestInv, RestType, ItemsOK, Cursor, Active
<1>3. PageOK' /\ WholeOK' BY <1>1 DEF PageOK, WholeOK, Active
<1>4. CoverOK' BY <1>1 DEF RestInv, CoverOK, Covered, Active
<1>5. SendOK' BY <1>1, FreshOK
<1>6. StuckOK' BY <1>1 DEF RestInv, StuckOK
<1> QED BY <1>2, <1>3, <1>4, <1>5, <1>6 DEF RestInv

\* The send loop goes round.
LEMMA AgainKeeps ==
  ASSUME RestInv, phase = "sending", SendOK', clean' = FALSE,
         UNCHANGED <<config, items, phase, since, ask, asked, pages, total, page, max, pushed,
                     rcheckpoint, sent, committed, got, ignored>>
  PROVE  RestInv'
<1>1. R!Listed' = R!Listed /\ R!From' = R!From /\ R!PageAt' = R!PageAt /\ R!TokenAfter' = R!TokenAfter BY SameList
<1>2. RestType' BY DEF RestInv, RestType, ItemsOK
<1>3. PageOK' /\ WholeOK' BY DEF PageOK, WholeOK
<1>4. CoverOK' BY <1>1 DEF RestInv, CoverOK, Covered
<1>5. StuckOK' BY DEF RestInv, StuckOK
<1> QED BY <1>2, <1>3, <1>4, <1>5 DEF RestInv

LEMMA StartKeeps == ASSUME R!RestAssumption, RestInv, R!StartRead PROVE RestInv'
<1>1. /\ phase = "idle" /\ phase' = "next"
      /\ since' = (IF config.incremental THEN committed ELSE Null) /\ max' = committed
      /\ ask' = R!FirstAsk /\ asked' = {} /\ pages' = 0 /\ total' = 0 /\ sent' = <<>> /\ clean' = TRUE
      /\ UNCHANGED <<config, items, send, page, pushed, rcheckpoint, committed, got, ignored>>
  BY DEF R!StartRead
<1>2. RestType'
  <2>1. <<>> \in Seq(DOMAIN items) BY EmptySeq
  <2> QED BY <1>1, <2>1 DEF RestInv, RestType, ItemsOK, Cursor, R!FirstAsk
<1>3. R!From' = 0
  <2>1. CASE config.family = "page"
    <3>1. ask' = 1 BY <1>1, <2>1 DEF R!FirstAsk
    <3>2. (1 - 1) * PageSize = 0 BY DEF R!RestAssumption
    <3> QED BY <1>1, <2>1, <3>1, <3>2 DEF R!From
  <2>2. CASE config.family # "page" BY <1>1, <2>2 DEF R!From, R!FirstAsk
  <2> QED BY <2>1, <2>2
<1>4. Len(R!Listed') \in Nat
  <2>1. ItemsOK' /\ since' \in Nat \cup {Null} BY <1>2 DEF RestType, Cursor
  <2>2. R!Listed' = After(items', since') BY SameCount DEF R!Listed, R!Before, CutAt, After
  <2>3. PICK L, i, s : L = R!Listed' /\ i = items' /\ s = since' OBVIOUS
  <2>4. Ascends(i) /\ s \in Nat \cup {Null} /\ L = After(i, s) BY <2>1, <2>2, <2>3 DEF ItemsOK
  <2>5. L \in Seq(DOMAIN i) BY <2>4, RestIs
  <2> QED BY <2>3, <2>5, LenProperties
<1>5. PageOK' BY <1>1 DEF PageOK
<1>6. CoverOK' BY <1>1, <1>3, <1>4 DEF RestInv, CoverOK, Covered
<1>7. WholeOK' BY <1>1, <1>3, <1>4 DEF WholeOK, Least
<1>8. SendOK' BY <1>1 DEF RestInv, SendOK
<1>9. StuckOK' BY <1>1 DEF RestInv, RestType, StuckOK, R!FirstAsk, R!Valid
<1> QED BY <1>2, <1>5, <1>6, <1>7, <1>8, <1>9 DEF RestInv

LEMMA RequestKeeps == ASSUME R!RestAssumption, RestInv, R!NextRequest PROVE RestInv'
<1>1. /\ phase = "next"
      /\ UNCHANGED <<config, items, since, ask, total, page, max, pushed, rcheckpoint, sent, clean,
                     committed, got, ignored>>
  BY DEF R!NextRequest
<1>2. \/ phase' = "refused" /\ UNCHANGED <<asked, pages, send>>
      \/ /\ phase' = "sending" /\ ask \notin asked
         /\ asked' = asked \cup {ask} /\ pages' = pages + 1 /\ send' = [R!Fresh EXCEPT !.count = 1]
  BY DEF R!NextRequest
<1>3. R!Listed' = R!Listed /\ R!From' = R!From BY <1>1, SameList
<1>4. RestType' BY <1>1, <1>2 DEF RestInv, RestType, ItemsOK, Active
<1>5. PageOK' BY <1>2 DEF PageOK
<1>6. CoverOK' BY <1>1, <1>2, <1>3 DEF RestInv, CoverOK, Covered, Active
<1>7. WholeOK' BY <1>1, <1>2, <1>3 DEF RestInv, WholeOK, Active
<1>8. SendOK'
  <2>1. CASE UNCHANGED send BY <2>1 DEF RestInv, SendOK
  <2>2. CASE send' = [R!Fresh EXCEPT !.count = 1]
    <3>1. send' = [waited |-> FALSE, reauth |-> FALSE, count |-> 1] BY <2>2 DEF R!Fresh
    <3> QED BY <3>1 DEF SendOK
  <2> QED BY <1>2, <2>1, <2>2
<1>9. StuckOK' BY <1>1, <1>2 DEF RestInv, StuckOK
<1> QED BY <1>4, <1>5, <1>6, <1>7, <1>8, <1>9 DEF RestInv

LEMMA AnswerKeeps == ASSUME R!RestAssumption, RestInv, R!Answer PROVE RestInv'
<1>1. phase = "sending" /\ UNCHANGED <<config, items, committed, got, clean, ignored>> BY DEF R!Answer
<1>2. CASE R!Ends("refused") BY <1>1, <1>2, EndsKeeps
<1>3. CASE /\ phase' = "page" /\ send' = R!Fresh
           /\ page' = [records |-> R!PageAt, token |-> R!TokenAfter, body |-> TRUE]
           /\ total' = total + Len(R!PageAt)
           /\ UNCHANGED <<since, ask, asked, pages, max, pushed, rcheckpoint, sent>>
  <2>1. /\ R!Listed' = R!Listed /\ R!From' = R!From /\ R!PageAt' = R!PageAt /\ R!TokenAfter' = R!TokenAfter
    BY <1>1, <1>3, SameList
  <2>2. page'.records = R!PageAt /\ page'.token = R!TokenAfter BY <1>3
  <2>3. R!PageAt \in Seq(DOMAIN items) BY <1>1, PageIs DEF RestInv, Active
  <2>4. Len(R!PageAt) \in Nat BY <2>3, LenProperties
  <2>5. RestType' BY <1>1, <1>3, <2>2, <2>3, <2>4 DEF RestInv, RestType, ItemsOK, Active
  <2>6. PageOK' BY <2>1, <2>2 DEF PageOK
  <2>7. CoverOK' BY <1>1, <1>3, <2>1 DEF RestInv, CoverOK, Covered, Active
  <2>8. WholeOK'
    <3>1. \A x \in Nat : total = x + 0 => total' = x + Len(page'.records) BY <1>3, <2>2, <2>4
    <3>2. Len(sent) \in Nat BY LenProperties DEF RestInv, RestType
    <3> QED BY <1>1, <1>3, <2>1, <3>1, <3>2 DEF RestInv, WholeOK, Active
  <2>9. SendOK' BY <1>3, FreshOK
  <2>10. StuckOK' BY <1>1, <1>3 DEF RestInv, StuckOK
  <2> QED BY <2>5, <2>6, <2>7, <2>8, <2>9, <2>10 DEF RestInv
<1> QED BY <1>2, <1>3 DEF R!Answer

LEMMA ActionKeeps == ASSUME R!RestAssumption, RestInv, R!DeclaredAction PROVE RestInv'
<1>1. phase = "sending" /\ clean' = FALSE /\ UNCHANGED <<config, items, committed, got>>
  BY DEF R!DeclaredAction, R!Troubled
<1>2. CASE R!Ends("refused") /\ ignored' = ignored BY <1>1, <1>2, EndsKeeps
<1>3. <<>> \in Seq(DOMAIN items) BY EmptySeq
<1>4. CASE /\ phase' = "done" /\ page' = R!NoPage /\ send' = R!Fresh /\ ignored' = ignored
           /\ UNCHANGED <<since, ask, asked, pages, total, max, pushed, rcheckpoint, sent>>
  <2>1. page'.records = <<>> BY <1>4 DEF R!NoPage
  <2>2. RestType' BY <1>1, <1>3, <1>4, <2>1 DEF RestInv, RestType, ItemsOK, Active
  <2>3. PageOK' /\ WholeOK' BY <1>1, <1>4 DEF PageOK, WholeOK
  <2>4. CoverOK' BY <1>1, <1>4 DEF RestInv, CoverOK, Covered, Active
  <2>5. SendOK' BY <1>4, FreshOK
  <2>6. StuckOK' BY <1>1, <1>4 DEF RestInv, StuckOK
  <2> QED BY <2>2, <2>3, <2>4, <2>5, <2>6 DEF RestInv
<1>5. ASSUME NEW parses \in BOOLEAN,
             phase' = "page", send' = R!Fresh, ignored' = TRUE,
             page' = [records |-> <<>>, token |-> IF parses THEN R!TokenAfter ELSE Null,
                      body |-> parses],
             UNCHANGED <<since, ask, asked, pages, total, max, pushed, rcheckpoint, sent>>
      PROVE  RestInv'
  <2>1. R!TokenAfter' = R!TokenAfter BY <1>1, <1>5, SameList
  <2>2. page'.records = <<>> /\ page'.token \in {Null, R!TokenAfter} BY <1>5
  <2>3. RestType' BY <1>1, <1>3, <1>5, <2>2 DEF RestInv, RestType, ItemsOK, Active
  <2>4. PageOK' BY <1>1, <1>5, <2>1, <2>2 DEF PageOK
  <2>5. CoverOK' /\ WholeOK' BY <1>1, <1>5 DEF CoverOK, WholeOK
  <2>6. SendOK' BY <1>5, FreshOK
  <2>7. StuckOK' BY <1>1, <1>5 DEF RestInv, StuckOK
  <2> QED BY <2>3, <2>4, <2>5, <2>6, <2>7 DEF RestInv
<1> QED BY <1>2, <1>4, <1>5 DEF R!DeclaredAction

LEMMA CommitKeeps == ASSUME RestInv, R!EngineCommit PROVE RestInv'
<1>1. /\ phase \in Active /\ got' = got \cup pushed /\ committed' = rcheckpoint /\ rcheckpoint # Null
      /\ pushed' = {} /\ rcheckpoint' = Null
      /\ UNCHANGED <<config, items, phase, since, ask, asked, pages, total, send, page, max, sent,
                     clean, trouble, ignored>>
  BY DEF R!EngineCommit, R!Absorb, Active
<1>2. R!Listed' = R!Listed /\ R!From' = R!From /\ R!PageAt' = R!PageAt /\ R!TokenAfter' = R!TokenAfter
  BY <1>1, SameList
<1>3. RestType' BY <1>1 DEF RestInv, RestType, ItemsOK, Cursor
<1>4. PageOK' /\ WholeOK' BY <1>1, <1>2 DEF RestInv, PageOK, WholeOK
<1>5. CoverOK' BY <1>1, <1>2 DEF RestInv, CoverOK, Covered
<1>6. SendOK' /\ StuckOK' BY <1>1 DEF RestInv, SendOK, StuckOK
<1> QED BY <1>3, <1>4, <1>5, <1>6 DEF RestInv

LEMMA FinishKeeps == ASSUME RestInv, R!FinishRead PROVE RestInv'
<1>1. /\ phase = "done" /\ phase' = "idle" /\ got' = got \cup pushed
      /\ committed' = IF rcheckpoint = Null THEN committed ELSE rcheckpoint
      /\ pushed' = {} /\ rcheckpoint' = Null
      /\ UNCHANGED <<config, items, since, ask, asked, pages, total, send, page, max, sent,
                     clean, trouble, ignored>>
  BY DEF R!FinishRead, R!Absorb
<1>2. RestType' BY <1>1 DEF RestInv, RestType, ItemsOK, Cursor, Active
<1>3. PageOK' /\ WholeOK' BY <1>1 DEF PageOK, WholeOK, Active
<1>4. CoverOK' BY <1>1 DEF RestInv, CoverOK, Covered, Active
<1>5. SendOK' /\ StuckOK' BY <1>1 DEF RestInv, SendOK, StuckOK
<1> QED BY <1>2, <1>3, <1>4, <1>5 DEF RestInv

-----------------------------------------------------------------------------
(* A page is delivered *)

\* Where the paginator may go.
LEMMA Onward ==
  ASSUME R!RestAssumption, RestType, PageOK, phase = "page", R!Decision # Null
  PROVE  /\ R!Decision \in Cursor /\ R!Carries(config)
         /\ config.family = "page" => R!Decision = ask + 1
         /\ config.family = "offset" => R!Decision = ask + PageSize
         /\ config.family = "token" => R!Decision = R!TokenAfter
         /\ config.family \in {"page", "offset", "token"}
         /\ config.stuck => R!Decision = 0
<1>1. config.family \in {"page", "offset", "token", "none"} BY DEF RestType, R!Config, R!Families
<1>2. R!From \in Nat BY FromNat DEF Active
<1>3. CASE config.family = "page"
  <2>1. R!Decision = ask + 1 BY <1>3 DEF R!Decision
  <2>2. ask \in Nat /\ ~config.stuck BY <1>3 DEF RestType, R!Valid, Active
  <2> QED BY <1>3, <2>1, <2>2 DEF Cursor, R!Carries
<1>4. CASE config.family = "offset"
  <2>1. R!Decision = ask + PageSize BY <1>4 DEF R!Decision
  <2>2. ask \in Nat /\ ~config.stuck /\ PageSize \in Nat
    BY <1>4 DEF RestType, R!Valid, Active, R!RestAssumption
  <2> QED BY <1>4, <2>1, <2>2 DEF Cursor, R!Carries
<1>5. CASE config.family = "token"
  <2>1. R!Decision = page.token /\ page.token = R!TokenAfter BY <1>5 DEF R!Decision, PageOK
  <2>2. R!TokenAfter \in Nat BY <1>2, <1>5, <2>1 DEF R!TokenAfter, R!RestAssumption
  <2>3. config.stuck => R!TokenAfter = 0 BY <1>5 DEF R!TokenAfter
  <2> QED BY <1>5, <2>1, <2>2, <2>3 DEF Cursor, R!Carries
<1>6. CASE config.family = "none" BY <1>6 DEF R!Decision
<1> QED BY <1>1, <1>3, <1>4, <1>5, <1>6

\* It goes on where the page ended, or a server that repeats itself begins again.
LEMMA OnwardFrom ==
  ASSUME R!RestAssumption, RestType, PageOK, phase = "page", R!Decision # Null,
         ask' = R!Decision, UNCHANGED config
  PROVE  (R!From' = R!From + PageSize) \/ (config.stuck /\ R!From' = 0)
<1>1. PICK p \in Nat \ {0} : p = PageSize BY DEF R!RestAssumption
<1>2. R!Carried BY Onward DEF R!Carried, RestType, R!Valid
<1>3. R!Carried' BY <1>2 DEF R!Carried
<1>4. R!Decision # Null /\ R!Decision \in Cursor BY Onward
<1>5. CASE config.family = "page"
  <2>1. PICK a \in Nat \ {0} : a = ask BY <1>5 DEF RestType, Active
  <2>2. ask' = a + 1 BY <1>5, <2>1, Onward
  <2>3. R!From = (a - 1) * p /\ R!From' = ((a + 1) - 1) * p
    BY <1>1, <1>2, <1>3, <1>5, <2>1, <2>2 DEF R!From, R!RestAssumption
  <2>4. ((a + 1) - 1) * p = (a - 1) * p + p OBVIOUS
  <2> QED BY <1>1, <2>3, <2>4
<1>6. CASE config.family = "offset"
  <2>1. ask \in Nat /\ ask # Null BY <1>6 DEF RestType, Active, R!RestAssumption
  <2>2. R!From = ask BY <1>2, <1>6, <2>1 DEF R!From
  <2>3. ask' = ask + PageSize BY <1>6, Onward
  <2>4. R!From' = ask' BY <1>3, <1>4, <1>6 DEF R!From
  <2> QED BY <2>2, <2>3, <2>4
<1>7. CASE config.family = "token"
  <2>1. R!From' = ask' BY <1>3, <1>4, <1>7 DEF R!From
  <2>2. ask' = R!TokenAfter BY <1>7, Onward
  <2> QED BY <1>4, <1>7, <2>1, <2>2, Onward DEF R!TokenAfter
<1> QED BY <1>5, <1>6, <1>7, Onward

\* The pages counted by the server hold the whole list.
LEMMA PagesCover ==
  ASSUME NEW n \in Nat, NEW p \in Nat \ {0}, NEW a \in Nat, a >= (n + p - 1) \div p
  PROVE  a * p >= n
<1>1. PICK m \in Nat : m = n + p - 1 OBVIOUS
<1>2. PICK d : d = m \div p OBVIOUS
<1>3. d \in Int /\ d * p <= m /\ m < (d + 1) * p
  <2>1. p \in Int /\ p > 0 /\ m \in Int OBVIOUS
  <2> QED BY <1>2, <2>1, Z3
<1>4. (d + 1) * p = d * p + p BY <1>3
<1>5. a >= d BY <1>1, <1>2
<1>6. PICK e \in Nat : a = d + e BY <1>3, <1>5
<1>7. e * p \in Nat BY <1>6
<1>8. a * p = d * p + e * p BY <1>3, <1>6
<1>9. PICK x, y : x = d * p /\ y = e * p OBVIOUS
<1>10. x \in Int BY <1>3, <1>9
<1>11. m < x + p BY <1>3, <1>4, <1>9
<1>12. x >= n BY <1>1, <1>10, <1>11
<1> QED BY <1>7, <1>8, <1>9, <1>10, <1>12

\* The list is ordered: a page's cursor is its last record's, or an earlier page's.
LEMMA ObservedIs ==
  ASSUME R!RestAssumption, RestType, phase = "page", page.records = R!PageAt, page.records # <<>>
  PROVE  /\ R!Observed \in Nat
         /\ \/ R!Observed = max
            \/ R!Observed = 0
            \/ \E i \in 1 .. Len(R!PageAt) : R!Observed = items[R!PageAt[i]]
<1>1. PICK q, n, it, L, f, c : q = R!PageAt /\ n = Len(q) /\ it = items /\ L = R!Listed /\ f = R!From
                               /\ c = CutAt(items, since)
  OBVIOUS
<1>2. /\ q \in Seq(DOMAIN it) /\ f \in Nat
      /\ \A i \in 1 .. n : f + i \in 1 .. Len(L) /\ q[i] = L[f + i]
  BY <1>1, PageIs, FromNat DEF Active
<1>3. Ascends(it) /\ since \in Nat \cup {Null} BY <1>1 DEF RestType, ItemsOK, Cursor
<1>4. \A k \in 1 .. Len(L) : L[k] = c + k BY <1>1, <1>3, RestIs, ListedRest
<1>5. c \in Nat /\ Len(it) \in Nat /\ DOMAIN it = 1 .. Len(it)
  BY <1>1, <1>3, HeadCut, LenProperties DEF Ascends
<1>6. n \in Nat /\ n > 0 /\ DOMAIN q = 1 .. n BY <1>1, <1>2, LenProperties, EmptySeq
<1>7. \A i \in 1 .. n : q[i] = c + (f + i) /\ q[i] \in DOMAIN it
  <2> TAKE i \in 1 .. n
  <2>1. f + i \in 1 .. Len(L) /\ q[i] = L[f + i] BY <1>2
  <2>2. q[i] \in DOMAIN it BY <1>1, <1>2, ElementOfSeq
  <2> QED BY <1>4, <2>1, <2>2
<1>8. \A i \in 1 .. n : it[q[i]] \in Nat BY <1>3, <1>5, <1>7, ElementOfSeq DEF Ascends
<1>9. \A i \in 1 .. n : it[q[i]] <= it[q[n]]
  <2> TAKE i \in 1 .. n
  <2>1. CASE i = n BY <1>8, <2>1
  <2>2. CASE i < n
    <3>1. q[i] < q[n] BY <1>2, <1>5, <1>6, <1>7, <2>2
    <3> QED BY <1>3, <1>6, <1>7, <3>1 DEF Ascends
  <2> QED BY <1>6, <2>1, <2>2
<1>10. PICK z : z = IF max = Null THEN 0 ELSE max OBVIOUS
<1>11. z \in Nat /\ (z = max \/ z = 0) BY <1>10 DEF RestType, Cursor
<1>12. PICK S : S = {it[i] : i \in R!Range(q)} \cup {z} OBVIOUS
<1>13. R!Observed = R!Max(S)
  <2>1. (IF max = Null THEN {0} ELSE {max}) = {z} BY <1>10
  <2> QED BY <1>1, <1>12, <2>1 DEF R!Observed
<1>14. \A s \in S : s = z \/ \E i \in 1 .. n : s = it[q[i]] BY <1>6, <1>12 DEF R!Range
<1>15. z \in S /\ it[q[n]] \in S BY <1>6, <1>12 DEF R!Range
<1>16. \E s \in S : \A t \in S : s >= t
  <2>1. PICK b \in Nat : b = it[q[n]] BY <1>6, <1>8
  <2>2. \A t \in S : t = z \/ (t \in Nat /\ t <= b) BY <1>8, <1>9, <1>14, <2>1
  <2>3. CASE z >= b
    <3>1. z >= z BY <1>11
    <3>2. \A t \in S : z >= t BY <1>11, <2>1, <2>2, <2>3, <3>1
    <3> QED BY <1>15, <3>2
  <2>4. CASE b >= z
    <3>1. \A t \in S : b >= t BY <1>11, <2>1, <2>2, <2>4
    <3> QED BY <1>15, <2>1, <3>1
  <2> QED BY <1>11, <2>1, <2>3, <2>4
<1>17. R!Max(S) \in S BY <1>16 DEF R!Max
<1>18. R!Observed = z \/ \E i \in 1 .. n : R!Observed = it[q[i]] BY <1>13, <1>14, <1>17
<1> QED BY <1>1, <1>8, <1>11, <1>18

LEMMA DeliverShape ==
  ASSUME R!DeliverPage
  PROVE  /\ phase = "page" /\ page' = R!NoPage
         /\ IF R!Decision = Null THEN phase' = "done" /\ ask' = ask ELSE phase' = "next" /\ ask' = R!Decision
         /\ UNCHANGED <<config, items, since, asked, pages, total, send, clean, committed, got,
                        trouble, ignored>>
         /\ IF page.records = <<>>
            THEN UNCHANGED <<max, pushed, rcheckpoint, sent>>
            ELSE /\ pushed' = pushed \cup R!Range(page.records) /\ sent' = sent \o page.records
                 /\ IF config.incremental
                    THEN max' = R!Observed /\ rcheckpoint' = R!Observed
                    ELSE UNCHANGED <<max, rcheckpoint>>
BY DEF R!DeliverPage

\* What is below the cursor of a page came before it.
LEMMA DeliverCovers == ASSUME R!RestAssumption, RestInv, R!DeliverPage PROVE CoverOK'
<1> SUFFICES ASSUME config.incremental, ~ignored
             PROVE  /\ Covered(committed, got)' /\ Covered(since, got)'
                    /\ Covered(rcheckpoint, got \cup pushed)'
                    /\ phase' \in Active =>
                         /\ Covered(max, got \cup pushed)'
                         /\ \A k \in 1 .. Len(R!Listed') : k <= R!From' => R!Listed'[k] \in got' \cup pushed'
  BY DeliverShape DEF CoverOK
<1>1. PICK it, L, f, p, q, c, n, G, H :
        /\ it = items /\ L = R!Listed /\ f = R!From /\ p = PageSize /\ q = R!PageAt
        /\ c = CutAt(items, since) /\ n = Len(R!Listed)
        /\ G = got \cup pushed /\ H = got' \cup pushed'
  OBVIOUS
<1>2. RestType /\ PageOK /\ phase = "page" BY DeliverShape DEF RestInv
<1>3. f \in Nat /\ p \in Nat \ {0} BY <1>1, <1>2, FromNat DEF Active, R!RestAssumption
<1>4. /\ q \in Seq(DOMAIN it)
      /\ Len(q) = (IF f >= n THEN 0 ELSE IF f + p <= n THEN p ELSE n - f)
      /\ \A i \in 1 .. Len(q) : f + i \in 1 .. n /\ q[i] = L[f + i]
  BY <1>1, <1>2, PageIs DEF Active
<1>5. Ascends(it) /\ since \in Nat \cup {Null} BY <1>1, <1>2 DEF RestType, ItemsOK, Cursor
<1>6. /\ L \in Seq(DOMAIN it) /\ n = Len(it) - c /\ (\A k \in 1 .. n : L[k] = c + k)
      /\ c \in 0 .. Len(it) /\ \A i \in DOMAIN it : i <= c <=> (since # Null /\ it[i] < since)
  BY <1>1, <1>5, RestIs, ListedRest, HeadCut
<1>7. Len(it) \in Nat /\ DOMAIN it = 1 .. Len(it) /\ n \in Nat
  BY <1>1, <1>5, <1>6, LenProperties DEF Ascends
<1>8. page.records = q BY <1>1, <1>2 DEF PageOK
<1>9. DOMAIN q = 1 .. Len(q) /\ Len(q) \in Nat BY <1>4, LenProperties
<1>10. G \subseteq H /\ \A i \in 1 .. Len(q) : q[i] \in H
  <2>1. CASE q = <<>>
    <3>1. Len(q) = 0 BY <2>1
    <3> QED BY <1>1, <1>8, <1>9, <2>1, <3>1, DeliverShape
  <2>2. CASE q # <<>> BY <1>1, <1>8, <1>9, <2>2, DeliverShape DEF R!Range
  <2> QED BY <2>1, <2>2
<1>11. /\ Covered(committed, got) /\ Covered(since, got) /\ Covered(rcheckpoint, G) /\ Covered(max, G)
       /\ \A k \in 1 .. n : k <= f => L[k] \in G
  BY <1>1, <1>2 DEF RestInv, CoverOK, Active
<1>12. \A k \in 1 .. n : k <= f + p => L[k] \in H
  <2> TAKE k \in 1 .. n
  <2> HAVE k <= f + p
  <2>1. CASE k <= f BY <1>10, <1>11, <2>1
  <2>2. CASE k > f
    <3>1. k - f \in 1 .. Len(q) /\ f + (k - f) = k BY <1>3, <1>4, <1>7, <2>2
    <3> QED BY <1>4, <1>10, <3>1
  <2> QED BY <1>3, <2>1, <2>2
<1>13. ASSUME q # <<>> PROVE Covered(R!Observed, H)
  <2>1. /\ R!Observed \in Nat
        /\ R!Observed = max \/ R!Observed = 0 \/ \E i \in 1 .. Len(q) : R!Observed = it[q[i]]
    BY <1>1, <1>2, <1>8, <1>13, ObservedIs
  <2>2. PICK o : o = R!Observed OBVIOUS
  <2>3. CASE o = max BY <1>1, <1>10, <1>11, <2>2, <2>3 DEF Covered
  <2>4. CASE o = 0
    <3>1. \A i \in DOMAIN it : it[i] \in Nat BY <1>5, <1>7, ElementOfSeq DEF Ascends
    <3>2. \A i \in DOMAIN it : ~(it[i] < o) BY <2>4, <3>1
    <3> QED BY <1>1, <2>2, <3>2 DEF Covered
  <2>5. ASSUME NEW i \in 1 .. Len(q), o = it[q[i]] PROVE Covered(o, H)
    <3>1. q[i] = c + (f + i) /\ q[i] \in DOMAIN it BY <1>3, <1>4, <1>6, <1>7
    <3>2. ASSUME NEW j \in DOMAIN it, it[j] < o PROVE j \in H
      <4>1. j < q[i]
        <5>1. it[j] \in Nat /\ it[q[i]] \in Nat BY <1>5, <1>7, <3>1, ElementOfSeq DEF Ascends
        <5>2. ~(q[i] < j) BY <1>5, <2>5, <3>1, <3>2, <5>1 DEF Ascends
        <5>3. j # q[i] BY <2>5, <3>2, <5>1
        <5> QED BY <1>7, <3>1, <5>2, <5>3
      <4>2. CASE j <= c
        <5>1. since # Null /\ it[j] < since BY <1>6, <4>2
        <5>2. j \in got BY <1>1, <1>11, <5>1 DEF Covered
        <5> QED BY <1>1, <1>10, <5>2
      <4>3. CASE j > c
        <5>1. j - c \in 1 .. n /\ c + (j - c) = j BY <1>6, <1>7, <4>3
        <5>2. L[j - c] = j BY <1>6, <5>1
        <5>3. j - c < f + i /\ i <= p BY <1>3, <1>4, <1>6, <1>7, <1>9, <3>1, <4>1
        <5>4. j - c <= f + p BY <1>3, <5>1, <5>3
        <5> QED BY <1>12, <5>1, <5>2, <5>4
      <4> QED BY <1>6, <1>7, <4>2, <4>3
    <3> QED BY <1>1, <3>2 DEF Covered
  <2> QED BY <2>1, <2>2, <2>3, <2>4, <2>5
<1>14. Covered(committed, got)' /\ Covered(since, got)' BY <1>11, DeliverShape DEF Covered
<1>15. Covered(rcheckpoint', H) /\ Covered(max', H)
  <2>1. CASE q = <<>> BY <1>8, <1>10, <1>11, <2>1, DeliverShape DEF Covered
  <2>2. CASE q # <<>> BY <1>8, <1>13, <2>2, DeliverShape
  <2> QED BY <2>1, <2>2
<1>16. Covered(rcheckpoint, got \cup pushed)' /\ Covered(max, got \cup pushed)'
  BY <1>1, <1>15, DeliverShape DEF Covered
<1>17. ASSUME phase' \in Active
       PROVE  \A k \in 1 .. Len(R!Listed') : k <= R!From' => R!Listed'[k] \in got' \cup pushed'
  <2>1. R!Decision # Null /\ ask' = R!Decision BY <1>17, DeliverShape DEF Active
  <2>2. R!From' = f + p \/ R!From' = 0 BY <1>1, <1>2, <2>1, OnwardFrom, DeliverShape
  <2>3. R!Listed' = L BY <1>1, DeliverShape DEF R!Listed, R!Before
  <2> QED BY <1>1, <1>3, <1>7, <1>12, <2>2, <2>3
<1> QED BY <1>14, <1>16, <1>17

\* The paginator stops at the end of the list.
LEMMA Stops ==
  ASSUME R!RestAssumption, RestType, PageOK, phase = "page", clean, R!Carries(config), ~config.stuck,
         R!Decision = Null, total = Least(R!From, Len(R!Listed)) + Len(R!PageAt)
  PROVE  R!From + PageSize >= Len(R!Listed)
<1>1. PICK f, p, n, t, q :
        f = R!From /\ p = PageSize /\ n = Len(R!Listed) /\ t = total /\ q = R!PageAt
  OBVIOUS
<1>2. f \in Nat /\ p \in Nat \ {0} BY <1>1, FromNat DEF Active, R!RestAssumption
<1>3. n \in Nat
  <2>1. ItemsOK /\ since \in Nat \cup {Null} BY DEF RestType, Cursor
  <2>2. R!Listed \in Seq(DOMAIN items) BY <2>1, RestIs, ListedRest DEF ItemsOK
  <2> QED BY <1>1, <2>2, LenProperties
<1>4. /\ q \in Seq(DOMAIN items)
      /\ Len(q) = IF f >= n THEN 0 ELSE IF f + p <= n THEN p ELSE n - f
  BY <1>1, PageIs DEF Active
<1>5. page.records = q /\ page.token = R!TokenAfter BY <1>1 DEF PageOK
<1>6. t = IF f + p <= n THEN f + p ELSE n
  <2>1. PICK l : l = Len(q) OBVIOUS
  <2>2. l = (IF f >= n THEN 0 ELSE IF f + p <= n THEN p ELSE n - f) BY <1>4, <2>1
  <2>3. t = (IF f <= n THEN f ELSE n) + l BY <1>1, <2>1 DEF Least
  <2>4. CASE f >= n BY <1>2, <1>3, <2>2, <2>3, <2>4
  <2>5. CASE f < n BY <1>2, <1>3, <2>2, <2>3, <2>5
  <2> QED BY <1>2, <1>3, <2>4, <2>5
<1>7. CASE R!CountReached
  <2>1. t >= n BY <1>1, <1>7 DEF R!CountReached
  <2> QED BY <1>1, <1>2, <1>3, <1>6, <2>1
<1>8. CASE config.family = "page" /\ ~R!CountReached
  <2>1. \/ q = <<>>
        \/ ask >= R!TotalPages
    BY <1>5, <1>8, R!RestAssumption DEF R!Decision, RestType, Active, R!RestAssumption
  <2>2. CASE q = <<>>
    <3>1. Len(q) = 0 BY <2>2
    <3> QED BY <1>1, <1>2, <1>3, <1>4, <3>1
  <2>3. CASE ask >= R!TotalPages
    <3>1. PICK a \in Nat \ {0} : a = ask BY <1>8 DEF RestType, Active
    <3>2. a >= (n + p - 1) \div p BY <1>1, <2>3, <3>1 DEF R!TotalPages
    <3>3. a * p >= n BY <1>2, <1>3, <3>1, <3>2, PagesCover
    <3>4. R!Carried BY <1>8 DEF R!Carried, R!Carries, RestType, R!Valid
    <3>5. f = (a - 1) * p BY <1>1, <1>8, <3>1, <3>4 DEF R!From, R!RestAssumption
    <3>6. (a - 1) * p + p = a * p BY <1>2, <3>1
    <3> QED BY <1>1, <3>3, <3>5, <3>6
  <2> QED BY <2>1, <2>2, <2>3
<1>9. CASE config.family = "offset" /\ ~R!CountReached
  <2>1. ask \in Nat /\ ask + p # Null BY <1>1, <1>2, <1>9 DEF RestType, Active, R!RestAssumption
  <2>2. Len(q) < p BY <1>1, <1>5, <1>9, <2>1 DEF R!Decision
  <2>3. PICK l : l = Len(q) OBVIOUS
  <2>4. l < p /\ l = IF f >= n THEN 0 ELSE IF f + p <= n THEN p ELSE n - f BY <1>4, <2>2, <2>3
  <2>5. f + p >= n BY <1>2, <1>3, <2>4
  <2> QED BY <1>1, <2>5
<1>10. CASE config.family = "token"
  <2>1. R!TokenAfter = Null BY <1>5, <1>10 DEF R!Decision
  <2>2. ~(f + p < n) BY <1>1, <1>2, <1>10, <2>1 DEF R!TokenAfter, R!RestAssumption
  <2>3. f + p >= n BY <1>2, <1>3, <2>2
  <2> QED BY <1>1, <2>3
<1>11. config.family \in {"page", "offset", "token"} BY DEF RestType, R!Config, R!Families, R!Carries
<1> QED BY <1>7, <1>8, <1>9, <1>10, <1>11

\* The records sent are the list up to where the paginator goes on, or all of it.
LEMMA DeliverWhole == ASSUME R!RestAssumption, RestInv, R!DeliverPage PROVE WholeOK'
<1> SUFFICES ASSUME clean
             PROVE  /\ config.stuck => phase' # "done"
                    /\ R!Carries(config) /\ ~config.stuck =>
                         /\ phase' \in Active =>
                              /\ phase' # "page" /\ total' = Len(sent') /\ total' \in Nat
                              /\ Len(sent') = Least(R!From', Len(R!Listed'))
                              /\ \A k \in 1 .. Len(sent') : sent'[k] = R!Listed'[k]
                         /\ phase' = "done" => sent' = R!Listed'
  <2>1. config' = config /\ clean' = clean BY DeliverShape
  <2>2. PICK x, y : x = total' /\ y = Len(sent') OBVIOUS
  <2>3. (x = y /\ x \in Nat) => x = y + 0 OBVIOUS
  <2> QED BY <2>1, <2>2, <2>3 DEF WholeOK, R!Carries
<1>1. RestType /\ PageOK /\ phase = "page" BY DeliverShape DEF RestInv
<1>2. ASSUME config.stuck PROVE phase' # "done"
  <2>1. R!Decision = page.token /\ page.token = R!TokenAfter
    BY <1>1, <1>2 DEF RestType, R!Valid, PageOK, R!Decision
  <2>2. R!Decision = 0 BY <1>1, <1>2, <2>1 DEF R!TokenAfter, RestType, R!Valid
  <2> QED BY <2>2, DeliverShape DEF R!RestAssumption
<1>3. ASSUME R!Carries(config), ~config.stuck
      PROVE  /\ phase' \in Active =>
                  /\ phase' # "page" /\ total' = Len(sent') /\ total' \in Nat
                  /\ Len(sent') = Least(R!From', Len(R!Listed'))
                  /\ \A k \in 1 .. Len(sent') : sent'[k] = R!Listed'[k]
             /\ phase' = "done" => sent' = R!Listed'
  <2>1. PICK S, L, f, p, n, q, x, y :
          /\ S = DOMAIN items /\ L = R!Listed /\ f = R!From /\ p = PageSize /\ n = Len(R!Listed)
          /\ q = R!PageAt /\ x = sent /\ y = sent'
    OBVIOUS
  <2>2. f \in Nat /\ p \in Nat \ {0} BY <1>1, <2>1, FromNat DEF Active, R!RestAssumption
  <2>3. L \in Seq(S)
    <3>1. ItemsOK /\ since \in Nat \cup {Null} BY <1>1 DEF RestType, Cursor
    <3> QED BY <2>1, <3>1, RestIs, ListedRest DEF ItemsOK
  <2>4. n = Len(L) /\ n \in Nat BY <2>1, <2>3, LenProperties
  <2>5. /\ q \in Seq(S)
        /\ Len(q) = (IF f >= n THEN 0 ELSE IF f + p <= n THEN p ELSE n - f)
        /\ \A i \in 1 .. Len(q) : f + i \in 1 .. n /\ q[i] = L[f + i]
    BY <1>1, <2>1, PageIs DEF Active
  <2>6. page.records = q BY <1>1, <2>1 DEF PageOK
  <2>7. x \in Seq(S) /\ Len(x) = Least(f, n) /\ \A k \in 1 .. Len(x) : x[k] = L[k]
    BY <1>1, <1>3, <2>1 DEF RestInv, RestType, WholeOK, Active
  <2>8. total = Least(f, n) + Len(q) BY <1>1, <1>3, <2>1, <2>6, <2>7 DEF RestInv, WholeOK, Active
  <2>9. y = x \o q
    <3>1. CASE q = <<>>
      <4>1. x \o <<>> = x BY <2>7
      <4> QED BY <2>1, <2>6, <3>1, <4>1, DeliverShape
    <3>2. CASE q # <<>> BY <2>1, <2>6, <3>2, DeliverShape
    <3> QED BY <3>1, <3>2
  <2>10. PICK a, b, d : a = Len(x) /\ b = Len(q) /\ d = Len(y) OBVIOUS
  <2>11. a \in Nat /\ b \in Nat BY <2>5, <2>7, <2>10, LenProperties
  <2>12. y \in Seq(S) /\ d = a + b /\ \A k \in 1 .. d : y[k] = IF k <= a THEN x[k] ELSE q[k - a]
    <3>1. /\ x \o q \in Seq(S) /\ Len(x \o q) = Len(x) + Len(q)
          /\ \A i \in 1 .. Len(x) + Len(q) : (x \o q)[i] = IF i <= Len(x) THEN x[i] ELSE q[i - Len(x)]
      BY <2>5, <2>7, ConcatProperties
    <3> QED BY <2>9, <2>10, <3>1
  <2>13. a = (IF f <= n THEN f ELSE n) /\ b = (IF f >= n THEN 0 ELSE IF f + p <= n THEN p ELSE n - f)
    BY <2>5, <2>7, <2>10 DEF Least
  <2>14. d = IF f + p <= n THEN f + p ELSE n
    <3>1. CASE f >= n BY <2>2, <2>4, <2>12, <2>13, <3>1
    <3>2. CASE f < n /\ f + p <= n
      <4>1. ~(f >= n) /\ f <= n BY <2>2, <2>4, <3>2
      <4>2. a = f /\ b = p BY <2>13, <3>2, <4>1
      <4> QED BY <2>12, <3>2, <4>2
    <3>3. CASE f < n /\ f + p > n
      <4>1. ~(f >= n) /\ ~(f + p <= n) /\ f <= n BY <2>2, <2>4, <3>3
      <4>2. a = f /\ b = n - f BY <2>13, <4>1
      <4> QED BY <2>2, <2>4, <2>12, <4>1, <4>2
    <3> QED BY <2>2, <2>4, <3>1, <3>2, <3>3
  <2>15. \A k \in 1 .. d : y[k] = L[k]
    <3> TAKE k \in 1 .. d
    <3>1. CASE k <= a BY <2>7, <2>10, <2>11, <2>12, <3>1
    <3>2. CASE k > a
      <4>1. k - a \in 1 .. b /\ y[k] = q[k - a] BY <2>11, <2>12, <3>2
      <4>2. a = f BY <2>2, <2>4, <2>13, <4>1
      <4>3. f + (k - a) = k BY <2>2, <4>2
      <4> QED BY <2>5, <2>10, <4>1, <4>3
    <3> QED BY <2>11, <3>1, <3>2
  <2>16. R!Listed' = L BY <2>1, DeliverShape DEF R!Listed, R!Before
  <2>17. CASE R!Decision # Null
    <3>1. phase' = "next" /\ ask' = R!Decision BY <2>17, DeliverShape
    <3>2. R!From' = f + p BY <1>1, <1>3, <2>1, <2>17, <3>1, OnwardFrom, DeliverShape
    <3>3. total' = a + b BY <2>7, <2>8, <2>10, DeliverShape
    <3>4. d = Least(f + p, n) BY <2>14 DEF Least
    <3> QED BY <2>1, <2>4, <2>10, <2>12, <2>15, <2>16, <3>1, <3>2, <3>3, <3>4
  <2>18. CASE R!Decision = Null
    <3>1. phase' = "done" BY <2>18, DeliverShape
    <3>2. f + p >= n BY <1>1, <1>3, <2>1, <2>8, <2>18, Stops
    <3>3. d = n BY <2>2, <2>4, <2>14, <3>2
    <3>4. Len(y) = Len(L) /\ \A k \in 1 .. Len(y) : y[k] = L[k] BY <2>4, <2>10, <2>15, <3>3
    <3>5. y = L BY <2>3, <2>12, <3>4, SeqEqual
    <3> QED BY <2>1, <2>16, <3>1, <3>5 DEF Active
  <2> QED BY <2>17, <2>18
<1> QED BY <1>2, <1>3

LEMMA DeliverKeeps == ASSUME R!RestAssumption, RestInv, R!DeliverPage PROVE RestInv'
<1>1. RestType /\ PageOK /\ phase = "page" BY DeliverShape DEF RestInv
<1>2. RestType'
  <2>1. page'.records = <<>> BY DeliverShape DEF R!NoPage
  <2>2. page'.records \in Seq(DOMAIN items) BY <2>1, EmptySeq
  <2>3. sent' \in Seq(DOMAIN items)
    <3>1. sent \o page.records \in Seq(DOMAIN items) BY <1>1, ConcatProperties DEF RestType
    <3> QED BY <1>1, <3>1, DeliverShape DEF RestType
  <2>4. max' \in Cursor /\ rcheckpoint' \in Cursor
    <3>1. CASE page.records = <<>> BY <1>1, <3>1, DeliverShape DEF RestType
    <3>2. CASE page.records # <<>>
      <4>1. page.records = R!PageAt BY <1>1, <3>2 DEF PageOK
      <4>2. R!Observed \in Nat BY <1>1, <3>2, <4>1, ObservedIs
      <4> QED BY <1>1, <3>2, <4>2, DeliverShape DEF RestType, Cursor
    <3> QED BY <3>1, <3>2
  <2>5. phase' \in Active => /\ ask' \in Cursor
                             /\ config.family = "page" => ask' \in Nat \ {0}
                             /\ config.family = "offset" => ask' \in Nat
    <3> SUFFICES ASSUME phase' \in Active PROVE /\ ask' \in Cursor
                                                /\ config.family = "page" => ask' \in Nat \ {0}
                                                /\ config.family = "offset" => ask' \in Nat
      OBVIOUS
    <3>1. R!Decision # Null /\ ask' = R!Decision BY DeliverShape DEF Active
    <3>2. ask' \in Cursor BY <1>1, <3>1, Onward
    <3>3. config.family = "page" => ask' = ask + 1 BY <1>1, <3>1, Onward
    <3>4. config.family = "offset" => ask' = ask + PageSize BY <1>1, <3>1, Onward
    <3> QED BY <1>1, <3>2, <3>3, <3>4 DEF RestType, Active, R!RestAssumption
  <2> QED BY <1>1, <2>2, <2>3, <2>4, <2>5, DeliverShape DEF RestType, ItemsOK
<1>3. PageOK' BY DeliverShape DEF PageOK
<1>4. CoverOK' /\ WholeOK' BY DeliverCovers, DeliverWhole
<1>5. SendOK' BY DeliverShape DEF RestInv, SendOK
<1>6. StuckOK'
  <2>1. phase' = "next" => ask' = R!Decision /\ R!Decision # Null BY DeliverShape
  <2>2. config.stuck /\ R!Decision # Null => R!Decision = 0 BY <1>1, Onward
  <2> QED BY <2>1, <2>2, DeliverShape DEF RestInv, StuckOK
<1> QED BY <1>2, <1>3, <1>4, <1>5, <1>6 DEF RestInv

LEMMA RestStep == ASSUME R!RestAssumption, RestInv, [R!Next]_R!vars PROVE RestInv'
<1>1. CASE UNCHANGED R!vars
  <2>1. UNCHANGED <<config, items, since, ask, phase, page, ignored, clean, committed, got, pushed,
                    rcheckpoint, max, sent, total, send, pages, asked>>
    BY <1>1 DEF R!vars, R!run
  <2>2. R!Listed' = R!Listed /\ R!From' = R!From /\ R!PageAt' = R!PageAt /\ R!TokenAfter' = R!TokenAfter
    BY <2>1, SameList
  <2>3. RestType' BY <2>1 DEF RestInv, RestType, ItemsOK
  <2>4. PageOK' /\ WholeOK' BY <2>1, <2>2 DEF RestInv, PageOK, WholeOK
  <2>5. CoverOK' BY <2>1, <2>2 DEF RestInv, CoverOK, Covered
  <2>6. SendOK' /\ StuckOK' BY <2>1 DEF RestInv, SendOK, StuckOK
  <2> QED BY <2>3, <2>4, <2>5, <2>6 DEF RestInv
<1>2. CASE R!Unauthorized
  <2>1. phase = "sending" /\ clean' = FALSE /\ UNCHANGED <<config, items, committed, got, ignored>>
    BY <1>2 DEF R!Unauthorized, R!Troubled
  <2>2. CASE R!Ends("refused") BY <2>1, <2>2, EndsKeeps
  <2>3. CASE /\ ~send.reauth /\ send' = [send EXCEPT !.reauth = TRUE, !.count = @ + 1]
             /\ UNCHANGED <<phase, since, ask, asked, pages, total, page, max, pushed, rcheckpoint, sent>>
    <3>1. PICK w \in BOOLEAN, n \in Nat : send = [waited |-> w, reauth |-> FALSE, count |-> n]
      BY <2>3 DEF RestInv, SendOK
    <3>2. send' = [waited |-> w, reauth |-> TRUE, count |-> n + 1] BY <2>3, <3>1
    <3>3. n <= 1 + (IF w THEN 1 ELSE 0) BY <3>1 DEF RestInv, SendOK
    <3>4. SendOK' BY <3>2, <3>3 DEF SendOK
    <3> QED BY <2>1, <2>3, <3>4, AgainKeeps
  <2> QED BY <1>2, <2>2, <2>3 DEF R!Unauthorized
<1>3. CASE R!RateLimited
  <2>1. phase = "sending" /\ clean' = FALSE /\ UNCHANGED <<config, items, committed, got, ignored>>
    BY <1>3 DEF R!RateLimited, R!Troubled
  <2>2. CASE R!Ends("idle") BY <2>1, <2>2, EndsKeeps
  <2>3. CASE /\ ~send.waited /\ send' = [send EXCEPT !.waited = TRUE, !.count = @ + 1]
             /\ UNCHANGED <<phase, since, ask, asked, pages, total, page, max, pushed, rcheckpoint, sent>>
    <3>1. PICK a \in BOOLEAN, n \in Nat : send = [waited |-> FALSE, reauth |-> a, count |-> n]
      BY <2>3 DEF RestInv, SendOK
    <3>2. send' = [waited |-> TRUE, reauth |-> a, count |-> n + 1] BY <2>3, <3>1
    <3>3. n <= 1 + (IF a THEN 1 ELSE 0) BY <3>1 DEF RestInv, SendOK
    <3>4. SendOK' BY <3>2, <3>3 DEF SendOK
    <3> QED BY <2>1, <2>3, <3>4, AgainKeeps
  <2> QED BY <1>3, <2>2, <2>3 DEF R!RateLimited
<1>4. CASE R!Fails
  <2>1. /\ UNCHANGED <<config, items, committed, got, ignored>>
        /\ \E how \in {"idle", "refused"} : R!Ends(how)
    BY <1>4 DEF R!Fails
  <2> QED BY <2>1, EndsKeeps
<1>5. CASE R!RunFails
  <2>1. UNCHANGED <<config, items, committed, got, ignored>> /\ R!Ends("idle") BY <1>5 DEF R!RunFails
  <2> QED BY <2>1, EndsKeeps
<1>6. CASE R!StartRead BY <1>6, StartKeeps
<1>7. CASE R!NextRequest BY <1>7, RequestKeeps
<1>8. CASE R!Answer BY <1>8, AnswerKeeps
<1>9. CASE R!DeclaredAction BY <1>9, ActionKeeps
<1>10. CASE R!DeliverPage BY <1>10, DeliverKeeps
<1>11. CASE R!EngineCommit BY <1>11, CommitKeeps
<1>12. CASE R!FinishRead BY <1>12, FinishKeeps
<1> QED BY <1>1, <1>2, <1>3, <1>4, <1>5, <1>6, <1>7, <1>8, <1>9, <1>10, <1>11, <1>12 DEF R!Next

LEMMA RestAlways == ASSUME R!RestAssumption PROVE R!Spec => []RestInv
<1>1. R!Init => RestInv BY RestInit
<1>2. RestInv /\ [R!Next]_R!vars => RestInv' BY RestStep
<1> QED BY <1>1, <1>2, PTL DEF R!Spec

\* A committed cursor covers no record that did not arrive (RestRead's
\* CursorCovers; read/cursor.rs, the checkpoint after every page), for any list,
\* page size and configuration, and however the runs before it ended.
THEOREM CursorKept == ASSUME R!RestAssumption PROVE R!Spec => []R!CursorCovers
<1>1. RestInv => R!CursorCovers BY DEF RestInv, CoverOK, Covered, R!CursorCovers
<1> QED BY <1>1, RestAlways, PTL

\* A read that met nothing but pages of records ends with the whole list, each
\* record sent once (RestRead's WholeStreamOnce): every stop rule of every
\* paginator fires at the end of the list and not before.
THEOREM StreamWhole == ASSUME R!RestAssumption PROVE R!Spec => []R!WholeStreamOnce
<1>1. RestInv => R!WholeStreamOnce
  BY DEF RestInv, WholeOK, R!WholeStreamOnce, R!Carries
<1> QED BY <1>1, RestAlways, PTL

\* The send loop goes round at most twice, and a server that repeats its token is
\* asked for it once (RestRead's BoundedRequests).
THEOREM RequestsBounded == ASSUME R!RestAssumption PROVE R!Spec => []R!BoundedRequests
<1>1. RestInv => R!BoundedRequests
  BY DEF RestInv, SendOK, StuckOK, R!BoundedRequests
<1> QED BY <1>1, RestAlways, PTL

=============================================================================
