----------------------------- MODULE RestFanout -----------------------------
(***************************************************************************)
(* The REST source reading a child stream: one sequence per parent record, *)
(* at most Limit of them in flight, their pages forwarded to the feed      *)
(* through one bounded channel, one OAuth2 token shared by all of them,    *)
(* and one checkpoint at the end.                                          *)
(*                                                                         *)
(* A page is a cursor value; the send loop of one request, its rate limits *)
(* and the paginators are RestRead's.                                      *)
(***************************************************************************)
EXTENDS Integers, Sequences, FiniteSets, Functions

CONSTANTS Lists,      \* the children: for each parent record, the values of its pages
          Limit,      \* max_concurrency
          MaxRevoked, \* tokens the issuer takes back
          MaxExpired, \* tokens that reach their expiry margin
          MaxFailed,  \* requests that fail otherwise
          CanClose,   \* the engine may close the feed
          Null

VARIABLES child,      \* [st, page, gen, tok, retried] per child
          chan, fwd,  \* the channel and its forwarder, "open" or "ended"
          driven,     \* "running", "done" or "failed": the children's half of the join
          cached, expired, generation, lock, \* the shared token and its mutex
          valid, issued, \* the issuer: the tokens it accepts, and how many it gave
          revoked, expirations, failed,
          closed, out, checkpoint, joined

vars == <<child, chan, fwd, driven, cached, expired, generation, lock, valid, issued, revoked,
          expirations, failed, closed, out, checkpoint, joined>>
token == <<cached, expired, generation, lock, valid, issued, revoked, expirations>>
feed == <<closed, out, checkpoint, joined>>

Children == DOMAIN Lists
Capacity == 2 * Limit
Idle == [st |-> "waiting", page |-> 1, gen |-> 0, tok |-> Null, retried |-> FALSE]

Init == /\ child = [c \in Children |-> Idle] /\ chan = <<>> /\ fwd = "open" /\ driven = "running"
        /\ cached = Null /\ expired = FALSE /\ generation = 0 /\ lock = Null
        /\ valid = {} /\ issued = 0 /\ revoked = 0 /\ expirations = 0 /\ failed = 0
        /\ closed = FALSE /\ out = {} /\ checkpoint = Null /\ joined = FALSE
-----------------------------------------------------------------------------
(***************************************************************************)
(* The children.  They start in the order of their parents.                *)
(***************************************************************************)
At(c, st) == driven = "running" /\ child[c].st = st
Moves(c, st) == child' = [child EXCEPT ![c].st = st]
Running == {c \in Children : child[c].st \notin {"waiting", "done"}}

Start(c) ==
    /\ At(c, "waiting") /\ Cardinality(Running) < Limit
    /\ \A d \in Children : d < c => child[d].st # "waiting"
    /\ Moves(c, "attach")
    /\ UNCHANGED <<chan, fwd, driven, token, failed, feed>>

\* One failure ends the others where they are; a dropped fetch lets go of the token.
Fail == /\ driven' = "failed"
        /\ lock' = Null
        /\ UNCHANGED <<child, chan, fwd, cached, expired, generation, valid, issued, revoked,
                       expirations, feed>>

(***************************************************************************)
(* A request takes the cached token and its generation; without one it     *)
(* fetches under the mutex.                                                *)
(***************************************************************************)
Carry(c, t, g) == child' = [child EXCEPT ![c] = [@ EXCEPT !.st = "flight", !.tok = t, !.gen = g]]

\* A variant: the cache is read and filled without the lock.
AttachUnlocked(c) ==
    /\ At(c, "attach")
    /\ IF cached # Null /\ ~expired
         THEN Carry(c, cached, generation)
         ELSE Moves(c, "fetching")
    /\ UNCHANGED <<chan, fwd, driven, token, failed, feed>>

Attach(c) ==
    /\ At(c, "attach") /\ lock = Null
    /\ IF cached # Null /\ ~expired
         THEN Carry(c, cached, generation) /\ lock' = lock
         ELSE Moves(c, "fetching") /\ lock' = c
    /\ UNCHANGED <<chan, fwd, driven, cached, expired, generation, valid, issued, revoked,
                   expirations, failed, feed>>

Fetch(c) ==
    /\ At(c, "fetching")
    /\ issued' = issued + 1 /\ valid' = valid \cup {issued'}
    /\ cached' = issued' /\ expired' = FALSE /\ generation' = generation + 1
    /\ lock' = Null
    /\ Carry(c, cached', generation')
    /\ UNCHANGED <<chan, fwd, driven, revoked, expirations, failed, feed>>

FetchFails(c) == At(c, "fetching") /\ failed < MaxFailed /\ failed' = failed + 1 /\ Fail

(***************************************************************************)
(* The answer: a page, a rejected token (the second of one send is final), *)
(* or any other failure.                                                   *)
(***************************************************************************)
Respond(c) ==
    /\ At(c, "flight")
    /\ CASE Lists[c] = <<>> /\ child[c].tok \in valid -> Moves(c, "done")
         [] Lists[c] # <<>> /\ child[c].tok \in valid -> Moves(c, "page")
         [] OTHER                                     -> Moves(c, "rejected")
    /\ UNCHANGED <<chan, fwd, driven, token, failed, feed>>

RequestFails(c) == At(c, "flight") /\ failed < MaxFailed /\ failed' = failed + 1 /\ Fail

(***************************************************************************)
(* A rejected token is evicted by the first to report it; the others find  *)
(* the generation moved on and go again with what is there.                *)
(***************************************************************************)
Evict == cached' = Null /\ generation' = generation + 1

Again(c) == child' = [child EXCEPT ![c] = [@ EXCEPT !.st = "attach", !.retried = TRUE]]

\* A variant: a rejection evicts whatever generation it belonged to.
OnUnauthorizedAnyGeneration(c) ==
    /\ At(c, "rejected") /\ lock = Null
    /\ IF child[c].retried \/ cached = Null
         THEN Fail
         ELSE /\ Again(c) /\ Evict
              /\ UNCHANGED <<expired, lock, valid, issued, revoked, expirations, driven>>
    /\ UNCHANGED <<chan, fwd, failed, feed>>

\* A variant: a rejection of an older generation fails the read.
OnUnauthorizedOwnOnly(c) ==
    /\ At(c, "rejected") /\ lock = Null
    /\ IF child[c].retried \/ child[c].gen # generation
         THEN Fail
         ELSE /\ Again(c) /\ Evict
              /\ UNCHANGED <<expired, lock, valid, issued, revoked, expirations, driven>>
    /\ UNCHANGED <<chan, fwd, failed, feed>>

OnUnauthorized(c) ==
    /\ At(c, "rejected") /\ lock = Null
    /\ IF child[c].retried THEN Fail
       ELSE IF child[c].gen # generation THEN Again(c) /\ UNCHANGED <<token, driven>>
       ELSE IF cached = Null THEN Fail
       ELSE /\ Again(c) /\ Evict
            /\ UNCHANGED <<expired, lock, valid, issued, revoked, expirations, driven>>
    /\ UNCHANGED <<chan, fwd, failed, feed>>

(***************************************************************************)
(* The page waits for room in the channel.  The receiver outlives its      *)
(* forwarder, so the send never fails.                                     *)
(***************************************************************************)
Push(c) ==
    /\ At(c, "page") /\ Len(chan) < Capacity
    /\ chan' = Append(chan, <<c, child[c].page>>)
    /\ child' = [child EXCEPT ![c] = [@ EXCEPT !.page = child[c].page + 1, !.retried = FALSE,
                     !.st = IF child[c].page < Len(Lists[c]) THEN "attach" ELSE "done"]]
    /\ UNCHANGED <<fwd, driven, token, failed, feed>>
-----------------------------------------------------------------------------
(***************************************************************************)
(* The forwarder stops at a closed feed, or when the last sender is gone   *)
(* and the channel is empty.                                               *)
(***************************************************************************)
Forward ==
    /\ fwd = "open" /\ chan # <<>>
    /\ chan' = Tail(chan)
    /\ IF closed THEN fwd' = "ended" /\ out' = out
                 ELSE out' = out \cup {Head(chan)} /\ fwd' = fwd
    /\ UNCHANGED <<child, driven, token, failed, closed, checkpoint, joined>>

\* A variant: a finished drive keeps its sender.
SendersKept == driven = "failed"

SendersGone == driven # "running"

ForwardEnds == /\ fwd = "open" /\ chan = <<>> /\ SendersGone
               /\ fwd' = "ended"
               /\ UNCHANGED <<child, chan, driven, token, failed, feed>>

DriveDone == /\ driven = "running" /\ \A c \in Children : child[c].st = "done"
             /\ driven' = "done"
             /\ UNCHANGED <<child, chan, fwd, token, failed, feed>>

(***************************************************************************)
(* Both halves have ended: the largest value of all children is            *)
(* checkpointed, unless one failed; a closed feed takes no checkpoint.     *)
(***************************************************************************)
Merged == CHOOSE m \in UNION {Range(Lists[c]) : c \in Children} :
              \A n \in UNION {Range(Lists[c]) : c \in Children} : n <= m

\* A variant: the checkpoint does not ask whether every child ended.
CheckpointedPartial == IF closed THEN Null ELSE Merged

Checkpointed == IF driven = "done" /\ ~closed THEN Merged ELSE Null

Join == /\ ~joined /\ driven # "running" /\ fwd = "ended"
        /\ joined' = TRUE
        /\ checkpoint' = Checkpointed
        /\ UNCHANGED <<child, chan, fwd, driven, token, failed, closed, out>>
-----------------------------------------------------------------------------
(***************************************************************************)
(* The engine closes the feed, the issuer takes a token back, the clock    *)
(* reaches the expiry margin.                                              *)
(***************************************************************************)
Close == /\ CanClose /\ ~closed /\ ~joined
         /\ closed' = TRUE
         /\ UNCHANGED <<child, chan, fwd, driven, token, failed, out, checkpoint, joined>>

Revoke == /\ revoked < MaxRevoked /\ driven = "running"
          /\ revoked' = revoked + 1
          /\ \E t \in valid : valid' = valid \ {t}
          /\ UNCHANGED <<child, chan, fwd, driven, cached, expired, generation, lock, issued,
                         expirations, failed, feed>>

Expire == /\ expirations < MaxExpired /\ cached # Null /\ ~expired /\ lock = Null /\ driven = "running"
          /\ expirations' = expirations + 1
          /\ expired' = TRUE
          /\ UNCHANGED <<child, chan, fwd, driven, cached, generation, lock, valid, issued,
                         revoked, failed, feed>>

Reads == \/ \E c \in Children : \/ Start(c) \/ Attach(c) \/ Fetch(c) \/ Respond(c)
                                \/ OnUnauthorized(c) \/ Push(c)
         \/ Forward \/ ForwardEnds \/ DriveDone \/ Join

Next == \/ Reads
        \/ \E c \in Children : FetchFails(c) \/ RequestFails(c)
        \/ Close \/ Revoke \/ Expire

Spec == Init /\ [][Next]_vars

\* The runtime polls a future that can go on, and a request is answered or times out.
FairSpec == Spec /\ WF_vars(Reads)
-----------------------------------------------------------------------------
FanoutAssumption == /\ Lists \in Seq(Seq(Nat))
                    /\ Limit \in Nat \ {0}
                    /\ Null \notin Nat

TypeOK ==
    /\ child \in [Children -> [st : {"waiting", "attach", "fetching", "flight", "rejected",
                                     "page", "done"},
                               page : Nat \ {0}, gen : Nat, tok : Nat \cup {Null},
                               retried : BOOLEAN]]
    /\ chan \in Seq(Children \X Nat) /\ fwd \in {"open", "ended"}
    /\ driven \in {"running", "done", "failed"}
    /\ cached \in Nat \cup {Null} /\ expired \in BOOLEAN /\ generation \in Nat
    /\ lock \in Children \cup {Null}
    /\ issued \in Nat /\ valid \subseteq 1 .. issued
    /\ revoked \in Nat /\ expirations \in Nat /\ failed \in Nat
    /\ closed \in BOOLEAN /\ joined \in BOOLEAN

(***************************************************************************)
(* A token the issuer still accepts is not evicted, however late the       *)
(* rejections of its predecessor come in.                                  *)
(***************************************************************************)
FreshTokenKept == [][cached # Null /\ cached' = Null => cached \notin valid]_vars

(***************************************************************************)
(* However many children see one token die, it is fetched again once.      *)
(***************************************************************************)
OneFetchPerToken == issued <= 1 + revoked + expirations

(***************************************************************************)
(* The checkpoint comes after every page of every child has been taken by  *)
(* the feed: a child that failed or was cancelled leaves the resume point  *)
(* of all of them where it was.                                            *)
(***************************************************************************)
CheckpointCoversChildren ==
    checkpoint # Null => \A c \in Children : \A i \in DOMAIN Lists[c] : <<c, i>> \in out

(***************************************************************************)
(* One revoked token fails nobody, whichever of the children notices it    *)
(* first: only a second one may end the stream.                            *)
(***************************************************************************)
OneRevocationForgiven == driven = "failed" => failed > 0 \/ revoked > 1

(***************************************************************************)
(* Why the token is shared (credentials.rs attach, current_token and       *)
(* on_unauthorized): a child that carries the current generation carries   *)
(* the cached token, one that retries has a dead token behind it, and only *)
(* tokens that expired are accepted and not cached.                        *)
(***************************************************************************)
Usable  == IF cached # Null /\ ~expired THEN {cached} ELSE {}
Dead(n) == \E t \in 1 .. n : t \notin valid

TokensCounted == /\ cached # Null => cached \in 1 .. issued
                 /\ issued = Cardinality(valid) + revoked
                 /\ Cardinality(valid \ Usable) <= expirations

FetchAlone == \A c \in Children : At(c, "fetching") => lock = c /\ Usable = {}

CarriedToken == \A c \in Children : child[c].st \in {"flight", "rejected"} =>
                    /\ child[c].tok \in 1 .. issued
                    /\ child[c].gen <= generation
                    /\ child[c].gen = generation => cached = child[c].tok
                    /\ child[c].gen < generation /\ cached # Null => child[c].tok < cached
                    /\ child[c].st = "rejected" => child[c].tok \notin valid

RetryHasDead == \A c \in Children : child[c].retried =>
                    CASE child[c].st \in {"flight", "rejected"} -> Dead(child[c].tok - 1)
                      [] child[c].st \in {"attach", "fetching"} ->
                             Dead(IF cached = Null THEN issued ELSE cached - 1)
                      [] OTHER -> child[c].st # "waiting"

TokenInv == TokensCounted /\ FetchAlone /\ CarriedToken /\ RetryHasDead /\ OneRevocationForgiven

(***************************************************************************)
(* Why the checkpoint covers the children (fanout.rs read_children): a     *)
(* page pushed is in the channel until the feed has it, and the halves of  *)
(* the join end only when nothing is on its way any more.                  *)
(***************************************************************************)
InChannel(page) == \E k \in DOMAIN chan : chan[k] = page

FeedInv ==
    /\ \A c \in Children : \A i \in 1 .. child[c].page - 1 :
           closed \/ <<c, i>> \in out \/ InChannel(<<c, i>>)
    /\ \A c \in Children : child[c].st = "done" => child[c].page > Len(Lists[c])
    /\ fwd = "ended" /\ ~closed => chan = <<>> /\ driven # "running"
    /\ driven = "done" => \A c \in Children : child[c].st = "done"
    /\ CheckpointCoversChildren

(***************************************************************************)
(* Until the read returns some part of it can go on, unless the feed was   *)
(* closed: the bounded channel, the mutex and the concurrency limit never  *)
(* wait for each other (read_children, current_token).                     *)
(***************************************************************************)
GoesOn == closed \/ joined \/ ENABLED Reads

(***************************************************************************)
(* The read returns (fanout.rs:71 "closed channel = cancellation", :156    *)
(* "forwarder ended = cancellation").                                      *)
(***************************************************************************)
ReadReturns == <>joined
=============================================================================
