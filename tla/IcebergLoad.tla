----------------------------- MODULE IcebergLoad -----------------------------
(***************************************************************************)
(* The iceberg destination (destination/load.rs, commit.rs, state.rs).     *)
(* There is no transaction over tables: a commit appends one snapshot per  *)
(* table, stamped with the commit's identity, and then writes state and    *)
(* receipt into the properties of the marker table, last.  Every write is  *)
(* a compare-and-swap on the table's metadata, retried a bounded number of *)
(* times.  A session may die between any two of them; a request it had on  *)
(* the wire may be applied later, while the recovery session (of the same  *)
(* pipeline scope or, re-scoped, another one) delivers the unit again.     *)
(* Other pipelines append to the same tables and stamp the same marker.    *)
(***************************************************************************)
EXTENDS Naturals, Sequences, FiniteSets

CONSTANTS
  Table,
  MaxLoad,        \* bound: loads are 1 .. MaxLoad
  MaxSeq,         \* bound: commits of a load are 1 .. MaxSeq
  Feed(_, _),     \* Feed(u, t): how many rows unit u carries for table t
  Scope,          \* scopes the pipeline's sessions run under (a set of Nat)
  Attempts,       \* COMMIT_ATTEMPTS
  Retention,      \* RECEIPT_RETENTION
  MaxForeign,     \* bound: commits of other pipelines
  MaxDeaths       \* bound: sessions that die before their commit is acknowledged

Unit == [load : 1 .. MaxLoad, seq : 1 .. MaxSeq]
Rows(u, t) == {[unit |-> u, n |-> i] : i \in 1 .. Feed(u, t)}

IcebergAssumption ==
  /\ MaxLoad \in Nat \ {0} /\ MaxSeq \in Nat \ {0}
  /\ \A u \in Unit, t \in Table : Feed(u, t) \in Nat
  /\ Scope # {} /\ Scope \subseteq Nat \ {0}
  /\ Attempts \in Nat \ {0} /\ Retention \in Nat \ {0}
  /\ MaxForeign \in Nat /\ MaxDeaths \in Nat

VARIABLES
  snaps,     \* snaps[t]: the snapshot history of a table; its length is what
             \* a compare-and-swap compares
  receipts,  \* the marker's receipt properties
  stateOf,   \* stateOf[s]: the unit of a scope's state document, or NoUnit
  edition,   \* how often the marker was committed to
  inflight,  \* append requests of dead sessions
  late,      \* marker requests of dead sessions
  cur,       \* the unit the engine delivers
  acked,     \* units the engine knows committed
  deaths,    \* bound counter
  foreign,   \* bound counter
  pc,        \* where the session is
  scope,     \* Load.scope
  sent,      \* sent[t]: rows of the window so far
  todo,      \* tables converge_tables has still to visit
  target,    \* the table whose append is being retried
  base,      \* what the request was planned against: the length of the
             \* table's history, or the marker's edition
  attempt,   \* number of the attempt, 0 outside commit_with_retry
  dirty,     \* history: an unfinished attempt at cur changed a table
  stamped    \* history: units whose receipt was ever written

catalogVars == <<snaps, receipts, stateOf, edition>>
wireVars    == <<inflight, late>>
engineVars  == <<cur, acked, deaths, foreign>>
commitVars  == <<todo, target, base, attempt>>
ghostVars   == <<dirty, stamped>>
vars        == <<catalogVars, wireVars, engineVars, pc, scope, sent, commitVars, ghostVars>>

NoUnit == [load |-> 0, seq |-> 0]
Foreign == [scope |-> 0, unit |-> NoUnit, rows |-> {}]
Snapshot(s, u, rows) == [scope |-> s, unit |-> u, rows |-> rows]

Init ==
  /\ snaps = [t \in Table |-> <<>>]
  /\ receipts = {} /\ stateOf = [s \in Scope |-> NoUnit] /\ edition = 0
  /\ inflight = {} /\ late = {}
  /\ cur = [load |-> 1, seq |-> 1] /\ acked = {} /\ deaths = 0 /\ foreign = 0
  /\ pc = "none" /\ scope = 0 /\ sent = [t \in Table |-> 0]
  /\ todo = {} /\ target = {} /\ base = 0 /\ attempt = 0
  /\ dirty = FALSE /\ stamped = {}

-----------------------------------------------------------------------------
(* Identities in a table's history *)

\* load_committed: the load and sequence, under any scope.
LoadCommitted(t) ==
  \E i \in DOMAIN snaps[t] : snaps[t][i].unit = cur

\* already_committed: the same under this session's own scope.
AlreadyCommitted(t) ==
  \E i \in 1 .. base : snaps[t][i].unit = cur /\ snaps[t][i].scope = scope

Window(t) == {[unit |-> cur, n |-> i] : i \in 1 .. sent[t]}

\* A fast append lands if nobody committed to the table since it was planned.
Append1(t, snap) == snaps' = [snaps EXCEPT ![t] = Append(@, snap)]

-----------------------------------------------------------------------------
(* The session *)

NoCommit ==
  /\ todo' = {} /\ target' = {} /\ base' = 0 /\ attempt' = 0

EndSession ==
  /\ pc' = "none" /\ scope' = 0
  /\ sent' = [t \in Table |-> 0]
  /\ NoCommit

\* A pipeline keeps its scope while an append of a dead session may be applied:
\* already_committed would not recognise it under another one.
OpenSession ==
  /\ pc = "none" /\ cur \in Unit
  /\ pc' = "loading"
  /\ scope' \in {s \in Scope : \A r \in inflight : r.snap.scope = s}
  /\ UNCHANGED <<catalogVars, wireVars, engineVars, sent, commitVars, ghostVars>>

Write(t) ==
  /\ pc = "loading" /\ sent[t] < Feed(cur, t)
  /\ sent' = [sent EXCEPT ![t] = @ + 1]
  /\ UNCHANGED <<catalogVars, wireVars, engineVars, pc, scope, commitVars, ghostVars>>

Delivered == \A t \in Table : sent[t] = Feed(cur, t)

\* publish, or replay when existing_receipt answers: both converge every table
\* whose window has files, and both persist the state.
StartConverge ==
  /\ pc = "loading" /\ Delivered
  /\ pc' = "converge"
  /\ todo' = {t \in Table : sent[t] > 0}
  /\ UNCHANGED <<catalogVars, wireVars, engineVars, scope, sent, target, base, attempt, ghostVars>>

\* converge_tables, one table: fresh metadata; a commit already in the history
\* discards the window.
Visit(t) ==
  /\ pc = "converge" /\ t \in todo
  /\ IF LoadCommitted(t)
     THEN /\ todo' = todo \ {t}
          /\ UNCHANGED <<pc, target, base, attempt>>
     ELSE /\ target' = {t} /\ base' = Len(snaps[t]) /\ attempt' = 1
          /\ pc' = "plan"
          /\ UNCHANGED todo
  /\ UNCHANGED <<catalogVars, wireVars, engineVars, scope, sent, ghostVars>>

\* append_commit's plan: settled if this identity is in the history it rebuilds
\* against, otherwise the request goes out.
PlanAppend(t) ==
  /\ pc = "plan" /\ t \in target
  /\ IF AlreadyCommitted(t)
     THEN /\ pc' = "converge" /\ todo' = todo \ {t}
          /\ target' = {} /\ base' = 0 /\ attempt' = 0
     ELSE /\ pc' = "sent"
          /\ UNCHANGED commitVars
  /\ UNCHANGED <<catalogVars, wireVars, engineVars, scope, sent, ghostVars>>

AppendLands(t) ==
  /\ pc = "sent" /\ t \in target /\ base = Len(snaps[t])
  /\ Append1(t, Snapshot(scope, cur, Window(t)))
  /\ dirty' = TRUE
  /\ pc' = "converge" /\ todo' = todo \ {t}
  /\ target' = {} /\ base' = 0 /\ attempt' = 0
  /\ UNCHANGED <<receipts, stateOf, edition, wireVars, engineVars, scope, sent, stamped>>

\* A variant: a conflict is retried without a new plan.
AppendRetriesBlindly(t) ==
  /\ pc = "sent" /\ t \in target /\ base # Len(snaps[t])
  /\ IF attempt < Attempts
     THEN /\ attempt' = attempt + 1 /\ base' = Len(snaps[t])
          /\ UNCHANGED <<pc, scope, sent, todo, target>>
     ELSE EndSession
  /\ UNCHANGED <<catalogVars, wireVars, engineVars, ghostVars>>

\* A conflict: reload and plan again, until the attempts are used up.
AppendConflicts(t) ==
  /\ pc = "sent" /\ t \in target /\ base # Len(snaps[t])
  /\ IF attempt < Attempts
     THEN /\ attempt' = attempt + 1 /\ base' = Len(snaps[t]) /\ pc' = "plan"
          /\ UNCHANGED <<scope, sent, todo, target>>
     ELSE EndSession
  /\ UNCHANGED <<catalogVars, wireVars, engineVars, ghostVars>>

-----------------------------------------------------------------------------
(* The marker table: state and receipt *)

Stale(all, key, s) ==
  LET own == {r \in all : r.scope = s /\ r.load # key}
  IN {r \in own : Cardinality({q \in own : q.at > r.at}) + 1 >= Retention}

\* A variant: the retention counts everyone's receipts.
ReceiptDeltaGlobal(l, n, s) ==
  LET own  == {r \in receipts : r.load = l}
      seq  == IF \E r \in own : r.seq > n THEN (CHOOSE r \in own : TRUE).seq ELSE n
      rest == receipts \ own
  IN {r \in rest : Cardinality({q \in rest : q.at > r.at}) + 1 < Retention}
     \cup {[load |-> l, seq |-> seq, scope |-> s, at |-> edition + 1]}

\* receipt_delta: the high water merges by maximum; of the stamping scope's
\* other receipts the oldest go.  (The stamp is a wall clock; the edition
\* stands for it, so the clock is taken not to go back between commits.)
ReceiptDelta(l, n, s) ==
  LET own == {r \in receipts : r.load = l}
      seq == IF \E r \in own : r.seq > n THEN (CHOOSE r \in own : TRUE).seq ELSE n
  IN ((receipts \ own) \ Stale(receipts, l, s))
     \cup {[load |-> l, seq |-> seq, scope |-> s, at |-> edition + 1]}

\* write_state's plan applied: state and receipt in one property commit.
Stamp(u, s) ==
  /\ stateOf' = [stateOf EXCEPT ![s] = u]
  /\ receipts' = ReceiptDelta(u.load, u.seq, s)
  /\ edition' = edition + 1
  /\ stamped' = stamped \cup {u}
  /\ dirty' = FALSE

\* persist_state, after every table: write_state reads the marker and sends.
SendState ==
  /\ pc = "converge" /\ todo = {}
  /\ base' = edition /\ attempt' = 1
  /\ pc' = "stamping"
  /\ UNCHANGED <<catalogVars, wireVars, engineVars, scope, sent, todo, target, ghostVars>>

StateLands ==
  /\ pc = "stamping" /\ base = edition
  /\ Stamp(cur, scope)
  /\ pc' = "answered"
  /\ base' = 0 /\ attempt' = 0
  /\ UNCHANGED <<snaps, wireVars, engineVars, scope, sent, todo, target>>

\* A conflict on the marker: read it and plan again, a bounded number of times.
StateConflicts ==
  /\ pc = "stamping" /\ base # edition
  /\ IF attempt < Attempts
     THEN /\ attempt' = attempt + 1 /\ base' = edition
          /\ UNCHANGED <<pc, scope, sent, todo, target>>
     ELSE EndSession
  /\ UNCHANGED <<catalogVars, wireVars, engineVars, ghostVars>>

\* existing_receipt: the high water answers for the load's earlier sequences.
ExistingReceipt(u) == \E r \in receipts : r.load = u.load /\ u.seq <= r.seq

-----------------------------------------------------------------------------
(* The engine, other pipelines, and what goes wrong *)

EngineAck ==
  /\ pc = "answered"
  /\ acked' = acked \cup {cur}
  /\ sent' = [t \in Table |-> 0]
  /\ NoCommit
  /\ IF cur.seq < MaxSeq
     THEN /\ cur' = [cur EXCEPT !.seq = @ + 1]
          /\ pc' = "loading" /\ UNCHANGED scope
     ELSE /\ cur' = [load |-> cur.load + 1, seq |-> 1]
          /\ pc' = "none" /\ scope' = 0
  /\ UNCHANGED <<catalogVars, wireVars, deaths, foreign, ghostVars>>

SessionDies ==
  /\ pc # "none" /\ deaths < MaxDeaths
  /\ deaths' = deaths + 1
  /\ EndSession
  /\ UNCHANGED <<catalogVars, wireVars, cur, acked, foreign, ghostVars>>

\* Dead, or told an error that is no conflict, with a request on the wire.
DieInAppend ==
  /\ pc = "sent" /\ deaths < MaxDeaths
  /\ deaths' = deaths + 1
  /\ inflight' = inflight \cup
       {[table |-> t, base |-> base, snap |-> Snapshot(scope, cur, Window(t))] : t \in target}
  /\ EndSession
  /\ UNCHANGED <<catalogVars, late, cur, acked, foreign, ghostVars>>

DieInPersist ==
  /\ pc = "stamping" /\ deaths < MaxDeaths
  /\ deaths' = deaths + 1
  /\ late' = late \cup {[unit |-> cur, scope |-> scope, base |-> base]}
  /\ EndSession
  /\ UNCHANGED <<catalogVars, inflight, cur, acked, foreign, ghostVars>>

InflightEnds(r) ==
  /\ \/ /\ r.base = Len(snaps[r.table])
        /\ Append1(r.table, r.snap)
        /\ dirty' = TRUE
     \/ UNCHANGED <<snaps, dirty>>
  /\ inflight' = inflight \ {r}
  /\ UNCHANGED <<receipts, stateOf, edition, late, engineVars, pc, scope, sent, commitVars, stamped>>

\* A variant: the property commit is not a compare-and-swap.
LateEndsBlind(r) ==
  /\ \/ Stamp(r.unit, r.scope)
     \/ UNCHANGED <<receipts, stateOf, edition, ghostVars>>
  /\ late' = late \ {r}
  /\ UNCHANGED <<snaps, inflight, engineVars, pc, scope, sent, commitVars>>

LateEnds(r) ==
  /\ \/ r.base = edition /\ Stamp(r.unit, r.scope)
     \/ UNCHANGED <<receipts, stateOf, edition, ghostVars>>
  /\ late' = late \ {r}
  /\ UNCHANGED <<snaps, inflight, engineVars, pc, scope, sent, commitVars>>

\* Another pipeline appends to a table, or stamps the marker.
ForeignAppend(t) ==
  /\ foreign < MaxForeign
  /\ foreign' = foreign + 1
  /\ Append1(t, Foreign)
  /\ UNCHANGED <<receipts, stateOf, edition, wireVars, cur, acked, deaths, pc, scope, sent,
                 commitVars, ghostVars>>

ForeignStamp ==
  /\ foreign < MaxForeign
  /\ foreign' = foreign + 1
  /\ receipts' = ReceiptDelta(MaxLoad + foreign + 1, 1, 0)
  /\ edition' = edition + 1
  /\ UNCHANGED <<snaps, stateOf, wireVars, cur, acked, deaths, pc, scope, sent, commitVars, ghostVars>>

Next ==
  \/ OpenSession \/ StartConverge \/ SendState \/ StateLands \/ StateConflicts \/ EngineAck
  \/ \E t \in Table :
       \/ Write(t) \/ Visit(t) \/ PlanAppend(t) \/ AppendLands(t) \/ AppendConflicts(t)
       \/ ForeignAppend(t)
  \/ SessionDies \/ DieInAppend \/ DieInPersist \/ ForeignStamp
  \/ \E r \in inflight : InflightEnds(r)
  \/ \E r \in late : LateEnds(r)

Spec == Init /\ [][Next]_vars

-----------------------------------------------------------------------------
(* Properties *)

\* Types, and that a request is planned against a history there was.
TypeOK ==
  /\ \A t \in Table : \A i \in DOMAIN snaps[t] :
       snaps[t][i].unit \in Unit \cup {NoUnit} /\ (snaps[t][i].rows = {} <=> snaps[t][i] = Foreign)
  /\ \A r \in receipts : r.load \in Nat /\ r.seq \in 1 .. MaxSeq /\ r.at \in 1 .. edition
  /\ stateOf \in [Scope -> Unit \cup {NoUnit}]
  /\ cur \in Unit \cup {[load |-> MaxLoad + 1, seq |-> 1]} /\ acked \subseteq stamped
  /\ pc \in {"none", "loading", "converge", "plan", "sent", "stamping", "answered"}
  /\ todo \subseteq Table /\ target \subseteq todo
  /\ attempt \in 0 .. Attempts /\ (attempt = 0 <=> pc \notin {"plan", "sent", "stamping"})
  /\ \A t \in target : base <= Len(snaps[t])
  /\ \A r \in inflight : r.base <= Len(snaps[r.table])

Found(t, r) == Cardinality({i \in DOMAIN snaps[t] : r \in snaps[t][i].rows})

\* What a reader finds; nothing is promised while an attempt is under way.
View ==
  IF dirty THEN <<>>
  ELSE [t \in Table |-> [r \in UNION {Rows(u, t) : u \in Unit} |-> Found(t, r)]]

Abstract == INSTANCE ExactlyOnce WITH
  Mode <- [t \in Table |-> "append"],
  committed <- stamped,
  view <- View

\* Per-table snapshots, history scans and the marker's receipt together
\* implement ExactlyOnce: whatever dies where, and whenever a dead session's
\* request is applied, each unit's rows are in each table once.
ImplementsExactlyOnce == Abstract!ESpec

\* The receipt of a unit the engine may still deliver again is not pruned by
\* the stamps of other pipelines (receipt_delta's retention is per scope).
ReceiptKept == \A u \in stamped : u.load = cur.load => ExistingReceipt(u)

\* A scope's state document never goes back to an earlier unit, however late a
\* dead session's property commit is applied.
StateNeverGoesBack ==
  [][\A s \in Scope : stateOf'[s] # stateOf[s] =>
       \/ stateOf'[s].load > stateOf[s].load
       \/ stateOf'[s].load = stateOf[s].load /\ stateOf'[s].seq > stateOf[s].seq]_vars

=============================================================================
