----------------------------- MODULE ExactlyOnce -----------------------------
(***************************************************************************)
(* What a destination promises the engine.  The engine commits units: unit *)
(* (load, seq) carries rows for tables, and is delivered again whenever    *)
(* its outcome was not learnt.  Each unit takes effect once.  An append    *)
(* table holds the rows of every committed unit, each once; a replace      *)
(* table holds exactly the rows of the newest committed load; a feed table *)
(* holds exactly the rows of the newest load that brought any.             *)
(*                                                                         *)
(* While an attempt at a unit is under way a destination without           *)
(* transactions may show anything: the view is then InDoubt.  The next     *)
(* commit must end that, and nothing else may begin it.                    *)
(***************************************************************************)
EXTENDS Naturals

CONSTANTS
  Unit,      \* set of [load : Nat, seq : Nat]
  Table,
  Mode,      \* Mode[t] \in {"append", "replace", "feed"}
  Rows(_, _) \* Rows(u, t): the rows unit u carries for table t

\* The view of a destination in the middle of an attempt: not a view at all.
InDoubt == <<>>

VARIABLES
  committed, \* units that took effect
  acked,     \* units the engine knows took effect
  view       \* view[t]: row -> how often a reader finds it; or InDoubt

evars == <<committed, acked, view>>

AllRows(t) == UNION {Rows(u, t) : u \in Unit}

\* The units whose rows a reader of t should find when C has committed.
Newest(C) == {u \in C : \A v \in C : v.load <= u.load}
Current(C, t) ==
  CASE Mode[t] = "append"  -> C
    [] Mode[t] = "replace" -> Newest(C)
    [] Mode[t] = "feed"    -> Newest({u \in C : Rows(u, t) # {}})

Exact(C) ==
  [t \in Table |->
    [r \in AllRows(t) |-> IF \E u \in Current(C, t) : r \in Rows(u, t) THEN 1 ELSE 0]]

EInit == committed = {} /\ acked = {} /\ view = Exact({})

\* An attempt at an uncommitted unit begins to show.
Attempt ==
  /\ committed # Unit
  /\ view' = InDoubt
  /\ UNCHANGED <<committed, acked>>

Commit(u) ==
  /\ u \notin committed
  /\ committed' = committed \cup {u}
  /\ view' = Exact(committed')
  /\ UNCHANGED acked

\* Only what has committed is acknowledged, whether or not the acknowledgement
\* is a replayed one.
Ack(u) ==
  /\ u \in committed
  /\ acked' = acked \cup {u}
  /\ UNCHANGED <<committed, view>>

ENext == Attempt \/ \E u \in Unit : Commit(u) \/ Ack(u)

ESpec == EInit /\ [][ENext]_evars

=============================================================================
