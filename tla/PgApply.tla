------------------------------ MODULE PgApply ------------------------------
(***************************************************************************)
(* The passes of the PostgreSQL source over one table.  The snapshot pass  *)
(* reads a log position, later copies the table as its transaction sees    *)
(* it, and checkpoints at the position: what was committed in between is   *)
(* copied and applied again.  The change pass goes message by message:     *)
(* relation maps, rows of the open transaction, rows of committed ones,    *)
(* unappliable records that are held until their commit, batches and       *)
(* checkpoints.  The server writes transactions that pgoutput encodes      *)
(* under the table's replica identity.                                     *)
(*                                                                         *)
(* A row is a key and one value that may be stored out of line; a log      *)
(* position is the number of a transaction.  PgCdc models the slot and the *)
(* runs around a pass.                                                     *)
(***************************************************************************)
EXTENDS Integers, SequencesExt

CONSTANTS Keys, Values,
          FirstTable, \* the table before the first transaction of the log
          MaxOps,    \* row operations of the server
          MaxBad,    \* truncations, and deletes that carry no key
          MaxDrift,  \* columns added or dropped
          MaxResets, \* states reset for a fresh snapshot
          MaxDeaths,
          BatchMax,  \* batch_max_rows
          Toast, Null

\* Null and Toast stand for what is not there: neither is a key, a value or a tuple.
ApplyAssumption ==
    /\ IsFiniteSet(Keys) /\ Null \notin Keys /\ Null \notin Values /\ Null \notin Nat
    /\ Toast \notin Values /\ Toast # Null
    /\ \A k \in Keys, v \in Values \cup {Null} : [key |-> k, value |-> v] # Null
    /\ FirstTable \in [Keys -> Values \cup {Null}]

VARIABLES covers,    \* the replica identity covers all columns
          table, columns, \* the server: key -> value or Null; is the extra column there
          log,       \* the committed transactions: [msgs, columns]
          open,      \* the messages of the transaction being written
          history,   \* the table after each transaction
          ops, bad, drifts, resets, deaths,
          confirmed, cursor, sink, \* the slot, the committed cursor or Null, the destination
          view,      \* the last transaction the last copy saw
          st,        \* the pass: "idle", "snapshot", "reading" or "refused"
          start,     \* the position a snapshot's cursor will have
          reflected, target, tx, msg, \* its columns, its end, where it is
          relation,  \* the columns of the relation message it has seen
          txRows, ready, txError,
          pending    \* [rows, checkpoint] delivered and not yet committed

server == <<table, columns, log, open, history, ops, bad, drifts>>
pass   == <<st, start, reflected, target, tx, msg, relation, txRows, ready, txError>>
vars   == <<covers, server, resets, deaths, confirmed, cursor, sink, view, pass, pending>>

Nothing == [rows |-> <<>>, checkpoint |-> Null]
Empty == [k \in Keys |-> Null]
\* The table as of a position of the log.
History(n) == IF n = 0 THEN FirstTable ELSE history[n]

Init == /\ covers \in BOOLEAN
        /\ table = FirstTable
        /\ columns = FALSE
        /\ log = <<>> /\ open = <<>> /\ history = <<>>
        /\ ops = 0 /\ bad = 0 /\ drifts = 0 /\ resets = 0 /\ deaths = 0
        /\ confirmed = 0 /\ cursor = Null /\ sink = Empty /\ view = 0
        /\ st = "idle" /\ start = 0 /\ reflected = FALSE /\ target = 0 /\ tx = 0 /\ msg = 0 /\ relation = Null
        /\ txRows = <<>> /\ ready = <<>> /\ txError = FALSE
        /\ pending = Nothing
-----------------------------------------------------------------------------
(***************************************************************************)
(* The server, while no change pass runs: a pass sees the log and the      *)
(* columns as of its start.  An old tuple holds the key, or the whole row under FULL; a  *)
(* value the update left alone may come as a marker.                       *)
(***************************************************************************)
Between == st \in {"idle", "snapshot"} /\ pending = Nothing

Tuple(k, v) == [key |-> k, value |-> v]
OldTuple(k) == Tuple(k, IF covers THEN table[k] ELSE Null)

Writes(message, changed) ==
    /\ Between /\ ops < MaxOps /\ ops' = ops + 1
    /\ open' = Append(open, message)
    /\ table' = changed
    /\ UNCHANGED <<covers, columns, log, history, drifts, resets, deaths, confirmed, cursor, sink,
                   view, pass, pending>>

Insert == \E k \in Keys, v \in Values :
    /\ table[k] = Null
    /\ Writes([kind |-> "insert", new |-> Tuple(k, v)], [table EXCEPT ![k] = v])
    /\ bad' = bad

Update == \E k, to \in Keys, v \in Values :
    /\ table[k] # Null /\ (to # k => table[to] = Null)
    /\ \E sent \in {v} \cup (IF v = table[k] THEN {Toast} ELSE {}) :
         Writes([kind |-> "update",
                 old |-> IF covers \/ to # k THEN OldTuple(k) ELSE Null,
                 new |-> Tuple(to, sent)],
                [table EXCEPT ![k] = Null, ![to] = v])
    /\ bad' = bad

Delete == \E k \in Keys, keyless \in BOOLEAN :
    /\ table[k] # Null
    /\ keyless => bad < MaxBad
    /\ Writes([kind |-> "delete", old |-> IF keyless THEN Tuple(Null, Null) ELSE OldTuple(k)],
              [table EXCEPT ![k] = Null])
    /\ bad' = IF keyless THEN bad + 1 ELSE bad

Truncate == /\ bad < MaxBad /\ bad' = bad + 1
            /\ Writes([kind |-> "truncate"], [k \in Keys |-> Null])

ServerCommits ==
    /\ Between /\ open # <<>>
    /\ log' = Append(log, [msgs |-> open, columns |-> columns])
    /\ history' = Append(history, table)
    /\ open' = <<>>
    /\ UNCHANGED <<covers, table, columns, ops, bad, drifts, resets, deaths, confirmed, cursor, sink,
                   view, pass, pending>>

AlterTable ==
    /\ Between /\ open = <<>> /\ drifts < MaxDrift /\ drifts' = drifts + 1
    /\ columns' = ~columns
    /\ UNCHANGED <<covers, table, log, open, history, ops, bad, resets, deaths, confirmed, cursor,
                   sink, view, pass, pending>>
-----------------------------------------------------------------------------
(***************************************************************************)
(* The snapshot pass of a stream without a cursor: the position first,     *)
(* then the copy, whose transaction sees what was committed when it began  *)
(* to read.  A reflected column that is gone by then fails the copy.       *)
(***************************************************************************)
PassOver == /\ st' = "idle" /\ start' = 0 /\ reflected' = FALSE /\ target' = 0 /\ tx' = 0
            /\ msg' = 0 /\ relation' = Null /\ txRows' = <<>> /\ ready' = <<>> /\ txError' = FALSE

Refuse == /\ st' = "refused"
          /\ UNCHANGED <<start, reflected, target, tx, msg, relation, txRows, ready, txError>>

ReadHorizon ==
    /\ st = "idle" /\ pending = Nothing /\ cursor = Null
    /\ st' = "snapshot" /\ start' = Len(log) /\ reflected' = columns
    /\ UNCHANGED <<covers, server, resets, deaths, confirmed, cursor, sink, view, target, tx, msg,
                   relation, txRows, ready, txError, pending>>

Row(k, v, gone) == [key |-> k, value |-> v, gone |-> gone]

Copied(seen, order) == [i \in DOMAIN order |-> Row(order[i], seen[order[i]], FALSE)]

CopyTable ==
    /\ st = "snapshot" /\ pending = Nothing /\ (reflected => columns)
    /\ view' = Len(log)
    /\ LET seen == History(Len(log))
           held == {k \in Keys : seen[k] # Null}
       IN \E order \in Bijection(1 .. Cardinality(held), held) :
            pending' = [rows |-> Copied(seen, order), checkpoint |-> start]
    /\ PassOver
    /\ UNCHANGED <<covers, server, resets, deaths, confirmed, cursor, sink>>

CopyFails ==
    /\ st = "snapshot" /\ reflected /\ ~columns
    /\ Refuse
    /\ UNCHANGED <<covers, server, resets, deaths, confirmed, cursor, sink, view, pending>>

(***************************************************************************)
(* A pass reads from what the slot has confirmed, with the columns the run *)
(* reflected, and skips what the cursor already stands for.                *)
(***************************************************************************)
StartPass ==
    /\ st = "idle" /\ pending = Nothing /\ cursor # Null
    /\ st' = "reading"
    /\ reflected' = columns /\ target' = Len(log)
    /\ tx' = confirmed + 1 /\ msg' = 1
    /\ relation' = Null /\ txRows' = <<>> /\ ready' = <<>> /\ txError' = FALSE
    /\ UNCHANGED <<covers, server, resets, deaths, confirmed, cursor, sink, view, start, pending>>

Reading(what) == st = "reading" /\ tx <= target /\ what
Current == log[tx].msgs[msg]
InTransaction == msg <= Len(log[tx].msgs)

Untouched == UNCHANGED <<covers, server, resets, deaths, confirmed, cursor, sink, view>>

(***************************************************************************)
(* The relation message goes before the first change of its table, and     *)
(* again when its columns changed.  A reflected column it lacks is refused *)
(* where it stands; one more than reflected waits for the next run.        *)
(***************************************************************************)
PlanMapped == reflected => log[tx].columns

OnRelation ==
    /\ Reading(InTransaction) /\ relation # log[tx].columns
    /\ IF PlanMapped
         THEN /\ relation' = log[tx].columns
              /\ UNCHANGED <<st, start, reflected, target, tx, msg, txRows, ready, txError>>
         ELSE Refuse
    /\ pending' = pending
    /\ Untouched

(***************************************************************************)
(* The rows of a change, or none when it cannot be applied: a marker is    *)
(* replaced from a whole old row, an update that moves its key deletes the *)
(* old one first, and a delete has to name its key.                        *)
(***************************************************************************)
OldOf(m) == IF m.kind = "update" THEN m.old ELSE Null

Substitute(m) ==
    IF m.new.value # Toast THEN m.new.value
    ELSE IF OldOf(m) # Null /\ covers THEN m.old.value
    ELSE Null

\* A variant: an update that changes the key deletes nothing.
DeletedKeyOfDeletes(m) == IF m.kind = "delete" THEN m.old.key ELSE Null

DeletedKey(m) == IF m.kind = "delete" THEN m.old.key
                 ELSE IF OldOf(m) # Null /\ m.old.key # m.new.key THEN m.old.key
                 ELSE Null

DeletedRows(m) == IF DeletedKey(m) = Null THEN <<>> ELSE <<Row(DeletedKey(m), Null, TRUE)>>

Unappliable(m) == CASE m.kind = "truncate" -> TRUE
                    [] m.kind = "delete"   -> m.old.key = Null
                    [] OTHER               -> Substitute(m) = Null

RowsOf(m) ==
    IF Unappliable(m) THEN <<>>
    ELSE DeletedRows(m) \o
         (IF m.kind = "delete" THEN <<>> ELSE <<Row(m.new.key, Substitute(m), FALSE)>>)

OnChange ==
    /\ Reading(InTransaction) /\ relation = log[tx].columns
    /\ msg' = msg + 1
    /\ txRows' = txRows \o RowsOf(Current)
    /\ txError' = (txError \/ Unappliable(Current))
    /\ UNCHANGED <<st, start, reflected, target, tx, relation, ready, pending>>
    /\ Untouched

(***************************************************************************)
(* The commit: an applied transaction is dropped, fault and all; a fault   *)
(* of a new one is raised; else its rows are ready, and a full batch goes  *)
(* out with a checkpoint.                                                  *)
(***************************************************************************)
Deliver(rows, lsn) == pending' = [rows |-> pending.rows \o rows, checkpoint |-> lsn]

Advance == tx' = tx + 1 /\ msg' = 1 /\ txRows' = <<>> /\ txError' = FALSE

Applied == tx <= cursor

OnCommit ==
    /\ Reading(~InTransaction)
    /\ CASE Applied -> Advance /\ UNCHANGED <<st, ready, pending>>
         [] ~Applied /\ txError -> /\ Refuse
                                   /\ pending' = pending
         [] OTHER -> /\ Advance /\ st' = st
                     /\ IF Len(ready \o txRows) >= BatchMax
                          THEN ready' = <<>> /\ Deliver(ready \o txRows, tx)
                          ELSE ready' = ready \o txRows /\ pending' = pending
    /\ UNCHANGED <<start, reflected, target, relation>>
    /\ Untouched

(***************************************************************************)
(* The end of the range: the rest, and a checkpoint at the target.         *)
(***************************************************************************)
Finish ==
    /\ st = "reading" /\ tx > target
    /\ PassOver
    /\ Deliver(ready, Max({target, cursor}))
    /\ Untouched
-----------------------------------------------------------------------------
(***************************************************************************)
(* The engine merges rows and cursor in one commit, the last row of a key  *)
(* winning; the slot is confirmed later, or never.                         *)
(***************************************************************************)
LastOf(rows, k) == CHOOSE i \in DOMAIN rows :
                      /\ rows[i].key = k
                      /\ \A j \in DOMAIN rows : rows[j].key = k => j <= i

Merged(copy, rows) ==
    [k \in Keys |-> IF \E i \in DOMAIN rows : rows[i].key = k
                      THEN LET last == rows[LastOf(rows, k)]
                           IN IF last.gone THEN Null ELSE last.value
                      ELSE copy[k]]

EngineCommit ==
    /\ pending # Nothing
    /\ sink' = Merged(sink, pending.rows) /\ cursor' = pending.checkpoint
    /\ pending' = Nothing
    /\ UNCHANGED <<covers, server, resets, deaths, confirmed, view, pass>>

Acknowledge == /\ cursor # Null /\ confirmed < cursor /\ Between
               /\ confirmed' = cursor
               /\ UNCHANGED <<covers, server, resets, deaths, cursor, sink, view, pass, pending>>

Died == PassOver /\ pending' = Nothing

Crash == /\ deaths < MaxDeaths /\ deaths' = deaths + 1
         /\ st \in {"snapshot", "reading"} \/ pending # Nothing
         /\ Died
         /\ UNCHANGED <<covers, server, resets, confirmed, cursor, sink, view>>

\* A refused pass ends its run; what it delivered before is still committed.
RunEnds == /\ st = "refused" /\ pending = Nothing
           /\ Died
           /\ UNCHANGED <<covers, server, resets, deaths, confirmed, cursor, sink, view>>

\* The recovery: the state is reset and the destination emptied, for a fresh snapshot.
ResetState ==
    /\ st = "idle" /\ pending = Nothing /\ cursor # Null
    /\ resets < MaxResets /\ resets' = resets + 1
    /\ sink' = Empty /\ cursor' = Null
    /\ UNCHANGED <<covers, server, deaths, confirmed, view, pass, pending>>

Next == \/ Insert \/ Update \/ Delete \/ Truncate \/ ServerCommits \/ AlterTable
        \/ ReadHorizon \/ CopyTable \/ CopyFails \/ StartPass \/ OnRelation \/ OnChange \/ OnCommit \/ Finish
        \/ EngineCommit \/ Acknowledge \/ Crash \/ RunEnds \/ ResetState

Spec == Init /\ [][Next]_vars
-----------------------------------------------------------------------------
(***************************************************************************)
(* The destination is the source table at the committed cursor: whole      *)
(* transactions, moved keys, values out of line and all.  Until the cursor *)
(* has passed what the snapshot saw, rows the log has not reached again    *)
(* are the snapshot's; from there on nothing is left of the overlap.       *)
(***************************************************************************)
SinkIsHistory ==
    cursor # Null =>
      \A k \in Keys :
        \/ sink[k] = History(cursor)[k]
        \/ cursor < view /\ sink[k] = History(view)[k]

=============================================================================
