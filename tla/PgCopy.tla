------------------------------- MODULE PgCopy -------------------------------
(***************************************************************************)
(* A binary COPY stream and its incremental decoder (postgres              *)
(* types/binary.rs Decoder, source/copy.rs).  The server's stream is cut   *)
(* into chunks anywhere: in the header, inside a tuple, in a field.  The   *)
(* decoder carries what it cannot use yet, cuts batches between rows, and  *)
(* believes the end of the stream only after the trailer.  The connection  *)
(* may be lost, the stream may end early, the engine may cancel, and the   *)
(* table may have changed since it was reflected.                          *)
(*                                                                         *)
(* A stream is a sequence of units, each a few bytes: the two halves of    *)
(* the header, a tuple's field count, a field's length (-1 for NULL) and   *)
(* its payload, and the count -1 that is the trailer.                      *)
(***************************************************************************)
EXTENDS Integers, SequencesExt

CONSTANTS
  Tables,     \* the tables: sequences of rows, a row the widths of its fields
  Width,      \* the fields a row is reflected to have
  NotNull,    \* the fields reflected as NOT NULL
  BatchBytes, \* batch_target_bytes
  BatchRows   \* batch_max_rows

VARIABLES
  table,     \* the rows the server sends
  sent,      \* units received
  carry,     \* units received and not consumed
  state,     \* the decoder's: "header", "tuples" or "done"
  builder,   \* the rows in the builders, and the units they took
  delivered, \* the batches handed downstream
  status     \* "reading", "read", "failed" or "cancelled"

vars == <<table, sent, carry, state, builder, delivered, status>>

---------------------------------------------------------------------------
(* The server's stream.                                                    *)

Header == <<<<"head">>, <<"head">>>>

FieldUnits(width) ==
  <<<<"length", width>>>> \o [i \in 1..(IF width > 0 THEN width ELSE 0) |-> <<"byte">>]

TupleUnits(row) == <<<<"count", Len(row)>>>> \o FlattenSeq([i \in DOMAIN row |-> FieldUnits(row[i])])

Trailer == <<<<"count", -1>>>>

Stream(rows) ==
  Header \o FlattenSeq([i \in DOMAIN rows |-> TupleUnits(rows[i])]) \o Trailer

---------------------------------------------------------------------------
(* The decoder.                                                            *)

Empty == [rows |-> <<>>, bytes |-> 0]

\* The units from the i-th field's length on, its payload included.
RECURSIVE TupleEnd(_, _, _)
TupleEnd(units, at, fields) ==
  IF fields = 0 THEN at
  ELSE IF at >= Len(units) THEN Len(units) + 1
  ELSE LET w == units[at + 1][2]
       IN TupleEnd(units, at + 1 + (IF w > 0 THEN w ELSE 0), fields - 1)

\* The widths of the fields of the tuple that ends the units.
Fields(units) ==
  LET lengths == SelectSeq(units, LAMBDA u : u[1] = "length")
  IN [i \in DOMAIN lengths |-> lengths[i][2]]

\* What one attempt at a tuple concludes, and the units it consumes.
Consumed(units) ==
  IF units = <<>> THEN [is |-> "more", next |-> 0]
  ELSE LET count == units[1][2]
           end == TupleEnd(units, 1, count)
       IN IF count = -1 THEN [is |-> "trailer", next |-> 1]
          ELSE IF count # Width THEN [is |-> "drift", next |-> 0]
          ELSE IF end > Len(units) THEN [is |-> "more", next |-> 0]
          ELSE IF \E i \in NotNull : Fields(SubSeq(units, 1, end))[i] = -1
               THEN [is |-> "drift", next |-> 0]
          ELSE [is |-> "row", next |-> end]

\* A variant: the byte target alone cuts a batch.
FullByBytes(b) == b.bytes >= BatchBytes

Full(b) == Len(b.rows) >= BatchRows \/ b.bytes >= BatchBytes

\* The rows of a feed, one after the other; the batches it completes.
RECURSIVE Tuples(_, _, _)
Tuples(units, b, batches) ==
  LET c == Consumed(units)
      rest == SubSeq(units, c.next + 1, Len(units))
      row == Fields(SubSeq(units, 1, c.next))
      grown == [rows |-> Append(b.rows, row), bytes |-> b.bytes + c.next]
  IN CASE c.is = "more" ->
            [ok |-> TRUE, state |-> "tuples", carry |-> units, builder |-> b, batches |-> batches]
       [] c.is = "trailer" ->
            [ok |-> rest = <<>>, state |-> "done", carry |-> rest, builder |-> b, batches |-> batches]
       [] c.is = "drift" ->
            [ok |-> FALSE, state |-> "tuples", carry |-> units, builder |-> b, batches |-> batches]
       [] c.is = "row" ->
            IF Full(grown) THEN Tuples(rest, Empty, Append(batches, grown.rows))
            ELSE Tuples(rest, grown, batches)

\* feed: the carry and the chunk, as far as they go.
Fed(chunk) ==
  LET units == carry \o chunk
  IN IF state = "done" THEN [ok |-> chunk = <<>>, state |-> state, carry |-> carry,
                             builder |-> builder, batches |-> <<>>]
     ELSE IF state = "header" /\ Len(units) < Len(Header)
     THEN [ok |-> TRUE, state |-> state, carry |-> units, builder |-> builder, batches |-> <<>>]
     ELSE Tuples(IF state = "header" THEN SubSeq(units, Len(Header) + 1, Len(units)) ELSE units,
                 builder, <<>>)

\* The batches go downstream in order, up to the one at which the engine
\* cancels, if it does.
Hand(batches, after) ==
  \/ delivered' = delivered \o batches /\ status' = after
  \/ \E n \in 0..(Len(batches) - 1) :
       delivered' = delivered \o SubSeq(batches, 1, n) /\ status' = "cancelled"

---------------------------------------------------------------------------
Init ==
  /\ table \in Tables
  /\ sent = 0 /\ carry = <<>> /\ state = "header" /\ builder = Empty
  /\ delivered = <<>> /\ status = "reading"

\* A chunk arrives; a decode fault drops the batches of its own feed.
Feed ==
  /\ status = "reading"
  /\ \E n \in 1..(Len(Stream(table)) - sent) :
       LET fed == Fed(SubSeq(Stream(table), sent + 1, sent + n))
       IN /\ sent' = sent + n
          /\ carry' = fed.carry /\ state' = fed.state /\ builder' = fed.builder
          /\ \/ fed.ok /\ Hand(fed.batches, "reading")
             \/ ~fed.ok /\ status' = "failed" /\ UNCHANGED delivered
  /\ UNCHANGED table

\* A variant: the end of the stream is taken for the end of the table.
FinishUnchecked ==
  /\ status = "reading"
  /\ builder' = Empty
  /\ Hand(IF builder.rows = <<>> THEN <<>> ELSE <<builder.rows>>, "read")
  /\ UNCHANGED <<table, sent, carry, state>>

\* The stream ends, with everything sent or early: finish.
Finish ==
  /\ status = "reading"
  /\ IF state # "done" \/ carry # <<>>
     THEN status' = "failed" /\ UNCHANGED <<builder, delivered>>
     ELSE /\ builder' = Empty
          /\ Hand(IF builder.rows = <<>> THEN <<>> ELSE <<builder.rows>>, "read")
  /\ UNCHANGED <<table, sent, carry, state>>

\* The connection is lost under the read.
Lost ==
  /\ status = "reading"
  /\ status' = "failed"
  /\ UNCHANGED <<table, sent, carry, state, builder, delivered>>

Next == Feed \/ Finish \/ Lost

Spec == Init /\ [][Next]_vars

---------------------------------------------------------------------------
\* A row the reflected columns can hold.
Fits(row) == Len(row) = Width /\ \A i \in NotNull : row[i] # -1

(* However the stream is cut, the batches are the table's rows in order,   *)
(* none torn, and none past a row that does not fit the reflected schema;  *)
(* a read that ends well has delivered them all (binary.rs feed, finish).  *)
NothingTorn ==
  LET rows == FlattenSeq(delivered)
  IN /\ IsPrefix(rows, table)
     /\ \A i \in DOMAIN rows : Fits(rows[i])
     /\ status = "read" => rows = table

(* A batch is never empty, has no more rows than the maximum, and is over  *)
(* the byte target by its last row only (binary.rs cut_batch).             *)
BatchesBounded ==
  \A i \in DOMAIN delivered :
    LET units == [k \in DOMAIN delivered[i] |-> Len(TupleUnits(delivered[i][k]))]
    IN /\ Len(delivered[i]) \in 1..BatchRows
       /\ FoldLeft(LAMBDA a, u : a + u, 0, Front(units)) < BatchBytes

(* Both of the decoder's promises.                                         *)
DecodesWhole == NothingTorn /\ BatchesBounded
=============================================================================
