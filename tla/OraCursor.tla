----------------------------- MODULE OraCursor -----------------------------
(***************************************************************************)
(* The incremental read of the oracle source.  Every batch is a statement  *)
(* of its own, rebuilt from the position of the last row pushed and run on *)
(* the table as it is then; rows come in (cursor, ROWID) order.  The       *)
(* watermark travels as rendered text and is compared as text.  The text   *)
(* of a timestamp ends at the microsecond; a column of TIMESTAMP(7..9) has *)
(* finer values, which here are cut to tenths.                             *)
(***************************************************************************)
EXTENDS Integers, Sequences, FiniteSets, FiniteSetsExt

CONSTANTS Cents,     \* cursor values, in hundredths
          MaxRow,    \* ROWIDs are 1 .. MaxRow
          BatchRows, \* rows of one batch
          Null

VARIABLES cursored,  \* whether the stream has a cursor column
          finer,     \* the cursor column has values finer than their text
          table,     \* rows at the server: [rowid, at]
          phase,     \* "idle" or "reading"
          position,  \* [watermark, tie] the next statement resumes from, or Null
          cursor,    \* the checkpoint document of this run, or Null
          pushed,    \* rows pushed and not committed
          ended,     \* the last batch was not full
          committed, \* the checkpoint committed with the destination, or Null
          got,       \* row versions at the destination
          twice      \* row versions read again when pushed or delivered

run  == <<phase, position, cursor, pushed, ended>>
dest == <<committed, got, twice>>
read == <<cursored, finer>>
vars == <<read, table, run, dest>>

RowIds == 1 .. MaxRow

(***************************************************************************)
(* The rendered value: sign, integer part, and the fraction's digits       *)
(* without trailing zeros.                                                 *)
(***************************************************************************)
Abs(n) == IF n < 0 THEN -n ELSE n

Rendered(n) ==
    LET hundredths == Abs(n) % 100
    IN  [negative |-> n < 0, whole |-> Abs(n) \div 100,
         fraction |-> IF hundredths = 0 THEN <<>>
                      ELSE IF hundredths % 10 = 0 THEN <<hundredths \div 10>>
                      ELSE <<hundredths \div 10, hundredths % 10>>]

\* What of a value its text keeps.
Kept(n) == IF finer THEN 10 * (n \div 10) ELSE n

Text(n) == Rendered(Kept(n))

Pad(f) == f \o [i \in 1 .. 2 - Len(f) |-> 0]

FractionLess(f, g) ==
    LET a == Pad(f)  b == Pad(g)
    IN  a[1] < b[1] \/ (a[1] = b[1] /\ a[2] < b[2])

\* A variant: whole parts compare digit by digit, without their lengths.
MagnitudeLessAsText(a, b) ==
    LET digits(n) == IF n < 10 THEN <<n>> ELSE <<n \div 10, n % 10>>
        x == digits(a.whole)  y == digits(b.whole)
    IN  x[1] < y[1] \/ (x = y /\ FractionLess(a.fraction, b.fraction))

MagnitudeLess(a, b) ==
    a.whole < b.whole \/ (a.whole = b.whole /\ FractionLess(a.fraction, b.fraction))

WatermarkLess(a, b) ==
    IF a.negative # b.negative THEN a.negative
    ELSE IF a.negative
      THEN ~MagnitudeLess(a, b) /\ <<a.whole, a.fraction>> # <<b.whole, b.fraction>>
      ELSE MagnitudeLess(a, b)

Position(row) == [watermark |-> Text(row.at), tie |-> row.rowid]

(***************************************************************************)
(* The watermark never lowers; at an equal watermark the tie moves.        *)
(***************************************************************************)
Advance(doc, row) ==
    IF doc = Null \/ WatermarkLess(doc.watermark, Text(row.at)) THEN Position(row)
    ELSE IF doc.watermark = Text(row.at) THEN [doc EXCEPT !.tie = row.rowid]
    ELSE doc

OraAssumption ==
    /\ Cents \subseteq Int /\ MaxRow \in Nat /\ BatchRows \in Nat
    /\ \A n \in Cents \cup {10 * (c \div 10) : c \in Cents}, i \in RowIds :
         [watermark |-> Rendered(n), tie |-> i] # Null

\* What the text stands for in the resume predicate.
Value(text) ==
    LET digits == Pad(text.fraction)
        size   == 100 * text.whole + 10 * digits[1] + digits[2]
    IN  IF text.negative THEN -size ELSE size

Init == /\ cursored \in BOOLEAN /\ finer \in BOOLEAN
        /\ finer => cursored
        /\ table = {}
        /\ phase = "idle" /\ position = Null /\ cursor = Null
        /\ pushed = {} /\ ended = FALSE
        /\ committed = Null /\ got = {} /\ twice = {}
-----------------------------------------------------------------------------
Before(r, s) == r.at < s.at \/ (r.at = s.at /\ r.rowid < s.rowid)

(***************************************************************************)
(* Rows appear after every row with an equal or lower stamp, the order the *)
(* resume predicate relies on; an update moves the stamp forward in place. *)
(***************************************************************************)
Stamp(rowid) ==
    /\ \E n \in Cents :
         /\ finer => n >= 0 \* a timestamp's text has no sign
         /\ LET row == [rowid |-> rowid, at |-> n]
            IN  /\ \A r \in table : r # row /\ (r.rowid # rowid => Before(r, row))
                /\ \A r \in table : r.rowid = rowid => r.at < n
                /\ \A r \in got : r.at < n \/ (r.at = n /\ r.rowid < rowid)
                /\ table' = {r \in table : r.rowid # rowid} \cup {row}
    /\ UNCHANGED <<read, run, dest>>

StartRead ==
    /\ phase = "idle"
    /\ phase' = "reading"
    /\ position' = committed /\ cursor' = committed
    /\ pushed' = {} /\ ended' = FALSE
    /\ UNCHANGED <<read, table, dest>>

\* A variant: the rows at the watermark are left out, tie or not.
SelectsPastWatermark(row) ==
    position = Null \/ (IF cursored THEN row.at > Value(position.watermark)
                                   ELSE row.rowid > position.tie)

(***************************************************************************)
(* c > w OR (c = w AND ROWID > tie); without a cursor column, ROWID > tie. *)
(***************************************************************************)
Beyond(row, mark) ==
    \/ mark = Null
    \/ row.at > Value(mark.watermark)
    \/ row.at = Value(mark.watermark) /\ row.rowid > mark.tie

Selects(row) ==
    IF cursored THEN Beyond(row, position)
                ELSE position = Null \/ row.rowid > position.tie

OrderedBy(r, s) == IF cursored THEN Before(r, s) ELSE r.rowid < s.rowid

(***************************************************************************)
(* One statement and one batch: pushed, the position moved to its last     *)
(* row, and, with a cursor column, a checkpoint offered.                   *)
(***************************************************************************)
FetchChunk ==
    /\ phase = "reading" /\ ~ended
    /\ LET rows == {r \in table : Selects(r)}
       IN \E chunk \in SUBSET rows :
            /\ Cardinality(chunk) = Min({BatchRows, Cardinality(rows)})
            /\ \A r \in chunk, s \in rows \ chunk : OrderedBy(r, s)
            /\ pushed' = pushed \cup chunk
            /\ twice' = twice \cup (chunk \cap (got \cup pushed))
            /\ IF chunk = {} THEN UNCHANGED <<position, cursor>>
               ELSE \E last \in chunk :
                      /\ \A r \in chunk : r = last \/ OrderedBy(r, last)
                      /\ position' = Position(last)
                      /\ cursor' = IF cursored THEN Advance(cursor, last) ELSE cursor
            /\ ended' = (Cardinality(chunk) < BatchRows)
    /\ UNCHANGED <<read, table, phase, committed, got>>

Absorb == /\ got' = got \cup pushed
          /\ committed' = cursor
          /\ pushed' = {}
          /\ UNCHANGED twice

\* Without a cursor column nothing is offered before the stream ends.
EngineCommit == /\ phase = "reading" /\ cursored /\ pushed # {}
                /\ Absorb
                /\ UNCHANGED <<read, table, phase, position, cursor, ended>>

FinishRead == /\ phase = "reading" /\ ended
              /\ Absorb
              /\ phase' = "idle" /\ position' = Null /\ cursor' = Null /\ ended' = FALSE
              /\ UNCHANGED <<read, table>>

RunFails == /\ phase = "reading"
            /\ phase' = "idle" /\ position' = Null /\ cursor' = Null
            /\ pushed' = {} /\ ended' = FALSE
            /\ UNCHANGED <<read, table, dest>>

Next == \/ \E rowid \in RowIds : Stamp(rowid)
        \/ StartRead \/ FetchChunk \/ EngineCommit \/ FinishRead \/ RunFails

Spec == Init /\ [][Next]_vars
-----------------------------------------------------------------------------
(***************************************************************************)
(* A cursor stream skips no row: one the destination lacks is still beyond *)
(* the committed watermark and tie.  While the text keeps the whole value, *)
(* it repeats none either; of a finer column it reads again, on every      *)
(* statement, the rows in the unit of the watermark, and no others         *)
(* (read.rs select_sql and the chunk loop, batch.rs watermark_text).       *)
(***************************************************************************)
SkipsNoneRepeatsFiner ==
    cursored =>
      /\ twice # {} => finer
      /\ \A r \in table : r \in got \/ Beyond(r, committed)
      /\ \A r \in got : Beyond(r, committed) =>
           finer /\ Kept(r.at) = Value(committed.watermark)

(***************************************************************************)
(* The checkpoint does not fall behind the read: comparing rendered text   *)
(* orders watermarks as the server orders the values (watermark_less).     *)
(***************************************************************************)
CheckpointFollowsRead == phase = "reading" /\ cursored => cursor = position
=============================================================================
