------------------------------ MODULE PgValues ------------------------------
(***************************************************************************)
(* How one Postgres value is read and written (postgres types/*.rs).       *)
(* A column's catalog type, or the hint laid over it, gives a mapping: a   *)
(* server-side projection and the kind it is decoded as.  A snapshot reads *)
(* the projected value from the binary face, a change row reads the raw    *)
(* text form, and both land in the same builder.  The destination encodes  *)
(* the delivered value again for its own binary COPY.                      *)
(*                                                                         *)
(* A value is the form the server prints it in: <<type, content>>, with a  *)
(* third field for a numeric's scale.  A text column holds any form, one   *)
(* that is not spelled as the server would is <<"loose", form>>.  A float  *)
(* holds the decimal its shortest text shows.  Instants are counted in     *)
(* days.  Of the numeric wire format the group width and the range of the  *)
(* accumulator are parameters (4 digits and i128 in the code).             *)
(***************************************************************************)
EXTENDS Integers, SequencesExt, FiniteSetsExt

CONSTANTS
  Columns,      \* catalog types: [oid, typtype, typcategory, precision, scale]
  Hints,        \* hints: [hint, precision, scale]; "none" is no hint
  Held(_),      \* the values a column may hold
  GroupDigits,  \* decimal digits of a numeric wire group
  MaxPrecision, \* the largest precision a decimal has
  MaxInt,       \* the largest integer the accumulator holds
  PgEpoch,      \* days from the Unix epoch to the server's
  CalendarFirst, CalendarLast, \* the days a four-digit year can name
  Far,          \* the infinity sentinel
  Day           \* the length of a day in clock ticks

VARIABLES
  column, hint, value,  \* what is read
  snapshot,             \* what the binary face delivered
  change,               \* what the text face delivered
  written,              \* what a read of the destination's copy delivers
  bound                 \* what the server reads in a literal of the value

vars == <<column, hint, value, snapshot, change, written, bound>>

Unread == <<"unread">>
Refused == <<"refused">>

---------------------------------------------------------------------------
(* The mapping.                                                            *)

Mapping(projection, kind, precision, scale, lossy) ==
  [projection |-> projection, kind |-> kind, precision |-> precision,
   scale |-> scale, documented_lossy |-> lossy]

Lossless(kind) == Mapping("Direct", kind, 0, 0, FALSE)
TextPolicy(projection) == Mapping(projection, "Text", 0, 0, TRUE)
NoMapping == Mapping("none", "none", 0, 0, FALSE)

\* A numeric column's declared shape; precision 0 is an unconstrained one.
DecimalShape(c) ==
  c.precision \in 1..MaxPrecision /\ c.scale >= 0 /\ c.scale <= c.precision

KindOf ==
  [bool |-> "Bool", int4 |-> "Int", float4 |-> "Float", float8 |-> "Float",
   text |-> "Text", bytea |-> "Bytea", timestamptz |-> "TimestampTz",
   timestamp |-> "TimestampNaive", date |-> "Date", time |-> "Time",
   uuid |-> "Uuid", json |-> "Text", jsonb |-> "Jsonb"]

Map(c) ==
  CASE c.typcategory = "A" \/ c.typtype \in {"c", "r", "m"} ->
         TextPolicy("CastJsonbText")
    [] c.typcategory # "A" /\ c.typtype = "e" -> TextPolicy("CastText")
    [] c.typcategory # "A" /\ c.typtype = "b" ->
         IF c.oid = "numeric" /\ DecimalShape(c)
         THEN Mapping("Direct", "Decimal", c.precision, c.scale, FALSE)
         ELSE IF c.oid \in DOMAIN KindOf THEN Lossless(KindOf[c.oid])
         ELSE TextPolicy("CastText")

\* The closed table of hints: which base types each one may be laid over.
HintedFrom ==
  [int64 |-> {"text"}, float64 |-> {"text", "int4", "numeric"},
   decimal |-> {"text", "int4", "float4", "float8", "numeric"},
   bool |-> {"text", "int4"}, timestamp_tz |-> {"text", "timestamp", "date"},
   timestamp_naive |-> {"text", "timestamptz", "date"},
   date |-> {"text", "timestamp", "timestamptz"}, time |-> {"text"},
   uuid |-> {"text"}, json |-> {"text"}, binary |-> {"text"}]

HintedKind ==
  [int64 |-> "Int", float64 |-> "Float", decimal |-> "Decimal", bool |-> "Bool",
   timestamp_tz |-> "TimestampTz", timestamp_naive |-> "TimestampNaive",
   date |-> "Date", time |-> "Time", uuid |-> "Uuid", json |-> "Jsonb",
   binary |-> "Bytea"]

LossyHint(c, h) ==
  \/ h.hint = "float64" /\ c.oid = "numeric"
  \/ h.hint = "decimal" /\ c.oid \in {"float4", "float8"}
  \/ h.hint = "timestamp_tz" /\ c.oid = "timestamp"
  \/ h.hint = "timestamp_naive" /\ c.oid = "timestamptz"
  \/ h.hint = "date" /\ c.oid \in {"timestamp", "timestamptz"}

ApplyHint(c, h) ==
  CASE h.hint = "none" -> Map(c)
    [] h.hint = "utf8" ->
         TextPolicy(IF Map(c).projection = "CastJsonbText"
                    THEN "CastJsonbText" ELSE "CastText")
    [] /\ h.hint \in DOMAIN HintedFrom
       /\ c.oid \in HintedFrom[h.hint] /\ c.typtype = "b" /\ c.typcategory # "A"
       /\ h.hint = "decimal" => DecimalShape(h) ->
         Mapping("Cast", HintedKind[h.hint], h.precision, h.scale, LossyHint(c, h))
    [] OTHER -> NoMapping

---------------------------------------------------------------------------
(* The numeric wire format: base-10^GroupDigits digits, most significant   *)
(* first, the first one standing at 10^(GroupDigits * weight).             *)

Base == 10 ^ GroupDigits
Magnitude(v) == IF v < 0 THEN -v ELSE v
Pad(scale) == (GroupDigits - (scale % GroupDigits)) % GroupDigits
GroupBound == 0..(MaxPrecision \div GroupDigits + 1)

\* The field of the groups g, least significant first, zeros at both ends off:
\* its digits, their weight, and whether it is negative.
Field(v, scale, g) ==
  LET used == {i \in GroupBound : g[i] # 0}
      high == Max(used)
  IN IF used = {} THEN <<"groups", << >>, 0, FALSE>>
     ELSE <<"groups",
            [k \in 1..(high - Min(used) + 1) |-> g[high + 1 - k]],
            high - (scale + Pad(scale)) \div GroupDigits,
            v < 0>>

\* The server's own form: the digits aligned at the point, cut in groups.
NumericSend(v, scale) ==
  LET aligned == Magnitude(v) * 10 ^ Pad(scale)
  IN Field(v, scale, [i \in GroupBound |-> (aligned \div Base ^ i) % Base])

\* A variant: the first group is not padded to the decimal point.
AppendNumericUnpadded(v, scale) ==
  LET low == 10 ^ (GroupDigits - Pad(scale))
      rest == Magnitude(v) \div low
  IN Field(v, scale, [i \in GroupBound |->
       IF i = 0 THEN Magnitude(v) % low ELSE (rest \div Base ^ (i - 1)) % Base])

\* append_numeric: the padding goes into the first group alone, the others
\* are plain steps, so no intermediate is wider than the value.
AppendNumeric(v, scale) ==
  LET low == 10 ^ (GroupDigits - Pad(scale))
      first == (Magnitude(v) % low) * 10 ^ Pad(scale)
      rest == Magnitude(v) \div low
  IN Field(v, scale, [i \in GroupBound |->
       IF i = 0 THEN first ELSE (rest \div Base ^ (i - 1)) % Base])

\* A variant: the weight taken as a count of whole groups.
ExponentShort(f, scale) == GroupDigits * (f[3] - Len(f[2])) + scale

\* How far the accumulated groups are from the declared scale.
Exponent(f, scale) == GroupDigits * (f[3] - Len(f[2]) + 1) + scale

DecodeNumeric(f, scale) ==
  LET accumulated == FoldLeft(LAMBDA a, d : a * Base + d, 0, f[2])
      e == Exponent(f, scale)
      scaled == IF e >= 0 THEN accumulated * 10 ^ e
                ELSE accumulated \div 10 ^ (-e)
  IN IF \/ accumulated > MaxInt \/ scaled > MaxInt
        \/ e < 0 /\ accumulated % 10 ^ (-e) # 0
     THEN Refused
     ELSE <<"Decimal", IF f[4] THEN -scaled ELSE scaled, scale>>

---------------------------------------------------------------------------
(* The server.                                                             *)

\* The number a numeric form shows.
Number(f) ==
  CASE f[1] = "int" -> <<"numeric", f[2], 0>>
    [] f[1] = "numeric" -> f
    [] f[1] \in {"float4", "float8"} -> f[2]

Numbers == {"int", "numeric", "float4", "float8"}

\* n rounded half away from zero to the scale.
RoundTo(n, scale) ==
  IF n[3] <= scale THEN n[2] * 10 ^ (scale - n[3])
  ELSE LET cut == 10 ^ (n[3] - scale)
           half == (Magnitude(n[2]) + cut \div 2) \div cut
       IN IF n[2] < 0 THEN -half ELSE half

\* What input functions read: any spelling.
Spelled(f) == IF f[1] = "loose" THEN f[2] ELSE f

Instants == {"timestamptz", "timestamp", "date"}
Temporal == {"TimestampTz", "TimestampNaive", "Date"}

\* (column)::target on the server.
ServerCast(f, m) ==
  LET g == Spelled(f)
      to(type) == <<type, g[2]>>
  IN CASE m.kind = "Int" /\ g[1] = "int" -> g
       [] m.kind = "Bool" /\ g[1] = "bool" -> g
       [] m.kind = "Bool" /\ g[1] = "int" -> <<"bool", g[2] # 0>>
       [] m.kind = "Float" /\ g[1] \in Numbers -> <<"float8", Number(g)>>
       [] /\ m.kind = "Decimal" /\ g[1] \in Numbers
          /\ Magnitude(RoundTo(Number(g), m.scale)) < 10 ^ m.precision ->
            <<"numeric", RoundTo(Number(g), m.scale), m.scale>>
       [] m.kind = "TimestampTz" /\ g[1] \in Instants -> to("timestamptz")
       [] m.kind = "TimestampNaive" /\ g[1] \in Instants -> to("timestamp")
       [] m.kind = "Date" /\ g[1] \in Instants -> to("date")
       [] m.kind = "Time" /\ g[1] = "time" -> g
       [] m.kind = "Uuid" /\ g[1] = "uuid" -> g
       [] m.kind = "Jsonb" /\ g[1] = "json" -> g
       [] m.kind = "Bytea" /\ g[1] = "bytea" -> g
       [] OTHER -> Refused

Projected(f, m) ==
  CASE m.projection \in {"Direct", "CastText"} -> f
    [] m.projection = "CastJsonbText" -> <<"json", f[2]>>
    [] m.projection = "Cast" -> ServerCast(f, m)

\* The binary field the server sends of a projected form.
Sent(m, f) ==
  CASE m.kind = "Decimal" -> NumericSend(f[2], f[3])
    [] m.kind \in Temporal /\ Magnitude(f[2]) # Far -> <<f[1], f[2] - PgEpoch>>
    [] OTHER -> f

---------------------------------------------------------------------------
(* The two faces.                                                          *)

\* rebase_date and rebase_timestamp: the sentinels stay, the rest saturates.
Rebase(days) ==
  IF Magnitude(days) = Far THEN days
  ELSE IF days + PgEpoch > Far THEN Far ELSE days + PgEpoch

\* The floats whose shortest single-precision text is no exact value.
Inexact(n) == n[3] > 0 /\ n[2] % 5 # 0

ArrowOf ==
  [Bool |-> "Boolean", Int |-> "Int64", Float |-> "Float64", Decimal |-> "Decimal",
   Text |-> "Utf8", Jsonb |-> "Utf8", Uuid |-> "Utf8", Bytea |-> "Binary",
   TimestampTz |-> "TimestampTz", TimestampNaive |-> "TimestampNaive",
   Date |-> "Date", Time |-> "Time"]

\* append_wire: the binary field, decoded by the column's kind.
AppendWire(m, field) ==
  CASE m.kind = "Decimal" -> DecodeNumeric(field, m.scale)
    [] m.kind = "Float" ->
         <<"Float64", field[2],
           IF field[1] = "float4" /\ Inexact(field[2]) THEN "widened" ELSE "nearest">>
    [] m.kind \in Temporal -> <<ArrowOf[m.kind], Rebase(field[2])>>
    [] m.kind \in {"Text", "Jsonb", "Uuid"} -> <<"Utf8", field>>
    [] OTHER -> <<ArrowOf[m.kind], field[2]>>

\* The forms each strict parser accepts, beside the kind's own spelling.
StrictForm ==
  [Bool |-> {"bool"}, Int |-> {"int"}, Float |-> Numbers, Decimal |-> Numbers,
   Bytea |-> {"bytea"}, TimestampTz |-> {"timestamptz"},
   TimestampNaive |-> {"timestamp"}, Date |-> {"date"}, Time |-> {"time"}]

\* parse_timestamp, parse_date_days: four-digit years and the infinities.
ParseDay(kind, days) ==
  IF days \in CalendarFirst..CalendarLast \/ Magnitude(days) = Far
  THEN <<ArrowOf[kind], days>> ELSE Refused

\* parse_time_microseconds: no hour past the day.
ParseTime(ticks) == IF ticks < Day THEN <<"Time", ticks>> ELSE Refused

\* parse_decimal_scaled: exact, or refused when digits would be lost.
ParseDecimal(n, scale) ==
  IF n[3] > scale THEN Refused
  ELSE <<"Decimal", n[2] * 10 ^ (scale - n[3]), scale>>

\* append_text: the server's text form, parsed by the column's kind.
AppendText(m, f) ==
  CASE m.kind \in {"Text", "Jsonb", "Uuid"} -> <<"Utf8", f>>
    [] m.kind \in DOMAIN StrictForm /\ f[1] \in StrictForm[m.kind] ->
         (CASE m.kind = "Decimal" -> ParseDecimal(Number(f), m.scale)
           [] m.kind = "Float" -> <<"Float64", Number(f), "nearest">>
           [] m.kind \in Temporal -> ParseDay(m.kind, f[2])
           [] m.kind = "Time" -> ParseTime(f[2])
           [] m.kind \in {"Bool", "Int", "Bytea"} -> <<ArrowOf[m.kind], f[2]>>)
    [] OTHER -> Refused

---------------------------------------------------------------------------
(* The literals of a resume predicate.  A scalar is a watermark or a       *)
(* configured bound: <<kind, content>>, with a scale for a decimal.        *)

CursorKinds ==
  {"Int", "Decimal", "Text", "Uuid", "TimestampTz", "TimestampNaive", "Date", "Time"}

\* What plan::resolve accepts as a cursor: no policy row, no json, any hint to
\* a kind that orders.
CursorCapable(c, h) ==
  /\ ApplyHint(c, h).kind \in CursorKinds
  /\ h.hint = "none" => Map(c).projection = "Direct" /\ c.oid # "json"

\* scalar_at: the delivered value, under the column's kind.
ScalarAt(m, d) == [d EXCEPT ![1] = m.kind]

\* The spellings a person may use beside the server's own.
Lenient == {"TimestampTz", "TimestampNaive", "Time", "Uuid", "Text"}

\* parse_scalar: a configured literal, for a cursor of the mapping's kind.  A
\* date's infinity is refused, a timestamp's is no text chrono reads.
ParseScalar(m, f) ==
  LET g == IF m.kind \in Lenient \ {"Text"} THEN Spelled(f) ELSE f
  IN CASE m.kind \in {"Text", "Uuid"} -> <<m.kind, g>>
       [] /\ m.kind \in CursorKinds \ {"Text", "Uuid"} /\ g[1] # "loose"
          /\ m.kind \in Temporal => Magnitude(g[2]) # Far ->
            LET d == AppendText(m, g)
            IN IF d = Refused THEN Refused ELSE ScalarAt(m, d)
       [] OTHER -> Refused

\* A variant: the sign is that of the part before the point.
DecimalTextUnsigned(scaled, scale) ==
  LET whole == Magnitude(scaled) \div 10 ^ scale
  IN [negative |-> scaled < 0 /\ whole > 0, whole |-> whole,
      fraction |-> Magnitude(scaled) % 10 ^ scale, width |-> scale]

\* decimal_text: sign, whole part, and the fraction padded to the scale.
DecimalText(scaled, scale) ==
  [negative |-> scaled < 0, whole |-> Magnitude(scaled) \div 10 ^ scale,
   fraction |-> Magnitude(scaled) % 10 ^ scale, width |-> scale]

\* render: a typed literal; instants and times count from an anchor.
Render(s) ==
  CASE s[1] = "Int" -> <<"int8", s[2]>>
    [] s[1] = "Decimal" -> <<"numeric", DecimalText(s[2], s[3])>>
    [] s[1] = "Text" -> <<"text", s[2]>>
    [] s[1] = "Uuid" -> <<"uuid", s[2]>>
    [] s[1] = "TimestampTz" -> <<"timestamptz", s[2]>>
    [] s[1] = "TimestampNaive" -> <<"timestamp", s[2]>>
    [] s[1] = "Date" -> <<"date", s[2]>>
    [] s[1] = "Time" -> <<"time", s[2]>>

\* What the server makes of it: no instant lies a sentinel away from the
\* epoch, and adding an interval to a time of day wraps at midnight.
LiteralValue(l) ==
  CASE l[1] = "int8" -> <<"int", l[2]>>
    [] l[1] = "numeric" ->
         LET n == l[2].whole * 10 ^ l[2].width + l[2].fraction
         IN <<"numeric", IF l[2].negative THEN -n ELSE n, l[2].width>>
    [] l[1] = "text" -> l[2]
    [] l[1] = "uuid" -> Spelled(l[2])
    [] l[1] \in Instants -> IF Magnitude(l[2]) = Far THEN Refused ELSE l
    [] l[1] = "time" -> <<"time", l[2] % Day>>

---------------------------------------------------------------------------
(* The destination.                                                        *)

Logicals == {"as_arrow", "json", "uuid"}

\* The logical type counts only where Arrow cannot say it.
WireOf(logical, arrow) ==
  CASE logical = "json" /\ arrow = "Utf8" -> "Jsonb"
    [] logical = "uuid" /\ arrow = "Utf8" -> "Uuid"
    [] OTHER -> CHOOSE k \in DOMAIN ArrowOf \ {"Jsonb", "Uuid"} : ArrowOf[k] = arrow

\* The server's uuid spellings are all read, the canonical one is stored.
ParseUuid(f) == IF Spelled(f)[1] = "uuid" THEN Spelled(f) ELSE Refused

\* A variant: an infinity is shifted like any other day.
AppendFieldUnchecked(wire, d) ==
  CASE wire = "Decimal" -> AppendNumeric(d[2], d[3])
    [] wire \in Temporal -> <<"day", d[2] - PgEpoch>>
    [] wire = "Time" -> <<"time", d[2] % Day>>
    [] wire = "Uuid" -> ParseUuid(d[2])
    [] wire \in {"Jsonb", "Text"} -> d[2]
    [] wire = "Float" -> <<"float8", d[2]>>
    [] OTHER -> <<wire, d[2]>>

\* append_field: the binary field of a delivered value, or its refusal.
AppendField(wire, d) ==
  CASE wire = "Decimal" -> AppendNumeric(d[2], d[3])
    [] wire \in Temporal ->
         IF Magnitude(d[2]) = Far THEN Refused ELSE <<"day", d[2] - PgEpoch>>
    [] wire = "Time" -> IF d[2] \in 0..(Day - 1) THEN <<"time", d[2]>> ELSE Refused
    [] wire = "Uuid" -> ParseUuid(d[2])
    [] wire \in {"Jsonb", "Text"} -> d[2]
    [] wire = "Float" -> <<"float8", d[2]>>
    [] OTHER -> <<wire, d[2]>>

---------------------------------------------------------------------------
Init ==
  /\ column \in Columns /\ hint \in Hints
  /\ ApplyHint(column, hint) # NoMapping \* the rest is refused at open
  /\ value \in Held(column)
  /\ snapshot = Unread /\ change = Unread /\ written = Unread
  /\ bound = Unread

\* A snapshot pass: project on the server, decode the binary face.
ReadSnapshot ==
  LET m == ApplyHint(column, hint)
      f == Projected(value, m)
  IN /\ snapshot = Unread
     /\ snapshot' = IF f = Refused THEN Refused ELSE AppendWire(m, Sent(m, f))
     /\ UNCHANGED <<column, hint, value, change, written, bound>>

\* A change row: the same column plan, the raw text form.
ReadChange ==
  /\ change = Unread
  /\ change' = AppendText(ApplyHint(column, hint), value)
  /\ UNCHANGED <<column, hint, value, snapshot, written, bound>>

\* The delivered value goes to a Postgres table, and is read from there.
WriteAndReread ==
  /\ snapshot \notin {Unread, Refused} /\ written = Unread
  /\ \E logical \in Logicals :
       LET wire == WireOf(logical, snapshot[1])
           field == AppendField(wire, snapshot)
           m == Mapping("Direct", wire, 0,
                        IF wire = "Decimal" THEN snapshot[3] ELSE 0, FALSE)
       IN written' = IF field = Refused THEN Refused ELSE AppendWire(m, field)
  /\ UNCHANGED <<column, hint, value, snapshot, change, bound>>

\* A resume predicate is written, for the watermark read from a snapshot or
\* for a configured initial_value or end_value that names the value.
WriteLiteral ==
  LET m == ApplyHint(column, hint)
      configured(f) == ParseScalar(m, f)
      form == Projected(value, m)
  IN /\ bound = Unread /\ snapshot \notin {Unread, Refused}
     /\ CursorCapable(column, hint)
     /\ \E s \in {ScalarAt(m, snapshot), configured(form), configured(<<"loose", form>>)} :
          s # Refused /\ bound' = LiteralValue(Render(s)) \* or a typed error at open
     /\ UNCHANGED <<column, hint, value, snapshot, change, written>>

Next == ReadSnapshot \/ ReadChange \/ WriteAndReread \/ WriteLiteral

Spec == Init /\ [][Next]_vars

---------------------------------------------------------------------------
\* A value whose groups, padding digits included, overrun the accumulator.
AtNumericLimit(n) == Magnitude(n[2]) * 10 ^ Pad(n[3]) > MaxInt

\* The values the text forms can spell: a calendar day, a clock time.
Spellable ==
  CASE value[1] \in Instants -> ParseDay("Date", value[2]) # Refused
    [] value[1] = "time" -> ParseTime(value[2]) # Refused
    [] value[1] = "numeric" -> ~AtNumericLimit(value)
    [] OTHER -> TRUE

(* A column of the lossless set, read without a hint, is delivered by both *)
(* faces and as the same value: a row does not change because the snapshot *)
(* or the change stream carried it (builder.rs: one builder, two faces).   *)
(* float4 and the values no text form spells are left out.                 *)
FacesAgree ==
  /\ hint.hint = "none" /\ ~Map(column).documented_lossy
  /\ column.oid # "float4" /\ Spellable
  /\ snapshot # Unread /\ change # Unread
  => snapshot = change /\ snapshot # Refused

\* A delivered value, with the spelling of a text left out.
Meaning(d) == IF d[1] = "Utf8" THEN <<"Utf8", Spelled(d[2])>> ELSE d

\* What the destination may refuse: an infinity, an hour past the day, a
\* text that is no uuid, and the decimal its own reader would overrun on.
MayRefuse ==
  CASE snapshot[1] \in Temporal -> Magnitude(snapshot[2]) = Far
    [] snapshot[1] = "Time" -> snapshot[2] >= Day
    [] snapshot[1] = "Utf8" -> Spelled(snapshot[2])[1] # "uuid"
    [] snapshot[1] = "Decimal" -> AtNumericLimit(snapshot)
    [] OTHER -> FALSE

\* A float keeps its value, whatever text it came from.
Kept(d) == IF d[1] = "Float64" THEN <<d[1], d[2]>> ELSE Meaning(d)

(* What the destination wrote reads back as what was delivered to it: the  *)
(* encoder and the decoder are inverse, for the numeric groups too, and a  *)
(* value outside the target's range is refused, never changed              *)
(* (encode.rs append_field, append_numeric; binary.rs decode_numeric).     *)
RoundTrips ==
  written # Unread =>
    IF written = Refused THEN MayRefuse ELSE Kept(written) = Kept(snapshot)

(* The literal of a cursor value is the value: the predicate of a resumed  *)
(* read starts exactly where the last one stopped, and a configured bound  *)
(* is where it says (literal.rs: "never a float round-trip").  Left out is *)
(* the midnight that ends a day, which wraps; an infinity is refused by    *)
(* the server.  A text loosely spelled is another text.                    *)
LiteralExact ==
  /\ bound # Unread /\ hint.hint = "none"
  /\ value[1] = "time" => value[2] < Day
  => CASE bound = Refused -> value[1] \in Instants /\ Magnitude(value[2]) >= Far
       [] column.oid = "text" -> bound \in {value, <<"loose", value>>}
       [] OTHER -> bound = value

(* All three: no read, no write and no predicate changes a value.          *)
ValuesKept == FacesAgree /\ RoundTrips /\ LiteralExact

(* text.rs: "a form is never parsed two ways by accident".  Whenever the   *)
(* two faces both deliver a value, they deliver the same one.              *)
SameEitherWay ==
  snapshot \notin {Unread, Refused} /\ change \notin {Unread, Refused}
  => snapshot = change
=============================================================================
