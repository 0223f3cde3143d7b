---------------------------- MODULE PgCursor_proofs ----------------------------
(***************************************************************************)
(* PgCursor skips no row, repeats none without a lag, and never takes its  *)
(* position back, for any keys, values, batches and cursor configurations; *)
(* and OraCursor, as an instance, skips no row with a cursor column and    *)
(* repeats only what its text cannot tell apart, for any values, rows and  *)
(* batches.                                                                *)
(***************************************************************************)
EXTENDS PgCursor, Sequences, WellFoundedInduction, TLAPS

Row   == [key : Keys, at : Values \cup {Null}, rev : {0, 1}]
Doc   == [watermark : Values, keys : SUBSET Keys]

-----------------------------------------------------------------------------
(* The inductive invariant *)

Valued(R) == {r \in R : r.at # Null}

\* A row the configuration asks for, and one the run after state s delivers.
Wanted(r)     == r.at # Null /\ InWindow(r, Null)
Pending(r, s) == InWindow(r, s) /\ (s # Null => ~(r.at = s.watermark /\ r.key \in s.keys))

\* A stamp that comes late, but not too late for the watermark w.
Recent(v, w) == IF config.inclusive THEN v >= w - config.lag ELSE v > w

Pushed == pushed.covered \cup pushed.tail

Types ==
  /\ config \in Config /\ Resolves(config)
  /\ table \subseteq Row /\ newest \in Nat /\ rest \subseteq Row
  /\ phase \in {"idle", "reading", "failed"} /\ (phase = "idle" => rest = {})
  /\ pushed \in [covered : SUBSET Row, tail : SUBSET Row]
  /\ pushed.covered \cap pushed.tail = {} /\ rest \cap Pushed = {}
  /\ tracker \in [stored : Doc \cup {Null}, last : Values \cup {Null}, keys : SUBSET Keys,
                  emitted : {tracker.emitted}]
  /\ checkpoint \in Doc \cup {Null} /\ committed \in Doc \cup {Null}
  /\ got \subseteq Row /\ twice \subseteq got

\* Nothing lies beyond the newest stamp.
Known ==
  /\ \A r \in Valued(table \cup rest) : r.at <= newest
  /\ \A s \in {committed, checkpoint, tracker.stored} \ {Null} : s.watermark <= newest
  /\ tracker.last # Null => tracker.last <= newest

\* R has a version of the key with the stamp v, whichever of its contents.
Holds(key, v, R) == \E q \in R : q.key = key /\ q.at = v

\* The boundary keys of a state are of rows delivered under it; only a final
\* state under an exclusive boundary has none.
Keyed(s, R) == \A k \in s.keys : Holds(k, s.watermark, R)
Boundaries ==
  /\ committed # Null => Keyed(committed, got) /\ (config.inclusive => committed.keys # {})
  /\ phase = "reading" /\ checkpoint # Null =>
       Keyed(checkpoint, got \cup pushed.covered) /\ checkpoint.keys # {}
  /\ phase = "reading" /\ tracker.stored # Null =>
       Keyed(tracker.stored, got) /\ (config.inclusive => tracker.stored.keys # {})
  /\ phase = "reading" /\ tracker.last # Null =>
       /\ \A k \in tracker.keys : Holds(k, tracker.last, got \cup Pushed)
       /\ tracker.keys # {}

\* The stream is ordered: what is not decoded is not below what is.
Ordered ==
  phase = "reading" =>
    /\ tracker.last # Null => \A r \in Valued(rest) : r.at >= tracker.last
    /\ checkpoint # Null => tracker.last # Null /\ tracker.last >= checkpoint.watermark

\* A row that came after the COPY began is in the window of whatever the run commits.
Late(r) ==
  /\ \A q \in Valued(rest) : Recent(r.at, q.at)
  /\ tracker.last # Null => Recent(r.at, tracker.last)

Nothing ==
  phase = "reading" =>
    \A r \in table : Wanted(r) => Holds(r.key, r.at, got \cup Pushed \cup rest) \/ Late(r)

\* What a state that is offered does not cover, the run after it reads again.
Covers ==
  phase = "reading" /\ checkpoint # Null =>
    \A r \in table : Wanted(r) =>
      Holds(r.key, r.at, got \cup pushed.covered) \/ Pending(r, checkpoint)

\* A later state: beyond c, or at c and with its keys.
Follows(s, c) ==
  s.watermark > c.watermark \/ (s.watermark = c.watermark /\ c.keys \subseteq s.keys)

\* What a run offers and commits follows what was committed before it.
Progress ==
  phase = "reading" =>
    /\ checkpoint = Null => committed = tracker.stored
    /\ tracker.stored # Null => committed # Null
    /\ checkpoint # Null =>
         /\ CurrentState(tracker) # Null /\ Follows(CurrentState(tracker), checkpoint)
         /\ committed # Null => Follows(checkpoint, committed)

SkipInv ==
  /\ Types /\ Known /\ Boundaries /\ Ordered /\ Nothing /\ Covers /\ NothingSkipped
  /\ Progress

-----------------------------------------------------------------------------
(* What repeats nothing, without a lag *)

\* R is at or below the watermark w, and what is at w is among the keys.
Within(R, w, keys) == \A r \in Valued(R) : r.at < w \/ (r.at = w /\ r.key \in keys)

\* The value v is beyond s, or at a boundary that s keeps closed.
Past(v, s) == v > s.watermark \/ (v = s.watermark /\ s.keys # {})

Once ==
  /\ Valued(twice) = {}
  /\ IF committed = Null THEN Valued(got) = {}
     ELSE \/ Within(got, committed.watermark, committed.keys)
          \/ committed.keys = {} /\ \A r \in Valued(got) : r.at <= committed.watermark

OnceReading ==
  phase = "reading" =>
    /\ \A r \in Valued(rest) : r \in got => Duplicate(r)
    /\ Valued(Pushed) \cap got = {}
    /\ IF tracker.last = Null THEN Valued(Pushed) = {}
                              ELSE Within(Pushed, tracker.last, tracker.keys)
    /\ checkpoint # Null => Within(pushed.covered, checkpoint.watermark, checkpoint.keys)
    /\ tracker.stored # Null => \A r \in Valued(rest) : Past(r.at, tracker.stored)
    /\ committed # Null => /\ tracker.last # Null => Past(tracker.last, committed)
                           /\ checkpoint # Null /\ checkpoint # committed =>
                                Past(checkpoint.watermark, committed)

OnceInv == config.lag = 0 => Once /\ OnceReading

-----------------------------------------------------------------------------
(* The operators *)

LEMMA NullApart ==
  ASSUME CursorAssumption
  PROVE  Null \notin Values /\ Null \notin Doc
BY DEF CursorAssumption, Doc

\* A set of cursor values has a greatest one.
LEMMA Greatest ==
  ASSUME CursorAssumption, NEW S, S \subseteq Values, S # {}
  PROVE  Max(S) \in S /\ \A x \in S : x <= Max(S)
<1> DEFINE T == {MaxValue - x : x \in S}
<1>1. MaxValue \in Nat /\ \A x \in S : x \in Nat /\ MaxValue - x \in Nat
  BY DEF CursorAssumption, Values
<1>2. T \subseteq Nat /\ T # {} BY <1>1
<1>3. IsWellFoundedOn(OpToRel(<, Nat), Nat) BY NatLessThanWellFounded
<1>4. \E m \in T : \A y \in T : ~ (<<y, m>> \in OpToRel(<, Nat))
  <2> HIDE DEF T
  <2> QED BY <1>2, <1>3, WFMin
<1>5. PICK m \in T : \A y \in T : ~ (<<y, m>> \in OpToRel(<, Nat)) BY <1>4
<1>6. \A y \in T : ~(y < m) BY <1>2, <1>5 DEF OpToRel
<1>7. PICK g \in S : m = MaxValue - g OBVIOUS
<1>8. \A x \in S : g >= x
  <2> TAKE x \in S
  <2>1. MaxValue - x \in T OBVIOUS
  <2>2. ~(MaxValue - x < m) BY <1>6, <2>1
  <2> QED BY <1>1, <1>7, <2>2
<1>9. Max(S) \in S /\ \A x \in S : Max(S) >= x BY <1>8 DEF Max
<1> QED BY <1>1, <1>9

\* What a tracker has read, as the state it offers.
Offers(t, s) ==
  /\ s = Null <=> t.last = Null \/ (t.stored # Null /\ t.last < t.stored.watermark)
  /\ s # Null =>
       /\ s \in Doc /\ s.watermark = t.last
       /\ s.keys = t.keys \cup (IF t.stored # Null /\ t.last = t.stored.watermark
                                THEN t.stored.keys ELSE {})
LEMMA Offered ==
  ASSUME CursorAssumption, NEW t, t.stored \in Doc \cup {Null}, t.last \in Values \cup {Null},
         t.keys \in SUBSET Keys
  PROVE  Offers(t, CurrentState(t))
<1>1. Null \notin Doc BY NullApart
<1>2. ASSUME NEW w \in Values, NEW k \in SUBSET Keys
      PROVE  /\ State(w, k) \in Doc /\ State(w, k) # Null
             /\ State(w, k).watermark = w /\ State(w, k).keys = k
  BY <1>1 DEF State, Doc
<1>3. t.stored # Null => t.stored.keys \in SUBSET Keys BY DEF Doc
<1>4. CASE t.last = Null BY <1>4 DEF CurrentState, Offers
<1>5. CASE t.last # Null /\ Behind(t)
  <2>1. t.last \in Nat /\ t.stored.watermark \in Nat /\ t.last < t.stored.watermark
    BY <1>5 DEF Behind, Doc, Values
  <2>2. t.last # t.stored.watermark BY <2>1
  <2>3. CurrentState(t) = Null BY <1>5, <2>2 DEF CurrentState
  <2> QED BY <1>5, <2>3 DEF Behind, Offers
<1>6. CASE t.last # Null /\ ~Behind(t) /\ t.stored # Null /\ t.last = t.stored.watermark
  <2>1. CurrentState(t) = State(t.last, t.keys \cup t.stored.keys) BY <1>6 DEF CurrentState
  <2>2. t.keys \cup t.stored.keys \in SUBSET Keys BY <1>3, <1>6
  <2> QED BY <1>2, <1>6, <2>1, <2>2 DEF Offers, Behind
<1>7. CASE t.last # Null /\ ~Behind(t) /\ ~(t.stored # Null /\ t.last = t.stored.watermark)
  <2>1. CurrentState(t) = State(t.last, t.keys) BY <1>7 DEF CurrentState
  <2> QED BY <1>2, <1>7, <2>1 DEF Offers, Behind
<1> QED BY <1>4, <1>5, <1>6, <1>7

\* What the tracker has after the rows `kept`.
Reads(t, kept) ==
  /\ t = [stored |-> t.stored, last |-> t.last, keys |-> t.keys, emitted |-> t.emitted]
  /\ t.stored = tracker.stored
  /\ t.last \in Values \cup {Null} /\ t.keys \in SUBSET Keys
  /\ IF Valued(kept) = {} THEN t.last = tracker.last /\ t.keys = tracker.keys
     ELSE /\ t.last # Null
          /\ \A r \in Valued(kept) : r.at <= t.last
          /\ \E r \in Valued(kept) : r.at = t.last
          /\ \A k : k \in t.keys <=> \/ tracker.last = t.last /\ k \in tracker.keys
                                     \/ \E r \in kept : r.at = t.last /\ r.key = k
LEMMA Tracking ==
  ASSUME CursorAssumption, Types, NEW kept \in SUBSET rest
  PROVE  Reads(Tracked(kept), kept)
<1> DEFINE top == Max({r.at : r \in Valued(kept)})
           atTop == {r.key : r \in {x \in Valued(kept) : x.at = top}}
<1>1. PICK st, la, ke, em : tracker = [stored |-> st, last |-> la, keys |-> ke, emitted |-> em]
  BY DEF Types
<1>2. /\ st = tracker.stored /\ la = tracker.last /\ ke = tracker.keys /\ em = tracker.emitted
      /\ la \in Values \cup {Null} /\ ke \in SUBSET Keys
  BY <1>1 DEF Types
<1>3. \A r \in kept : r.key \in Keys /\ r.at \in Values \cup {Null} BY DEF Types, Row
<1>4. CASE Valued(kept) = {}
  <2>1. Tracked(kept) = tracker BY <1>4 DEF Tracked, Valued
  <2> QED BY <1>1, <1>2, <1>4, <2>1 DEF Reads
<1>5. CASE Valued(kept) # {}
  <2>1. top \in {r.at : r \in Valued(kept)} /\ \A x \in {r.at : r \in Valued(kept)} : x <= top
    <3>1. {r.at : r \in Valued(kept)} \subseteq Values BY <1>3 DEF Valued
    <3>2. {r.at : r \in Valued(kept)} # {} BY <1>5
    <3> QED BY <3>1, <3>2, Greatest
  <2>2. Tracked(kept) = [tracker EXCEPT !.last = top,
                                        !.keys = IF tracker.last = top THEN @ \cup atTop ELSE atTop]
    BY <1>5 DEF Tracked, Valued
  <2>3. top \in Values /\ top # Null BY <1>3, <2>1, NullApart DEF Valued
  <2>4. atTop \in SUBSET Keys BY <1>3 DEF Valued
  <2>5. \A k : k \in atTop <=> \E r \in kept : r.at = top /\ r.key = k BY <2>3 DEF Valued
  <2>6. PICK p, a : p = top /\ a = atTop OBVIOUS
  <2>7. Tracked(kept) = [stored |-> st, last |-> p, emitted |-> em,
                         keys |-> IF la = p THEN ke \cup a ELSE a]
    <3> HIDE DEF top, atTop
    <3> QED BY <1>1, <2>2, <2>6
  <2> HIDE DEF top, atTop
  <2>8. /\ p \in Values /\ p # Null /\ a \in SUBSET Keys
        /\ \A r \in Valued(kept) : r.at <= p
        /\ \E r \in Valued(kept) : r.at = p
        /\ \A k : k \in a <=> \E r \in kept : r.at = p /\ r.key = k
    BY <2>1, <2>3, <2>4, <2>5, <2>6
  <2>9. PICK t : t = Tracked(kept) OBVIOUS
  <2>10. /\ t = [stored |-> t.stored, last |-> t.last, keys |-> t.keys, emitted |-> t.emitted]
         /\ t.stored = tracker.stored /\ t.last = p
         /\ t.keys = IF tracker.last = p THEN ke \cup a ELSE a
    BY <1>2, <2>7, <2>9
  <2>11. Reads(t, kept)
    <3>1. t.keys \in SUBSET Keys BY <1>2, <2>8, <2>10
    <3>2. \A k : k \in t.keys <=> \/ tracker.last = t.last /\ k \in tracker.keys
                                  \/ \E r \in kept : r.at = t.last /\ r.key = k
      BY <1>2, <2>8, <2>10
    <3> QED BY <1>5, <2>8, <2>10, <3>1, <3>2 DEF Reads
  <2> QED BY <2>9, <2>11
<1> QED BY <1>4, <1>5

-----------------------------------------------------------------------------
(* One batch *)

\* The rows B are decoded, and `kept` of them pushed.
Decodes(B, kept) ==
  /\ B \subseteq rest /\ kept = {r \in B : ~Duplicate(r)}
  /\ \A r \in B, s \in rest \ B : ~Before(s, r)
  /\ rest' = rest \ B
Reaches(kept) ==
  /\ Reads(tracker', kept) /\ Offers(tracker', CurrentState(tracker'))
  /\ \/ /\ CurrentState(tracker') # Null /\ checkpoint' = CurrentState(tracker')
        /\ pushed' = [covered |-> Pushed \cup kept, tail |-> {}]
     \/ /\ checkpoint' = checkpoint
        /\ pushed' = [covered |-> pushed.covered, tail |-> pushed.tail \cup kept]

LEMMA Batches ==
  ASSUME CursorAssumption, Types, Batch
  PROVE  \E B \in SUBSET rest, kept \in SUBSET rest :
           /\ Decodes(B, kept) /\ phase = "reading" /\ UNCHANGED <<config, table, newest, dest>>
           /\ \/ phase' = "failed" /\ UNCHANGED <<tracker, pushed, checkpoint>>
              \/ phase' = "reading" /\ Reaches(kept)
<1>1. PICK B \in SUBSET rest :
         /\ \A r \in B, s \in rest \ B : ~Before(s, r)
         /\ rest' = rest \ B
         /\ IF config.nulls = "error" /\ \E r \in B : r.at = Null
              THEN /\ phase' = "failed"
                   /\ UNCHANGED <<tracker, pushed, checkpoint>>
              ELSE LET kept  == {r \in B : ~Duplicate(r)}
                       t     == Tracked(kept)
                       state == CurrentState(t)
                       fresh == state # Null /\ (t.emitted = Null \/ t.emitted # Signature(state))
                   IN  /\ phase' = phase
                       /\ tracker' = IF fresh THEN [t EXCEPT !.emitted = Signature(state)] ELSE t
                       /\ pushed' = IF fresh
                                      THEN [covered |-> pushed.covered \cup pushed.tail \cup kept,
                                            tail |-> {}]
                                      ELSE [pushed EXCEPT !.tail = @ \cup kept]
                       /\ checkpoint' = IF fresh THEN state ELSE checkpoint
  BY DEF Batch
<1>2. phase = "reading" /\ UNCHANGED <<config, table, newest, dest>> BY DEF Batch
<1>3. PICK kept \in SUBSET rest : kept = {r \in B : ~Duplicate(r)} OBVIOUS
<1>4. Decodes(B, kept) BY <1>1, <1>3 DEF Decodes
<1>5. CASE config.nulls = "error" /\ \E r \in B : r.at = Null
  BY <1>1, <1>2, <1>4, <1>5
<1>6. CASE ~(config.nulls = "error" /\ \E r \in B : r.at = Null)
  <2>1. PICK t : t = Tracked(kept) OBVIOUS
  <2>2. PICK f \in BOOLEAN :
          f = (CurrentState(t) # Null /\ (t.emitted = Null \/ t.emitted # Signature(CurrentState(t))))
    OBVIOUS
  <2>3. /\ phase' = "reading"
        /\ tracker' = IF f THEN [t EXCEPT !.emitted = Signature(CurrentState(t))] ELSE t
        /\ pushed' = IF f THEN [covered |-> pushed.covered \cup pushed.tail \cup kept, tail |-> {}]
                          ELSE [pushed EXCEPT !.tail = @ \cup kept]
        /\ checkpoint' = IF f THEN CurrentState(t) ELSE checkpoint
    BY <1>1, <1>2, <1>3, <1>6, <2>1, <2>2
  <2>4. Reads(t, kept) BY <2>1, Tracking
  <2>5. PICK e : e = tracker'.emitted OBVIOUS
  <2>6. tracker' = [stored |-> t.stored, last |-> t.last, keys |-> t.keys, emitted |-> e]
    <3>1. t = [stored |-> t.stored, last |-> t.last, keys |-> t.keys, emitted |-> t.emitted]
      BY <2>4 DEF Reads
    <3>2. CASE f
      <4>1. PICK g : g = Signature(CurrentState(t)) OBVIOUS
      <4>2. tracker' = [t EXCEPT !.emitted = g] BY <2>3, <3>2, <4>1
      <4> QED BY <2>5, <3>1, <4>2
    <3>3. CASE ~f
      <4>1. tracker' = t BY <2>3, <3>3
      <4> QED BY <2>5, <3>1, <4>1
    <3> QED BY <3>2, <3>3
  <2>7. PICK n : n = tracker' OBVIOUS
  <2>8. n.stored = t.stored /\ n.last = t.last /\ n.keys = t.keys BY <2>6, <2>7
  <2>9. CurrentState(n) = CurrentState(t) BY <2>8 DEF CurrentState, Behind
  <2>10. Reads(n, kept) BY <2>4, <2>6, <2>7, <2>8 DEF Reads
  <2>11. Offers(n, CurrentState(n))
    <3>1. n.stored \in Doc \cup {Null} /\ n.last \in Values \cup {Null} /\ n.keys \in SUBSET Keys
      BY <2>10 DEF Reads, Types
    <3> QED BY <3>1, Offered
  <2>12. Reaches(kept)
    <3>1. pushed = [covered |-> pushed.covered, tail |-> pushed.tail] BY DEF Types
    <3>2. CASE f BY <2>2, <2>3, <2>7, <2>9, <2>10, <2>11, <3>2 DEF Reaches, Pushed
    <3>3. CASE ~f
      <4>1. pushed' = [covered |-> pushed.covered, tail |-> pushed.tail \cup kept]
        BY <2>3, <3>1, <3>3
      <4>2. checkpoint' = checkpoint BY <2>3, <3>3
      <4> QED BY <2>7, <2>10, <2>11, <4>1, <4>2 DEF Reaches
    <3> QED BY <3>2, <3>3
  <2> QED BY <1>2, <1>4, <2>3, <2>12
<1> QED BY <1>5, <1>6

-----------------------------------------------------------------------------
(* What the windows leave to the next run *)

LEMMA Numbers ==
  ASSUME CursorAssumption, Types
  PROVE  /\ config.lag \in {0, 1} /\ newest \in Nat /\ (config.lag > 0 => config.inclusive)
         /\ \A v \in Values : v \in Nat
         /\ \A s \in Doc : s.watermark \in Values /\ s.watermark \in Nat
BY DEF Types, Config, Resolves, Values, Doc

\* A row at or above the watermark of s, which closes its boundary, or recent
\* enough for it, is delivered or read by the run after s.
LEMMA Reread ==
  ASSUME CursorAssumption, Types, NEW s \in Doc, NEW r \in Row, Wanted(r), NEW R,
         Keyed(s, R), config.inclusive => s.keys # {},
         Recent(r.at, s.watermark) \/ (s.keys # {} /\ r.at >= s.watermark)
  PROVE  Holds(r.key, r.at, R) \/ Pending(r, s)
<1>1. r.at # Null /\ BelowEnd(r.at) /\ r.at \in Values /\ s # Null
  BY NullApart DEF Wanted, InWindow, Row
<1>2. CASE r.at = s.watermark /\ r.key \in s.keys BY <1>2 DEF Keyed
<1>3. CASE ~(r.at = s.watermark /\ r.key \in s.keys)
  <2>1. AboveLower(r.at, s) BY <1>1, Numbers DEF AboveLower, Recent
  <2> QED BY <1>1, <1>3, <2>1 DEF Pending, InWindow
<1> QED BY <1>2, <1>3

\* A stamp given now is recent for every watermark known.
LEMMA InTimeIsRecent ==
  ASSUME CursorAssumption, Types, NEW v \in Values, InTime(v), NEW w \in Nat, w <= newest
  PROVE  Recent(v, w)
BY Numbers DEF InTime, Recent

-----------------------------------------------------------------------------
(* Nothing is skipped: the steps *)

LEMMA SkipInit ==
  ASSUME CursorAssumption, Init
  PROVE  SkipInv
<1>1. Types
  <2>1. tracker = [stored |-> Null, last |-> Null, keys |-> {}, emitted |-> Null]
    BY DEF Init, NewTracker
  <2>2. pushed = [covered |-> {}, tail |-> {}] BY DEF Init, NothingPushed
  <2>3. config \in Config /\ Resolves(config) BY DEF Init, CursorAssumption
  <2> QED BY <2>1, <2>2, <2>3 DEF Init, Types, Pushed
<1>2. phase = "idle" /\ table = {} /\ rest = {} /\ committed = Null /\ checkpoint = Null
      /\ tracker.stored = Null /\ tracker.last = Null
  BY DEF Init, NewTracker
<1> QED BY <1>1, <1>2
  DEF SkipInv, Known, Boundaries, Ordered, Nothing, Covers, NothingSkipped, Progress, Valued

\* The server's transactions.
TouchRow(key, v, rev) ==
  /\ v \in Values => InTime(v)
  /\ table' = {r \in table : r.key # key} \cup {[key |-> key, at |-> v, rev |-> rev]}
  /\ newest' \in Nat /\ newest <= newest' /\ (v \in Values => v <= newest')
LEMMA Touched ==
  ASSUME CursorAssumption, Types, NEW key \in Keys, Touch(key)
  PROVE  \E v \in Values \cup {Null}, rev \in {0, 1} : TouchRow(key, v, rev)
<1>1. PICK v \in Values \cup {Null}, rev \in {0, 1} :
        /\ v # Null => InTime(v)
        /\ table' = {r \in table : r.key # key} \cup {[key |-> key, at |-> v, rev |-> rev]}
        /\ newest' = IF v = Null THEN newest ELSE Max({newest, v})
  BY DEF Touch, Version
<1>2. newest \in Nat /\ \A x \in Values : x \in Nat BY Numbers
<1>3. ASSUME NEW x \in Nat, NEW y \in Nat
      PROVE  Max({x, y}) \in Nat /\ Max({x, y}) >= x /\ Max({x, y}) >= y
  <2>1. \E m \in {x, y} : \A z \in {x, y} : m >= z
    <3>1. CASE x >= y BY <3>1
    <3>2. CASE y >= x BY <3>2
    <3> QED BY <3>1, <3>2
  <2>2. Max({x, y}) \in {x, y} /\ \A z \in {x, y} : Max({x, y}) >= z BY <2>1 DEF Max
  <2> QED BY <2>2
<1>4. v \in Values => v # Null BY NullApart
<1>5. newest' \in Nat /\ newest <= newest' /\ (v \in Values => v <= newest')
  <2>1. CASE v = Null BY <1>1, <1>2, <1>4, <2>1
  <2>2. CASE v # Null BY <1>1, <1>2, <1>3, <2>2
  <2> QED BY <2>1, <2>2
<1> QED BY <1>1, <1>4, <1>5 DEF TouchRow

LEMMA SkipTouch ==
  ASSUME CursorAssumption, SkipInv, NEW key \in Keys, Touch(key)
  PROVE  SkipInv'
<1>0. /\ Types /\ Known /\ Boundaries /\ Ordered /\ Nothing /\ Covers /\ NothingSkipped
      /\ Progress
  BY DEF SkipInv
<1>1. UNCHANGED <<config, phase, rest, tracker, pushed, checkpoint, committed, got, twice>>
  BY DEF Touch, run, dest
<1>2. PICK v \in Values \cup {Null}, rev \in {0, 1} : TouchRow(key, v, rev) BY <1>0, Touched
<1>3. PICK new : new = [key |-> key, at |-> v, rev |-> rev] OBVIOUS
<1>4. new \in Row /\ new.at = v BY <1>3 DEF Row
<1>5. \A r \in table' : r \in table \/ r = new BY <1>2, <1>3 DEF TouchRow
<1>6. newest' \in Nat /\ newest <= newest' /\ newest \in Nat BY <1>0, <1>2 DEF TouchRow, Types
<1>7. Types'
  <2>1. table' \subseteq Row BY <1>0, <1>4, <1>5 DEF Types
  <2> QED BY <1>0, <1>1, <1>6, <2>1 DEF Types, Pushed
<1>8. Known'
  <2>1. ASSUME NEW r \in Valued(table' \cup rest) PROVE r.at <= newest'
    <3>1. CASE r = new BY <1>2, <1>4, <2>1, <3>1 DEF TouchRow, Valued
    <3>2. CASE r \in table \cup rest
      <4>1. r \in Valued(table \cup rest) BY <2>1, <3>2 DEF Valued
      <4>2. r.at \in Nat BY <1>0, <3>2, <4>1, Numbers DEF Types, Row, Valued
      <4> QED BY <1>0, <1>6, <4>1, <4>2 DEF Known
    <3> QED BY <1>5, <2>1, <3>1, <3>2 DEF Valued
  <2>2. \A s \in {committed, checkpoint, tracker.stored} \ {Null} : s.watermark \in Nat
    BY <1>0, Numbers DEF Types
  <2>3. tracker.last # Null => tracker.last \in Nat BY <1>0, Numbers DEF Types
  <2>4. ASSUME NEW s \in {committed, checkpoint, tracker.stored} \ {Null}
        PROVE  s.watermark <= newest'
    <3>1. s.watermark <= newest /\ s.watermark \in Nat BY <1>0, <2>2 DEF Known
    <3> QED BY <1>6, <3>1
  <2>5. tracker.last # Null => tracker.last <= newest' BY <1>0, <1>6, <2>3 DEF Known
  <2> QED BY <1>1, <2>1, <2>4, <2>5 DEF Known
<1>9. Boundaries' BY <1>0, <1>1 DEF Boundaries, Keyed, Holds, Pushed
<1>10. Ordered' BY <1>0, <1>1 DEF Ordered, Valued
<1>11. Progress' BY <1>0, <1>1 DEF Progress, CurrentState, Behind, Follows
<1>12. ASSUME NEW r \in Row PROVE (Wanted(r)' <=> Wanted(r)) /\ (Late(r)' <=> Late(r))
  <2>1. Wanted(r)' <=> Wanted(r) BY <1>1 DEF Wanted, InWindow, AboveLower, BelowEnd
  <2>2. Late(r)' <=> Late(r) BY <1>1 DEF Late, Recent, Valued
  <2> QED BY <2>1, <2>2
<1>13. ASSUME NEW r \in Row
       PROVE  /\ (Pending(r, checkpoint)' <=> Pending(r, checkpoint))
              /\ (Pending(r, committed)' <=> Pending(r, committed))
  <2>1. Pending(r, checkpoint)' <=> Pending(r, checkpoint)
    BY <1>1 DEF Pending, InWindow, AboveLower, BelowEnd
  <2>2. Pending(r, committed)' <=> Pending(r, committed)
    BY <1>1 DEF Pending, InWindow, AboveLower, BelowEnd
  <2> QED BY <2>1, <2>2
<1>14. Wanted(new) => v \in Values /\ InTime(v) BY <1>2, <1>4 DEF Wanted, TouchRow
<1>15. Nothing'
  <2> SUFFICES ASSUME phase = "reading", NEW r \in table', Wanted(r)'
               PROVE  Holds(r.key, r.at, got \cup Pushed \cup rest) \/ Late(r)'
    BY <1>1 DEF Nothing, Holds, Pushed
  <2>1. r \in Row BY <1>7 DEF Types
  <2>2. CASE r \in table BY <1>0, <1>12, <2>1, <2>2 DEF Nothing, Holds
  <2>3. CASE r = new
    <3>1. v \in Values /\ InTime(v) BY <1>12, <1>14, <2>1, <2>3
    <3>2. ASSUME NEW q \in Valued(rest) PROVE Recent(r.at, q.at)
      <4>1. q.at \in Nat BY <1>0, Numbers DEF Types, Row, Valued
      <4>2. q.at <= newest BY <1>0 DEF Known, Valued
      <4> QED BY <1>0, <1>4, <2>3, <3>1, <4>1, <4>2, InTimeIsRecent
    <3>3. ASSUME tracker.last # Null PROVE Recent(r.at, tracker.last)
      <4>1. tracker.last \in Nat BY <1>0, <3>3, Numbers DEF Types
      <4> QED BY <1>0, <1>4, <2>3, <3>1, <3>3, <4>1, InTimeIsRecent DEF Known
    <3>4. Late(r) BY <3>2, <3>3 DEF Late
    <3> QED BY <1>12, <2>1, <3>4
  <2> QED BY <1>5, <2>2, <2>3
<1>16. ASSUME NEW s \in Doc, NEW R, Keyed(s, R), config.inclusive => s.keys # {},
              s.watermark <= newest, Wanted(new)
       PROVE  Holds(new.key, new.at, R) \/ Pending(new, s)
  <2>1. v \in Values /\ InTime(v) BY <1>14, <1>16
  <2>2. s.watermark \in Nat BY <1>0, Numbers
  <2>3. Recent(new.at, s.watermark) BY <1>0, <1>4, <1>16, <2>1, <2>2, InTimeIsRecent
  <2> QED BY <1>0, <1>4, <1>16, <2>3, Reread
<1>17. Covers'
  <2> SUFFICES ASSUME phase = "reading", checkpoint # Null, NEW r \in table', Wanted(r)'
               PROVE  \/ Holds(r.key, r.at, got \cup pushed.covered)
                      \/ Pending(r, checkpoint)'
    BY <1>1 DEF Covers, Holds
  <2>1. r \in Row BY <1>7 DEF Types
  <2>2. CASE r \in table BY <1>0, <1>12, <1>13, <2>1, <2>2 DEF Covers, Holds
  <2>3. CASE r = new
    <3>1. Wanted(new) BY <1>12, <2>1, <2>3
    <3>2. checkpoint \in Doc /\ checkpoint.watermark <= newest BY <1>0 DEF Types, Known
    <3>3. Keyed(checkpoint, got \cup pushed.covered) /\ checkpoint.keys # {}
      BY <1>0 DEF Boundaries
    <3> QED BY <1>13, <1>16, <2>1, <2>3, <3>1, <3>2, <3>3
  <2> QED BY <1>5, <2>2, <2>3
<1>18. NothingSkipped'
  <2> SUFFICES ASSUME NEW r \in table', Wanted(r)'
               PROVE  Holds(r.key, r.at, got) \/ Pending(r, committed)'
    BY <1>1 DEF NothingSkipped, Holds, Wanted, Pending
  <2>1. r \in Row BY <1>7 DEF Types
  <2>2. CASE r \in table BY <1>0, <1>12, <1>13, <2>1, <2>2 DEF NothingSkipped, Holds, Wanted, Pending
  <2>3. CASE r = new
    <3>1. Wanted(new) BY <1>12, <2>1, <2>3
    <3>2. CASE committed = Null BY <1>13, <2>1, <2>3, <3>1, <3>2 DEF Wanted, Pending
    <3>3. CASE committed # Null
      <4>1. committed \in Doc /\ committed.watermark <= newest BY <1>0, <3>3 DEF Types, Known
      <4>2. Keyed(committed, got) /\ (config.inclusive => committed.keys # {})
        BY <1>0, <3>3 DEF Boundaries
      <4> QED BY <1>13, <1>16, <2>1, <2>3, <3>1, <4>1, <4>2
    <3> QED BY <3>2, <3>3
  <2> QED BY <1>5, <2>2, <2>3
<1> QED BY <1>7, <1>8, <1>9, <1>10, <1>11, <1>15, <1>17, <1>18 DEF SkipInv


LEMMA SkipRemove ==
  ASSUME CursorAssumption, SkipInv, NEW key \in Keys, Remove(key)
  PROVE  SkipInv'
<1>0. /\ Types /\ Known /\ Boundaries /\ Ordered /\ Nothing /\ Covers /\ NothingSkipped
      /\ Progress
  BY DEF SkipInv
<1>1. /\ UNCHANGED <<config, newest, phase, rest, tracker, pushed, checkpoint, committed,
                    got, twice>>
      /\ table' \subseteq table
  BY DEF Remove, run, dest
<1>2. Types' BY <1>0, <1>1 DEF Types, Pushed
<1>3. Known' BY <1>0, <1>1 DEF Known, Valued
<1>4. Boundaries' BY <1>0, <1>1 DEF Boundaries, Keyed, Holds, Pushed
<1>5. Ordered' BY <1>0, <1>1 DEF Ordered, Valued
<1>6. Progress' BY <1>0, <1>1 DEF Progress, CurrentState, Behind, Follows
<1>7. ASSUME NEW r PROVE Wanted(r)' <=> Wanted(r)
  BY <1>1 DEF Wanted, InWindow, AboveLower, BelowEnd
<1>8. Nothing'
  <2>1. ASSUME NEW r PROVE Late(r)' <=> Late(r) BY <1>1 DEF Late, Recent, Valued
  <2> QED BY <1>0, <1>1, <1>7, <2>1 DEF Nothing, Holds, Pushed
<1>9. Covers'
  <2>1. ASSUME NEW r PROVE Pending(r, checkpoint)' <=> Pending(r, checkpoint)
    BY <1>1 DEF Pending, InWindow, AboveLower, BelowEnd
  <2> QED BY <1>0, <1>1, <1>7, <2>1 DEF Covers, Holds
<1>10. NothingSkipped'
  <2>1. ASSUME NEW r PROVE Pending(r, committed)' <=> Pending(r, committed)
    BY <1>1 DEF Pending, InWindow, AboveLower, BelowEnd
  <2> QED BY <1>0, <1>1, <1>7, <2>1 DEF NothingSkipped, Holds, Wanted, Pending
<1> QED BY <1>2, <1>3, <1>4, <1>5, <1>6, <1>8, <1>9, <1>10 DEF SkipInv

\* The window of a run holds what is pending for the committed state.
LEMMA SkipStart ==
  ASSUME CursorAssumption, SkipInv, StartRead
  PROVE  SkipInv'
<1>0. Types /\ Known /\ Boundaries /\ NothingSkipped BY DEF SkipInv
<1>1. /\ UNCHANGED <<config, table, newest, committed, got, twice>>
      /\ phase' = "reading" /\ checkpoint' = Null
      /\ rest' = {r \in table : InWindow(r, committed)}
      /\ pushed' = [covered |-> {}, tail |-> {}]
  BY DEF StartRead, dest, NothingPushed
<1>2. tracker' = [stored |-> committed, last |-> Null, keys |-> {}, emitted |-> Null]
  BY DEF StartRead, NewTracker
<1>3. tracker'.stored = committed /\ tracker'.last = Null BY <1>2
<1>4. Types'
  <2>1. Pushed' = {} BY <1>1 DEF Pushed
  <2> QED BY <1>0, <1>1, <1>2, <2>1 DEF Types
<1>5. Known' BY <1>0, <1>1, <1>3 DEF Known, Valued
<1>6. Boundaries' BY <1>0, <1>1, <1>3 DEF Boundaries, Keyed, Holds
<1>7. Ordered' BY <1>1, <1>3 DEF Ordered
<1>8. ASSUME NEW r PROVE Wanted(r)' <=> Wanted(r)
  BY <1>1 DEF Wanted, InWindow, AboveLower, BelowEnd
<1>9. Nothing'
  <2>1. ASSUME NEW r \in table, Wanted(r) PROVE Holds(r.key, r.at, got) \/ r \in rest'
    BY <1>0, <1>1, <2>1 DEF NothingSkipped, Holds, Wanted
  <2> QED BY <1>1, <1>8, <2>1 DEF Nothing, Holds
<1>10. Covers' BY <1>1 DEF Covers, Holds
<1>11. NothingSkipped'
  <2>1. ASSUME NEW r PROVE Pending(r, committed)' <=> Pending(r, committed)
    BY <1>1 DEF Pending, InWindow, AboveLower, BelowEnd
  <2> QED BY <1>0, <1>1, <1>8, <2>1 DEF NothingSkipped, Holds, Wanted, Pending
<1>12. Progress' BY <1>1, <1>3 DEF Progress
<1> QED BY <1>4, <1>5, <1>6, <1>7, <1>9, <1>10, <1>11, <1>12 DEF SkipInv

LEMMA SkipFails ==
  ASSUME CursorAssumption, SkipInv, RunFails
  PROVE  SkipInv'
<1>0. Types /\ Known /\ Boundaries /\ NothingSkipped BY DEF SkipInv
<1>1. /\ UNCHANGED <<config, table, newest, committed, got, twice>>
      /\ phase' = "idle" /\ rest' = {} /\ checkpoint' = Null
      /\ pushed' = [covered |-> {}, tail |-> {}]
  BY DEF RunFails, dest, NothingPushed
<1>2. tracker' = [stored |-> Null, last |-> Null, keys |-> {}, emitted |-> Null]
  BY DEF RunFails, NewTracker
<1>3. tracker'.stored = Null /\ tracker'.last = Null BY <1>2
<1>4. Types'
  <2>1. Pushed' = {} BY <1>1 DEF Pushed
  <2> QED BY <1>0, <1>1, <1>2, <2>1 DEF Types
<1>5. Known' BY <1>0, <1>1, <1>3 DEF Known, Valued
<1>6. Boundaries' BY <1>0, <1>1 DEF Boundaries, Keyed, Holds
<1>7. NothingSkipped'
  <2>1. ASSUME NEW r PROVE Pending(r, committed)' <=> Pending(r, committed)
    BY <1>1 DEF Pending, InWindow, AboveLower, BelowEnd
  <2>2. ASSUME NEW r PROVE Wanted(r)' <=> Wanted(r)
    BY <1>1 DEF Wanted, InWindow, AboveLower, BelowEnd
  <2> QED BY <1>0, <1>1, <2>1, <2>2 DEF NothingSkipped, Holds, Wanted, Pending
<1> QED BY <1>1, <1>4, <1>5, <1>6, <1>7 DEF SkipInv, Ordered, Nothing, Covers, Progress

\* What is offered covers what the run has pushed of the table.
LEMMA SkipCommit ==
  ASSUME CursorAssumption, SkipInv, EngineCommit
  PROVE  SkipInv'
<1>0. /\ Types /\ Known /\ Boundaries /\ Ordered /\ Nothing /\ Covers /\ NothingSkipped
      /\ Progress
  BY DEF SkipInv
<1>1. /\ UNCHANGED <<config, table, newest, phase, rest, tracker, checkpoint>>
      /\ phase = "reading" /\ checkpoint # Null /\ committed' = checkpoint
      /\ got' = got \cup pushed.covered /\ twice' = twice \cup (pushed.covered \cap got)
  BY DEF EngineCommit, Absorb
<1>2. pushed' = [covered |-> {}, tail |-> pushed.tail]
  <2>1. pushed = [covered |-> pushed.covered, tail |-> pushed.tail] BY <1>0 DEF Types
  <2>2. pushed' = [pushed EXCEPT !.covered = {}] BY DEF EngineCommit
  <2> QED BY <2>1, <2>2
<1>3. /\ pushed'.covered = {} /\ pushed'.tail = pushed.tail /\ Pushed' = pushed.tail
      /\ got' \cup Pushed' = got \cup Pushed
  BY <1>1, <1>2 DEF Pushed
<1>4. Types'
  <2>1. got' \subseteq Row /\ twice' \subseteq got' BY <1>0, <1>1 DEF Types
  <2>2. rest' \cap Pushed' = {} BY <1>0, <1>1, <1>3 DEF Types, Pushed
  <2>3. pushed' \in [covered : SUBSET Row, tail : SUBSET Row] BY <1>0, <1>2 DEF Types
  <2> QED BY <1>0, <1>1, <1>3, <2>1, <2>2, <2>3 DEF Types
<1>5. Known' BY <1>0, <1>1 DEF Known
<1>6. Boundaries' BY <1>0, <1>1, <1>3 DEF Boundaries, Keyed, Holds
<1>7. Ordered' BY <1>0, <1>1 DEF Ordered, Valued
<1>8. ASSUME NEW r PROVE Wanted(r)' <=> Wanted(r)
  BY <1>1 DEF Wanted, InWindow, AboveLower, BelowEnd
<1>9. Nothing'
  <2>1. ASSUME NEW r PROVE Late(r)' <=> Late(r) BY <1>1 DEF Late, Recent, Valued
  <2> QED BY <1>0, <1>1, <1>3, <1>8, <2>1 DEF Nothing, Holds
<1>10. Covers'
  <2>1. ASSUME NEW r PROVE Pending(r, checkpoint)' <=> Pending(r, checkpoint)
    BY <1>1 DEF Pending, InWindow, AboveLower, BelowEnd
  <2> QED BY <1>0, <1>1, <1>3, <1>8, <2>1 DEF Covers, Holds
<1>11. NothingSkipped'
  <2>1. ASSUME NEW r PROVE Pending(r, committed)' <=> Pending(r, checkpoint)
    BY <1>1 DEF Pending, InWindow, AboveLower, BelowEnd
  <2>2. \A r \in table : Wanted(r) => Holds(r.key, r.at, got') \/ Pending(r, checkpoint)
    BY <1>0, <1>1 DEF Covers, Holds
  <2> QED BY <1>1, <1>8, <2>1, <2>2 DEF NothingSkipped, Holds, Wanted, Pending
<1>12. Progress'
  <2>1. CurrentState(tracker)' = CurrentState(tracker) BY <1>1
  <2>2. Follows(committed, committed)' BY DEF Follows
  <2> QED BY <1>0, <1>1, <2>1, <2>2 DEF Progress, Follows
<1> QED BY <1>4, <1>5, <1>6, <1>7, <1>9, <1>10, <1>11, <1>12 DEF SkipInv

\* A run that ends commits what its tracker has, or what was committed before.
Ends ==
  /\ UNCHANGED <<config, table, newest>> /\ rest = {}
  /\ phase = "reading" /\ phase' = "idle" /\ rest' = {} /\ checkpoint' = Null
  /\ pushed' = [covered |-> {}, tail |-> {}]
  /\ tracker' = [stored |-> Null, last |-> Null, keys |-> {}, emitted |-> Null]
  /\ got' = got \cup Pushed /\ twice' = twice \cup (Pushed \cap got)
  /\ Offers(tracker, CurrentState(tracker))
  /\ \/ CurrentState(tracker) = Null /\ checkpoint = Null /\ committed' = committed
     \/ /\ CurrentState(tracker) # Null
        /\ committed' = [watermark |-> tracker.last,
                         keys |-> IF config.inclusive THEN CurrentState(tracker).keys ELSE {}]
LEMMA Ending ==
  ASSUME CursorAssumption, Types, Progress, FinishRead
  PROVE  Ends
<1>1. PICK s : s = CurrentState(tracker) OBVIOUS
<1>2. Offers(tracker, s) BY <1>1, Offered DEF Types
<1>3. PICK f : f = FinalState OBVIOUS
<1>4. f = IF s # Null /\ ~config.inclusive THEN [s EXCEPT !.keys = {}] ELSE s
  BY <1>1, <1>3 DEF FinalState
<1>5. config.inclusive \in BOOLEAN BY DEF Types, Config
<1>6. /\ UNCHANGED <<config, table, newest>> /\ rest = {} /\ rest' = rest
      /\ phase = "reading" /\ phase' = "idle" /\ checkpoint' = Null
      /\ pushed' = [covered |-> {}, tail |-> {}]
      /\ tracker' = [stored |-> Null, last |-> Null, keys |-> {}, emitted |-> Null]
      /\ got' = got \cup Pushed /\ twice' = twice \cup (Pushed \cap got)
      /\ committed' = IF (IF f # Null THEN f ELSE checkpoint) = Null THEN committed
                      ELSE IF f # Null THEN f ELSE checkpoint
  BY <1>3 DEF FinishRead, Absorb, NewTracker, NothingPushed, Pushed
<1>7. CASE s = Null
  <2>1. f = Null BY <1>4, <1>7
  <2>2. checkpoint = Null BY <1>1, <1>6, <1>7 DEF Progress
  <2> QED BY <1>1, <1>2, <1>6, <1>7, <2>1, <2>2 DEF Ends
<1>8. CASE s # Null
  <2>1. s \in Doc /\ s.watermark = tracker.last BY <1>2, <1>8 DEF Offers
  <2>2. s = [watermark |-> tracker.last, keys |-> s.keys] BY <2>1 DEF Doc
  <2>3. f = [watermark |-> tracker.last, keys |-> IF config.inclusive THEN s.keys ELSE {}]
    <3>1. CASE config.inclusive BY <1>4, <2>2, <3>1
    <3>2. CASE ~config.inclusive BY <1>4, <1>8, <2>2, <3>2
    <3> QED BY <3>1, <3>2
  <2>4. f \in Doc BY <2>1, <2>3 DEF Doc
  <2>5. f # Null BY <2>4, NullApart
  <2> QED BY <1>1, <1>2, <1>6, <1>8, <2>3, <2>5 DEF Ends
<1> QED BY <1>7, <1>8

LEMMA SkipFinish ==
  ASSUME CursorAssumption, SkipInv, FinishRead
  PROVE  SkipInv'
<1>0. Types /\ Known /\ Boundaries /\ Nothing /\ NothingSkipped /\ Progress BY DEF SkipInv
<1>1. Ends BY <1>0, Ending
<1>2. /\ UNCHANGED <<config, table, newest>> /\ rest = {}
      /\ phase = "reading" /\ phase' = "idle" /\ rest' = {} /\ checkpoint' = Null
      /\ pushed' = [covered |-> {}, tail |-> {}] /\ Pushed' = {}
      /\ tracker'.stored = Null /\ tracker'.last = Null
      /\ got' = got \cup Pushed /\ twice' = twice \cup (Pushed \cap got)
  BY <1>1 DEF Ends, Pushed
<1>3. \/ committed' = committed
      \/ /\ committed' \in Doc /\ committed'.watermark = tracker.last /\ tracker.last # Null
         /\ committed'.watermark <= newest
         /\ Keyed(committed', got') /\ (config.inclusive => committed'.keys # {})
  <2>1. CASE committed' = committed BY <2>1
  <2>2. CASE committed' # committed
    <3>1. PICK s : s = CurrentState(tracker) OBVIOUS
    <3>2. s # Null /\ Offers(tracker, s) BY <1>1, <2>2, <3>1 DEF Ends
    <3>3. committed' = [watermark |-> tracker.last,
                        keys |-> IF config.inclusive THEN s.keys ELSE {}]
      BY <1>1, <2>2, <3>1 DEF Ends
    <3>4. /\ s \in Doc /\ s.watermark = tracker.last /\ tracker.last # Null
          /\ s.keys = tracker.keys \cup
                        (IF tracker.stored # Null /\ tracker.last = tracker.stored.watermark
                         THEN tracker.stored.keys ELSE {})
      BY <3>2 DEF Offers
    <3>5. tracker.keys # {} /\ \A k \in s.keys : Holds(k, tracker.last, got \cup Pushed)
      BY <1>0, <1>2, <3>4 DEF Boundaries, Keyed, Holds
    <3>6. tracker.last \in Values /\ tracker.last <= newest BY <1>0, <3>4 DEF Types, Known
    <3>7. /\ committed'.watermark = tracker.last /\ committed' \in Doc
          /\ committed'.keys \subseteq s.keys
          /\ (config.inclusive => committed'.keys = s.keys)
      BY <3>3, <3>4, <3>6 DEF Doc
    <3> QED BY <1>2, <3>4, <3>5, <3>6, <3>7 DEF Keyed
  <2> QED BY <2>1, <2>2
<1>4. Types'
  <2>1. got' \subseteq Row /\ twice' \subseteq got' BY <1>0, <1>2 DEF Types, Pushed
  <2>2. committed' \in Doc \cup {Null} BY <1>0, <1>3 DEF Types
  <2>3. tracker' = [stored |-> Null, last |-> Null, keys |-> {}, emitted |-> Null]
    BY <1>1 DEF Ends
  <2> QED BY <1>0, <1>2, <2>1, <2>2, <2>3 DEF Types
<1>5. Known' BY <1>0, <1>2, <1>3 DEF Known, Valued
<1>6. Boundaries' BY <1>0, <1>2, <1>3 DEF Boundaries, Keyed, Holds
<1>7. NothingSkipped'
  <2>1. ASSUME NEW r PROVE Wanted(r)' <=> Wanted(r)
    BY <1>2 DEF Wanted, InWindow, AboveLower, BelowEnd
  <2>2. PICK c : c = committed' OBVIOUS
  <2>3. ASSUME NEW r PROVE Pending(r, committed)' <=> Pending(r, c)
    BY <1>2, <2>2 DEF Pending, InWindow, AboveLower, BelowEnd
  <2>4. ASSUME NEW r \in table, Wanted(r) PROVE Holds(r.key, r.at, got') \/ Pending(r, c)
    <3>1. CASE c = committed BY <1>0, <1>2, <2>4, <3>1 DEF NothingSkipped, Holds, Wanted, Pending
    <3>2. CASE c # committed
      <4>1. /\ c \in Doc /\ c.watermark = tracker.last /\ tracker.last # Null
            /\ Keyed(c, got') /\ (config.inclusive => c.keys # {})
        BY <1>3, <2>2, <3>2
      <4>2. Holds(r.key, r.at, got') \/ Recent(r.at, c.watermark)
        BY <1>0, <1>2, <2>4, <4>1 DEF Nothing, Holds, Late
      <4>3. r \in Row BY <1>0 DEF Types
      <4> QED BY <1>0, <2>4, <4>1, <4>2, <4>3, Reread
    <3> QED BY <3>1, <3>2
  <2> QED BY <1>2, <2>1, <2>3, <2>4 DEF NothingSkipped, Holds, Wanted, Pending
<1> QED BY <1>2, <1>4, <1>5, <1>6, <1>7 DEF SkipInv, Ordered, Nothing, Covers, Progress

\* The tracker only moves up, and its state follows the one it had.
LEMMA Upward ==
  ASSUME CursorAssumption, Types, Ordered, phase = "reading", NEW kept \in SUBSET rest,
         Reaches(kept)
  PROVE  /\ tracker.last # Null =>
              /\ tracker'.last # Null /\ tracker'.last >= tracker.last
              /\ tracker'.last = tracker.last => tracker.keys \subseteq tracker'.keys
         /\ CurrentState(tracker) # Null =>
              /\ CurrentState(tracker') # Null
              /\ Follows(CurrentState(tracker'), CurrentState(tracker))
<1>1. PICK t : t = tracker' OBVIOUS
<1>2. Reads(t, kept) /\ Offers(t, CurrentState(t)) BY <1>1 DEF Reaches
<1>3. /\ tracker.last # Null => tracker.last \in Nat
      /\ t.last # Null => t.last \in Nat
      /\ tracker.stored # Null => tracker.stored.watermark \in Nat
  BY <1>2, Numbers DEF Types, Reads
<1>4. tracker.last # Null =>
        /\ t.last # Null /\ t.last >= tracker.last
        /\ t.last = tracker.last => tracker.keys \subseteq t.keys
  <2>1. CASE Valued(kept) = {} BY <1>2, <1>3, <2>1 DEF Reads
  <2>2. CASE Valued(kept) # {}
    <3>1. PICK q \in Valued(kept) : q.at = t.last BY <1>2, <2>2 DEF Reads
    <3>2. q \in Valued(rest) BY DEF Valued
    <3>3. t.last # Null /\ (t.last = tracker.last => tracker.keys \subseteq t.keys)
      BY <1>2, <2>2 DEF Reads
    <3> QED BY <3>1, <3>2, <3>3 DEF Ordered
  <2> QED BY <2>1, <2>2
<1>5. ASSUME CurrentState(tracker) # Null
      PROVE  CurrentState(t) # Null /\ Follows(CurrentState(t), CurrentState(tracker))
  <2>1. Offers(tracker, CurrentState(tracker)) BY Offered DEF Types
  <2>2. PICK a, b : a = CurrentState(tracker) /\ b = CurrentState(t) OBVIOUS
  <2>3. /\ tracker.last # Null /\ a.watermark = tracker.last
        /\ ~(tracker.stored # Null /\ tracker.last < tracker.stored.watermark)
        /\ a.keys = tracker.keys \cup
                      (IF tracker.stored # Null /\ tracker.last = tracker.stored.watermark
                       THEN tracker.stored.keys ELSE {})
    BY <1>5, <2>1, <2>2 DEF Offers
  <2>4. t.stored = tracker.stored BY <1>2 DEF Reads
  <2>5. b # Null BY <1>2, <1>3, <1>4, <2>2, <2>3, <2>4 DEF Offers
  <2>6. /\ b.watermark = t.last
        /\ b.keys = t.keys \cup (IF t.stored # Null /\ t.last = t.stored.watermark
                                 THEN t.stored.keys ELSE {})
    BY <1>2, <2>2, <2>5 DEF Offers
  <2>7. Follows(b, a)
    <3>1. CASE t.last = tracker.last BY <1>4, <2>3, <2>4, <2>6, <3>1 DEF Follows
    <3>2. CASE t.last # tracker.last BY <1>3, <1>4, <2>3, <2>6, <3>2 DEF Follows
    <3> QED BY <3>1, <3>2
  <2> QED BY <2>2, <2>5, <2>7
<1> QED BY <1>1, <1>4, <1>5

\* The run goes on after a batch.
Continues(B, kept) ==
  /\ Decodes(B, kept) /\ Reaches(kept)
  /\ UNCHANGED <<config, table, newest, dest>> /\ phase = "reading" /\ phase' = "reading"

\* A decoded row is pushed, or was delivered as a boundary row before.
LEMMA Dropped ==
  ASSUME CursorAssumption, SkipInv, phase = "reading", NEW B \in SUBSET rest, NEW kept,
         Decodes(B, kept), NEW r \in B
  PROVE  r \in kept \/ (Duplicate(r) /\ Holds(r.key, r.at, got))
<1>1. CASE Duplicate(r)
  <2>1. /\ tracker.stored # Null /\ r.at = tracker.stored.watermark
        /\ r.key \in tracker.stored.keys
    BY <1>1 DEF Duplicate
  <2>2. Holds(r.key, r.at, got) BY <2>1 DEF SkipInv, Boundaries, Keyed
  <2> QED BY <1>1, <2>2
<1>2. CASE ~Duplicate(r) BY <1>2 DEF Decodes
<1> QED BY <1>1, <1>2

LEMMA BatchTypes ==
  ASSUME CursorAssumption, SkipInv, NEW B \in SUBSET rest, NEW kept \in SUBSET rest,
         Continues(B, kept)
  PROVE  Types' /\ Known'
<1>0. Types /\ Known BY DEF SkipInv
<1>1. /\ UNCHANGED <<config, table, newest, committed, got, twice>> /\ phase' = "reading"
      /\ kept \subseteq B /\ rest' = rest \ B
  BY DEF Continues, Decodes, dest
<1>2. /\ \/ CurrentState(tracker') # Null /\ checkpoint' = CurrentState(tracker')
         \/ checkpoint' = checkpoint
      /\ \/ pushed' = [covered |-> Pushed \cup kept, tail |-> {}]
         \/ pushed' = [covered |-> pushed.covered, tail |-> pushed.tail \cup kept]
  BY DEF Continues, Reaches
<1>3. PICK t : t = tracker' OBVIOUS
<1>4. Reads(t, kept) /\ Offers(t, CurrentState(t)) BY <1>3 DEF Continues, Reaches
<1>5. CurrentState(t) # Null => CurrentState(t) \in Doc /\ CurrentState(t).watermark = t.last
  BY <1>4 DEF Offers
<1>6. Types'
  <2>1. tracker' \in [stored : Doc \cup {Null}, last : Values \cup {Null}, keys : SUBSET Keys,
                      emitted : {tracker'.emitted}]
    BY <1>0, <1>3, <1>4 DEF Types, Reads
  <2>2. checkpoint' \in Doc \cup {Null} BY <1>0, <1>2, <1>3, <1>5 DEF Types
  <2>3. /\ pushed' \in [covered : SUBSET Row, tail : SUBSET Row]
        /\ pushed'.covered \cap pushed'.tail = {} /\ Pushed' = Pushed \cup kept
    <3>1. kept \subseteq Row /\ pushed.covered \subseteq Row /\ pushed.tail \subseteq Row
      BY <1>0 DEF Types
    <3>2. kept \cap Pushed = {} /\ pushed.covered \cap pushed.tail = {} BY <1>0 DEF Types
    <3>3. CASE pushed' = [covered |-> Pushed \cup kept, tail |-> {}]
      BY <3>1, <3>3 DEF Pushed
    <3>4. CASE pushed' = [covered |-> pushed.covered, tail |-> pushed.tail \cup kept]
      BY <3>1, <3>2, <3>4 DEF Pushed
    <3> QED BY <1>2, <3>3, <3>4
  <2>4. rest' \subseteq Row /\ rest' \cap (Pushed \cup kept) = {} BY <1>0, <1>1 DEF Types
  <2> QED BY <1>0, <1>1, <2>1, <2>2, <2>3, <2>4 DEF Types
<1>7. t.last # Null => t.last <= newest
  <2>1. CASE Valued(kept) = {} BY <1>0, <1>4, <2>1 DEF Known, Reads
  <2>2. CASE Valued(kept) # {}
    <3>1. PICK q \in Valued(kept) : q.at = t.last BY <1>4, <2>2 DEF Reads
    <3> QED BY <1>0, <3>1 DEF Known, Valued
  <2> QED BY <2>1, <2>2
<1>8. Known'
  <2>1. \A r \in Valued(table' \cup rest') : r.at <= newest BY <1>0, <1>1 DEF Known, Valued
  <2>2. checkpoint' # Null => checkpoint'.watermark <= newest
    <3>1. CASE checkpoint' = checkpoint BY <1>0, <3>1 DEF Known
    <3>2. CASE CurrentState(t) # Null /\ checkpoint' = CurrentState(t)
      <4>1. t.last # Null BY <1>4, <3>2 DEF Offers
      <4> QED BY <1>5, <1>7, <3>2, <4>1
    <3> QED BY <1>2, <1>3, <3>1, <3>2
  <2>3. tracker'.stored = tracker.stored BY <1>3, <1>4 DEF Reads
  <2> QED BY <1>0, <1>1, <1>3, <1>7, <2>1, <2>2, <2>3 DEF Known
<1> QED BY <1>6, <1>8

\* The keys the tracker has for its watermark are of rows pushed.
LEMMA BatchBoundaries ==
  ASSUME CursorAssumption, SkipInv, NEW B \in SUBSET rest, NEW kept \in SUBSET rest,
         Continues(B, kept)
  PROVE  Boundaries'
<1>0. Types /\ Boundaries BY DEF SkipInv
<1>1. UNCHANGED <<config, committed, got>> /\ phase = "reading" /\ phase' = "reading"
  BY DEF Continues, dest
<1>2. PICK t : t = tracker' OBVIOUS
<1>3. Reads(t, kept) /\ Offers(t, CurrentState(t)) BY <1>2 DEF Continues, Reaches
<1>4. Pushed' = Pushed \cup kept
  <2>1. CASE pushed' = [covered |-> Pushed \cup kept, tail |-> {}] BY <2>1 DEF Pushed
  <2>2. CASE pushed' = [covered |-> pushed.covered, tail |-> pushed.tail \cup kept]
    BY <2>2 DEF Pushed
  <2> QED BY <2>1, <2>2 DEF Continues, Reaches
<1>5. ASSUME t.last # Null
      PROVE  /\ \A k \in t.keys : Holds(k, t.last, got \cup Pushed \cup kept)
             /\ t.keys # {}
  <2>1. CASE Valued(kept) = {} BY <1>0, <1>1, <1>3, <1>5, <2>1 DEF Reads, Boundaries, Holds
  <2>2. CASE Valued(kept) # {}
    <3>1. PICK q \in Valued(kept) : q.at = t.last BY <1>3, <2>2 DEF Reads
    <3>2. q.key \in t.keys BY <1>3, <2>2, <3>1 DEF Reads, Valued
    <3>3. ASSUME NEW k \in t.keys PROVE Holds(k, t.last, got \cup Pushed \cup kept)
      <4>1. CASE tracker.last = t.last /\ k \in tracker.keys
        BY <1>0, <1>1, <1>5, <4>1 DEF Boundaries, Holds
      <4>2. CASE \E r \in kept : r.at = t.last /\ r.key = k BY <4>2 DEF Holds
      <4> QED BY <1>3, <2>2, <3>3, <4>1, <4>2 DEF Reads
    <3> QED BY <3>2, <3>3
  <2> QED BY <2>1, <2>2
<1>6. t.stored = tracker.stored BY <1>3 DEF Reads
<1>7. checkpoint' # Null => Keyed(checkpoint', got \cup pushed'.covered) /\ checkpoint'.keys # {}
  <2>1. CASE CurrentState(t) # Null /\ checkpoint' = CurrentState(t)
             /\ pushed' = [covered |-> Pushed \cup kept, tail |-> {}]
    <3>1. PICK s : s = CurrentState(t) OBVIOUS
    <3>2. /\ t.last # Null /\ s.watermark = t.last
          /\ s.keys = t.keys \cup (IF t.stored # Null /\ t.last = t.stored.watermark
                                   THEN t.stored.keys ELSE {})
      BY <1>3, <2>1, <3>1 DEF Offers
    <3>3. pushed'.covered = Pushed \cup kept BY <2>1
    <3>4. \A k \in s.keys : Holds(k, t.last, got \cup Pushed \cup kept)
      BY <1>0, <1>1, <1>5, <1>6, <3>2 DEF Boundaries, Keyed, Holds
    <3>5. Keyed(s, got \cup pushed'.covered) BY <3>2, <3>3, <3>4 DEF Keyed
    <3> QED BY <1>5, <2>1, <3>1, <3>2, <3>5
  <2>2. CASE checkpoint' = checkpoint
             /\ pushed' = [covered |-> pushed.covered, tail |-> pushed.tail \cup kept]
    <3>1. pushed'.covered = pushed.covered BY <2>2
    <3> QED BY <1>0, <1>1, <2>2, <3>1 DEF Boundaries
  <2> QED BY <1>2, <2>1, <2>2 DEF Continues, Reaches
<1> QED BY <1>0, <1>1, <1>2, <1>4, <1>5, <1>6, <1>7 DEF Boundaries, Keyed, Holds

LEMMA BatchOrdered ==
  ASSUME CursorAssumption, SkipInv, NEW B \in SUBSET rest, NEW kept \in SUBSET rest,
         Continues(B, kept)
  PROVE  Ordered' /\ Progress'
<1>0. Types /\ Ordered /\ Progress BY DEF SkipInv
<1>1. /\ UNCHANGED <<config, committed>> /\ phase = "reading" /\ phase' = "reading"
      /\ kept \subseteq B /\ rest' = rest \ B
      /\ \A r \in B, s \in rest \ B : ~Before(s, r)
  BY DEF Continues, Decodes, dest
<1>2. PICK t : t = tracker' OBVIOUS
<1>3. Reads(t, kept) /\ Offers(t, CurrentState(t)) BY <1>2 DEF Continues, Reaches
<1>4. /\ tracker.last # Null => t.last # Null /\ t.last >= tracker.last
      /\ CurrentState(tracker) # Null =>
           CurrentState(t) # Null /\ Follows(CurrentState(t), CurrentState(tracker))
  BY <1>0, <1>1, <1>2, Upward DEF Continues
<1>5. /\ tracker.last # Null => tracker.last \in Nat
      /\ t.last # Null => t.last \in Nat
      /\ checkpoint # Null => checkpoint.watermark \in Nat
      /\ committed # Null => committed.watermark \in Nat
      /\ tracker.stored # Null => tracker.stored.watermark \in Nat
      /\ \A r \in Valued(rest) : r.at \in Nat
  BY <1>0, <1>3, Numbers DEF Types, Reads, Row, Valued
<1>6. ASSUME t.last # Null, NEW r \in Valued(rest') PROVE r.at >= t.last
  <2>1. r \in Valued(rest) /\ r \in rest \ B BY <1>1, <1>6 DEF Valued
  <2>2. CASE Valued(kept) = {} BY <1>0, <1>1, <1>3, <1>6, <2>1, <2>2 DEF Reads, Ordered
  <2>3. CASE Valued(kept) # {}
    <3>1. PICK q \in Valued(kept) : q.at = t.last BY <1>3, <2>3 DEF Reads
    <3>2. ~Before(r, q) /\ q.at # Null BY <1>1, <2>1, <3>1 DEF Valued
    <3> QED BY <1>5, <1>6, <2>1, <3>1, <3>2 DEF Before
  <2> QED BY <2>2, <2>3
<1>7. checkpoint' = checkpoint \/ (CurrentState(t) # Null /\ checkpoint' = CurrentState(t))
  BY <1>2 DEF Continues, Reaches
<1>8. checkpoint # Null => CurrentState(t) # Null
  BY <1>0, <1>1, <1>4 DEF Progress
<1>9. CurrentState(t) # Null => t.last # Null /\ CurrentState(t).watermark = t.last
  BY <1>3 DEF Offers
<1>10. Ordered'
  <2>1. ASSUME checkpoint' # Null PROVE t.last # Null /\ t.last >= checkpoint'.watermark
    <3>1. CASE checkpoint' = checkpoint BY <1>0, <1>1, <1>4, <1>5, <2>1, <3>1 DEF Ordered
    <3>2. CASE CurrentState(t) # Null /\ checkpoint' = CurrentState(t)
      BY <1>5, <1>9, <3>2
    <3> QED BY <1>7, <3>1, <3>2
  <2> QED BY <1>2, <1>6, <2>1 DEF Ordered
<1>11. Progress'
  <2>1. t.stored = tracker.stored BY <1>3 DEF Reads
  <2>2. checkpoint' = Null => checkpoint = Null BY <1>7, <1>8
  <2>3. ASSUME checkpoint # Null
        PROVE  /\ Follows(CurrentState(t), checkpoint)
               /\ committed # Null => Follows(CurrentState(t), committed)
    <3>1. PICK a, b : a = CurrentState(tracker) /\ b = CurrentState(t) OBVIOUS
    <3>2. Follows(b, a) /\ Follows(a, checkpoint) /\ a # Null /\ b # Null
      BY <1>0, <1>1, <1>4, <2>3, <3>1 DEF Progress
    <3>3. a.watermark \in Nat /\ b.watermark \in Nat
      <4>1. Offers(tracker, a) BY <1>0, <3>1, Offered DEF Types
      <4> QED BY <1>3, <3>1, <3>2, <4>1, Numbers, <1>0 DEF Offers
    <3>4. Follows(b, checkpoint) BY <1>5, <2>3, <3>2, <3>3 DEF Follows
    <3>5. committed # Null => Follows(checkpoint, committed) BY <1>0, <1>1, <2>3 DEF Progress
    <3> QED BY <1>5, <2>3, <3>1, <3>3, <3>4, <3>5 DEF Follows
  <2>4. ASSUME checkpoint = Null, CurrentState(t) # Null, committed # Null
        PROVE  Follows(CurrentState(t), committed)
    <3>1. committed = tracker.stored BY <1>0, <1>1, <2>4 DEF Progress
    <3>2. PICK b : b = CurrentState(t) OBVIOUS
    <3>3. /\ t.last # Null /\ b.watermark = t.last /\ ~(t.last < t.stored.watermark)
          /\ b.keys = t.keys \cup (IF t.stored # Null /\ t.last = t.stored.watermark
                                   THEN t.stored.keys ELSE {})
      BY <1>3, <2>1, <2>4, <3>1, <3>2 DEF Offers
    <3>4. Follows(b, committed)
      <4>1. CASE t.last = committed.watermark
        BY <2>1, <2>4, <3>1, <3>3, <4>1 DEF Follows
      <4>2. CASE t.last # committed.watermark
        BY <1>5, <2>1, <2>4, <3>1, <3>3, <4>2 DEF Follows
      <4> QED BY <4>1, <4>2
    <3> QED BY <3>2, <3>4
  <2>5. checkpoint' = Null => committed = t.stored BY <1>0, <1>1, <2>1, <2>2 DEF Progress
  <2>6. t.stored # Null => committed # Null BY <1>0, <1>1, <2>1 DEF Progress
  <2>7. ASSUME checkpoint' # Null
        PROVE  /\ CurrentState(t) # Null /\ Follows(CurrentState(t), checkpoint')
               /\ committed # Null => Follows(checkpoint', committed)
    <3>1. CASE checkpoint' = checkpoint
      BY <1>0, <1>1, <1>8, <2>3, <2>7, <3>1 DEF Progress
    <3>2. CASE CurrentState(t) # Null /\ checkpoint' = CurrentState(t)
      BY <2>3, <2>4, <3>2 DEF Follows
    <3> QED BY <1>7, <3>1, <3>2
  <2> QED BY <1>1, <1>2, <2>5, <2>6, <2>7 DEF Progress, Follows
<1> QED BY <1>10, <1>11

LEMMA BatchSkips ==
  ASSUME CursorAssumption, SkipInv, NEW B \in SUBSET rest, NEW kept \in SUBSET rest,
         Continues(B, kept)
  PROVE  Nothing' /\ Covers' /\ NothingSkipped'
<1>0. Types /\ Ordered /\ Nothing /\ Covers /\ NothingSkipped BY DEF SkipInv
<1>1. /\ UNCHANGED <<config, table, committed, got>>
      /\ phase = "reading" /\ phase' = "reading" /\ rest' = rest \ B /\ kept \subseteq B
  BY DEF Continues, Decodes, dest
<1>2. PICK t : t = tracker' OBVIOUS
<1>3. Reads(t, kept) /\ Offers(t, CurrentState(t)) BY <1>2 DEF Continues, Reaches
<1>4. Pushed' = Pushed \cup kept
  <2>1. CASE pushed' = [covered |-> Pushed \cup kept, tail |-> {}] BY <2>1 DEF Pushed
  <2>2. CASE pushed' = [covered |-> pushed.covered, tail |-> pushed.tail \cup kept]
    BY <2>2 DEF Pushed
  <2> QED BY <2>1, <2>2 DEF Continues, Reaches
<1>5. ASSUME NEW r PROVE Wanted(r)' <=> Wanted(r)
  BY <1>1 DEF Wanted, InWindow, AboveLower, BelowEnd
<1>6. ASSUME NEW r, Late(r), t.last # Null PROVE Recent(r.at, t.last)
  <2>1. CASE Valued(kept) = {} BY <1>3, <1>6, <2>1 DEF Late, Reads
  <2>2. CASE Valued(kept) # {}
    <3>1. PICK q \in Valued(kept) : q.at = t.last BY <1>3, <2>2 DEF Reads
    <3>2. q \in Valued(rest) BY DEF Valued
    <3> QED BY <1>6, <3>1, <3>2 DEF Late
  <2> QED BY <2>1, <2>2
<1>7. ASSUME NEW r \in table, Wanted(r)
      PROVE  Holds(r.key, r.at, got \cup Pushed \cup kept \cup rest') \/ Late(r)
  <2>1. \A q \in B : q \in kept \/ Holds(q.key, q.at, got) BY <1>1, Dropped DEF Continues
  <2>2. CASE Late(r) BY <2>2
  <2>3. CASE Holds(r.key, r.at, got \cup Pushed \cup rest)
    <3>1. PICK q \in got \cup Pushed \cup rest : q.key = r.key /\ q.at = r.at BY <2>3 DEF Holds
    <3>2. q \in B => q \in kept \/ Holds(r.key, r.at, got) BY <2>1, <3>1
    <3> QED BY <1>1, <3>1, <3>2 DEF Holds
  <2> QED BY <1>0, <1>1, <1>7, <2>2, <2>3 DEF Nothing, Holds
<1>8. Nothing'
  <2>1. ASSUME NEW r, Late(r) PROVE Late(r)'
    <3>1. \A q \in Valued(rest') : Recent(r.at, q.at) BY <1>1, <2>1 DEF Late, Valued
    <3> QED BY <1>1, <1>2, <1>6, <2>1, <3>1 DEF Late, Recent
  <2> QED BY <1>1, <1>4, <1>5, <1>7, <2>1 DEF Nothing, Holds
<1>9. Covers'
  <2> SUFFICES ASSUME checkpoint' # Null, NEW r \in table, Wanted(r)
               PROVE  \/ Holds(r.key, r.at, got \cup pushed'.covered)
                      \/ Pending(r, checkpoint)'
    BY <1>1, <1>5 DEF Covers, Holds
  <2>1. PICK c : c = checkpoint' OBVIOUS
  <2>2. Pending(r, checkpoint)' <=> Pending(r, c)
    BY <1>1, <2>1 DEF Pending, InWindow, AboveLower, BelowEnd
  <2>3. CASE c = checkpoint
             /\ pushed' = [covered |-> pushed.covered, tail |-> pushed.tail \cup kept]
    <3>1. pushed'.covered = pushed.covered BY <2>3
    <3> QED BY <1>0, <1>1, <2>1, <2>2, <2>3, <3>1 DEF Covers, Holds
  <2>4. CASE CurrentState(t) # Null /\ c = CurrentState(t)
             /\ pushed' = [covered |-> Pushed \cup kept, tail |-> {}]
    <3>1. pushed'.covered = Pushed \cup kept BY <2>4
    <3>2. c \in Doc /\ t.last # Null /\ c.watermark = t.last BY <1>3, <2>4 DEF Offers
    <3>3. Keyed(c, got \cup Pushed \cup kept) /\ c.keys # {}
      <4>1. Boundaries' BY BatchBoundaries
      <4> QED BY <1>1, <2>1, <3>1, <4>1 DEF Boundaries, Keyed, Holds
    <3>4. CASE \E q \in rest' : q.key = r.key /\ q.at = r.at
      <4>1. Ordered' BY BatchOrdered
      <4>2. r.at >= t.last BY <1>1, <1>2, <3>2, <3>4, <4>1 DEF Ordered, Valued, Wanted
      <4> QED BY <1>0, <2>2, <3>1, <3>2, <3>3, <4>2, Reread DEF Types
    <3>5. CASE Late(r)
      <4>1. Recent(r.at, c.watermark) BY <1>6, <3>2, <3>5
      <4> QED BY <1>0, <2>2, <3>1, <3>2, <3>3, <4>1, Reread DEF Types
    <3> QED BY <1>7, <3>1, <3>4, <3>5 DEF Holds
  <2> QED BY <1>2, <2>1, <2>3, <2>4 DEF Continues, Reaches
<1>10. NothingSkipped'
  <2>1. ASSUME NEW r PROVE Pending(r, committed)' <=> Pending(r, committed)
    BY <1>1 DEF Pending, InWindow, AboveLower, BelowEnd
  <2> QED BY <1>0, <1>1, <1>5, <2>1 DEF NothingSkipped, Holds, Wanted, Pending
<1> QED BY <1>8, <1>9, <1>10

LEMMA SkipBatch ==
  ASSUME CursorAssumption, SkipInv, Batch
  PROVE  SkipInv'
<1>0. Types /\ Known /\ Boundaries /\ NothingSkipped BY DEF SkipInv
<1>1. PICK B \in SUBSET rest, kept \in SUBSET rest :
        /\ Decodes(B, kept) /\ phase = "reading" /\ UNCHANGED <<config, table, newest, dest>>
        /\ \/ phase' = "failed" /\ UNCHANGED <<tracker, pushed, checkpoint>>
           \/ phase' = "reading" /\ Reaches(kept)
  BY <1>0, Batches
<1>2. CASE phase' = "reading" /\ Reaches(kept)
  <2>1. Continues(B, kept) BY <1>1, <1>2 DEF Continues
  <2> QED BY <2>1, BatchTypes, BatchBoundaries, BatchOrdered, BatchSkips DEF SkipInv
<1>3. CASE phase' = "failed" /\ UNCHANGED <<tracker, pushed, checkpoint>>
  <2>1. /\ UNCHANGED <<config, table, newest, committed, got, twice, tracker, pushed, checkpoint>>
        /\ rest' \subseteq rest /\ phase' = "failed"
    BY <1>1, <1>3 DEF Decodes, dest
  <2>2. Types' BY <1>0, <2>1 DEF Types, Pushed
  <2>3. Known' BY <1>0, <2>1 DEF Known, Valued
  <2>4. Boundaries' BY <1>0, <2>1 DEF Boundaries, Keyed, Holds
  <2>5. NothingSkipped'
    <3>1. ASSUME NEW r PROVE Pending(r, committed)' <=> Pending(r, committed)
      BY <2>1 DEF Pending, InWindow, AboveLower, BelowEnd
    <3>2. ASSUME NEW r PROVE Wanted(r)' <=> Wanted(r)
      BY <2>1 DEF Wanted, InWindow, AboveLower, BelowEnd
    <3> QED BY <1>0, <2>1, <3>1, <3>2 DEF NothingSkipped, Holds, Wanted, Pending
  <2> QED BY <2>1, <2>2, <2>3, <2>4, <2>5 DEF SkipInv, Ordered, Nothing, Covers, Progress
<1> QED BY <1>1, <1>2, <1>3

LEMMA SkipStep ==
  ASSUME CursorAssumption, SkipInv, [Next]_vars
  PROVE  SkipInv'
<1>1. CASE UNCHANGED vars
  <2>1. UNCHANGED <<config, table, newest, phase, rest, tracker, pushed, checkpoint,
                    committed, got, twice>>
    BY <1>1 DEF vars, run, dest
  <2>2. Types' /\ Known' BY <2>1 DEF SkipInv, Types, Pushed, Known, Valued
  <2>3. Boundaries' /\ Ordered' BY <2>1 DEF SkipInv, Boundaries, Keyed, Pushed, Ordered, Valued
  <2>4. Progress' BY <2>1 DEF SkipInv, Progress, CurrentState, Behind, Follows
  <2>5. ASSUME NEW r
        PROVE  (Wanted(r)' <=> Wanted(r)) /\ (Late(r)' <=> Late(r))
    <3>1. Wanted(r)' <=> Wanted(r) BY <2>1 DEF Wanted, InWindow, AboveLower, BelowEnd
    <3>2. Late(r)' <=> Late(r) BY <2>1 DEF Late, Recent, Valued
    <3> QED BY <3>1, <3>2
  <2>6. ASSUME NEW r
        PROVE  /\ (Pending(r, checkpoint)' <=> Pending(r, checkpoint))
               /\ (Pending(r, committed)' <=> Pending(r, committed))
    <3>1. Pending(r, checkpoint)' <=> Pending(r, checkpoint)
      BY <2>1 DEF Pending, InWindow, AboveLower, BelowEnd
    <3>2. Pending(r, committed)' <=> Pending(r, committed)
      BY <2>1 DEF Pending, InWindow, AboveLower, BelowEnd
    <3> QED BY <3>1, <3>2
  <2>7. Nothing' BY <2>1, <2>5 DEF SkipInv, Nothing, Pushed
  <2>8. Covers' BY <2>1, <2>5, <2>6 DEF SkipInv, Covers
  <2>9. NothingSkipped' BY <2>1, <2>5, <2>6 DEF SkipInv, NothingSkipped, Holds, Wanted, Pending
  <2> QED BY <2>2, <2>3, <2>4, <2>7, <2>8, <2>9 DEF SkipInv
<1> QED BY <1>1, SkipTouch, SkipRemove, SkipStart, SkipBatch, SkipCommit, SkipFinish, SkipFails
  DEF Next

-----------------------------------------------------------------------------
(* The theorems on what is read *)

\* Any state of the incremental read has its type: windows, tracker, pushed rows and states.
THEOREM TypeCorrect ==
  ASSUME CursorAssumption
  PROVE  Spec => []TypeOK
<1>1. Init => SkipInv BY SkipInit
<1>2. SkipInv /\ [Next]_vars => SkipInv' BY SkipStep
<1>3. SkipInv => TypeOK BY DEF SkipInv, Types, Row, Doc, TypeOK
<1> QED BY <1>1, <1>2, <1>3, PTL DEF Spec

\* Whatever batch a run stopped at, a row asked for is delivered or in the next window
\* (cursor/tracker.rs current_state, cursor/prepare.rs, plan.rs predicates).
THEOREM Skips ==
  ASSUME CursorAssumption
  PROVE  Spec => []NothingSkipped
<1>1. Init => SkipInv BY SkipInit
<1>2. SkipInv /\ [Next]_vars => SkipInv' BY SkipStep
<1>3. SkipInv => NothingSkipped BY DEF SkipInv
<1> QED BY <1>1, <1>2, <1>3, PTL DEF Spec

-----------------------------------------------------------------------------
(* No position is taken back *)

\* What the run would commit now follows what is committed.
LEMMA CommitFollows ==
  ASSUME CursorAssumption, SkipInv, phase = "reading", committed # Null,
         CurrentState(tracker) # Null
  PROVE  Follows(CurrentState(tracker), committed)
<1>0. Types /\ Progress BY DEF SkipInv
<1>1. PICK s : s = CurrentState(tracker) OBVIOUS
<1>2. s # Null /\ Offers(tracker, s) BY <1>0, <1>1, Offered DEF Types
<1>3. s.watermark \in Nat /\ committed.watermark \in Nat
  BY <1>0, <1>2, Numbers DEF Types, Offers
<1>4. CASE checkpoint # Null
  <2>1. checkpoint.watermark \in Nat BY <1>0, <1>4, Numbers DEF Types
  <2>2. Follows(s, checkpoint) /\ Follows(checkpoint, committed)
    BY <1>0, <1>1, <1>4 DEF Progress
  <2>3. Follows(s, committed) BY <1>3, <2>1, <2>2 DEF Follows
  <2> QED BY <1>1, <2>3
<1>5. CASE checkpoint = Null
  <2>1. committed = tracker.stored BY <1>0, <1>5 DEF Progress
  <2>2. /\ s.watermark = tracker.last /\ ~(tracker.last < committed.watermark)
        /\ tracker.last = committed.watermark => committed.keys \subseteq s.keys
    BY <1>2, <2>1 DEF Offers
  <2>3. Follows(s, committed) BY <1>3, <2>2 DEF Follows
  <2> QED BY <1>1, <2>3
<1> QED BY <1>4, <1>5

Advance ==
  committed # Null =>
     /\ committed' # Null
     /\ committed'.watermark >= committed.watermark
     /\ committed'.watermark = committed.watermark /\ config.inclusive
          => committed.keys \subseteq committed'.keys
LEMMA Advances ==
  ASSUME CursorAssumption, SkipInv, [Next]_vars
  PROVE  committed' = committed \/ Advance
<1>0. Types /\ Progress BY DEF SkipInv
<1> SUFFICES ASSUME committed # Null PROVE committed' = committed \/ Advance
  BY DEF Advance
<1>1. committed.watermark \in Nat BY <1>0, Numbers DEF Types
<1>2. CASE EngineCommit
  <2>1. phase = "reading" /\ checkpoint # Null /\ committed' = checkpoint
    BY <1>2 DEF EngineCommit, Absorb
  <2>2. checkpoint.watermark \in Nat BY <1>0, <2>1, Numbers DEF Types
  <2>3. Follows(checkpoint, committed) BY <1>0, <2>1 DEF Progress
  <2> QED BY <1>1, <2>1, <2>2, <2>3 DEF Follows, Advance
<1>3. CASE FinishRead
  <2>1. Ends BY <1>0, <1>3, Ending
  <2>2. CASE committed' = committed BY <2>2
  <2>3. CASE committed' # committed
    <3>1. PICK s : s = CurrentState(tracker) OBVIOUS
    <3>2. /\ phase = "reading" /\ s # Null /\ Offers(tracker, s)
          /\ committed' = [watermark |-> tracker.last,
                           keys |-> IF config.inclusive THEN s.keys ELSE {}]
      BY <2>1, <2>3, <3>1 DEF Ends
    <3>3. Follows(s, committed) BY <3>1, <3>2, CommitFollows
    <3>4. s.watermark = tracker.last /\ s \in Doc BY <3>2 DEF Offers
    <3>5. /\ committed'.watermark = s.watermark /\ s.watermark \in Nat
          /\ (config.inclusive => committed'.keys = s.keys)
      BY <3>2, <3>4, Numbers, <1>0
    <3>6. committed' # Null
      <4>1. SkipInv' BY SkipStep
      <4>2. committed' \in Doc BY <3>2, <3>4 DEF Doc
      <4> QED BY <4>2, NullApart
    <3> QED BY <1>1, <3>3, <3>5, <3>6 DEF Follows, Advance
  <2> QED BY <2>2, <2>3
<1>4. ASSUME NEW key \in Keys, Touch(key) \/ Remove(key) PROVE committed' = committed
  BY <1>4 DEF Touch, Remove, dest
<1>5. CASE StartRead BY <1>5 DEF StartRead, dest
<1>6. CASE Batch BY <1>6 DEF Batch, dest
<1>7. CASE RunFails BY <1>7 DEF RunFails, dest
<1>8. CASE UNCHANGED vars BY <1>8 DEF vars, dest
<1> QED BY <1>2, <1>3, <1>4, <1>5, <1>6, <1>7, <1>8 DEF Next

\* A committed watermark does not fall, nor forget the keys at its boundary
\* (cursor/tracker.rs current_state).
THEOREM StateForward ==
  ASSUME CursorAssumption
  PROVE  Spec => StateAdvances
<1>1. Init => SkipInv BY SkipInit
<1>2. SkipInv /\ [Next]_vars => SkipInv' BY SkipStep
<1>3. SkipInv /\ [Next]_vars =>
        [committed # Null =>
           /\ committed' # Null
           /\ committed'.watermark >= committed.watermark
           /\ committed'.watermark = committed.watermark /\ config.inclusive
                => committed.keys \subseteq committed'.keys]_committed
  BY Advances DEF Advance
<1> QED BY <1>1, <1>2, <1>3, PTL DEF Spec, StateAdvances

-----------------------------------------------------------------------------
(* Nothing is repeated *)

LEMMA OnceStart ==
  ASSUME CursorAssumption, SkipInv, OnceInv, StartRead
  PROVE  OnceInv'
<1>1. /\ UNCHANGED <<config, committed, got, twice>>
      /\ checkpoint' = Null /\ rest' = {r \in table : InWindow(r, committed)}
      /\ pushed' = [covered |-> {}, tail |-> {}]
      /\ tracker' = [stored |-> committed, last |-> Null, keys |-> {}, emitted |-> Null]
  BY DEF StartRead, dest, NothingPushed, NewTracker
<1>2. Pushed' = {} /\ tracker'.last = Null /\ tracker'.stored = committed BY <1>1 DEF Pushed
<1> SUFFICES ASSUME config.lag = 0 PROVE Once' /\ OnceReading'
  BY <1>1 DEF OnceInv
<1>3. Once BY DEF OnceInv
<1>4. Once' BY <1>1, <1>3 DEF Once, Within, Valued
<1>5. ASSUME NEW r \in Valued(rest'), committed # Null
      PROVE  /\ r.at \in Nat /\ committed.watermark \in Nat
             /\ Past(r.at, committed)
  <2>1. r \in table /\ r.at # Null /\ InWindow(r, committed) BY <1>1, <1>5 DEF Valued
  <2>2. r.at \in Nat /\ committed.watermark \in Nat
    BY <1>5, <2>1, Numbers DEF SkipInv, Types, Row
  <2>3. AboveLower(r.at, committed) BY <2>1 DEF InWindow
  <2> QED BY <1>5, <2>2, <2>3 DEF AboveLower, Past
<1>6. ASSUME NEW r \in Valued(rest'), r \in got
      PROVE  committed # Null /\ r.at = committed.watermark /\ r.key \in committed.keys
  <2>1. r \in Valued(got) BY <1>6 DEF Valued
  <2>2. committed # Null BY <1>3, <2>1 DEF Once
  <2> QED BY <1>3, <1>5, <1>6, <2>1, <2>2 DEF Once, Within, Past, Valued
<1>7. \A r \in Valued(rest') : r \in got' => Duplicate(r)'
  BY <1>1, <1>2, <1>6 DEF Duplicate
<1>8. Valued(Pushed') = {} BY <1>2 DEF Valued
<1>9. committed # Null => \A r \in Valued(rest') : Past(r.at, committed) BY <1>5
<1>10. OnceReading' BY <1>1, <1>2, <1>7, <1>8, <1>9 DEF OnceReading, Valued, Past
<1> QED BY <1>4, <1>10

\* The rows decoded are not at the destination, and none is beyond the tracker.
LEMMA OnceBatch ==
  ASSUME CursorAssumption, SkipInv, OnceInv, NEW B \in SUBSET rest, NEW kept \in SUBSET rest,
         Continues(B, kept)
  PROVE  OnceInv'
<1>0. Types /\ Ordered /\ Progress BY DEF SkipInv
<1>1. /\ UNCHANGED <<config, committed, got, twice>>
      /\ phase = "reading" /\ phase' = "reading" /\ rest' = rest \ B
      /\ kept = {r \in B : ~Duplicate(r)}
  BY DEF Continues, Decodes, dest
<1> SUFFICES ASSUME config.lag = 0 PROVE Once' /\ OnceReading'
  BY <1>1 DEF OnceInv
<1>2. Once /\ OnceReading BY DEF OnceInv
<1>3. PICK t : t = tracker' OBVIOUS
<1>4. Reads(t, kept) /\ Offers(t, CurrentState(t)) BY <1>3 DEF Continues, Reaches
<1>5. tracker.last # Null =>
        /\ t.last # Null /\ t.last >= tracker.last
        /\ t.last = tracker.last => tracker.keys \subseteq t.keys
  BY <1>0, <1>1, <1>3, Upward DEF Continues
<1>6. /\ tracker.last # Null => tracker.last \in Nat
      /\ t.last # Null => t.last \in Nat
      /\ committed # Null => committed.watermark \in Nat
      /\ \A r \in Valued(rest \cup Pushed) : r.at \in Nat
  <2>1. Pushed \subseteq Row BY <1>0 DEF Types, Pushed
  <2> QED BY <1>0, <1>4, <2>1, Numbers DEF Types, Reads, Row, Valued
<1>7. Pushed' = Pushed \cup kept
  <2>1. CASE pushed' = [covered |-> Pushed \cup kept, tail |-> {}] BY <2>1 DEF Pushed
  <2>2. CASE pushed' = [covered |-> pushed.covered, tail |-> pushed.tail \cup kept]
    BY <2>2 DEF Pushed
  <2> QED BY <2>1, <2>2 DEF Continues, Reaches
<1>8. Once' BY <1>1, <1>2 DEF Once, Within, Valued
<1>9. \A r \in Valued(rest') : r \in got' => Duplicate(r)'
  <2>1. t.stored = tracker.stored BY <1>4 DEF Reads
  <2> QED BY <1>1, <1>2, <1>3, <2>1 DEF OnceReading, Duplicate, Valued
<1>10. Valued(Pushed \cup kept) \cap got = {}
  BY <1>1, <1>2 DEF OnceReading, Valued
<1>11. t.last = Null => Valued(Pushed \cup kept) = {}
  <2> SUFFICES ASSUME t.last = Null PROVE Valued(Pushed) = {} /\ Valued(kept) = {}
    BY DEF Valued
  <2>1. Valued(kept) = {} BY <1>4 DEF Reads
  <2> QED BY <1>1, <1>2, <1>5, <2>1 DEF OnceReading
<1>12. t.last # Null => Within(Pushed \cup kept, t.last, t.keys)
  <2> SUFFICES ASSUME t.last # Null, NEW r \in Valued(Pushed \cup kept)
               PROVE  r.at < t.last \/ (r.at = t.last /\ r.key \in t.keys)
    BY DEF Within
  <2>1. CASE r \in kept
    <3>1. r \in Valued(kept) /\ Valued(kept) # {} BY <2>1 DEF Valued
    <3>2. r.at <= t.last /\ r.at \in Nat BY <1>4, <1>6, <3>1 DEF Reads, Valued
    <3>3. r.at = t.last => r.key \in t.keys BY <1>4, <2>1, <3>1 DEF Reads
    <3> QED BY <1>6, <3>2, <3>3
  <2>2. CASE r \in Pushed
    <3>1. r \in Valued(Pushed) /\ r.at \in Nat BY <1>6, <2>2 DEF Valued
    <3>2. tracker.last # Null /\ Within(Pushed, tracker.last, tracker.keys)
      BY <1>1, <1>2, <3>1 DEF OnceReading
    <3>3. r.at < tracker.last \/ (r.at = tracker.last /\ r.key \in tracker.keys)
      BY <3>1, <3>2 DEF Within
    <3> QED BY <1>5, <1>6, <3>1, <3>2, <3>3
  <2> QED BY <2>1, <2>2 DEF Valued
<1>13. \/ /\ checkpoint' = checkpoint
          /\ pushed'.covered = pushed.covered
       \/ /\ CurrentState(t) # Null /\ checkpoint' = CurrentState(t)
          /\ pushed'.covered = Pushed \cup kept
  <2>1. CASE pushed' = [covered |-> Pushed \cup kept, tail |-> {}]
             /\ CurrentState(t) # Null /\ checkpoint' = CurrentState(t)
    BY <2>1
  <2>2. CASE pushed' = [covered |-> pushed.covered, tail |-> pushed.tail \cup kept]
             /\ checkpoint' = checkpoint
    BY <2>2
  <2> QED BY <1>3, <2>1, <2>2 DEF Continues, Reaches
<1>14. CurrentState(t) # Null =>
         /\ t.last # Null /\ CurrentState(t).watermark = t.last
         /\ t.keys \subseteq CurrentState(t).keys
  BY <1>4 DEF Offers
<1>15. checkpoint' # Null =>
         Within(pushed'.covered, checkpoint'.watermark, checkpoint'.keys)
  <2>1. CASE checkpoint' = checkpoint /\ pushed'.covered = pushed.covered
    BY <1>1, <1>2, <2>1 DEF OnceReading
  <2>2. CASE CurrentState(t) # Null /\ checkpoint' = CurrentState(t)
             /\ pushed'.covered = Pushed \cup kept
    BY <1>12, <1>14, <2>2 DEF Within
  <2> QED BY <1>13, <2>1, <2>2
<1>16. ASSUME committed # Null, t.last # Null PROVE Past(t.last, committed)
  <2>1. CASE Valued(kept) = {} BY <1>1, <1>2, <1>4, <1>16, <2>1 DEF OnceReading, Reads
  <2>2. CASE Valued(kept) # {} /\ tracker.last = Null
    <3>1. PICK q \in Valued(kept) : q.at = t.last BY <1>4, <2>2 DEF Reads
    <3>2. q \in Valued(rest) BY DEF Valued
    <3>3. committed = tracker.stored BY <1>0, <1>1, <2>2 DEF Ordered, Progress
    <3> QED BY <1>1, <1>2, <1>16, <3>1, <3>2, <3>3 DEF OnceReading
  <2>3. CASE tracker.last # Null
    <3>1. Past(tracker.last, committed) BY <1>1, <1>2, <1>16, <2>3 DEF OnceReading
    <3> QED BY <1>5, <1>6, <1>16, <2>3, <3>1 DEF Past
  <2> QED BY <2>1, <2>2, <2>3
<1>17. ASSUME committed # Null, checkpoint' # Null, checkpoint' # committed
       PROVE  Past(checkpoint'.watermark, committed)
  BY <1>1, <1>2, <1>13, <1>14, <1>16, <1>17 DEF OnceReading
<1>18. OnceReading'
  <2>1. t.stored = tracker.stored BY <1>4 DEF Reads
  <2>2. t.stored # Null => \A r \in Valued(rest') : Past(r.at, t.stored)
    BY <1>1, <1>2, <2>1 DEF OnceReading, Valued
  <2> QED BY <1>1, <1>3, <1>7, <1>9, <1>10, <1>11, <1>12, <1>15, <1>16, <1>17, <2>2
    DEF OnceReading, Within, Valued, Past
<1> QED BY <1>8, <1>18

\* A state that follows the committed one holds what the committed one held.
LEMMA OnceFollows ==
  ASSUME CursorAssumption, Types, Once, NEW s \in Doc,
         committed # Null => /\ Follows(s, committed)
                             /\ committed.keys = {} => s.watermark > committed.watermark
  PROVE  Within(got, s.watermark, s.keys)
<1> SUFFICES ASSUME NEW r \in Valued(got)
             PROVE  r.at < s.watermark \/ (r.at = s.watermark /\ r.key \in s.keys)
  BY DEF Within
<1>1. committed # Null BY DEF Once
<1>2. s.watermark \in Nat /\ committed.watermark \in Nat /\ r.at \in Nat
  BY <1>1, Numbers DEF Types, Row, Valued
<1>3. CASE Within(got, committed.watermark, committed.keys)
  <2>1. r.at < committed.watermark \/ (r.at = committed.watermark /\ r.key \in committed.keys)
    BY <1>3 DEF Within
  <2> QED BY <1>1, <1>2, <2>1 DEF Follows
<1>4. CASE committed.keys = {} /\ \A q \in Valued(got) : q.at <= committed.watermark
  <2>1. r.at <= committed.watermark /\ s.watermark > committed.watermark BY <1>1, <1>4
  <2> QED BY <1>2, <2>1
<1> QED BY <1>1, <1>3, <1>4 DEF Once

LEMMA OnceCommit ==
  ASSUME CursorAssumption, SkipInv, OnceInv, EngineCommit
  PROVE  OnceInv'
<1>0. Types /\ Boundaries /\ Ordered /\ Progress BY DEF SkipInv
<1>1. /\ UNCHANGED <<config, phase, rest, tracker, checkpoint>>
      /\ phase = "reading" /\ checkpoint # Null /\ committed' = checkpoint
      /\ got' = got \cup pushed.covered /\ twice' = twice \cup (pushed.covered \cap got)
  BY DEF EngineCommit, Absorb
<1>2. pushed'.covered = {} /\ Pushed' = pushed.tail
  <2>1. pushed = [covered |-> pushed.covered, tail |-> pushed.tail] BY <1>0 DEF Types
  <2>2. pushed' = [pushed EXCEPT !.covered = {}] BY DEF EngineCommit
  <2>3. pushed' = [covered |-> {}, tail |-> pushed.tail] BY <2>1, <2>2
  <2> QED BY <2>3 DEF Pushed
<1> SUFFICES ASSUME config.lag = 0 PROVE Once' /\ OnceReading'
  BY <1>1 DEF OnceInv
<1>3. Once /\ OnceReading BY DEF OnceInv
<1>4. checkpoint \in Doc /\ checkpoint.keys # {} /\ checkpoint.watermark \in Nat
  BY <1>0, <1>1, Numbers DEF Types, Boundaries
<1>5. Within(got, checkpoint.watermark, checkpoint.keys)
  <2>1. ASSUME committed # Null
        PROVE  /\ Follows(checkpoint, committed)
               /\ committed.keys = {} => checkpoint.watermark > committed.watermark
    <3>1. Follows(checkpoint, committed) BY <1>0, <1>1, <2>1 DEF Progress
    <3>2. ASSUME committed.keys = {} PROVE checkpoint.watermark > committed.watermark
      <4>1. checkpoint # committed BY <1>4, <3>2
      <4> QED BY <1>1, <1>3, <2>1, <3>2, <4>1 DEF OnceReading, Past
    <3> QED BY <3>1, <3>2
  <2> QED BY <1>0, <1>3, <1>4, <2>1, OnceFollows
<1>6. Within(pushed.covered, checkpoint.watermark, checkpoint.keys)
  BY <1>1, <1>3 DEF OnceReading
<1>7. Once'
  <2>1. Valued(twice') = {} BY <1>1, <1>3 DEF Once, OnceReading, Valued, Pushed
  <2>2. Within(got', checkpoint.watermark, checkpoint.keys) BY <1>1, <1>5, <1>6 DEF Within, Valued
  <2> QED BY <1>1, <2>1, <2>2 DEF Once, Within
<1>8. \A r \in Valued(rest') : r \in got' => Duplicate(r)'
  <2>1. rest \cap pushed.covered = {} BY <1>0 DEF Types, Pushed
  <2> QED BY <1>1, <1>3, <2>1 DEF OnceReading, Duplicate, Valued
<1>9. Valued(Pushed') \cap got' = {}
  <2>1. pushed.covered \cap pushed.tail = {} BY <1>0 DEF Types
  <2> QED BY <1>1, <1>2, <1>3, <2>1 DEF OnceReading, Valued, Pushed
<1>10. IF tracker.last = Null THEN Valued(Pushed') = {}
                              ELSE Within(Pushed', tracker.last, tracker.keys)
  BY <1>1, <1>2, <1>3 DEF OnceReading, Within, Valued, Pushed
<1>11. tracker.last # Null => Past(tracker.last, checkpoint)
  <2>1. tracker.last # Null => tracker.last \in Nat BY <1>0, Numbers DEF Types
  <2> QED BY <1>0, <1>1, <1>4, <2>1 DEF Ordered, Past
<1>12. OnceReading'
  <2>1. tracker.stored # Null => \A r \in Valued(rest') : Past(r.at, tracker.stored)
    BY <1>1, <1>3 DEF OnceReading, Valued
  <2> QED BY <1>1, <1>2, <1>8, <1>9, <1>10, <1>11, <2>1 DEF OnceReading, Within, Valued, Past
<1> QED BY <1>7, <1>12

LEMMA OnceFinish ==
  ASSUME CursorAssumption, SkipInv, OnceInv, FinishRead
  PROVE  OnceInv'
<1>0. Types /\ Progress BY DEF SkipInv
<1>1. Ends BY <1>0, Ending
<1>2. /\ config' = config /\ phase = "reading" /\ phase' = "idle"
      /\ got' = got \cup Pushed /\ twice' = twice \cup (Pushed \cap got)
      /\ Offers(tracker, CurrentState(tracker))
  BY <1>1 DEF Ends
<1> SUFFICES ASSUME config.lag = 0 PROVE Once'
  BY <1>2 DEF OnceInv, OnceReading
<1>3. Once /\ OnceReading BY DEF OnceInv
<1>4. Valued(twice') = {} BY <1>2, <1>3 DEF Once, OnceReading, Valued
<1>5. CASE CurrentState(tracker) = Null /\ checkpoint = Null /\ committed' = committed
  <2>1. tracker.last = Null
    <3> SUFFICES ASSUME tracker.last # Null PROVE FALSE OBVIOUS
    <3>1. tracker.stored # Null /\ tracker.last < tracker.stored.watermark
      BY <1>2, <1>5 DEF Offers
    <3>2. committed = tracker.stored BY <1>0, <1>2, <1>5 DEF Progress
    <3>3. Past(tracker.last, committed) BY <1>2, <1>3, <3>1, <3>2 DEF OnceReading
    <3>4. tracker.last \in Nat /\ committed.watermark \in Nat
      BY <1>0, <3>1, <3>2, Numbers DEF Types
    <3> QED BY <3>1, <3>2, <3>3, <3>4 DEF Past
  <2>2. Valued(Pushed) = {} BY <1>2, <1>3, <2>1 DEF OnceReading
  <2>3. Valued(got') = Valued(got) BY <1>2, <2>2 DEF Valued
  <2> QED BY <1>3, <1>4, <1>5, <2>3 DEF Once, Within
<1>6. CASE CurrentState(tracker) # Null /\
           committed' = [watermark |-> tracker.last,
                         keys |-> IF config.inclusive THEN CurrentState(tracker).keys ELSE {}]
  <2>1. PICK s : s = CurrentState(tracker) OBVIOUS
  <2>2. /\ s # Null /\ s \in Doc /\ tracker.last # Null /\ s.watermark = tracker.last
        /\ tracker.keys \subseteq s.keys
    BY <1>2, <1>6, <2>1 DEF Offers
  <2>3. Within(got, s.watermark, s.keys)
    <3>1. ASSUME committed # Null
          PROVE  /\ Follows(s, committed)
                 /\ committed.keys = {} => s.watermark > committed.watermark
      <4>1. Follows(s, committed) BY <1>2, <2>1, <2>2, <3>1, CommitFollows
      <4>2. Past(tracker.last, committed) BY <1>2, <1>3, <2>2, <3>1 DEF OnceReading
      <4> QED BY <2>2, <4>1, <4>2 DEF Past
    <3> QED BY <1>0, <1>3, <2>2, <3>1, OnceFollows
  <2>4. Within(Pushed, s.watermark, s.keys)
    <3>1. Within(Pushed, tracker.last, tracker.keys) BY <1>2, <1>3, <2>2 DEF OnceReading
    <3> QED BY <2>2, <3>1 DEF Within
  <2>5. Within(got', s.watermark, s.keys) BY <1>2, <2>3, <2>4 DEF Within, Valued
  <2>6. /\ committed'.watermark = s.watermark
        /\ committed'.keys = IF config.inclusive THEN s.keys ELSE {}
    BY <1>6, <2>1, <2>2
  <2>7. committed' # Null
    <3>1. committed' \in Doc BY <1>6, <2>1, <2>2 DEF Doc
    <3> QED BY <3>1, NullApart
  <2>8. \A r \in Valued(got') : r.at <= s.watermark
    <3>1. got' \subseteq Row BY <1>0, <1>2 DEF Types, Pushed
    <3>2. \A r \in Valued(got') : r.at \in Nat BY <3>1, <1>0, Numbers DEF Row, Valued
    <3>3. s.watermark \in Nat BY <1>0, <2>2, Numbers
    <3> QED BY <2>5, <3>2, <3>3 DEF Within
  <2> QED BY <1>4, <2>5, <2>6, <2>7, <2>8 DEF Once, Within
<1> QED BY <1>1, <1>5, <1>6 DEF Ends

LEMMA OnceStep ==
  ASSUME CursorAssumption, SkipInv, OnceInv, [Next]_vars
  PROVE  OnceInv'
<1>0. Types BY DEF SkipInv
<1>1. ASSUME UNCHANGED <<config, phase, rest, tracker, pushed, checkpoint, committed, got, twice>>
      PROVE  OnceInv'
  <2>1. Once => Once' BY <1>1 DEF Once, Within, Valued
  <2>2. OnceReading => OnceReading'
    BY <1>1 DEF OnceReading, Within, Past, Valued, Pushed, Duplicate
  <2> QED BY <1>1, <2>1, <2>2 DEF OnceInv
<1>2. ASSUME NEW key \in Keys, Touch(key) \/ Remove(key) PROVE OnceInv'
  BY <1>1, <1>2 DEF Touch, Remove, run, dest
<1>3. CASE UNCHANGED vars BY <1>1, <1>3 DEF vars, run, dest
<1>4. ASSUME UNCHANGED <<config, committed, got, twice>>, phase' # "reading" PROVE OnceInv'
  <2>1. Once => Once' BY <1>4 DEF Once, Within, Valued
  <2> QED BY <1>4, <2>1 DEF OnceInv, OnceReading
<1>5. CASE RunFails BY <1>4, <1>5 DEF RunFails, dest
<1>6. CASE Batch
  <2>1. PICK B \in SUBSET rest, kept \in SUBSET rest :
          /\ Decodes(B, kept) /\ phase = "reading" /\ UNCHANGED <<config, table, newest, dest>>
          /\ \/ phase' = "failed" /\ UNCHANGED <<tracker, pushed, checkpoint>>
             \/ phase' = "reading" /\ Reaches(kept)
    BY <1>0, <1>6, Batches
  <2>2. CASE phase' = "failed" BY <1>4, <2>1, <2>2 DEF dest
  <2>3. CASE phase' = "reading" /\ Reaches(kept)
    <3>1. Continues(B, kept) BY <2>1, <2>3 DEF Continues
    <3> QED BY <3>1, OnceBatch
  <2> QED BY <2>1, <2>2, <2>3
<1> QED BY <1>2, <1>3, <1>5, <1>6, OnceStart, OnceCommit, OnceFinish DEF Next

\* Without a lag a row version with a cursor reaches the destination once, though each
\* resume reads the boundary again (cursor/tracker.rs process, is_duplicate).
THEOREM Delivered ==
  ASSUME CursorAssumption
  PROVE  Spec => []DeliveredOnce
<1>1. Init => SkipInv /\ OnceInv
  <2> SUFFICES ASSUME Init PROVE OnceInv BY SkipInit
  <2> QED BY DEF Init, OnceInv, Once, OnceReading, Valued
<1>2. SkipInv /\ OnceInv /\ [Next]_vars => SkipInv' /\ OnceInv' BY SkipStep, OnceStep
<1>3. OnceInv => DeliveredOnce BY DEF OnceInv, Once, Valued, DeliveredOnce
<1> QED BY <1>1, <1>2, <1>3, PTL DEF Spec

-----------------------------------------------------------------------------
(***************************************************************************)
(* OraCursor                                                               *)
(***************************************************************************)
CONSTANTS Cents, MaxRow, BatchRows
VARIABLES cursored, finer, otable, ophase, position, cursor, opushed, ended, ocommitted, ogot,
          otwice

O == INSTANCE OraCursor WITH table <- otable, phase <- ophase, pushed <- opushed,
                             committed <- ocommitted, got <- ogot, twice <- otwice

-----------------------------------------------------------------------------
(* Rendered values *)

\* The two digits after the point, however many are written.
LEMMA Digits ==
  ASSUME NEW n \in Int
  PROVE  /\ O!Abs(n) \in Nat
         /\ O!Rendered(n).negative = (n < 0)
         /\ O!Rendered(n).whole = O!Abs(n) \div 100
         /\ O!Pad(O!Rendered(n).fraction)[1] = (O!Abs(n) % 100) \div 10
         /\ O!Pad(O!Rendered(n).fraction)[2] = (O!Abs(n) % 100) % 10
<1>1. PICK a \in Nat : a = O!Abs(n) BY DEF O!Abs
<1>2. PICK h : h = a % 100 OBVIOUS
<1>3. h \in 0 .. 99 BY <1>2
<1>4. PICK d, e : d = h \div 10 /\ e = h % 10 OBVIOUS
<1>5. PICK f : f = IF h = 0 THEN <<>> ELSE IF e = 0 THEN <<d>> ELSE <<d, e>> OBVIOUS
<1>6. O!Rendered(n) = [negative |-> n < 0, whole |-> a \div 100, fraction |-> f]
  BY <1>1, <1>2, <1>4, <1>5 DEF O!Rendered
<1>7. O!Pad(f)[1] = d /\ O!Pad(f)[2] = e
  <2>1. CASE h = 0
    <3>1. f = <<>> /\ d = 0 /\ e = 0 BY <1>4, <1>5, <2>1
    <3>2. O!Pad(f) = <<>> \o [i \in 1 .. 2 |-> 0] BY <3>1 DEF O!Pad
    <3> QED BY <3>1, <3>2
  <2>2. CASE h # 0 /\ e = 0
    <3>1. f = <<d>> BY <1>5, <2>2
    <3>2. O!Pad(f) = <<d>> \o [i \in 1 .. 1 |-> 0] BY <3>1 DEF O!Pad
    <3> QED BY <2>2, <3>2
  <2>3. CASE h # 0 /\ e # 0
    <3>1. f = <<d, e>> BY <1>5, <2>3
    <3>2. O!Pad(f) = <<d, e>> \o [i \in 1 .. 0 |-> 0] BY <3>1 DEF O!Pad
    <3> QED BY <3>2
  <2> QED BY <2>1, <2>2, <2>3
<1> QED BY <1>1, <1>2, <1>4, <1>6, <1>7

\* A number is its hundreds and its two last digits.
LEMMA Places ==
  ASSUME NEW n \in Nat
  PROVE  /\ n \div 100 \in Nat
         /\ (n % 100) \div 10 \in 0 .. 9 /\ (n % 100) % 10 \in 0 .. 9
         /\ n = 100 * (n \div 100) + 10 * ((n % 100) \div 10) + ((n % 100) % 10)
<1>1. PICK h : h = n % 100 OBVIOUS
<1>2. h \in 0 .. 99 /\ n \div 100 \in Nat /\ n = 100 * (n \div 100) + h BY <1>1
<1>3. h \div 10 \in 0 .. 9 /\ h % 10 \in 0 .. 9 /\ h = 10 * (h \div 10) + (h % 10) BY <1>2
<1>4. PICK q, d, e : q = n \div 100 /\ d = h \div 10 /\ e = h % 10 OBVIOUS
<1>5. n = 100 * q + 10 * d + e BY <1>2, <1>3, <1>4
<1> QED BY <1>1, <1>2, <1>3, <1>4, <1>5

\* Comparing the texts is comparing the values.
LEMMA TextOrder ==
  ASSUME NEW m \in Int, NEW n \in Int
  PROVE  /\ O!WatermarkLess(O!Rendered(m), O!Rendered(n)) <=> m < n
         /\ O!Rendered(m) = O!Rendered(n) => m = n
<1>1. PICK x, y : x = O!Rendered(m) /\ y = O!Rendered(n) OBVIOUS
<1>2. PICK a \in Nat, b \in Nat : a = O!Abs(m) /\ b = O!Abs(n) BY Digits
<1>3. PICK wa, wb : wa = a \div 100 /\ wb = b \div 100 OBVIOUS
<1>4. PICK da, db, ea, eb :
        /\ da = (a % 100) \div 10 /\ ea = (a % 100) % 10
        /\ db = (b % 100) \div 10 /\ eb = (b % 100) % 10
  OBVIOUS
<1>5. /\ wa \in Nat /\ da \in 0 .. 9 /\ ea \in 0 .. 9 /\ a = 100 * wa + 10 * da + ea
      /\ wb \in Nat /\ db \in 0 .. 9 /\ eb \in 0 .. 9 /\ b = 100 * wb + 10 * db + eb
  BY <1>2, <1>3, <1>4, Places
<1>6. /\ x.negative = (m < 0) /\ x.whole = wa /\ O!Pad(x.fraction)[1] = da /\ O!Pad(x.fraction)[2] = ea
      /\ y.negative = (n < 0) /\ y.whole = wb /\ O!Pad(y.fraction)[1] = db /\ O!Pad(y.fraction)[2] = eb
  BY <1>1, <1>2, <1>3, <1>4, Digits
<1>7. a < b <=> (wa < wb \/ (wa = wb /\ (da < db \/ (da = db /\ ea < eb))))
  BY <1>5
<1>8. O!MagnitudeLess(x, y) <=> a < b BY <1>6, <1>7 DEF O!MagnitudeLess, O!FractionLess
<1>9. x.whole = y.whole /\ x.fraction = y.fraction => a = b
  <2>1. x.whole = y.whole /\ x.fraction = y.fraction => wa = wb /\ da = db /\ ea = eb BY <1>6
  <2> QED BY <1>5, <2>1
<1>10. a = b => x.whole = y.whole /\ x.fraction = y.fraction
  BY <1>1, <1>2 DEF O!Rendered
<1>11. <<x.whole, x.fraction>> # <<y.whole, y.fraction>> <=> a # b BY <1>9, <1>10
<1>12. m = (IF m < 0 THEN -a ELSE a) /\ n = (IF n < 0 THEN -b ELSE b) BY <1>2 DEF O!Abs
<1>13. x = y => m = n
  <2>1. x = y => a = b /\ ((m < 0) <=> (n < 0)) BY <1>6, <1>9
  <2> QED BY <1>2, <1>12, <2>1
<1>14. O!WatermarkLess(x, y) <=> IF (m < 0) # (n < 0) THEN m < 0
                               ELSE IF m < 0 THEN ~(a < b) /\ a # b ELSE a < b
  BY <1>6, <1>8, <1>11 DEF O!WatermarkLess
<1>15. O!WatermarkLess(x, y) <=> m < n BY <1>2, <1>12, <1>14
<1> QED BY <1>1, <1>13, <1>15


\* A text reads back as the value it was made of.
LEMMA ReadsBack ==
  ASSUME NEW n \in Int
  PROVE  O!Value(O!Rendered(n)) = n
<1>1. PICK x : x = O!Rendered(n) OBVIOUS
<1>2. PICK a \in Nat : a = O!Abs(n) BY Digits
<1>3. PICK w, d, e : w = a \div 100 /\ d = (a % 100) \div 10 /\ e = (a % 100) % 10 OBVIOUS
<1>4. w \in Nat /\ d \in 0 .. 9 /\ e \in 0 .. 9 /\ a = 100 * w + 10 * d + e BY <1>3, Places
<1>5. /\ x.negative = (n < 0) /\ x.whole = w
      /\ O!Pad(x.fraction)[1] = d /\ O!Pad(x.fraction)[2] = e
  BY <1>1, <1>2, <1>3, Digits
<1>6. O!Value(x) = IF n < 0 THEN -a ELSE a BY <1>4, <1>5 DEF O!Value
<1>7. n = IF n < 0 THEN -a ELSE a BY <1>2 DEF O!Abs
<1> QED BY <1>1, <1>6, <1>7

\* What a text keeps of a value, where f says that it does not keep all.
KeptBy(f, n) == IF f THEN 10 * (n \div 10) ELSE n
LEMMA KeptOrder ==
  ASSUME NEW f, NEW m \in Int, NEW n \in Int
  PROVE  /\ KeptBy(f, n) \in Int /\ KeptBy(f, n) <= n /\ (~f => KeptBy(f, n) = n)
         /\ m <= n => KeptBy(f, m) <= KeptBy(f, n)
         /\ n >= KeptBy(f, m) => KeptBy(f, n) >= KeptBy(f, m)
<1>1. PICK p \in Int, q \in Int : p = m \div 10 /\ q = n \div 10 OBVIOUS
<1>2. 10 * p <= m /\ m < 10 * p + 10 /\ 10 * q <= n /\ n < 10 * q + 10 BY <1>1
<1>3. CASE f
  <2>1. PICK a \in Int, b \in Int : a = 10 * p /\ b = 10 * q OBVIOUS
  <2>2. KeptBy(f, m) = a /\ KeptBy(f, n) = b BY <1>1, <1>3, <2>1 DEF KeptBy
  <2>3. b <= n /\ (m <= n => a <= b) /\ (n >= a => b >= a) BY <1>2, <2>1
  <2>4. ~f => KeptBy(f, n) = n BY <1>3
  <2> QED BY <2>2, <2>3, <2>4
<1>4. CASE ~f BY <1>4 DEF KeptBy
<1> QED BY <1>3, <1>4

-----------------------------------------------------------------------------
(* Marks and the rows beyond them *)

OraRow  == [rowid : O!RowIds, at : Cents]

\* The mark a row leaves.
At(f, r) == [watermark |-> O!Rendered(KeptBy(f, r.at)), tie |-> r.rowid]
Marks(f) == {At(f, s) : s \in OraRow} \cup {Null}

LEMMA RowType ==
  ASSUME O!OraAssumption, NEW f, NEW r \in OraRow
  PROVE  /\ r = [rowid |-> r.rowid, at |-> r.at]
         /\ r.rowid \in Nat /\ r.rowid \in O!RowIds /\ r.at \in Int /\ r.at \in Cents
         /\ At(f, r) # Null /\ At(f, r) \in Marks(f)
<1>1. r = [rowid |-> r.rowid, at |-> r.at] /\ r.rowid \in O!RowIds /\ r.at \in Cents BY DEF OraRow
<1>2. r.rowid \in Nat /\ r.at \in Int BY <1>1 DEF O!RowIds, O!OraAssumption
<1>3. KeptBy(f, r.at) \in Cents \cup {10 * (c \div 10) : c \in Cents} BY <1>1 DEF KeptBy
<1>4. At(f, r) # Null BY <1>1, <1>3 DEF O!OraAssumption, At
<1> QED BY <1>1, <1>2, <1>4 DEF Marks

\* A row listed after another is beyond the mark left there; a row beyond it is
\* in its unit or in a later one, and listed after it when the text keeps all.
LEMMA BeyondMark ==
  ASSUME O!OraAssumption, NEW f, NEW r \in OraRow, NEW s \in OraRow
  PROVE  /\ O!Value(At(f, s).watermark) = KeptBy(f, s.at)
         /\ O!Before(s, r) => O!Beyond(r, At(f, s))
         /\ ~f => (O!Beyond(r, At(f, s)) <=> O!Before(s, r))
         /\ O!Beyond(r, At(f, s)) => KeptBy(f, r.at) >= KeptBy(f, s.at)
<1>1. /\ r.rowid \in Nat /\ r.at \in Int /\ s.rowid \in Nat /\ s.at \in Int /\ At(f, s) # Null
  BY RowType
<1>2. PICK k : k = KeptBy(f, s.at) OBVIOUS
<1>3. /\ k \in Int /\ k <= s.at /\ (~f => k = s.at)
      /\ r.at >= k => KeptBy(f, r.at) >= k
  BY <1>1, <1>2, KeptOrder
<1>4. O!Value(At(f, s).watermark) = k /\ At(f, s).tie = s.rowid BY <1>2, <1>3, ReadsBack DEF At
<1>5. O!Beyond(r, At(f, s)) <=> r.at > k \/ (r.at = k /\ r.rowid > s.rowid)
  BY <1>1, <1>4 DEF O!Beyond
<1>6. O!Before(s, r) <=> s.at < r.at \/ (s.at = r.at /\ s.rowid < r.rowid) BY DEF O!Before
<1> QED BY <1>1, <1>2, <1>3, <1>4, <1>5, <1>6

LEMMA BeforeTransitive ==
  ASSUME O!OraAssumption, NEW r \in OraRow, NEW s \in OraRow, NEW t \in OraRow, O!Before(r, s), O!Before(s, t)
  PROVE  O!Before(r, t)
BY RowType DEF O!Before

LEMMA NotBothWays ==
  ASSUME O!OraAssumption, NEW r \in OraRow, NEW s \in OraRow, r = s \/ O!Before(r, s)
  PROVE  ~O!Before(s, r)
BY RowType DEF O!Before

\* From a checkpoint at its own position, a row beyond it moves it to that row.
LEMMA AdvanceMoves ==
  ASSUME O!OraAssumption, NEW c \in Marks(finer), NEW r \in OraRow, O!Beyond(r, c)
  PROVE  O!Advance(c, r) = O!Position(r) /\ O!Position(r) = At(finer, r)
<1>1. PICK k : k = KeptBy(finer, r.at) OBVIOUS
<1>2. O!Position(r) = [watermark |-> O!Rendered(k), tie |-> r.rowid] /\ O!Text(r.at) = O!Rendered(k)
  BY <1>1 DEF O!Position, O!Text, O!Kept, KeptBy
<1>3. O!Position(r) = At(finer, r) BY <1>1, <1>2 DEF At
<1>4. CASE c = Null BY <1>3, <1>4 DEF O!Advance
<1>5. CASE c # Null
  <2>1. PICK s \in OraRow : c = At(finer, s) BY <1>5 DEF Marks
  <2>2. PICK m : m = KeptBy(finer, s.at) OBVIOUS
  <2>3. c = [watermark |-> O!Rendered(m), tie |-> s.rowid] BY <2>1, <2>2 DEF At
  <2>4. k \in Int /\ m \in Int /\ k >= m
    <3>1. s.at \in Int /\ r.at \in Int BY RowType
    <3> QED BY <1>1, <2>1, <2>2, <3>1, KeptOrder, BeyondMark
  <2>5. CASE m < k
    <3>1. O!WatermarkLess(c.watermark, O!Text(r.at)) BY <1>2, <2>3, <2>4, <2>5, TextOrder
    <3> QED BY <1>3, <3>1 DEF O!Advance
  <2>6. CASE m = k
    <3>1. c.watermark = O!Text(r.at) BY <1>2, <2>3, <2>6
    <3>2. ~O!WatermarkLess(c.watermark, O!Text(r.at)) BY <1>2, <2>3, <2>4, <2>6, TextOrder
    <3>3. O!Advance(c, r) = [c EXCEPT !.tie = r.rowid] BY <1>5, <3>1, <3>2 DEF O!Advance
    <3>4. [c EXCEPT !.tie = r.rowid] = [watermark |-> O!Rendered(k), tie |-> r.rowid]
      BY <2>3, <2>6
    <3> QED BY <1>2, <1>3, <3>3, <3>4
  <2> QED BY <2>4, <2>5, <2>6
<1> QED BY <1>4, <1>5

-----------------------------------------------------------------------------
(* The inductive invariant *)

\* The mark c splits the table T: what is not in R is beyond it, what is in R is
\* in no unit after it (and not beyond it, when the text keeps all), and a row
\* that comes after some row of T is beyond it.
Splits(f, T, c, R) ==
  /\ IF c = Null THEN R = {} ELSE \A r \in R : KeptBy(f, r.at) <= O!Value(c.watermark)
  /\ ~f => \A r \in R : ~O!Beyond(r, c)
  /\ \A r \in T : r \notin R => O!Beyond(r, c)
  /\ c # Null => \E t \in T : \A r \in OraRow : O!Before(t, r) => O!Beyond(r, c)

MarkTypes ==
  /\ otable \subseteq OraRow /\ ogot \subseteq OraRow /\ opushed \subseteq OraRow
  /\ {position, cursor, ocommitted} \subseteq Marks(finer)

OraInv ==
  /\ MarkTypes
  /\ cursored => (otwice # {} => finer) /\ Splits(finer, otable, ocommitted, ogot)
  /\ ophase = "reading" /\ cursored =>
       cursor = position /\ Splits(finer, otable, position, ogot \cup opushed)

\* A stamp after every other keeps a mark where it splits the table.
LEMMA StampSplits ==
  ASSUME O!OraAssumption, NEW f, NEW T, T \subseteq OraRow, NEW R, R \subseteq OraRow,
         NEW c \in Marks(f), Splits(f, T, c, R), NEW row \in OraRow, NEW kept, kept \subseteq T,
         \A r \in T : O!Before(r, row)
  PROVE  Splits(f, kept \cup {row}, c, R)
<1>1. O!Beyond(row, c)
  <2>1. CASE c = Null BY <2>1 DEF O!Beyond
  <2>2. CASE c # Null BY <2>2 DEF Splits
  <2> QED BY <2>1, <2>2
<1>2. ASSUME c # Null PROVE \A r \in OraRow : O!Before(row, r) => O!Beyond(r, c)
  <2>1. PICK t \in T : \A r \in OraRow : O!Before(t, r) => O!Beyond(r, c) BY <1>2 DEF Splits
  <2>2. TAKE r \in OraRow
  <2>3. O!Before(row, r) => O!Before(t, r) BY <2>1, BeforeTransitive
  <2> QED BY <2>1, <2>3
<1> QED BY <1>1, <1>2 DEF Splits

\* The chunk taken from what is beyond c, up to its last row.
LEMMA ChunkSplits ==
  ASSUME O!OraAssumption, NEW f, NEW T, T \subseteq OraRow, NEW R, R \subseteq OraRow,
         NEW c \in Marks(f), Splits(f, T, c, R),
         NEW chunk, chunk \subseteq {r \in T : O!Beyond(r, c)}, NEW last \in chunk,
         \A r \in chunk : r = last \/ O!Before(r, last),
         \A r \in chunk, s \in {q \in T : O!Beyond(q, c)} \ chunk : O!Before(r, s)
  PROVE  Splits(f, T, At(f, last), R \cup chunk)
<1>1. last \in OraRow /\ last \in T /\ O!Beyond(last, c) OBVIOUS
<1>2. At(f, last) # Null /\ O!Value(At(f, last).watermark) = KeptBy(f, last.at)
  BY <1>1, RowType, BeyondMark
<1>3. \A r \in R \cup chunk : KeptBy(f, r.at) <= KeptBy(f, last.at)
  <2>1. TAKE r \in R \cup chunk
  <2>2. r \in OraRow /\ r.at \in Int /\ last.at \in Int BY <1>1, RowType
  <2>3. CASE r \in chunk
    <3>1. r.at <= last.at BY <2>2, <2>3 DEF O!Before
    <3> QED BY <2>2, <3>1, KeptOrder
  <2>4. CASE r \in R
    <3>1. c # Null /\ KeptBy(f, r.at) <= O!Value(c.watermark) BY <2>4 DEF Splits
    <3>2. PICK s \in OraRow : c = At(f, s) BY <3>1 DEF Marks
    <3>3. O!Value(c.watermark) = KeptBy(f, s.at) /\ KeptBy(f, s.at) <= KeptBy(f, last.at)
      BY <1>1, <3>2, BeyondMark
    <3>4. s.at \in Int BY <3>2, RowType
    <3>5. KeptBy(f, r.at) \in Int /\ KeptBy(f, s.at) \in Int /\ KeptBy(f, last.at) \in Int
      BY <2>2, <3>4, KeptOrder
    <3> QED BY <3>1, <3>3, <3>5
  <2> QED BY <2>3, <2>4
<1>4. ASSUME ~f PROVE \A r \in R \cup chunk : ~O!Beyond(r, At(f, last))
  <2>1. ASSUME NEW r \in R, O!Before(last, r) PROVE FALSE
    <3>1. ~O!Beyond(r, c) BY <1>4 DEF Splits
    <3>2. c # Null BY <3>1 DEF O!Beyond
    <3>3. PICK s \in OraRow : c = At(f, s) BY <3>2 DEF Marks
    <3>4. O!Before(s, last) BY <1>1, <1>4, <3>3, BeyondMark
    <3>5. r \in OraRow BY <2>1
    <3>6. O!Before(s, r) BY <1>1, <2>1, <3>3, <3>4, <3>5, BeforeTransitive
    <3> QED BY <3>1, <3>3, <3>5, <3>6, BeyondMark
  <2>2. \A r \in chunk : r \in OraRow /\ ~O!Before(last, r) BY <1>1, NotBothWays
  <2> QED BY <1>1, <1>4, <2>1, <2>2, BeyondMark
<1>5. \A r \in T : r \notin R \cup chunk => O!Beyond(r, At(f, last))
  <2>1. TAKE r \in T
  <2>2. ASSUME r \notin R \cup chunk PROVE O!Beyond(r, At(f, last))
    <3>1. O!Beyond(r, c) BY <2>2 DEF Splits
    <3>2. O!Before(last, r) BY <2>2, <3>1
    <3> QED BY <1>1, <3>2, BeyondMark
  <2> QED BY <2>2
<1>6. \A r \in OraRow : O!Before(last, r) => O!Beyond(r, At(f, last)) BY <1>1, BeyondMark
<1> QED BY <1>1, <1>2, <1>3, <1>4, <1>5, <1>6 DEF Splits

\* No statement before the first leaves anything behind.
LEMMA InitSplits ==
  ASSUME O!OraAssumption
  PROVE  Splits(finer, {}, Null, {})
BY DEF Splits

-----------------------------------------------------------------------------
(* It holds at first and in every step *)

LEMMA OraStarts == O!OraAssumption /\ O!Init => OraInv
BY InitSplits DEF O!Init, OraInv, MarkTypes, Marks

LEMMA StampStep ==
  ASSUME O!OraAssumption, OraInv, NEW rowid \in O!RowIds, O!Stamp(rowid)
  PROVE  OraInv'
<1>1. PICK n \in Cents :
        LET row == [rowid |-> rowid, at |-> n]
        IN  /\ \A r \in otable : r # row /\ (r.rowid # rowid => O!Before(r, row))
            /\ \A r \in otable : r.rowid = rowid => r.at < n
            /\ otable' = {r \in otable : r.rowid # rowid} \cup {row}
  BY DEF O!Stamp
<1>2. PICK row : row = [rowid |-> rowid, at |-> n] OBVIOUS
<1>3. PICK kept : kept = {r \in otable : r.rowid # rowid} OBVIOUS
<1>4. row \in OraRow /\ kept \subseteq otable /\ otable' = kept \cup {row}
  BY <1>1, <1>2, <1>3 DEF OraRow
<1>5. \A r \in otable : O!Before(r, row)
  <2>1. TAKE r \in otable
  <2>2. CASE r.rowid # rowid BY <1>1, <1>2, <2>2
  <2>3. CASE r.rowid = rowid BY <1>1, <1>2, <2>3 DEF O!Before
  <2> QED BY <2>2, <2>3
<1>6. UNCHANGED <<O!read, O!run, O!dest>> BY DEF O!Stamp
<1>7. MarkTypes' BY <1>4, <1>6 DEF OraInv, MarkTypes, O!read, O!run, O!dest
<1>8. cursored => Splits(finer, otable', ocommitted, ogot)
  BY <1>4, <1>5, StampSplits DEF OraInv, MarkTypes
<1>9. ophase = "reading" /\ cursored => Splits(finer, otable', position, ogot \cup opushed)
  <2>1. ogot \cup opushed \subseteq OraRow BY DEF OraInv, MarkTypes
  <2> QED BY <1>4, <1>5, <2>1, StampSplits DEF OraInv, MarkTypes
<1> QED BY <1>6, <1>7, <1>8, <1>9 DEF OraInv, O!read, O!run, O!dest

LEMMA StartStep ==
  ASSUME OraInv, O!StartRead
  PROVE  OraInv'
<1>1. ogot \cup {} = ogot OBVIOUS
<1> QED BY <1>1 DEF O!StartRead, OraInv, MarkTypes, O!read, O!dest

LEMMA FetchStep ==
  ASSUME O!OraAssumption, OraInv, O!FetchChunk
  PROVE  OraInv'
<1>1. ophase = "reading" /\ UNCHANGED <<cursored, finer, otable, ophase, ocommitted, ogot>>
  BY DEF O!FetchChunk, O!read
<1>2. PICK rows : rows = {r \in otable : O!Selects(r)} OBVIOUS
<1>3. PICK chunk \in SUBSET rows :
        /\ \A r \in chunk, s \in rows \ chunk : O!OrderedBy(r, s)
        /\ opushed' = opushed \cup chunk
        /\ otwice' = otwice \cup (chunk \cap (ogot \cup opushed))
        /\ IF chunk = {} THEN UNCHANGED <<position, cursor>>
           ELSE \E last \in chunk :
                  /\ \A r \in chunk : r = last \/ O!OrderedBy(r, last)
                  /\ position' = O!Position(last)
                  /\ cursor' = IF cursored THEN O!Advance(cursor, last) ELSE cursor
  BY <1>2 DEF O!FetchChunk
<1>4. rows \subseteq OraRow /\ chunk \subseteq OraRow /\ otable \subseteq OraRow
  BY <1>2, <1>3 DEF OraInv, MarkTypes
<1>5. ASSUME cursored
      PROVE  /\ rows = {r \in otable : O!Beyond(r, position)}
             /\ \A r, s : O!OrderedBy(r, s) <=> O!Before(r, s)
  BY <1>2, <1>5 DEF O!Selects, O!OrderedBy
<1>6. ASSUME cursored PROVE otwice' # {} => finer
  <2>1. ~finer => chunk \cap (ogot \cup opushed) = {}
    BY <1>1, <1>3, <1>5, <1>6 DEF OraInv, Splits
  <2> QED BY <1>3, <1>6, <2>1 DEF OraInv
<1>7. CASE chunk = {}
  <2>1. opushed' = opushed /\ UNCHANGED <<position, cursor>> BY <1>3, <1>7
  <2> QED BY <1>1, <1>6, <2>1 DEF OraInv, MarkTypes
<1>8. CASE chunk # {}
  <2>1. PICK last \in chunk :
          /\ \A r \in chunk : r = last \/ O!OrderedBy(r, last)
          /\ position' = O!Position(last)
          /\ cursor' = IF cursored THEN O!Advance(cursor, last) ELSE cursor
    BY <1>3, <1>8
  <2>2. ASSUME cursored
        PROVE  cursor' = position' /\ Splits(finer, otable, position', ogot \cup opushed \cup chunk)
    <3>1. /\ cursor = position /\ position \in Marks(finer)
          /\ Splits(finer, otable, position, ogot \cup opushed)
      BY <1>1, <2>2 DEF OraInv, MarkTypes
    <3>2. last \in OraRow /\ O!Beyond(last, position) BY <1>3, <1>4, <1>5, <2>1, <2>2
    <3>3. cursor' = position' /\ position' = At(finer, last)
      BY <2>1, <2>2, <3>1, <3>2, AdvanceMoves
    <3>4. ogot \cup opushed \subseteq OraRow BY DEF OraInv, MarkTypes
    <3>5. /\ chunk \subseteq {r \in otable : O!Beyond(r, position)}
          /\ \A r \in chunk : r = last \/ O!Before(r, last)
          /\ \A r \in chunk, s \in {q \in otable : O!Beyond(q, position)} \ chunk : O!Before(r, s)
      BY <1>3, <1>5, <2>1, <2>2
    <3>6. Splits(finer, otable, At(finer, last), ogot \cup opushed \cup chunk)
      BY <1>4, <2>1, <3>1, <3>4, <3>5, ChunkSplits
    <3> QED BY <2>1, <3>3, <3>6
  <2>3. MarkTypes'
    <3>1. O!Position(last) = At(finer, last)
      BY DEF O!Position, O!Text, O!Kept, KeptBy, At
    <3>2. position' \in Marks(finer) BY <1>4, <2>1, <3>1, RowType
    <3>3. cursor' \in Marks(finer)
      <4>1. CASE cursored BY <2>2, <3>2, <4>1
      <4>2. CASE ~cursored BY <2>1, <4>2 DEF OraInv, MarkTypes
      <4> QED BY <4>1, <4>2
    <3>4. opushed' \subseteq OraRow BY <1>3, <1>4 DEF OraInv, MarkTypes
    <3> QED BY <1>1, <3>2, <3>3, <3>4 DEF OraInv, MarkTypes
  <2>4. ogot \cup opushed \cup chunk = ogot \cup opushed' BY <1>3
  <2> QED BY <1>1, <1>3, <1>6, <2>2, <2>3, <2>4 DEF OraInv
<1> QED BY <1>7, <1>8

LEMMA CommitStep ==
  ASSUME OraInv, O!EngineCommit
  PROVE  OraInv'
<1>1. /\ ophase = "reading" /\ cursored
      /\ ogot' = ogot \cup opushed /\ otwice' = otwice /\ ocommitted' = cursor /\ opushed' = {}
      /\ UNCHANGED <<cursored, finer, otable, ophase, position, cursor, ended>>
  BY DEF O!EngineCommit, O!Absorb, O!read
<1>2. ocommitted' = position /\ Splits(finer, otable, position, ogot') BY <1>1 DEF OraInv
<1>3. ogot' \cup opushed' = ogot' BY <1>1
<1> QED BY <1>1, <1>2, <1>3 DEF OraInv, MarkTypes

LEMMA FinishStep ==
  ASSUME OraInv, O!FinishRead
  PROVE  OraInv'
<1>1. /\ ophase = "reading"
      /\ ogot' = ogot \cup opushed /\ otwice' = otwice /\ ocommitted' = cursor /\ opushed' = {} /\ ophase' = "idle"
      /\ position' = Null /\ cursor' = Null
      /\ UNCHANGED <<cursored, finer, otable>>
  BY DEF O!FinishRead, O!Absorb, O!read
<1>2. cursored => ocommitted' = position /\ Splits(finer, otable, position, ogot') BY <1>1 DEF OraInv
<1>3. cursor \in Marks(finer) BY DEF OraInv, MarkTypes
<1> QED BY <1>1, <1>2, <1>3 DEF OraInv, MarkTypes, Marks

LEMMA FailStep ==
  ASSUME OraInv, O!RunFails
  PROVE  OraInv'
BY DEF O!RunFails, OraInv, MarkTypes, Marks, O!read, O!dest

LEMMA OraStays ==
  ASSUME O!OraAssumption, OraInv, [O!Next]_O!vars
  PROVE  OraInv'
<1>1. CASE UNCHANGED O!vars
  BY <1>1 DEF O!vars, O!read, O!run, O!dest, OraInv, MarkTypes
<1>2. CASE \E rowid \in O!RowIds : O!Stamp(rowid) BY <1>2, StampStep
<1>3. CASE O!StartRead BY <1>3, StartStep
<1>4. CASE O!FetchChunk BY <1>4, FetchStep
<1>5. CASE O!EngineCommit BY <1>5, CommitStep
<1>6. CASE O!FinishRead BY <1>6, FinishStep
<1>7. CASE O!RunFails BY <1>7, FailStep
<1> QED BY <1>1, <1>2, <1>3, <1>4, <1>5, <1>6, <1>7 DEF O!Next

\* With a cursor column a row the destination lacks is beyond the committed watermark
\* and tie, where the next statement begins; a row is read twice only of a column finer
\* than its text, and of what is committed the next statement selects no row but those in
\* the unit of that text (read.rs select_sql and its chunk loop, batch.rs watermark_text).
THEOREM NeverLost ==
  ASSUME O!OraAssumption
  PROVE  O!Spec => []O!SkipsNoneRepeatsFiner
<1>1. O!Init => OraInv BY OraStarts
<1>2. OraInv /\ [O!Next]_O!vars => OraInv' BY OraStays
<1>3. OraInv => O!SkipsNoneRepeatsFiner
  <2> SUFFICES ASSUME OraInv, cursored PROVE O!SkipsNoneRepeatsFiner
    BY DEF O!SkipsNoneRepeatsFiner
  <2>1. (otwice # {} => finer) /\ Splits(finer, otable, ocommitted, ogot) /\ MarkTypes BY DEF OraInv
  <2>2. ASSUME NEW r \in ogot, O!Beyond(r, ocommitted)
        PROVE  finer /\ O!Kept(r.at) = O!Value(ocommitted.watermark)
    <3>1. finer BY <2>1, <2>2 DEF Splits
    <3>2. ocommitted # Null /\ KeptBy(finer, r.at) <= O!Value(ocommitted.watermark)
      BY <2>1, <2>2 DEF Splits
    <3>3. PICK s \in OraRow : ocommitted = At(finer, s) BY <2>1, <3>2 DEF MarkTypes, Marks
    <3>4. r \in OraRow BY <2>1 DEF MarkTypes
    <3>5. /\ O!Value(ocommitted.watermark) = KeptBy(finer, s.at)
          /\ KeptBy(finer, r.at) >= KeptBy(finer, s.at)
      BY <2>2, <3>3, <3>4, BeyondMark
    <3>6. KeptBy(finer, r.at) \in Int /\ KeptBy(finer, s.at) \in Int
      <4>1. r.at \in Int /\ s.at \in Int BY <3>3, <3>4, RowType
      <4> QED BY <4>1, KeptOrder
    <3>7. O!Kept(r.at) = KeptBy(finer, r.at) BY DEF O!Kept, KeptBy
    <3>8. PICK a, b : a = KeptBy(finer, r.at) /\ b = KeptBy(finer, s.at) OBVIOUS
    <3>9. a = b BY <3>2, <3>5, <3>6, <3>8
    <3> QED BY <3>1, <3>5, <3>7, <3>8, <3>9
  <2> QED BY <2>1, <2>2 DEF Splits, O!SkipsNoneRepeatsFiner
<1> QED BY <1>1, <1>2, <1>3, PTL DEF O!Spec

\* The checkpoint offered is the position of the last row pushed: the rendered
\* texts compare as the server compares the values (cursor.rs watermark_less).
THEOREM TextIsOrder ==
  ASSUME O!OraAssumption
  PROVE  O!Spec => []O!CheckpointFollowsRead
<1>1. O!Init => OraInv BY OraStarts
<1>2. OraInv /\ [O!Next]_O!vars => OraInv' BY OraStays
<1>3. OraInv => O!CheckpointFollowsRead BY DEF OraInv, O!CheckpointFollowsRead
<1> QED BY <1>1, <1>2, <1>3, PTL DEF O!Spec

=============================================================================
