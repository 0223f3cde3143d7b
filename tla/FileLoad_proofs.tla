---------------------------- MODULE FileLoad_proofs ----------------------------
(***************************************************************************)
(* Theorems of FileLoad, on both storage arms, for any tables, feeds,      *)
(* loads, cuts of the rows into parts and number of deaths; and of         *)
(* FileParts, the cutting, as an instance, for any values and sizes.       *)
(***************************************************************************)
EXTENDS FileLoad, FiniteSetTheorems, TLAPS

\* The whole of what may be recorded: rows, names and files of any unit.
Row == [unit : Unit, n : Nat]
Name == [table : Table, load : Nat, seq : Nat, index : Nat]
Part == [table : Table, index : Nat, rows : SUBSET Row]
Past == [load |-> MaxLoad + 1, seq |-> 1]
UnitOf(n) == [load |-> n.load, seq |-> n.seq]
Attempting == {"truncate", "sweep", "publish", "state", "receipt"}

\* No table that is reloaded is first heard of late: the truncation, once per
\* load, would miss it.
LateAssumption == \A t \in Late : Mode[t] = "append"
\* Nothing undoes a rename or a removal: S3, or a host that keeps its power.
NoPowerLoss == Arm = "s3" \/ ~Power

Sane == LoadAssumption /\ IsFiniteSet(Table)

PartsOK == staged \in Seq(Part) /\ \A k \in DOMAIN staged : staged[k].rows # {}
FilesOK ==
  /\ finals \subseteq [name : Name, rows : SUBSET Row]
  /\ durable \subseteq [name : Name, rows : SUBSET Row]
  /\ \A f \in finals \cup durable : f.rows # {}
ManifestOK ==
  /\ manifest \in [load : Nat, seq : Nat, names : SUBSET Name]
  /\ \A n \in manifest.names : UnitOf(n) = UnitOf(manifest)
Engine ==
  /\ cur \in Unit \cup {Past} /\ deaths \in 0 .. MaxDeaths
  /\ receipts \subseteq Unit /\ acked \subseteq Unit /\ stateDoc \in Unit \cup {NoUnit}
Session ==
  /\ pc \in {"none", "loading", "answered"} \cup Attempting
  /\ pc # "none" => cur \in Unit
  /\ tables \subseteq Table /\ touched \subseteq Table
  /\ sent \in [Table -> Nat] /\ open \in [Table -> SUBSET Row]
  /\ \A t \in Table : sent[t] <= IF cur \in Unit THEN Feed(cur, t) ELSE 0

TypeInv ==
  /\ PartsOK /\ FilesOK /\ ManifestOK /\ Engine /\ Session /\ dirty \in BOOLEAN

-----------------------------------------------------------------------------
(* Rows and the parts that hold them *)

\* The rows of t the session has been given so far.
Taken(t) == {[unit |-> cur, n |-> i] : i \in 1 .. sent[t]}

\* Part k has row r of table t.
Has(k, t, r) == staged[k].table = t /\ r \in staged[k].rows

\* While rows come in: each is in the open part of its table or in one staged.
Cut ==
  \A t \in Table :
    /\ open[t] \subseteq Taken(t)
    /\ \A k \in DOMAIN staged : staged[k].table = t => staged[k].rows \subseteq Taken(t)
    /\ \A r \in Taken(t) :
         /\ r \in open[t] \/ \E k \in DOMAIN staged : Has(k, t, r)
         /\ \A k \in DOMAIN staged : Has(k, t, r) =>
              /\ r \notin open[t]
              /\ \A l \in DOMAIN staged : Has(l, t, r) => k = l
Indexed ==
  /\ \A k \in DOMAIN staged : staged[k].index < PartIndex(staged, staged[k].table)

\* Two parts are not published under one name.
Distinct ==
  \A k, l \in DOMAIN staged :
    staged[k].table = staged[l].table /\ staged[k].index = staged[l].index => k = l

\* Staged parts hold rows of the unit; when the commit begins, each row once.
OfUnit == \A k \in DOMAIN staged : staged[k].rows \subseteq Rows(cur, staged[k].table)
Whole ==
  \A t \in Table : \A r \in Rows(cur, t) :
    \E k \in DOMAIN staged : Has(k, t, r) /\ \A l \in DOMAIN staged : Has(l, t, r) => l = k

\* Row r of t is in one of these files, and in no other.
Once(files, t, r) ==
  \E f \in files : /\ f.name.table = t /\ r \in f.rows
                   /\ \A g \in files : g.name.table = t /\ r \in g.rows => g = f

\* What this attempt has published of the unit, and what it is still to publish.
Landed == {f \in finals : UnitOf(f.name) = cur /\ f.name \notin NewNames}
Piece(k) == File(staged[k].table, cur, staged[k].index, staged[k].rows)
Pieces == Landed \cup {Piece(k) : k \in DOMAIN staged}

Parts ==
  /\ pc = "loading" => Cut /\ Indexed
  /\ pc \in {"loading"} \cup Attempting => Distinct /\ OfUnit
  /\ pc \in {"truncate", "sweep"} => Whole
  /\ pc \in {"publish", "state", "receipt"} =>
       \A t \in Table : \A r \in Rows(cur, t) : Once(Pieces, t, r)
  /\ pc \in {"state", "receipt"} => staged = <<>>

-----------------------------------------------------------------------------
(* The attempts and what is published *)

Control ==
  /\ \A u \in receipts : u.load <= cur.load
  /\ pc = "answered" => cur \in receipts
  /\ pc \in Attempting => cur \notin receipts /\ Table \ Late \subseteq tables
  /\ pc = "truncate" => FirstCommitOfLoad
  /\ cur \in receipts => ~dirty

\* Every file is of a committed unit or of the current one; a name has one file.
FileOf ==
  /\ \A f \in finals : /\ UnitOf(f.name) \in receipts \cup {cur}
                       /\ f.rows \subseteq Rows(UnitOf(f.name), f.name.table)
                       /\ \A g \in finals : f.name = g.name => f = g
  /\ ~dirty => \A f \in finals : UnitOf(f.name) \in receipts
Announced ==
  /\ ManifestCovers
  /\ pc = "publish" => UnitOf(manifest) = cur /\ NewNames \subseteq manifest.names

\* After its truncation a load's replace tables have its own files only.
Reloaded ==
  /\ (~FirstCommitOfLoad \/ pc \in {"sweep", "publish", "state", "receipt"}) =>
       \A f \in finals : Mode[f.name.table] = "replace" => f.name.load = cur.load
  /\ ~dirty => \A f \in finals : Mode[f.name.table] = "replace" =>
                 \A u \in receipts : u.load <= f.name.load

\* Of whose rows a reader must find each once, whatever an attempt is doing.
Kept(u, t) ==
  \/ Mode[t] = "append" \/ u.load = cur.load
  \/ ~dirty /\ \A v \in receipts : v.load <= u.load
Committed ==
  \A u \in receipts, t \in Table : Kept(u, t) => \A r \in Rows(u, t) : Once(finals, t, r)

FileInv == Control /\ Parts /\ FileOf /\ Announced /\ Reloaded /\ Committed

-----------------------------------------------------------------------------
(* Sequences of parts *)

\* SetToSeq lists a finite set, each element once.
LEMMA Listed ==
  ASSUME NEW S, IsFiniteSet(S)
  PROVE  \E n \in Nat :
           /\ SetToSeq(S) \in [1 .. n -> S]
           /\ \A i, j \in 1 .. n : SetToSeq(S)[i] = SetToSeq(S)[j] => i = j
           /\ \A x \in S : \E i \in 1 .. n : SetToSeq(S)[i] = x
<1> DEFINE n == Cardinality(S)
<1>1. n \in Nat /\ ExistsBijection(1 .. n, S) BY FS_CardinalityType
<1>2. \E f \in [1 .. n -> S] : IsInjective(f)
  BY <1>1 DEF ExistsBijection, Bijection, Injection
<1>3. SetToSeq(S) \in [1 .. n -> S] /\ IsInjective(SetToSeq(S))
  BY <1>2 DEF SetToSeq
<1>4. SetToSeq(S) \in Injection(1 .. n, S) BY <1>3 DEF Injection
<1>5. IsFiniteSet(1 .. n) /\ Cardinality(1 .. n) = n
  BY <1>1, FS_Interval
<1>6. SetToSeq(S) \in Surjection(1 .. n, S) BY <1>4, <1>5, FS_Injection
<1>7. \A x \in S : \E i \in 1 .. n : SetToSeq(S)[i] = x BY <1>6 DEF Surjection
<1>8. \A i, j \in 1 .. n : SetToSeq(S)[i] = SetToSeq(S)[j] => i = j
  BY <1>3 DEF IsInjective
<1> QED BY <1>1, <1>3, <1>7, <1>8

LEMMA PartIndexType ==
  ASSUME NEW s \in Seq(Part), NEW t
  PROVE  PartIndex(s, t) \in Nat /\ IsFiniteSet({k \in DOMAIN s : s[k].table = t})
<1>1. IsFiniteSet(1 .. Len(s)) BY FS_Interval
<1>2. DOMAIN s = 1 .. Len(s) OBVIOUS
<1>3. {k \in DOMAIN s : s[k].table = t} \in SUBSET (1 .. Len(s)) BY <1>2
<1>4. IsFiniteSet({k \in DOMAIN s : s[k].table = t}) BY <1>1, <1>3, FS_Subset
<1> QED BY <1>4, FS_CardinalityType DEF PartIndex

\* One more part of t counts for t only.
LEMMA PartIndexAppend ==
  ASSUME NEW s \in Seq(Part), NEW p \in Part, NEW t
  PROVE  PartIndex(Append(s, p), t) = PartIndex(s, t) + (IF p.table = t THEN 1 ELSE 0)
<1> DEFINE K(x) == {k \in DOMAIN x : x[k].table = t}
<1>1. IsFiniteSet(K(s)) /\ Cardinality(K(s)) \in Nat BY PartIndexType DEF PartIndex
<1>2. /\ DOMAIN s = 1 .. Len(s) /\ DOMAIN Append(s, p) = 1 .. Len(s) + 1
      /\ Append(s, p)[Len(s) + 1] = p
      /\ \A k \in 1 .. Len(s) : Append(s, p)[k] = s[k]
  OBVIOUS
<1>3. CASE p.table = t
  <2>1. K(Append(s, p)) = K(s) \cup {Len(s) + 1} BY <1>2, <1>3
  <2>2. Len(s) + 1 \notin K(s) BY <1>2
  <2>3. Cardinality(K(s) \cup {Len(s) + 1}) = Cardinality(K(s)) + 1
    BY <1>1, <2>2, FS_AddElement
  <2> QED BY <1>3, <2>1, <2>3 DEF PartIndex
<1>4. CASE p.table # t
  <2>1. K(Append(s, p)) = K(s) BY <1>2, <1>4
  <2>2. PartIndex(Append(s, p), t) = PartIndex(s, t) BY <2>1 DEF PartIndex
  <2>3. PartIndex(s, t) \in Nat BY PartIndexType
  <2> QED BY <1>4, <2>2, <2>3
<1> QED BY <1>3, <1>4

\* close_all_parts adds one part for each table that has one open.
LEMMA CloseAllEffect ==
  ASSUME IsFiniteSet(Table), staged \in Seq(Part), open \in [Table -> SUBSET Row]
  PROVE  /\ CloseAll \in Seq(Part)
         /\ DOMAIN staged \subseteq DOMAIN CloseAll
         /\ \A k \in DOMAIN staged : CloseAll[k] = staged[k]
         /\ \A k \in DOMAIN CloseAll \ DOMAIN staged :
              /\ CloseAll[k].table \in Table /\ open[CloseAll[k].table] # {}
              /\ CloseAll[k].rows = open[CloseAll[k].table]
              /\ CloseAll[k].index = PartIndex(staged, CloseAll[k].table)
         /\ \A k, l \in DOMAIN CloseAll \ DOMAIN staged : CloseAll[k].table = CloseAll[l].table => k = l
         /\ \A t \in Table : open[t] # {} =>
              \E k \in DOMAIN CloseAll \ DOMAIN staged : CloseAll[k].table = t
<1> DEFINE T == {t \in Table : open[t] # {}}
           last == SetToSeq(T)
           Closed(t) == [table |-> t, index |-> PartIndex(staged, t), rows |-> open[t]]
<1>1. IsFiniteSet(T) BY FS_Subset
<1>2. PICK n \in Nat : /\ last \in [1 .. n -> T]
                       /\ \A i, j \in 1 .. n : last[i] = last[j] => i = j
                       /\ \A x \in T : \E i \in 1 .. n : last[i] = x
  BY <1>1, Listed
<1> DEFINE more == [k \in DOMAIN last |-> Closed(last[k])]
<1>3. CloseAll = staged \o more BY DEF CloseAll
<1> HIDE DEF last
<1>4. \A t \in T : Closed(t) \in Part BY PartIndexType DEF Part
<1>5. more \in Seq(Part) /\ Len(more) = n /\ DOMAIN more = 1 .. n
  <2>1. more \in [1 .. n -> Part] BY <1>2, <1>4
  <2> QED BY <2>1
<1>6. \A k \in 1 .. n : more[k] = Closed(last[k]) /\ last[k] \in T BY <1>2
<1> HIDE DEF more
<1> DEFINE m == Len(staged)
<1>7. /\ DOMAIN staged = 1 .. m /\ m \in Nat /\ CloseAll \in Seq(Part)
      /\ DOMAIN CloseAll = 1 .. m + n
      /\ \A k \in 1 .. m : CloseAll[k] = staged[k]
      /\ \A k \in 1 .. m + n : k > m => CloseAll[k] = more[k - m]
  <2>1. staged \in Seq(Part) /\ more \in Seq(Part) /\ n \in Nat BY <1>5
  <2>2. Len(staged \o more) = m + n BY <1>5, <2>1
  <2>3. staged \o more \in Seq(Part) BY <2>1
  <2>4. \A k \in 1 .. m + n : (staged \o more)[k] = IF k <= m THEN staged[k] ELSE more[k - m]
    BY <1>5, <2>1
  <2> QED BY <1>3, <2>1, <2>2, <2>3, <2>4
<1>8. \A k \in DOMAIN CloseAll \ DOMAIN staged :
        k \in Int /\ k > m /\ k - m \in 1 .. n /\ CloseAll[k] = Closed(last[k - m]) /\ last[k - m] \in T
  <2> SUFFICES ASSUME NEW k \in DOMAIN CloseAll \ DOMAIN staged
               PROVE  k \in Int /\ k > m /\ k - m \in 1 .. n /\ CloseAll[k] = Closed(last[k - m])
                      /\ last[k - m] \in T
    OBVIOUS
  <2>1. k \in 1 .. m + n /\ k > m /\ k - m \in 1 .. n BY <1>7
  <2>2. CloseAll[k] = more[k - m] BY <1>7, <2>1
  <2> QED BY <1>6, <2>1, <2>2
<1>9. \A t \in T : \E k \in DOMAIN CloseAll \ DOMAIN staged : CloseAll[k].table = t
  <2> SUFFICES ASSUME NEW t \in T PROVE \E k \in DOMAIN CloseAll \ DOMAIN staged : CloseAll[k].table = t
    OBVIOUS
  <2>1. PICK i \in 1 .. n : last[i] = t BY <1>2
  <2>2. m + i \in DOMAIN CloseAll \ DOMAIN staged /\ m + i - m = i BY <1>7
  <2>3. CloseAll[m + i] = Closed(t) BY <1>8, <2>1, <2>2
  <2> QED BY <2>2, <2>3
<1>10. \A k, l \in DOMAIN CloseAll \ DOMAIN staged : CloseAll[k].table = CloseAll[l].table => k = l
  <2> SUFFICES ASSUME NEW k \in DOMAIN CloseAll \ DOMAIN staged, NEW l \in DOMAIN CloseAll \ DOMAIN staged,
                      CloseAll[k].table = CloseAll[l].table
               PROVE  k = l
    OBVIOUS
  <2>1. last[k - m] = last[l - m] BY <1>8
  <2>2. k - m = l - m BY <1>2, <1>8, <2>1
  <2> QED BY <1>7, <1>8, <2>2
<1>11. \A t \in T : t \in Table /\ open[t] # {} /\ Closed(t).table = t /\ Closed(t).rows = open[t]
                     /\ Closed(t).index = PartIndex(staged, t)
  OBVIOUS
<1>12. \A k \in DOMAIN CloseAll \ DOMAIN staged :
         /\ CloseAll[k].table \in Table /\ open[CloseAll[k].table] # {}
         /\ CloseAll[k].rows = open[CloseAll[k].table]
         /\ CloseAll[k].index = PartIndex(staged, CloseAll[k].table)
  BY <1>8, <1>11
<1>13. DOMAIN staged \subseteq DOMAIN CloseAll BY <1>7
<1>14. \A t \in Table : open[t] # {} => t \in T OBVIOUS
<1> HIDE DEF Closed, T, m
<1> QED BY <1>7, <1>9, <1>10, <1>12, <1>13, <1>14

-----------------------------------------------------------------------------
(* Types *)

\* What the numbers of the current unit are.
LEMMA CurOK ==
  ASSUME Sane, Engine, cur \in Unit
  PROVE  /\ cur.load \in Nat /\ cur.seq \in Nat /\ UnitOf(cur) = cur /\ cur.load <= MaxLoad
         /\ \A t \in Table : Feed(cur, t) \in Nat
BY DEF Sane, LoadAssumption, Unit, UnitOf

\* The names this commit publishes under are names of its unit.
LEMMA NewNamesOK ==
  ASSUME Sane, TypeInv, cur \in Unit
  PROVE  NewNames \subseteq Name /\ \A n \in NewNames : UnitOf(n) = cur
<1>1. cur.load \in Nat /\ cur.seq \in Nat /\ UnitOf(cur) = cur BY CurOK DEF TypeInv
<1>2. \A k \in DOMAIN staged : staged[k] \in Part BY DEF TypeInv, PartsOK
<1>3. \A k \in DOMAIN staged : staged[k].table \in Table /\ staged[k].index \in Nat BY <1>2 DEF Part
<1>4. NewNames \subseteq Name BY <1>1, <1>3 DEF NewNames, FinalName, Name
<1>5. \A n \in NewNames : UnitOf(n) = UnitOf(cur) BY DEF NewNames, FinalName, UnitOf
<1> QED BY <1>1, <1>4, <1>5

LEMMA FreshOK ==
  ASSUME Sane, FreshUnit, cur' \in Unit \cup {Past}
  PROVE  /\ PartsOK' /\ touched' \subseteq Table
         /\ sent' \in [Table -> Nat] /\ open' \in [Table -> SUBSET Row]
         /\ \A t \in Table : sent'[t] <= IF cur' \in Unit THEN Feed(cur', t) ELSE 0
<1>1. \A t \in Table : cur' \in Unit => Feed(cur', t) \in Nat BY DEF Sane, LoadAssumption
<1> QED BY <1>1 DEF FreshUnit, PartsOK

LEMMA TypeInit == ASSUME Sane, Init PROVE TypeInv
<1>1. cur \in Unit BY DEF Init, Unit, Sane, LoadAssumption
<1>2. \A t \in Table : Feed(cur, t) \in Nat BY <1>1 DEF Sane, LoadAssumption
<1>3. PartsOK BY DEF Init, PartsOK
<1>4. FilesOK BY DEF Init, FilesOK
<1>5. ManifestOK BY DEF Init, ManifestOK, NoManifest
<1>6. Engine BY <1>1 DEF Init, Engine, Sane, LoadAssumption, NoUnit
<1>7. Session BY <1>1, <1>2 DEF Init, Session
<1> QED BY <1>3, <1>4, <1>5, <1>6, <1>7 DEF TypeInv, Init

\* A row more of the unit in the open part of t, which may be closed with it.
LEMMA WriteOK ==
  ASSUME Sane, TypeInv, NEW t \in Table, Write(t)
  PROVE  /\ cur \in Unit /\ sent' = [sent EXCEPT ![t] = sent[t] + 1] /\ sent[t] + 1 <= Feed(cur, t)
         /\ LET r == [unit |-> cur, n |-> sent[t] + 1]
                p == [table |-> t, index |-> PartIndex(staged, t), rows |-> open[t] \cup {r}]
            IN /\ r \in Row /\ p \in Part
               /\ \/ open' = [open EXCEPT ![t] = open[t] \cup {r}] /\ staged' = staged
                  \/ open' = [open EXCEPT ![t] = {}] /\ staged' = Append(staged, p)
<1> DEFINE r == [unit |-> cur, n |-> sent[t] + 1]
           p == [table |-> t, index |-> PartIndex(staged, t), rows |-> open[t] \cup {r}]
<1>1. cur \in Unit BY DEF Write, TypeInv, Session
<1>2. sent[t] \in Nat /\ Feed(cur, t) \in Nat /\ open[t] \subseteq Row
  BY <1>1, CurOK DEF TypeInv, Session
<1>3. sent' = [sent EXCEPT ![t] = sent[t] + 1] BY DEF Write
<1>4. sent[t] + 1 <= Feed(cur, t) BY <1>2 DEF Write
<1>5. r \in Row BY <1>1, <1>2 DEF Row
<1>6. p \in Part
  <2>1. PartIndex(staged, t) \in Nat BY PartIndexType DEF TypeInv, PartsOK
  <2> QED BY <1>2, <1>5, <2>1 DEF Part
<1>7. open[t] \cup {r} # {} OBVIOUS
<1>8. \/ open' = [open EXCEPT ![t] = open[t] \cup {r}] /\ staged' = staged
      \/ open' = [open EXCEPT ![t] = {}] /\ staged' = Append(staged, p)
  BY <1>7 DEF Write, ClosePart
<1> QED BY <1>1, <1>3, <1>4, <1>5, <1>6, <1>8

LEMMA TypeWrite == ASSUME Sane, TypeInv, NEW t \in Table, Write(t) PROVE TypeInv'
<1> DEFINE r == [unit |-> cur, n |-> sent[t] + 1]
           p == [table |-> t, index |-> PartIndex(staged, t), rows |-> open[t] \cup {r}]
<1>1. /\ cur \in Unit /\ sent' = [sent EXCEPT ![t] = sent[t] + 1] /\ sent[t] + 1 <= Feed(cur, t)
      /\ r \in Row /\ p \in Part
      /\ \/ open' = [open EXCEPT ![t] = open[t] \cup {r}] /\ staged' = staged
         \/ open' = [open EXCEPT ![t] = {}] /\ staged' = Append(staged, p)
  BY WriteOK
<1>2. UNCHANGED <<diskVars, engineVars, pc, tables, touched, dirty>> BY DEF Write
<1>3. PartsOK'
  <2>1. CASE staged' = staged BY <2>1 DEF TypeInv, PartsOK
  <2>2. CASE staged' = Append(staged, p)
    <3>1. staged \in Seq(Part) /\ \A k \in DOMAIN staged : staged[k].rows # {} BY DEF TypeInv, PartsOK
    <3>2. p.rows # {} OBVIOUS
    <3> HIDE DEF p
    <3>3. staged' \in Seq(Part) BY <1>1, <2>2, <3>1
    <3>4. \A k \in DOMAIN staged' : staged'[k] = p \/ (k \in DOMAIN staged /\ staged'[k] = staged[k])
      BY <1>1, <2>2, <3>1
    <3> QED BY <3>1, <3>2, <3>3, <3>4 DEF PartsOK
  <2> QED BY <1>1, <2>1, <2>2
<1>4. Session'
  <2> HIDE DEF p, r
  <2>1. open' \in [Table -> SUBSET Row] BY <1>1 DEF TypeInv, Session
  <2>2. sent' \in [Table -> Nat] BY <1>1 DEF TypeInv, Session
  <2>3. \A s \in Table : sent'[s] <= IF cur \in Unit THEN Feed(cur, s) ELSE 0
    BY <1>1 DEF TypeInv, Session
  <2> QED BY <1>2, <2>1, <2>2, <2>3 DEF TypeInv, Session, diskVars, engineVars
<1> QED BY <1>2, <1>3, <1>4
     DEF TypeInv, FilesOK, ManifestOK, Engine, diskVars, engineVars

LEMMA TypeBegin == ASSUME Sane, TypeInv, BeginPublish PROVE TypeInv'
<1>1. staged \in Seq(Part) /\ open \in [Table -> SUBSET Row] /\ IsFiniteSet(Table)
      /\ \A k \in DOMAIN staged : staged[k].rows # {}
  BY DEF TypeInv, PartsOK, Session, Sane
<1>2. staged' = CloseAll BY DEF BeginPublish
<1>3. /\ staged' \in Seq(Part)
      /\ \A k \in DOMAIN staged : staged'[k] = staged[k]
      /\ \A k \in DOMAIN staged' \ DOMAIN staged : staged'[k].table \in Table
           /\ open[staged'[k].table] # {} /\ staged'[k].rows = open[staged'[k].table]
  BY <1>1, <1>2, CloseAllEffect
<1>4. \A k \in DOMAIN staged' : staged'[k].rows # {} BY <1>1, <1>3
<1>5. PartsOK' BY <1>3, <1>4 DEF PartsOK
<1>6. Session' BY DEF BeginPublish, TypeInv, Session, Attempting, diskVars, engineVars
<1> QED BY <1>5, <1>6
     DEF BeginPublish, TypeInv, FilesOK, ManifestOK, Engine, diskVars, engineVars

\* The steps of a commit that change files or documents.
LEMMA TypeFiles ==
  ASSUME Sane, TypeInv,
         TruncateFile \/ TruncateDone \/ SweepFile \/ WriteManifest \/ PublishPart \/ SyncDirs
  PROVE  TypeInv'
<1>1. pc # "none" /\ cur \in Unit
  BY DEF TypeInv, Session, TruncateFile, TruncateDone, SweepFile, WriteManifest, PublishPart, SyncDirs
<1>2. NewNames \subseteq Name /\ \A n \in NewNames : UnitOf(n) = cur BY <1>1, NewNamesOK
<1>3. cur.load \in Nat /\ cur.seq \in Nat /\ UnitOf(cur) = cur BY <1>1, CurOK DEF TypeInv
<1>4. CASE TruncateFile
  <2>1. finals' \subseteq finals /\ durable' \subseteq finals \cup durable
    BY <1>4 DEF TruncateFile, SetFinals
  <2>2. FilesOK' BY <2>1 DEF TypeInv, FilesOK
  <2> QED BY <1>4, <2>2
       DEF TruncateFile, TypeInv, PartsOK, ManifestOK, Engine, Session, engineVars, sessionVars
<1>5. CASE TruncateDone
  BY <1>5 DEF TruncateDone, TypeInv, PartsOK, FilesOK, ManifestOK, Engine, Session, Attempting,
              diskVars, engineVars
<1>6. CASE SweepFile
  <2>1. finals' \subseteq finals /\ durable' \subseteq finals \cup durable
    BY <1>6 DEF SweepFile, SetFinals, Without
  <2>2. FilesOK' BY <2>1 DEF TypeInv, FilesOK
  <2> QED BY <1>6, <2>2
       DEF SweepFile, TypeInv, PartsOK, ManifestOK, Engine, Session, engineVars, sessionVars
<1>7. CASE WriteManifest
  <2>1. manifest' = [load |-> cur.load, seq |-> cur.seq, names |-> NewNames] BY <1>7 DEF WriteManifest
  <2>2. UnitOf(manifest') = UnitOf(cur) BY <2>1 DEF UnitOf
  <2>3. ManifestOK' BY <1>2, <1>3, <2>1, <2>2 DEF ManifestOK
  <2>4. \A n \in Stale : n.table \in Table
    BY DEF Stale, TypeInv, ManifestOK, Name
  <2>5. touched' \subseteq Table BY <1>7, <2>4 DEF WriteManifest
  <2> QED BY <1>7, <2>3, <2>5
       DEF WriteManifest, TypeInv, PartsOK, FilesOK, Engine, Session, Attempting, engineVars
<1>8. CASE PublishPart
  <2> DEFINE f == File(Head(staged).table, cur, Head(staged).index, Head(staged).rows)
  <2>1. staged # <<>> /\ staged \in Seq(Part) /\ \A k \in DOMAIN staged : staged[k].rows # {}
    BY <1>8 DEF PublishPart, TypeInv, PartsOK
  <2>2. Head(staged) \in Part /\ Head(staged).rows # {} BY <2>1
  <2>3. f \in [name : Name, rows : SUBSET Row] /\ f.rows # {}
    BY <1>3, <2>2 DEF File, FinalName, Name, Part
  <2>4. finals' \subseteq finals \cup {f} /\ durable' \subseteq finals \cup durable \cup {f}
    BY <1>8 DEF PublishPart, SetFinals, Put, Without
  <2>5. FilesOK' BY <2>3, <2>4 DEF TypeInv, FilesOK
  <2>6. staged' \in Seq(Part) /\ \A k \in DOMAIN staged' : k + 1 \in DOMAIN staged /\ staged'[k] = staged[k + 1]
    BY <1>8, <2>1 DEF PublishPart
  <2>7. PartsOK' BY <2>1, <2>6 DEF PartsOK
  <2>8. touched' \subseteq Table BY <1>8, <2>2 DEF PublishPart, TypeInv, Session, Part
  <2> QED BY <1>8, <2>5, <2>7, <2>8 DEF PublishPart, TypeInv, ManifestOK, Engine, Session, engineVars
<1>9. CASE SyncDirs
  <2>1. finals' = finals /\ durable' \subseteq finals \cup durable BY <1>9 DEF SyncDirs
  <2>2. FilesOK' BY <2>1 DEF TypeInv, FilesOK
  <2> QED BY <1>9, <2>2
       DEF SyncDirs, TypeInv, PartsOK, ManifestOK, Engine, Session, Attempting, engineVars
<1> QED BY <1>4, <1>5, <1>6, <1>7, <1>8, <1>9

LEMMA TypeRest ==
  ASSUME Sane, TypeInv,
         \/ OpenSession \/ (\E t \in Table : EnsureTable(t)) \/ Replay \/ WriteState \/ WriteReceipt
         \/ SessionDies \/ PowerLoss
  PROVE  TypeInv'
<1>1. CASE OpenSession
  <2>1. cur' = cur /\ FreshUnit BY <1>1 DEF OpenSession, engineVars
  <2>2. PartsOK' /\ Session' BY <1>1, <2>1, FreshOK DEF OpenSession, TypeInv, Session, Engine
  <2> QED BY <1>1, <2>2 DEF OpenSession, TypeInv, FilesOK, ManifestOK, Engine, diskVars, engineVars
<1>2. CASE \E t \in Table : EnsureTable(t)
  BY <1>2 DEF EnsureTable, TypeInv, PartsOK, FilesOK, ManifestOK, Engine, Session, diskVars, engineVars
<1>3. CASE Replay
  <2>1. cur' = cur /\ FreshUnit BY <1>3 DEF Replay, engineVars
  <2>2. PartsOK' /\ Session' BY <1>3, <2>1, FreshOK DEF Replay, TypeInv, Session, Engine
  <2> QED BY <1>3, <2>2 DEF Replay, TypeInv, FilesOK, ManifestOK, Engine, diskVars, engineVars
<1>4. CASE WriteState
  <2>1. cur \in Unit BY <1>4 DEF WriteState, TypeInv, Session
  <2> QED BY <1>4, <2>1
       DEF WriteState, TypeInv, PartsOK, FilesOK, ManifestOK, Engine, Session, Attempting, engineVars
<1>5. CASE WriteReceipt
  <2>1. cur \in Unit BY <1>5 DEF WriteReceipt, TypeInv, Session
  <2> QED BY <1>5, <2>1
       DEF WriteReceipt, TypeInv, PartsOK, FilesOK, ManifestOK, Engine, Session, engineVars
<1>6. CASE SessionDies
  <2>1. cur' = cur /\ FreshUnit BY <1>6 DEF SessionDies
  <2>2. PartsOK' /\ Session' BY <1>6, <2>1, FreshOK DEF SessionDies, TypeInv, Session, Engine
  <2>3. deaths' \in 0 .. MaxDeaths BY <1>6 DEF SessionDies, TypeInv, Engine, Sane, LoadAssumption
  <2> QED BY <1>6, <2>2, <2>3 DEF SessionDies, TypeInv, FilesOK, ManifestOK, Engine, diskVars
<1>7. CASE PowerLoss
  <2>1. cur' = cur /\ FreshUnit BY <1>7 DEF PowerLoss
  <2>2. PartsOK' /\ Session' BY <1>7, <2>1, FreshOK DEF PowerLoss, TypeInv, Session, Engine
  <2>3. deaths' \in 0 .. MaxDeaths BY <1>7 DEF PowerLoss, TypeInv, Engine, Sane, LoadAssumption
  <2>4. finals' \subseteq finals \cup durable /\ durable' \subseteq finals \cup durable
    BY <1>7 DEF PowerLoss, Without
  <2>5. FilesOK' BY <2>4 DEF TypeInv, FilesOK
  <2> QED BY <1>7, <2>2, <2>3, <2>5 DEF PowerLoss, TypeInv, ManifestOK, Engine
<1> QED BY <1>1, <1>2, <1>3, <1>4, <1>5, <1>6, <1>7

LEMMA TypeAck == ASSUME Sane, TypeInv, EngineAck PROVE TypeInv'
<1>1. cur \in Unit /\ cur.load \in 1 .. MaxLoad /\ cur.seq \in 1 .. MaxSeq /\ MaxLoad \in Nat /\ MaxSeq \in Nat
  BY DEF EngineAck, TypeInv, Session, Unit, Sane, LoadAssumption
<1>2. /\ cur' \in Unit \cup {Past} /\ pc' \in {"none", "loading"}
      /\ pc' # "none" => cur' \in Unit
      /\ tables' \subseteq Table
  <2>1. CASE cur.seq < MaxSeq
    <3>1. cur' = [cur EXCEPT !.seq = cur.seq + 1] /\ pc' = "loading" /\ tables' = tables
      BY <2>1 DEF EngineAck
    <3>2. cur' \in Unit BY <1>1, <2>1, <3>1 DEF Unit
    <3> QED BY <3>1, <3>2 DEF TypeInv, Session
  <2>2. CASE ~(cur.seq < MaxSeq)
    <3>1. cur' = [load |-> cur.load + 1, seq |-> 1] /\ pc' = "none" /\ tables' = {}
      BY <2>2 DEF EngineAck
    <3>2. 1 \in 1 .. MaxSeq BY <1>1
    <3>3. cur' \in Unit \cup {Past} BY <1>1, <3>1, <3>2 DEF Unit, Past
    <3> QED BY <3>1, <3>3
  <2> QED BY <2>1, <2>2
<1>3. FreshUnit BY DEF EngineAck
<1>4. PartsOK' /\ Session' BY <1>2, <1>3, FreshOK DEF Session
<1>5. Engine' BY <1>1, <1>2 DEF EngineAck, TypeInv, Engine, diskVars
<1> QED BY <1>4, <1>5 DEF EngineAck, TypeInv, FilesOK, ManifestOK, diskVars

LEMMA TypeStep == ASSUME Sane, TypeInv, [Next]_vars PROVE TypeInv'
<1>1. CASE UNCHANGED vars
  BY <1>1 DEF vars, diskVars, engineVars, sessionVars, TypeInv, PartsOK, FilesOK, ManifestOK,
              Engine, Session
<1>2. CASE Next
  BY <1>2, TypeWrite, TypeBegin, TypeFiles, TypeRest, TypeAck DEF Next, Progress, Publish
<1> QED BY <1>1, <1>2

LEMMA TypeInvOK == ASSUME Sane, TypeInv PROVE TypeOK
<1>1. \A f \in finals \cup durable : f.name.table \in Table /\ f.rows # {}
  BY DEF TypeInv, FilesOK, Name
<1> QED BY <1>1 DEF TypeInv, Engine, Session, TypeOK, Attempting, Past

\* Sessions, documents and files keep their types, whatever dies and whether or
\* not power is lost (TypeOK): in particular no session is given more rows than
\* its unit has, and every file has rows.
THEOREM TypeCorrect == ASSUME Sane PROVE Spec => []TypeOK
<1>1. Init => TypeInv BY TypeInit
<1>2. TypeInv /\ [Next]_vars => TypeInv' BY TypeStep
<1>3. TypeInv => TypeOK BY TypeInvOK
<1> QED BY <1>1, <1>2, <1>3, PTL DEF Spec

-----------------------------------------------------------------------------
(* The session: each row in one part *)

\* A row names its unit.
LEMMA RowsOf ==
  ASSUME NEW u, NEW t, NEW r \in Rows(u, t)
  PROVE  r.unit = u
BY DEF Rows

LEMMA Appended ==
  ASSUME NEW s \in Seq(Part), NEW p \in Part
  PROVE  \E l : /\ DOMAIN Append(s, p) = DOMAIN s \cup {l} /\ l \notin DOMAIN s
                /\ Append(s, p)[l] = p /\ \A k \in DOMAIN s : Append(s, p)[k] = s[k]
<1>1. /\ DOMAIN Append(s, p) = DOMAIN s \cup {Len(s) + 1} /\ Len(s) + 1 \notin DOMAIN s
      /\ Append(s, p)[Len(s) + 1] = p /\ \A k \in DOMAIN s : Append(s, p)[k] = s[k]
  OBVIOUS
<1> QED BY <1>1

\* What a staged part is.
LEMMA PartFields ==
  ASSUME staged \in Seq(Part)
  PROVE  \A k \in DOMAIN staged :
           staged[k] \in Part /\ staged[k].table \in Table /\ staged[k].index \in Nat
<1>1. \A k \in DOMAIN staged : staged[k] \in Part OBVIOUS
<1> QED BY <1>1 DEF Part

LEMMA TakenRows ==
  ASSUME Sane, TypeInv, cur \in Unit, NEW t \in Table
  PROVE  /\ Taken(t) \subseteq Rows(cur, t)
         /\ sent[t] = Feed(cur, t) => Taken(t) = Rows(cur, t)
<1>1. sent[t] \in Nat /\ Feed(cur, t) \in Nat /\ sent[t] <= Feed(cur, t)
  BY CurOK DEF TypeInv, Session
<1> QED BY <1>1 DEF Taken, Rows

\* A session with nothing yet has each of its no rows in one part.
LEMMA FreshParts ==
  ASSUME Sane, FreshUnit, pc' \in {"none", "loading", "answered"}
  PROVE  Parts'
<1>1. staged' = <<>> /\ DOMAIN staged' = {} /\ open' = [t \in Table |-> {}] /\ sent' = [t \in Table |-> 0]
  BY DEF FreshUnit
<1>2. \A t \in Table : (Taken(t))' = {} BY <1>1 DEF Taken
<1>3. Cut' BY <1>1, <1>2 DEF Cut
<1>4. Indexed' /\ Distinct' /\ OfUnit' BY <1>1 DEF Indexed, Distinct, OfUnit
<1> QED BY <1>3, <1>4 DEF Parts, Attempting

\* A row written goes to the open part, or into the part that it fills.
LEMMA CutWrite ==
  ASSUME Sane, TypeInv, NEW t \in Table, Write(t), Cut
  PROVE  Cut'
<1> DEFINE r == [unit |-> cur, n |-> sent[t] + 1]
           p == [table |-> t, index |-> PartIndex(staged, t), rows |-> open[t] \cup {r}]
<1>1. /\ cur \in Unit /\ sent' = [sent EXCEPT ![t] = sent[t] + 1] /\ sent[t] + 1 <= Feed(cur, t)
      /\ p \in Part
      /\ \/ open' = [open EXCEPT ![t] = open[t] \cup {r}] /\ staged' = staged
         \/ open' = [open EXCEPT ![t] = {}] /\ staged' = Append(staged, p)
  BY WriteOK
<1>2. cur' = cur BY DEF Write, engineVars
<1>3. sent \in [Table -> Nat] /\ open \in [Table -> SUBSET Row] /\ staged \in Seq(Part)
  BY DEF TypeInv, Session, PartsOK
<1>4. (Taken(t))' = Taken(t) \cup {r} /\ r \notin Taken(t)
  <2>1. sent'[t] = sent[t] + 1 /\ sent[t] \in Nat BY <1>1, <1>3
  <2> DEFINE n == sent[t]
  <2>2. n \in Nat /\ \A i : i \in 1 .. n + 1 <=> (i \in 1 .. n \/ i = n + 1) BY <2>1
  <2>3. (Taken(t))' = {[unit |-> cur, n |-> i] : i \in 1 .. n + 1} BY <1>2, <2>1 DEF Taken
  <2>4. Taken(t) = {[unit |-> cur, n |-> i] : i \in 1 .. n} BY DEF Taken
  <2>5. n + 1 \notin 1 .. n BY <2>1
  <2> HIDE DEF n
  <2>6. \A i : r = [unit |-> cur, n |-> i] => i = n + 1 BY DEF n
  <2>7. r = [unit |-> cur, n |-> n + 1] BY DEF n
  <2>8. (Taken(t))' = Taken(t) \cup {r} BY <2>2, <2>3, <2>4, <2>7
  <2>9. r \notin Taken(t) BY <2>4, <2>5, <2>6
  <2> QED BY <2>8, <2>9
<1>5. \A s \in Table \ {t} : (Taken(s))' = Taken(s) /\ open'[s] = open[s]
  BY <1>1, <1>2, <1>3 DEF Taken
<1>6. /\ open[t] \subseteq Taken(t)
      /\ \A k \in DOMAIN staged : staged[k].table = t => staged[k].rows \subseteq Taken(t)
      /\ \A x \in Taken(t) :
         /\ x \in open[t] \/ \E k \in DOMAIN staged : Has(k, t, x)
         /\ \A k \in DOMAIN staged : Has(k, t, x) =>
              /\ x \notin open[t]
              /\ \A l \in DOMAIN staged : Has(l, t, x) => k = l
  BY DEF Cut
<1>7. CASE open' = [open EXCEPT ![t] = open[t] \cup {r}] /\ staged' = staged
  <2>1. open'[t] = open[t] \cup {r} BY <1>3, <1>7
  <2>2. \A k, s, x : Has(k, s, x)' <=> Has(k, s, x) BY <1>7 DEF Has
  <2>3. ASSUME NEW s \in Table \ {t}
        PROVE  /\ open'[s] \subseteq (Taken(s))'
               /\ \A k \in DOMAIN staged' : staged'[k].table = s => staged'[k].rows \subseteq (Taken(s))'
               /\ \A x \in (Taken(s))' :
                  /\ x \in open'[s] \/ \E k \in DOMAIN staged' : Has(k, s, x)'
                  /\ \A k \in DOMAIN staged' : Has(k, s, x)' =>
                       /\ x \notin open'[s]
                       /\ \A l \in DOMAIN staged' : Has(l, s, x)' => k = l
    BY <1>5, <1>7, <2>2, <2>3 DEF Cut
  <2>4. \A k \in DOMAIN staged : ~Has(k, t, r) BY <1>4, <1>6 DEF Has
  <2>5. /\ open'[t] \subseteq (Taken(t))'
        /\ \A k \in DOMAIN staged' : staged'[k].table = t => staged'[k].rows \subseteq (Taken(t))'
    BY <1>4, <1>6, <1>7, <2>1
  <2>6. \A x \in (Taken(t))' :
          /\ x \in open'[t] \/ \E k \in DOMAIN staged' : Has(k, t, x)'
          /\ \A k \in DOMAIN staged' : Has(k, t, x)' =>
               /\ x \notin open'[t]
               /\ \A l \in DOMAIN staged' : Has(l, t, x)' => k = l
    BY <1>4, <1>6, <1>7, <2>1, <2>2, <2>4
  <2> QED BY <2>3, <2>5, <2>6 DEF Cut
<1>8. CASE open' = [open EXCEPT ![t] = {}] /\ staged' = Append(staged, p)
  <2>1. open'[t] = {} BY <1>3, <1>8
  <2>2. p.table = t /\ p.rows = open[t] \cup {r} OBVIOUS
  <2> HIDE DEF p
  <2>3. PICK L : /\ DOMAIN staged' = DOMAIN staged \cup {L} /\ L \notin DOMAIN staged
                 /\ staged'[L] = p /\ \A k \in DOMAIN staged : staged'[k] = staged[k]
    BY <1>1, <1>3, <1>8, Appended
  <2>4. \A k \in DOMAIN staged : \A s, x : Has(k, s, x)' <=> Has(k, s, x) BY <2>3 DEF Has
  <2>5. \A s, x : Has(L, s, x)' <=> (s = t /\ (x \in open[t] \/ x = r)) BY <2>2, <2>3 DEF Has
  <2> HIDE DEF r
  <2>6. ASSUME NEW s \in Table \ {t}
        PROVE  /\ open'[s] \subseteq (Taken(s))'
               /\ \A k \in DOMAIN staged' : staged'[k].table = s => staged'[k].rows \subseteq (Taken(s))'
               /\ \A x \in (Taken(s))' :
                  /\ x \in open'[s] \/ \E k \in DOMAIN staged' : Has(k, s, x)'
                  /\ \A k \in DOMAIN staged' : Has(k, s, x)' =>
                       /\ x \notin open'[s]
                       /\ \A l \in DOMAIN staged' : Has(l, s, x)' => k = l
    <3>1. \A x : ~Has(L, s, x)' BY <2>5, <2>6
    <3>2. \A k \in DOMAIN staged' : staged'[k].table = s => k \in DOMAIN staged BY <2>2, <2>3, <2>6
    <3> QED BY <1>5, <2>3, <2>4, <2>6, <3>1, <3>2 DEF Cut
  <2>7. \A k \in DOMAIN staged : ~Has(k, t, r) BY <1>4, <1>6 DEF Has
  <2>8. /\ open'[t] \subseteq (Taken(t))'
        /\ \A k \in DOMAIN staged' : staged'[k].table = t => staged'[k].rows \subseteq (Taken(t))'
    BY <1>4, <1>6, <2>1, <2>2, <2>3
  <2>9. ASSUME NEW x \in (Taken(t))'
        PROVE  \E k \in DOMAIN staged' : Has(k, t, x)'
    BY <1>4, <1>6, <2>3, <2>4, <2>5
  <2>10. ASSUME NEW x \in (Taken(t))', NEW k \in DOMAIN staged', NEW l \in DOMAIN staged',
                Has(k, t, x)', Has(l, t, x)'
         PROVE  k = l
    <3>1. CASE k = L /\ l = L BY <3>1
    <3>2. CASE k = L /\ l \in DOMAIN staged BY <1>4, <1>6, <2>4, <2>5, <2>7, <2>10, <3>2
    <3>3. CASE k \in DOMAIN staged /\ l = L BY <1>4, <1>6, <2>4, <2>5, <2>7, <2>10, <3>3
    <3>4. CASE k \in DOMAIN staged /\ l \in DOMAIN staged
      BY <1>4, <1>6, <2>4, <2>7, <2>10, <3>4
    <3> QED BY <2>3, <3>1, <3>2, <3>3, <3>4
  <2> QED BY <2>1, <2>6, <2>8, <2>9, <2>10 DEF Cut
<1> QED BY <1>1, <1>7, <1>8

\* Its index is the number of parts of its table before it.
LEMMA IndexedWrite ==
  ASSUME Sane, TypeInv, NEW t \in Table, Write(t), Indexed, Distinct
  PROVE  Indexed' /\ Distinct'
<1> DEFINE r == [unit |-> cur, n |-> sent[t] + 1]
           p == [table |-> t, index |-> PartIndex(staged, t), rows |-> open[t] \cup {r}]
<1>1. p \in Part /\ (staged' = staged \/ staged' = Append(staged, p)) BY WriteOK
<1>2. staged \in Seq(Part) BY DEF TypeInv, PartsOK
<1>3. CASE staged' = staged BY <1>3 DEF Indexed, Distinct
<1>4. CASE staged' = Append(staged, p)
  <2>1. p.table = t /\ p.index = PartIndex(staged, t) OBVIOUS
  <2> HIDE DEF p
  <2>2. PICK L : /\ DOMAIN staged' = DOMAIN staged \cup {L} /\ L \notin DOMAIN staged
                 /\ staged'[L] = p /\ \A k \in DOMAIN staged : staged'[k] = staged[k]
    BY <1>1, <1>2, <1>4, Appended
  <2>3. \A s : PartIndex(staged', s) = PartIndex(staged, s) + (IF s = t THEN 1 ELSE 0)
    BY <1>1, <1>2, <1>4, <2>1, PartIndexAppend
  <2>4. \A s : PartIndex(staged, s) \in Nat BY <1>2, PartIndexType
  <2>5. \A k \in DOMAIN staged : staged[k].index \in Nat BY <1>2, PartFields
  <2>6. ASSUME NEW k \in DOMAIN staged' PROVE staged'[k].index < PartIndex(staged', staged'[k].table)
    <3>1. CASE k = L BY <2>1, <2>2, <2>3, <2>4, <3>1
    <3>2. CASE k \in DOMAIN staged
      <4>1. staged[k].index < PartIndex(staged, staged[k].table) BY <3>2 DEF Indexed
      <4>2. PartIndex(staged, staged[k].table) <= PartIndex(staged', staged[k].table) BY <2>3, <2>4
      <4>3. PartIndex(staged', staged[k].table) \in Nat BY <2>3, <2>4
      <4> QED BY <2>2, <2>4, <2>5, <3>2, <4>1, <4>2, <4>3
    <3> QED BY <2>2, <3>1, <3>2
  <2>7. \A k \in DOMAIN staged : staged[k].table = t => staged[k].index # p.index
    BY <2>1, <2>4, <2>5 DEF Indexed
  <2>8. Distinct' BY <2>1, <2>2, <2>7 DEF Distinct
  <2> QED BY <2>6, <2>8 DEF Indexed
<1> QED BY <1>1, <1>3, <1>4

LEMMA PartsWrite ==
  ASSUME Sane, TypeInv, TypeInv', NEW t \in Table, Write(t), Parts
  PROVE  Parts'
<1>1. pc = "loading" /\ pc' = "loading" /\ cur' = cur /\ cur \in Unit
  BY DEF Write, TypeInv, Session, engineVars
<1>2. Cut /\ Indexed /\ Distinct BY <1>1 DEF Parts
<1>3. Cut' /\ Indexed' /\ Distinct' BY <1>2, CutWrite, IndexedWrite
<1>4. \A s \in Table : (Taken(s))' \subseteq Rows(cur, s)
  <2> SUFFICES ASSUME NEW s \in Table PROVE (Taken(s))' \subseteq Rows(cur, s) OBVIOUS
  <2>1. sent'[s] \in Nat /\ sent'[s] <= Feed(cur, s) /\ Feed(cur, s) \in Nat
    BY <1>1, CurOK DEF TypeInv, Session
  <2> QED BY <1>1, <2>1 DEF Taken, Rows
<1>5. \A k \in DOMAIN staged' : staged'[k].table \in Table
  <2>1. \A k \in DOMAIN staged' : staged'[k] \in Part BY DEF TypeInv, PartsOK
  <2> QED BY <2>1 DEF Part
<1>6. OfUnit' BY <1>1, <1>3, <1>4, <1>5 DEF OfUnit, Cut
<1> QED BY <1>1, <1>3, <1>6 DEF Parts, Attempting

\* What is staged when the commit begins is the unit, each row once.
LEMMA PartsBegin ==
  ASSUME Sane, TypeInv, TypeInv', BeginPublish, Parts
  PROVE  Parts'
<1>1. pc = "loading" /\ pc' \in {"truncate", "sweep"} /\ cur' = cur /\ cur \in Unit /\ staged' = CloseAll
  BY DEF BeginPublish, TypeInv, Session, engineVars
<1>2. Cut /\ Indexed /\ Distinct /\ OfUnit BY <1>1 DEF Parts
<1>3. IsFiniteSet(Table) /\ staged \in Seq(Part) /\ open \in [Table -> SUBSET Row]
  BY DEF Sane, TypeInv, PartsOK, Session
<1> DEFINE New == DOMAIN staged' \ DOMAIN staged
<1>4. /\ DOMAIN staged \subseteq DOMAIN staged'
      /\ \A k \in DOMAIN staged : staged'[k] = staged[k]
      /\ \A k \in New :
              /\ staged'[k].table \in Table /\ open[staged'[k].table] # {}
              /\ staged'[k].rows = open[staged'[k].table]
              /\ staged'[k].index = PartIndex(staged, staged'[k].table)
      /\ \A k, l \in New : staged'[k].table = staged'[l].table => k = l
      /\ \A t \in Table : open[t] # {} => \E k \in New : staged'[k].table = t
  BY <1>1, <1>3, CloseAllEffect
<1>5. \A t \in Table : Taken(t) = Rows(cur, t) BY <1>1, TakenRows DEF BeginPublish, Delivered
<1>6. \A k \in DOMAIN staged' : k \in DOMAIN staged \/ k \in New OBVIOUS
<1> HIDE DEF New
<1>7. OfUnit'
  <2>1. ASSUME NEW k \in DOMAIN staged' PROVE staged'[k].rows \subseteq Rows(cur, staged'[k].table)
    <3>1. CASE k \in DOMAIN staged BY <1>2, <1>4, <3>1 DEF OfUnit
    <3>2. CASE k \in New BY <1>2, <1>4, <1>5, <3>2 DEF Cut
    <3> QED BY <1>6, <3>1, <3>2
  <2> QED BY <1>1, <2>1 DEF OfUnit
<1>8. Distinct'
  <2>1. \A k \in DOMAIN staged : staged[k].index \in Nat BY <1>3, PartFields
  <2>2. \A s : PartIndex(staged, s) \in Nat BY <1>3, PartIndexType
  <2>3. \A k \in DOMAIN staged, l \in New :
          staged'[k].table = staged'[l].table => staged'[k].index # staged'[l].index
    BY <1>2, <1>4, <2>1, <2>2 DEF Indexed
  <2>4. ASSUME NEW k \in DOMAIN staged', NEW l \in DOMAIN staged',
               staged'[k].table = staged'[l].table, staged'[k].index = staged'[l].index
        PROVE  k = l
    <3>1. CASE k \in DOMAIN staged /\ l \in DOMAIN staged BY <1>2, <1>4, <2>4, <3>1 DEF Distinct
    <3>2. CASE k \in New /\ l \in New BY <1>4, <2>4, <3>2
    <3> QED BY <1>6, <2>3, <2>4, <3>1, <3>2
  <2> QED BY <2>4 DEF Distinct
<1>9. Whole'
  <2> SUFFICES ASSUME NEW t \in Table, NEW r \in Rows(cur, t)
               PROVE  \E k \in DOMAIN staged' :
                        Has(k, t, r)' /\ \A l \in DOMAIN staged' : Has(l, t, r)' => l = k
    BY <1>1 DEF Whole
  <2>1. r \in Taken(t) BY <1>5
  <2>2. \A k \in DOMAIN staged : Has(k, t, r)' <=> Has(k, t, r) BY <1>4 DEF Has
  <2>3. \A k \in New : Has(k, t, r)' <=> staged'[k].table = t /\ r \in open[t] BY <1>4 DEF Has
  <2>4. /\ r \in open[t] \/ \E k \in DOMAIN staged : Has(k, t, r)
        /\ \A k \in DOMAIN staged : Has(k, t, r) =>
              /\ r \notin open[t]
              /\ \A l \in DOMAIN staged : Has(l, t, r) => k = l
    BY <1>2, <2>1 DEF Cut
  <2>5. CASE r \in open[t]
    <3>1. PICK k \in New : staged'[k].table = t BY <1>4, <2>5
    <3>2. k \in DOMAIN staged' /\ Has(k, t, r)' BY <2>3, <2>5, <3>1 DEF New
    <3>3. \A l \in DOMAIN staged' : Has(l, t, r)' => l = k
      BY <1>4, <1>6, <2>2, <2>3, <2>4, <2>5, <3>1
    <3> QED BY <3>2, <3>3
  <2>6. CASE r \notin open[t]
    <3>1. PICK k \in DOMAIN staged : Has(k, t, r) BY <2>4, <2>6
    <3>2. k \in DOMAIN staged' /\ Has(k, t, r)' BY <1>4, <2>2, <3>1
    <3>3. \A l \in DOMAIN staged' : Has(l, t, r)' => l = k
      BY <1>6, <2>2, <2>3, <2>4, <2>6, <3>1
    <3> QED BY <3>2, <3>3
  <2> QED BY <2>5, <2>6
<1> QED BY <1>1, <1>7, <1>8, <1>9 DEF Parts, Attempting

-----------------------------------------------------------------------------
(* The commit: each row in one file *)

\* Only files of r's unit and table can have it.
LEMMA OnceKeeps ==
  ASSUME NEW A, NEW B, NEW t, NEW r, Once(A, t, r),
         \A f : f.name.table = t /\ r \in f.rows => (f \in A <=> f \in B)
  PROVE  Once(B, t, r)
BY DEF Once

\* Where a commit neither adds nor removes files of committed units, these have
\* what they had.
LEMMA CommittedKeeps ==
  ASSUME Committed, receipts' = receipts, cur' = cur, dirty => dirty',
         \A f \in finals \cup finals' : f.rows \subseteq Rows(UnitOf(f.name), f.name.table),
         \A f \in finals \cup finals' : UnitOf(f.name) \in receipts => (f \in finals <=> f \in finals')
  PROVE  Committed'
<1> SUFFICES ASSUME NEW u \in receipts, NEW t \in Table, Kept(u, t)', NEW r \in Rows(u, t)
             PROVE  Once(finals', t, r)
  BY DEF Committed
<1>1. Once(finals, t, r) BY DEF Committed, Kept
<1>2. \A f \in finals \cup finals' : r \in f.rows => UnitOf(f.name) = u BY RowsOf
<1>3. \A f : f.name.table = t /\ r \in f.rows => (f \in finals <=> f \in finals') BY <1>2
<1> QED BY <1>1, <1>3, OnceKeeps

\* The names of the parts a commit has still to publish.
LEMMA NewNamesAre ==
  ASSUME NEW k \in DOMAIN staged
  PROVE  Piece(k).name \in NewNames /\ Piece(k).name.table = staged[k].table
         /\ Piece(k).rows = staged[k].rows /\ UnitOf(Piece(k).name) = UnitOf(cur)
         /\ Piece(k).name.index = staged[k].index
BY DEF Piece, File, FinalName, NewNames, UnitOf

\* Publishing the first part moves it from what is to come to what has landed.
LEMMA PublishEffect ==
  ASSUME Sane, TypeInv, PublishPart, FileOf, Distinct
  PROVE  LET f == Piece(1) IN
         /\ 1 \in DOMAIN staged
         /\ finals' = {g \in finals : g.name # f.name} \cup {f}
         /\ cur' = cur /\ cur \in Unit /\ manifest' = manifest /\ receipts' = receipts /\ dirty'
         /\ pc = "publish" /\ pc' = "publish" /\ tables' = tables
         /\ staged' \in Seq(Part)
         /\ \A k \in DOMAIN staged' : k + 1 \in DOMAIN staged /\ staged'[k] = staged[k + 1]
         /\ \A k \in DOMAIN staged : k = 1 \/ (k - 1 \in DOMAIN staged' /\ staged'[k - 1] = staged[k])
         /\ f.name \notin NewNames' /\ NewNames = NewNames' \cup {f.name}
<1> DEFINE f == Piece(1)
<1>1. staged \in Seq(Part) /\ staged # <<>> /\ staged' = Tail(staged)
  BY DEF PublishPart, TypeInv, PartsOK
<1>2. 1 \in DOMAIN staged /\ Head(staged) = staged[1] BY <1>1
<1>3. finals' = {g \in finals : g.name # f.name} \cup {f}
  BY <1>2 DEF PublishPart, SetFinals, Put, Without, Piece, File
<1>4. cur' = cur /\ cur \in Unit /\ pc = "publish" /\ pc' = "publish" /\ tables' = tables
      /\ manifest' = manifest /\ receipts' = receipts /\ dirty'
  BY DEF PublishPart, TypeInv, Session, engineVars
<1>5. /\ staged' \in Seq(Part)
      /\ \A k \in DOMAIN staged' : k + 1 \in DOMAIN staged /\ staged'[k] = staged[k + 1] /\ k + 1 # 1
      /\ \A k \in DOMAIN staged : k = 1 \/ (k - 1 \in DOMAIN staged' /\ staged'[k - 1] = staged[k])
  BY <1>1
<1> DEFINE N(p) == FinalName(p.table, cur, p.index)
<1>6. NewNames = {N(staged[k]) : k \in DOMAIN staged} BY DEF NewNames
<1>7. NewNames' = {N(staged'[k]) : k \in DOMAIN staged'} BY <1>4 DEF NewNames
<1>8. f.name = N(staged[1]) BY DEF Piece, File
<1>9. \A k \in DOMAIN staged : N(staged[k]) = N(staged[1]) => k = 1
  BY <1>2 DEF Distinct, FinalName
<1> HIDE DEF N, f
<1>10. f.name \notin NewNames' BY <1>5, <1>7, <1>8, <1>9
<1>11. NewNames = NewNames' \cup {f.name} BY <1>2, <1>5, <1>6, <1>7, <1>8
<1> QED BY <1>2, <1>3, <1>4, <1>5, <1>10, <1>11 DEF f

LEMMA PartsPublish ==
  ASSUME Sane, TypeInv, PublishPart, Parts, FileOf, Control
  PROVE  Parts'
<1>1. pc = "publish" BY DEF PublishPart
<1>2. Distinct /\ OfUnit /\ \A t \in Table : \A r \in Rows(cur, t) : Once(Pieces, t, r)
  BY <1>1 DEF Parts, Attempting
<1>3. PICK f : f = Piece(1) OBVIOUS
<1>4. /\ 1 \in DOMAIN staged
      /\ finals' = {g \in finals : g.name # f.name} \cup {f}
      /\ cur' = cur /\ cur \in Unit
      /\ pc' = "publish"
      /\ staged' \in Seq(Part)
      /\ \A k \in DOMAIN staged' : k + 1 \in DOMAIN staged /\ staged'[k] = staged[k + 1]
      /\ \A k \in DOMAIN staged : k = 1 \/ (k - 1 \in DOMAIN staged' /\ staged'[k - 1] = staged[k])
      /\ f.name \notin NewNames' /\ NewNames = NewNames' \cup {f.name}
  BY <1>2, <1>3, PublishEffect
<1>5. \A k \in DOMAIN staged' : k \in Int BY <1>4
<1>6. Distinct'
  <2> SUFFICES ASSUME NEW k \in DOMAIN staged', NEW l \in DOMAIN staged',
                      staged'[k].table = staged'[l].table, staged'[k].index = staged'[l].index
               PROVE  k = l
    BY DEF Distinct
  <2>1. k + 1 = l + 1 BY <1>2, <1>4 DEF Distinct
  <2> QED BY <1>5, <2>1
<1>7. OfUnit' BY <1>2, <1>4 DEF OfUnit
<1>8. UnitOf(f.name) = cur
  <2>1. UnitOf(cur) = cur BY <1>4, CurOK DEF TypeInv
  <2> QED BY <1>3, <1>4, <2>1, NewNamesAre
<1>9. Landed' = Landed \cup {f}
  <2>1. Landed' = {g \in finals' : UnitOf(g.name) = cur /\ g.name \notin NewNames'} BY <1>4 DEF Landed
  <2> QED BY <1>4, <1>8, <2>1 DEF Landed
<1>10. {Piece(k) : k \in DOMAIN staged} = {f} \cup {Piece(k) : k \in DOMAIN staged}'
  <2> DEFINE F(p) == File(p.table, cur, p.index, p.rows)
  <2>1. {Piece(k) : k \in DOMAIN staged} = {F(staged[k]) : k \in DOMAIN staged} BY DEF Piece
  <2>2. {Piece(k) : k \in DOMAIN staged}' = {F(staged'[k]) : k \in DOMAIN staged'} BY <1>4 DEF Piece
  <2>3. f = F(staged[1]) BY <1>3 DEF Piece
  <2> HIDE DEF F
  <2>4. \A k \in DOMAIN staged : F(staged[k]) = f \/ \E l \in DOMAIN staged' : F(staged[k]) = F(staged'[l])
    BY <1>4, <2>3
  <2>5. \A l \in DOMAIN staged' : \E k \in DOMAIN staged : F(staged'[l]) = F(staged[k]) BY <1>4
  <2>6. \E k \in DOMAIN staged : f = F(staged[k]) BY <1>4, <2>3
  <2>7. {F(staged[k]) : k \in DOMAIN staged} = {f} \cup {F(staged'[k]) : k \in DOMAIN staged'}
    BY <2>4, <2>5, <2>6
  <2> QED BY <2>1, <2>2, <2>7
<1>11. Pieces' = Pieces BY <1>9, <1>10 DEF Pieces
<1>12. \A t \in Table : \A r \in Rows(cur, t) : Once(Pieces', t, r) BY <1>2, <1>11
<1> QED BY <1>4, <1>6, <1>7, <1>12 DEF Parts, Attempting

\* The manifest is replaced when no file is left that this attempt will not
\* write: each row is in one of the files to come.
LEMMA PartsManifest ==
  ASSUME Sane, TypeInv, WriteManifest, Parts, FileOf, Announced, Control
  PROVE  Parts' /\ \A f \in finals : UnitOf(f.name) \notin receipts => f.name \in NewNames
<1>1. pc = "sweep" /\ pc' = "publish" /\ cur' = cur /\ staged' = staged /\ finals' = finals /\ cur \in Unit
  BY DEF WriteManifest, TypeInv, Session, engineVars
<1>2. Distinct /\ OfUnit /\ Whole /\ cur \notin receipts BY <1>1 DEF Parts, Attempting, Control
<1>3. NewNames' = NewNames BY <1>1 DEF NewNames
<1>4. \A f \in finals : UnitOf(f.name) \notin receipts => f.name \in NewNames
  <2> SUFFICES ASSUME NEW f \in finals, UnitOf(f.name) \notin receipts PROVE f.name \in NewNames OBVIOUS
  <2>1. UnitOf(f.name) = cur BY DEF FileOf
  <2>2. manifest.load = f.name.load /\ manifest.seq = f.name.seq /\ f.name \in manifest.names
    BY DEF Announced, ManifestCovers, UnitOf
  <2>3. f.name.load = cur.load /\ f.name.seq = cur.seq
    BY <2>1 DEF UnitOf
  <2>4. f.name \in NamesOf(finals) BY DEF NamesOf
  <2> QED BY <2>2, <2>3, <2>4 DEF WriteManifest, Stale
<1>5. Landed = {} BY <1>2, <1>4 DEF Landed
<1>6. \A k, t, r : Has(k, t, r)' <=> Has(k, t, r) BY <1>1 DEF Has
<1>7. ASSUME NEW t \in Table, NEW r \in Rows(cur, t) PROVE Once(Pieces, t, r)
  <2>1. PICK k \in DOMAIN staged : Has(k, t, r) /\ \A l \in DOMAIN staged : Has(l, t, r) => l = k
    BY <1>2 DEF Whole
  <2>2. Pieces = {Piece(l) : l \in DOMAIN staged} BY <1>5 DEF Pieces
  <2>3. Piece(k) \in Pieces /\ Piece(k).name.table = t /\ r \in Piece(k).rows
    BY <2>1, <2>2, NewNamesAre DEF Has
  <2>4. \A l \in DOMAIN staged : Piece(l).name.table = t /\ r \in Piece(l).rows => l = k
    BY <2>1, NewNamesAre DEF Has
  <2> QED BY <2>2, <2>3, <2>4 DEF Once
<1>8. Pieces' = Pieces BY <1>1, <1>3 DEF Pieces, Landed, Piece
<1>9. Distinct' /\ OfUnit' BY <1>1, <1>2 DEF Distinct, OfUnit
<1>10. \A t \in Table : \A r \in Rows(cur, t) : Once(Pieces', t, r) BY <1>7, <1>8
<1> QED BY <1>1, <1>4, <1>9, <1>10 DEF Parts, Attempting

\* When all is published, each row of the unit is in one file.
LEMMA AllLanded ==
  ASSUME Sane, TypeInv, FileOf, Parts, pc = "receipt", NEW t \in Table, NEW r \in Rows(cur, t)
  PROVE  Once(finals, t, r)
<1>1. Once(Pieces, t, r) /\ staged = <<>> BY DEF Parts
<1>2. NewNames = {} /\ DOMAIN staged = {} BY <1>1 DEF NewNames
<1>3. Pieces = {f \in finals : UnitOf(f.name) = cur} BY <1>2 DEF Pieces, Landed
<1>4. \A f \in finals : f.name.table = t /\ r \in f.rows => UnitOf(f.name) = cur
  BY RowsOf DEF FileOf
<1> QED BY <1>1, <1>3, <1>4 DEF Once

-----------------------------------------------------------------------------
(* The invariant, one action at a time *)

LEMMA FileInit == ASSUME Sane, Init PROVE FileInv
<1>1. /\ finals = {} /\ receipts = {} /\ pc = "none" /\ dirty = FALSE BY DEF Init
<1> QED BY <1>1 DEF FileInv, Control, Parts, FileOf, Announced, ManifestCovers, Reloaded, Committed, Attempting

\* What a step keeps that changes no file, no document and not the unit.
LEMMA DiskKeeps ==
  ASSUME FileInv, UNCHANGED <<finals, manifest, receipts, cur, dirty>>,
         pc' \in {"none", "loading", "answered", "truncate"}
         \/ (pc' = "sweep" /\ (pc \in Attempting \ {"truncate"} \/ ~FirstCommitOfLoad))
         \/ (pc' \in {"state", "receipt"} /\ pc \in {"publish", "state", "receipt"})
  PROVE  FileOf' /\ Announced' /\ Reloaded' /\ Committed'
<1>1. FileOf' BY DEF FileInv, FileOf
<1>2. Announced' BY DEF FileInv, Announced, ManifestCovers
<1>3. Reloaded'
  <2>1. FirstCommitOfLoad' = FirstCommitOfLoad BY DEF FirstCommitOfLoad
  <2> QED BY <2>1 DEF FileInv, Reloaded, Attempting
<1>4. Committed'
  <2>1. \A u, t : Kept(u, t)' <=> Kept(u, t) BY DEF Kept
  <2> QED BY <2>1 DEF FileInv, Committed
<1> QED BY <1>1, <1>2, <1>3, <1>4

\* A step outside a commit.
LEMMA FileQuiet ==
  ASSUME Sane, TypeInv, TypeInv', FileInv,
         \/ OpenSession \/ (\E t \in Table : EnsureTable(t) \/ Write(t)) \/ Replay \/ SessionDies
  PROVE  FileInv'
<1>1. UNCHANGED <<finals, manifest, receipts, cur, dirty>> /\ pc' \in {"none", "loading", "answered"}
      /\ (pc' = "answered" => cur \in receipts)
  BY DEF OpenSession, EnsureTable, Write, Replay, SessionDies, diskVars, engineVars
<1>2. FileOf' /\ Announced' /\ Reloaded' /\ Committed' BY <1>1, DiskKeeps
<1>3. Control' BY <1>1 DEF FileInv, Control, Attempting
<1>4. Parts'
  <2>1. CASE \E t \in Table : Write(t) BY <2>1, PartsWrite DEF FileInv
  <2>2. CASE \E t \in Table : EnsureTable(t)
    <3>1. UNCHANGED <<sent, open, staged, cur, finals, pc>> /\ pc = "loading"
      BY <2>2 DEF EnsureTable, diskVars, engineVars
    <3> QED BY <3>1
         DEF FileInv, Parts, Cut, Taken, Has, Indexed, PartIndex, Distinct, OfUnit, Attempting
  <2>3. CASE FreshUnit BY <1>1, <2>3, FreshParts
  <2> QED BY <2>1, <2>2, <2>3 DEF OpenSession, Replay, SessionDies
<1> QED BY <1>2, <1>3, <1>4 DEF FileInv

LEMMA FileBegin == ASSUME Sane, TypeInv, TypeInv', FileInv, BeginPublish PROVE FileInv'
<1>1. /\ UNCHANGED <<finals, manifest, receipts, cur, dirty, tables>> /\ cur \notin receipts
      /\ Table \ Late \subseteq tables
      /\ pc' = IF FirstCommitOfLoad THEN "truncate" ELSE "sweep"
  BY DEF BeginPublish, Delivered, diskVars, engineVars
<1>2. FileOf' /\ Announced' /\ Reloaded' /\ Committed' BY <1>1, DiskKeeps
<1>3. FirstCommitOfLoad' = FirstCommitOfLoad BY <1>1 DEF FirstCommitOfLoad
<1>4. Control' BY <1>1, <1>3 DEF FileInv, Control, Attempting
<1>5. Parts' BY PartsBegin DEF FileInv
<1> QED BY <1>2, <1>4, <1>5 DEF FileInv

\* Parts says nothing of files until they are published.
LEMMA PartsStay ==
  ASSUME Parts, UNCHANGED <<sent, open, staged, cur>>, pc \in {"truncate", "sweep"},
         pc' \in {"truncate", "sweep"}
  PROVE  Parts'
BY DEF Parts, Distinct, OfUnit, Whole, Has, Attempting

\* A file is removed before the first commit of its load.
LEMMA FileTruncate == ASSUME Sane, TypeInv, FileInv, TruncateFile PROVE FileInv'
<1>1. /\ pc = "truncate" /\ pc' = pc /\ dirty' /\ UNCHANGED <<manifest, receipts, cur, tables, sent, open, staged>>
      /\ finals' \subseteq finals
      /\ \A f \in finals \ finals' : Mode[f.name.table] = "replace"
  BY DEF TruncateFile, SetFinals, Replaced, engineVars, sessionVars
<1>2. FirstCommitOfLoad /\ FirstCommitOfLoad' BY <1>1 DEF FileInv, Control, FirstCommitOfLoad
<1>3. Control' BY <1>1, <1>2 DEF FileInv, Control, Attempting
<1>4. Parts' BY <1>1, PartsStay DEF FileInv
<1>5. FileOf' BY <1>1 DEF FileInv, FileOf
<1>6. Announced' BY <1>1 DEF FileInv, Announced, ManifestCovers
<1>7. Reloaded' BY <1>1, <1>2 DEF Reloaded
<1>8. Committed'
  <2> SUFFICES ASSUME NEW u \in receipts, NEW t \in Table, Kept(u, t)', NEW r \in Rows(u, t)
               PROVE  Once(finals', t, r)
    BY <1>1 DEF Committed
  <2>1. Mode[t] = "append" BY <1>1, <1>2 DEF Kept, FirstCommitOfLoad
  <2>2. Once(finals, t, r) BY <2>1 DEF FileInv, Committed, Kept
  <2>3. \A f : f.name.table = t /\ r \in f.rows => (f \in finals <=> f \in finals') BY <1>1, <2>1
  <2> QED BY <2>2, <2>3, OnceKeeps
<1> QED BY <1>3, <1>4, <1>5, <1>6, <1>7, <1>8 DEF FileInv

LEMMA FileTruncated == ASSUME Sane, LateAssumption, TypeInv, FileInv, TruncateDone PROVE FileInv'
<1>1. /\ pc = "truncate" /\ pc' = "sweep" /\ Replaced = {}
      /\ UNCHANGED <<finals, manifest, receipts, cur, tables, sent, open, staged, dirty>>
  BY DEF TruncateDone, diskVars, engineVars
<1>2. FirstCommitOfLoad' = FirstCommitOfLoad /\ FirstCommitOfLoad
  BY <1>1 DEF FileInv, Control, FirstCommitOfLoad
<1>3. Control' BY <1>1 DEF FileInv, Control, Attempting
<1>4. Parts' BY <1>1, PartsStay DEF FileInv
<1>5. FileOf' BY <1>1 DEF FileInv, FileOf
<1>6. Announced' BY <1>1 DEF FileInv, Announced, ManifestCovers
<1>7. \A f \in finals : Mode[f.name.table] # "replace"
  <2> SUFFICES ASSUME NEW f \in finals, Mode[f.name.table] = "replace" PROVE FALSE OBVIOUS
  <2>1. f.name.table \in Table BY DEF TypeInv, FilesOK, Name
  <2>2. f.name.table \notin Late BY DEF LateAssumption
  <2>3. f.name.table \in tables BY <1>1, <2>1, <2>2 DEF FileInv, Control, Attempting
  <2> QED BY <1>1, <2>3 DEF Replaced
<1>8. Reloaded' BY <1>1, <1>7 DEF Reloaded
<1>9. Committed'
  <2>1. \A u, t : Kept(u, t)' <=> Kept(u, t) BY <1>1 DEF Kept
  <2> QED BY <1>1, <2>1 DEF FileInv, Committed
<1> QED BY <1>3, <1>4, <1>5, <1>6, <1>8, <1>9 DEF FileInv

\* Only files of the current unit are swept.
LEMMA FileSweep == ASSUME Sane, TypeInv, FileInv, SweepFile PROVE FileInv'
<1>1. PICK n \in Stale : finals' = Without(finals, {n})
  BY DEF SweepFile, SetFinals
<1>2. /\ pc = "sweep" /\ pc' = pc /\ dirty' /\ UNCHANGED <<manifest, receipts, cur, tables, sent, open, staged>>
  BY DEF SweepFile, engineVars, sessionVars
<1>3. UnitOf(n) = cur /\ cur \notin receipts
  <2>1. cur \in Unit /\ UnitOf(cur) = cur BY <1>2, CurOK DEF TypeInv, Session
  <2>2. n \in manifest.names /\ manifest.load = cur.load /\ manifest.seq = cur.seq BY DEF Stale
  <2>3. UnitOf(manifest) = UnitOf(cur) BY <2>2 DEF UnitOf
  <2> QED BY <1>2, <2>1, <2>2, <2>3 DEF TypeInv, ManifestOK, FileInv, Control, Attempting
<1>4. finals' \subseteq finals /\ \A f \in finals : UnitOf(f.name) \in receipts => f \in finals'
  BY <1>1, <1>3 DEF Without
<1>5. FirstCommitOfLoad' = FirstCommitOfLoad BY <1>2 DEF FirstCommitOfLoad
<1>6. Control' BY <1>2 DEF FileInv, Control, Attempting
<1>7. Parts' BY <1>2, PartsStay DEF FileInv
<1>8. FileOf' BY <1>2, <1>4 DEF FileInv, FileOf
<1>9. Announced' BY <1>2, <1>4 DEF FileInv, Announced, ManifestCovers
<1>10. Reloaded' BY <1>2, <1>4, <1>5 DEF FileInv, Reloaded
<1>11. Committed' BY <1>2, <1>4, CommittedKeeps DEF FileInv, FileOf
<1> QED BY <1>6, <1>7, <1>8, <1>9, <1>10, <1>11 DEF FileInv

LEMMA FileManifest == ASSUME Sane, TypeInv, FileInv, WriteManifest PROVE FileInv'
<1>1. /\ pc = "sweep" /\ pc' = "publish" /\ cur \in Unit
      /\ UNCHANGED <<finals, receipts, cur, tables, staged, dirty>>
      /\ manifest' = [load |-> cur.load, seq |-> cur.seq, names |-> NewNames]
  BY DEF WriteManifest, TypeInv, Session, engineVars
<1>2. Parts' /\ \A f \in finals : UnitOf(f.name) \notin receipts => f.name \in NewNames
  BY PartsManifest DEF FileInv
<1>3. FirstCommitOfLoad' = FirstCommitOfLoad BY <1>1 DEF FirstCommitOfLoad
<1>4. Control' BY <1>1 DEF FileInv, Control, Attempting
<1>5. FileOf' BY <1>1 DEF FileInv, FileOf
<1>6. Announced'
  <2>1. UnitOf(manifest') = cur /\ NewNames' = NewNames
    <3>1. UnitOf(cur) = cur BY <1>1, CurOK DEF TypeInv
    <3> QED BY <1>1, <3>1 DEF UnitOf, NewNames
  <2>2. ManifestCovers'
    <3> SUFFICES ASSUME NEW f \in finals, UnitOf(f.name) \notin receipts
                 PROVE  /\ manifest'.load = f.name.load /\ manifest'.seq = f.name.seq
                        /\ f.name \in manifest'.names
      BY <1>1 DEF ManifestCovers, UnitOf
    <3>1. UnitOf(f.name) = cur BY DEF FileInv, FileOf
    <3>2. f.name.load = cur.load /\ f.name.seq = cur.seq BY <3>1 DEF UnitOf
    <3> QED BY <1>1, <1>2, <3>2
  <2> QED BY <1>1, <2>1, <2>2 DEF Announced
<1>7. Reloaded' BY <1>1, <1>3 DEF FileInv, Reloaded
<1>8. Committed'
  <2>1. \A u, t : Kept(u, t)' <=> Kept(u, t) BY <1>1 DEF Kept
  <2> QED BY <1>1, <2>1 DEF FileInv, Committed
<1> QED BY <1>2, <1>4, <1>5, <1>6, <1>7, <1>8 DEF FileInv

LEMMA FilePublish == ASSUME Sane, TypeInv, TypeInv', FileInv, PublishPart PROVE FileInv'
<1>1. FileOf /\ Control /\ Parts BY DEF FileInv
<1>2. pc = "publish" BY DEF PublishPart
<1>3. Distinct /\ OfUnit /\ cur \notin receipts BY <1>1, <1>2 DEF Parts, Control, Attempting
<1>4. PICK f : f = Piece(1) OBVIOUS
<1>5. /\ 1 \in DOMAIN staged
      /\ finals' = {g \in finals : g.name # f.name} \cup {f}
      /\ cur' = cur /\ cur \in Unit /\ manifest' = manifest /\ receipts' = receipts /\ dirty'
      /\ pc' = "publish" /\ tables' = tables
      /\ NewNames = NewNames' \cup {f.name}
  BY <1>1, <1>3, <1>4, PublishEffect
<1>6. /\ UnitOf(f.name) = cur /\ f.rows = staged[1].rows /\ f.name.table = staged[1].table
      /\ f.name.load = cur.load
  <2>1. UnitOf(cur) = cur BY <1>5, CurOK DEF TypeInv
  <2> QED BY <1>4, <1>5, <2>1, NewNamesAre DEF UnitOf
<1>7. f.rows \subseteq Rows(UnitOf(f.name), f.name.table) BY <1>3, <1>5, <1>6 DEF OfUnit
<1>8. FirstCommitOfLoad' = FirstCommitOfLoad BY <1>5 DEF FirstCommitOfLoad
<1>9. Control' BY <1>2, <1>5 DEF FileInv, Control, Attempting
<1>10. Parts' BY <1>1, PartsPublish
<1>11. FileOf'
  <2>1. \A g \in finals' : UnitOf(g.name) \in receipts \cup {cur} /\ g.rows \subseteq Rows(UnitOf(g.name), g.name.table)
    BY <1>5, <1>6, <1>7 DEF FileInv, FileOf
  <2>2. \A g, h \in finals' : g.name = h.name => g = h BY <1>5 DEF FileInv, FileOf
  <2> QED BY <1>5, <2>1, <2>2 DEF FileOf
<1>12. Announced'
  <2>1. UnitOf(manifest) = cur /\ NewNames \subseteq manifest.names /\ ManifestCovers
    BY <1>2 DEF FileInv, Announced
  <2>2. f.name \in manifest.names /\ manifest.load = f.name.load /\ manifest.seq = f.name.seq
    BY <1>5, <1>6, <2>1 DEF UnitOf
  <2>3. ManifestCovers' BY <1>5, <2>1, <2>2 DEF ManifestCovers
  <2> QED BY <1>5, <2>1, <2>3 DEF Announced
<1>13. Reloaded' BY <1>2, <1>5, <1>6, <1>8 DEF FileInv, Reloaded
<1>14. Committed'
  <2>1. \A g \in finals \cup finals' : g.rows \subseteq Rows(UnitOf(g.name), g.name.table)
    BY <1>5, <1>7 DEF FileInv, FileOf
  <2>2. \A g \in finals \cup finals' : UnitOf(g.name) \in receipts => (g \in finals <=> g \in finals')
    BY <1>3, <1>5, <1>6
  <2> QED BY <1>5, <2>1, <2>2, CommittedKeeps DEF FileInv
<1> QED BY <1>9, <1>10, <1>11, <1>12, <1>13, <1>14 DEF FileInv

LEMMA FileRecord == ASSUME Sane, TypeInv, FileInv, SyncDirs \/ WriteState PROVE FileInv'
<1>1. /\ UNCHANGED <<finals, manifest, receipts, cur, tables, staged, dirty>>
      /\ staged = <<>> /\ pc \in {"publish", "state"} /\ pc' \in {"state", "receipt"}
  BY DEF SyncDirs, WriteState, FileInv, Parts, engineVars
<1>2. FileOf' /\ Announced' /\ Reloaded' /\ Committed' BY <1>1, DiskKeeps
<1>3. Control' BY <1>1 DEF FileInv, Control, Attempting
<1>4. Parts'
  <2>1. Pieces' = Pieces BY <1>1 DEF Pieces, Landed, NewNames, Piece
  <2>2. Distinct' /\ OfUnit' BY <1>1 DEF Distinct, OfUnit
  <2>3. \A t \in Table : \A r \in Rows(cur, t) : Once(Pieces', t, r) BY <1>1, <2>1 DEF FileInv, Parts
  <2> QED BY <1>1, <2>2, <2>3 DEF Parts
<1> QED BY <1>2, <1>3, <1>4 DEF FileInv

\* The receipt: what was published is the unit, each row once, and nothing else.
LEMMA FileReceipt == ASSUME Sane, TypeInv, FileInv, WriteReceipt PROVE FileInv'
<1>1. /\ pc = "receipt" /\ pc' = "answered" /\ cur \in Unit /\ ~dirty' /\ receipts' = receipts \cup {cur}
      /\ UNCHANGED <<finals, manifest, cur, tables, staged>>
  BY DEF WriteReceipt, TypeInv, Session, engineVars
<1>2. cur.load \in Nat /\ \A u \in receipts : u.load \in Nat /\ u.load <= cur.load
  BY <1>1, CurOK DEF TypeInv, Engine, Unit, FileInv, Control
<1>3. Control' BY <1>1, <1>2 DEF Control, Attempting
<1>4. Parts' BY <1>1 DEF Parts, Attempting
<1>5. FileOf' BY <1>1 DEF FileInv, FileOf
<1>6. Announced' BY <1>1 DEF FileInv, Announced, ManifestCovers
<1>7. Reloaded' BY <1>1, <1>2 DEF FileInv, Reloaded
<1>8. Committed'
  <2> SUFFICES ASSUME NEW u \in receipts', NEW t \in Table, Kept(u, t)', NEW r \in Rows(u, t)
               PROVE  Once(finals, t, r)
    BY <1>1 DEF Committed
  <2>1. CASE u = cur BY <1>1, <2>1, AllLanded DEF FileInv
  <2>2. CASE u \in receipts
    <3>1. cur \in receipts' BY <1>1
    <3>2. Mode[t] = "append" \/ u.load = cur.load \/ cur.load <= u.load BY <1>1, <3>1 DEF Kept
    <3>3. Kept(u, t) BY <1>2, <2>2, <3>2 DEF Kept
    <3> QED BY <2>2, <3>3 DEF FileInv, Committed
  <2> QED BY <1>1, <2>1, <2>2
<1> QED BY <1>3, <1>4, <1>5, <1>6, <1>7, <1>8 DEF FileInv

LEMMA FileAck == ASSUME Sane, TypeInv, FileInv, EngineAck PROVE FileInv'
<1>1. /\ pc = "answered" /\ cur \in Unit /\ UNCHANGED <<finals, manifest, receipts, dirty>> /\ FreshUnit
      /\ cur \in receipts /\ ~dirty
  BY DEF EngineAck, TypeInv, Session, diskVars, FileInv, Control
<1>2. cur.load \in Nat /\ \A u \in receipts : u.load \in Nat /\ u.load <= cur.load
  BY <1>1, CurOK DEF TypeInv, Engine, Unit, FileInv, Control
<1>3. \/ cur'.load = cur.load /\ pc' = "loading"
      \/ cur'.load = cur.load + 1 /\ pc' = "none"
  <2>1. CASE cur.seq < MaxSeq
    <3>1. cur' = [cur EXCEPT !.seq = cur.seq + 1] /\ pc' = "loading" BY <2>1 DEF EngineAck
    <3> QED BY <1>1, <3>1 DEF Unit
  <2>2. CASE ~(cur.seq < MaxSeq)
    BY <2>2 DEF EngineAck
  <2> QED BY <2>1, <2>2
<1>4. Control' BY <1>1, <1>2, <1>3 DEF Control, Attempting
<1>5. Parts' BY <1>1, <1>3, FreshParts
<1>6. FileOf' BY <1>1 DEF FileInv, FileOf
<1>7. Announced' BY <1>1, <1>3 DEF FileInv, Announced, ManifestCovers
<1>8. Reloaded'
  <2>1. CASE cur'.load = cur.load
    <3>1. FirstCommitOfLoad' = FirstCommitOfLoad BY <1>1, <2>1 DEF FirstCommitOfLoad
    <3> QED BY <1>1, <1>3, <2>1, <3>1 DEF FileInv, Reloaded
  <2>2. CASE cur'.load = cur.load + 1
    <3>1. FirstCommitOfLoad' BY <1>1, <1>2, <2>2 DEF FirstCommitOfLoad
    <3> QED BY <1>1, <1>3, <3>1 DEF FileInv, Reloaded
  <2> QED BY <1>3, <2>1, <2>2
<1>9. Committed'
  <2> SUFFICES ASSUME NEW u \in receipts, NEW t \in Table, Kept(u, t)' PROVE Kept(u, t)
    BY <1>1 DEF FileInv, Committed
  <2>1. u.load <= cur.load /\ u.load \in Nat BY <1>2
  <2> QED BY <1>1, <1>2, <1>3, <2>1 DEF Kept
<1> QED BY <1>4, <1>5, <1>6, <1>7, <1>8, <1>9 DEF FileInv

LEMMA FileStep ==
  ASSUME Sane, LateAssumption, NoPowerLoss, TypeInv, TypeInv', FileInv, [Next]_vars
  PROVE  FileInv'
<1>1. CASE UNCHANGED vars
  BY <1>1 DEF vars, diskVars, engineVars, sessionVars, FileInv, Control, Parts, FileOf, Announced,
     ManifestCovers, Reloaded, Committed, Kept, FirstCommitOfLoad, Cut, Taken, Has, Indexed, PartIndex,
     Distinct, OfUnit, Whole, Pieces, Landed, Piece, NewNames, FinalName
<1>2. ~PowerLoss BY DEF NoPowerLoss, PowerLoss
<1>3. CASE Publish
  BY <1>3, FileBegin, FileTruncate, FileTruncated, FileSweep, FileManifest, FilePublish, FileRecord,
     FileReceipt DEF Publish
<1>4. CASE OpenSession \/ (\E t \in Table : EnsureTable(t) \/ Write(t)) \/ Replay \/ SessionDies
  BY <1>4, FileQuiet
<1> QED BY <1>1, <1>2, <1>3, <1>4, FileAck DEF Next, Progress

LEMMA FileAlways ==
  ASSUME Sane, LateAssumption, NoPowerLoss
  PROVE  Spec => [](TypeInv /\ FileInv)
<1>1. Init => TypeInv /\ FileInv BY TypeInit, FileInit
<1>2. TypeInv /\ FileInv /\ [Next]_vars => (TypeInv /\ FileInv)' BY TypeStep, FileStep
<1> QED BY <1>1, <1>2, PTL DEF Spec

\* Where nothing undoes a rename or a removal, no file of an unfinished attempt
\* is outside the manifest on record (ManifestCovers; publish phase 3a), whatever
\* dies where and however a retry cuts its rows into parts.
THEOREM NoOrphans ==
  ASSUME Sane, LateAssumption, NoPowerLoss
  PROVE  Spec => []ManifestCovers
<1>1. FileInv => ManifestCovers BY DEF FileInv, Announced
<1> QED BY <1>1, FileAlways, PTL

-----------------------------------------------------------------------------
(* The commit protocol implements ExactlyOnce *)

\* Of whose rows the abstract destination shows each once.
LEMMA CurrentIs ==
  ASSUME Sane, NEW t \in Table
  PROVE  /\ Mode[t] = "append" \/ Mode[t] = "replace"
         /\ Mode[t] = "append" => Abstract!Current(receipts, t) = receipts
         /\ Mode[t] = "replace" =>
              Abstract!Current(receipts, t) = {u \in receipts : \A v \in receipts : v.load <= u.load}
BY DEF Sane, LoadAssumption, Abstract!Current, Abstract!Newest

\* Between attempts a reader finds what the abstract destination shows.
Shown == ~dirty => View = Abstract!Exact(receipts)

LEMMA FoundExact ==
  ASSUME Sane, TypeInv, FileInv, ~dirty, NEW t \in Table, NEW r
  PROVE  Found(t, r) = IF \E u \in Abstract!Current(receipts, t) : r \in Rows(u, t) THEN 1 ELSE 0
<1> DEFINE F == {f \in finals : f.name.table = t /\ r \in f.rows}
<1>1. CASE \E u \in Abstract!Current(receipts, t) : r \in Rows(u, t)
  <2>1. PICK u \in Abstract!Current(receipts, t) : r \in Rows(u, t) BY <1>1
  <2>2. u \in receipts /\ Kept(u, t) BY CurrentIs DEF Kept
  <2>3. Once(finals, t, r) BY <2>1, <2>2 DEF FileInv, Committed
  <2>4. \E f : F = {f} BY <2>3 DEF Once
  <2>5. Cardinality(F) = 1 BY <2>4, FS_Singleton
  <2> QED BY <1>1, <2>5 DEF Found
<1>2. CASE ~\E u \in Abstract!Current(receipts, t) : r \in Rows(u, t)
  <2>1. ASSUME NEW f \in F PROVE FALSE
    <3>1. UnitOf(f.name) \in receipts /\ r \in Rows(UnitOf(f.name), t) BY DEF FileInv, FileOf
    <3>2. UnitOf(f.name).load = f.name.load BY DEF UnitOf
    <3>3. Mode[t] = "replace" => \A v \in receipts : v.load <= f.name.load
      BY DEF FileInv, Reloaded
    <3>4. UnitOf(f.name) \in Abstract!Current(receipts, t) BY <3>1, <3>2, <3>3, CurrentIs
    <3> QED BY <1>2, <3>1, <3>4
  <2>2. F = {} BY <2>1
  <2>3. Cardinality(F) = 0 BY <2>2, FS_EmptySet
  <2> QED BY <1>2, <2>3 DEF Found
<1> QED BY <1>1, <1>2

LEMMA ViewExact == ASSUME Sane, TypeInv, FileInv PROVE Shown
<1> SUFFICES ASSUME ~dirty PROVE View = Abstract!Exact(receipts) BY DEF Shown
<1> DEFINE W(t, r) == IF \E u \in Abstract!Current(receipts, t) : r \in Rows(u, t) THEN 1 ELSE 0
<1>1. \A t \in Table : Abstract!AllRows(t) = UNION {Rows(u, t) : u \in Unit} BY DEF Abstract!AllRows
<1>2. Abstract!Exact(receipts) = [t \in Table |-> [r \in Abstract!AllRows(t) |-> W(t, r)]]
  BY DEF Abstract!Exact
<1>3. \A t \in Table : \A r : Found(t, r) = W(t, r) BY FoundExact
<1> HIDE DEF W
<1>4. View = [t \in Table |-> [r \in UNION {Rows(u, t) : u \in Unit} |-> Found(t, r)]] BY DEF View
<1> QED BY <1>1, <1>2, <1>3, <1>4

LEMMA StepImplements ==
  ASSUME Sane, NoPowerLoss, TypeInv, TypeInv', FileInv, FileInv', Shown, Shown', [Next]_vars
  PROVE  [Abstract!ENext]_(Abstract!evars)
<1>1. CASE UNCHANGED <<finals, receipts, acked, dirty>>
  <2>1. View' = View BY <1>1 DEF View, Found
  <2> QED BY <1>1, <2>1 DEF Abstract!evars
<1>2. CASE TruncateFile \/ SweepFile \/ PublishPart
  <2>1. cur \in Unit /\ cur \notin receipts
    BY <1>2 DEF TruncateFile, SweepFile, PublishPart, TypeInv, Session, FileInv, Control, Attempting
  <2>2. dirty' /\ UNCHANGED <<receipts, acked>>
    BY <1>2 DEF TruncateFile, SweepFile, PublishPart, engineVars
  <2>3. View' = <<>> BY <2>2 DEF View
  <2>4. Abstract!Attempt BY <2>1, <2>2, <2>3 DEF Abstract!Attempt, Abstract!InDoubt
  <2> QED BY <2>4 DEF Abstract!ENext
<1>3. CASE WriteReceipt
  <2>1. cur \in Unit /\ cur \notin receipts
    BY <1>3 DEF WriteReceipt, TypeInv, Session, FileInv, Control, Attempting
  <2>2. ~dirty' /\ receipts' = receipts \cup {cur} /\ acked' = acked BY <1>3 DEF WriteReceipt, engineVars
  <2>3. View' = Abstract!Exact(receipts') BY <2>2 DEF Shown
  <2>4. Abstract!Commit(cur) BY <2>1, <2>2, <2>3 DEF Abstract!Commit
  <2> QED BY <2>1, <2>4 DEF Abstract!ENext
<1>4. CASE EngineAck
  <2>1. cur \in Unit /\ cur \in receipts BY <1>4 DEF EngineAck, TypeInv, Session, FileInv, Control
  <2>2. acked' = acked \cup {cur} /\ UNCHANGED <<finals, receipts, dirty>> BY <1>4 DEF EngineAck, diskVars
  <2>3. View' = View BY <2>2 DEF View, Found
  <2>4. Abstract!Ack(cur) BY <2>1, <2>2, <2>3 DEF Abstract!Ack
  <2> QED BY <2>1, <2>4 DEF Abstract!ENext
<1>5. CASE OpenSession \/ (\E t \in Table : EnsureTable(t) \/ Write(t)) \/ Replay \/ SessionDies
  BY <1>1, <1>5 DEF OpenSession, EnsureTable, Write, Replay, SessionDies, diskVars, engineVars
<1>6. CASE BeginPublish \/ TruncateDone \/ WriteManifest \/ SyncDirs \/ WriteState
  BY <1>1, <1>6 DEF BeginPublish, TruncateDone, WriteManifest, SyncDirs, WriteState, diskVars, engineVars
<1>7. CASE UNCHANGED vars BY <1>1, <1>7 DEF vars, diskVars, engineVars
<1>8. ~PowerLoss BY DEF NoPowerLoss, PowerLoss
<1> QED BY <1>2, <1>3, <1>4, <1>5, <1>6, <1>7, <1>8 DEF Next, Progress, Publish

\* The four-phase commit implements ExactlyOnce (ImplementsExactlyOnce) on both
\* storage arms, for any number of deaths at any step, however each delivery is
\* cut into parts: a unit takes effect once and exactly, and a reader between
\* attempts finds each row of it in one file.
THEOREM Refinement ==
  ASSUME Sane, LateAssumption, NoPowerLoss
  PROVE  Spec => ImplementsExactlyOnce
<1>1. Init => Abstract!EInit
  <2> SUFFICES ASSUME Init PROVE Abstract!EInit OBVIOUS
  <2>1. receipts = {} /\ acked = {} /\ ~dirty BY DEF Init
  <2>2. Shown BY TypeInit, FileInit, ViewExact
  <2>3. View = Abstract!Exact({}) BY <2>1, <2>2 DEF Shown
  <2> QED BY <2>1, <2>3 DEF Abstract!EInit
<1>2. TypeInv /\ FileInv => Shown BY ViewExact
<1>3. /\ TypeInv /\ FileInv /\ Shown
      /\ TypeInv' /\ FileInv' /\ Shown'
      /\ [Next]_vars
      => [Abstract!ENext]_(Abstract!evars)
  BY StepImplements
<1> QED BY <1>1, <1>2, <1>3, FileAlways, PTL DEF Spec, ImplementsExactlyOnce, Abstract!ESpec

-----------------------------------------------------------------------------
(* What a receipt says of stable storage, power loss included *)

\* The first commit of a load brings rows to the tables it reloads, so that the
\* directories it truncates are among those it syncs.
ReloadBrings ==
  \A u \in Unit, t \in Table : u.seq = 1 /\ Mode[t] = "replace" => Feed(u, t) > 0

\* The directory of t is not on disk as a reader sees it.
Unsynced(t) == {f \in finals : f.name.table = t} # {f \in durable : f.name.table = t}

\* Commits of a load follow one another.
Earlier == \A u \in Unit : u.load = cur.load /\ u.seq < cur.seq => u \in receipts

\* A manifest names parts of tables for which its unit has rows.
Named == \A n \in manifest.names : Feed(UnitOf(n), n.table) > 0

\* What is not on disk yet is of a table the current commit will sync.
Owed == \A t \in Table : Unsynced(t) => cur \in Unit \ receipts /\ Feed(cur, t) > 0

\* Every table with rows has a part to be published, or is among the touched.
ToSync ==
  /\ pc \in {"truncate", "sweep"} =>
       \A t \in Table : Feed(cur, t) > 0 => \E k \in DOMAIN staged : staged[k].table = t
  /\ pc = "publish" =>
       \A t \in Table : Feed(cur, t) > 0 =>
         t \in touched \/ \E k \in DOMAIN staged : staged[k].table = t
  /\ pc \in {"state", "receipt"} => durable = finals

Attempt ==
  /\ pc = "loading" => Cut /\ Indexed /\ Distinct
  /\ pc \in {"loading", "truncate", "sweep", "publish"} => OfUnit
  /\ pc \in Attempting => cur \notin receipts
  /\ pc = "truncate" => FirstCommitOfLoad
  /\ pc = "answered" => cur \in receipts

SyncInv == Earlier /\ Named /\ Owed /\ ToSync /\ Attempt

\* A part of the unit is of a table for which the unit has rows.
LEMMA PartHasRows ==
  ASSUME Sane, TypeInv, cur \in Unit, OfUnit, NEW k \in DOMAIN staged
  PROVE  staged[k].table \in Table /\ Feed(cur, staged[k].table) > 0
<1>1. staged[k].table \in Table /\ staged[k].rows # {} BY PartFields DEF TypeInv, PartsOK
<1>2. PICK r \in Rows(cur, staged[k].table) : TRUE BY <1>1 DEF OfUnit
<1>3. Feed(cur, staged[k].table) \in Nat BY <1>1, CurOK DEF TypeInv
<1> QED BY <1>1, <1>2, <1>3 DEF Rows

\* A change to the files of one table unsyncs no other.
LEMMA OneTable ==
  ASSUME NEW new, SetFinals(new), NEW t,
         \A f : f.name.table # t => (f \in new <=> f \in finals)
  PROVE  \A s \in Table : Unsynced(s)' => s = t \/ Unsynced(s)
<1>1. SUFFICES ASSUME NEW s \in Table, s # t, ~Unsynced(s) PROVE ~Unsynced(s)' OBVIOUS
<1>2. {f \in finals' : f.name.table = s} = {f \in finals : f.name.table = s}
  BY <1>1 DEF SetFinals
<1>3. CASE Arm = "s3"
  <2>1. durable' = finals' BY <1>3 DEF SetFinals
  <2> QED BY <2>1 DEF Unsynced
<1>4. CASE Arm # "s3"
  <2>1. durable' = durable BY <1>4 DEF SetFinals
  <2> QED BY <1>1, <1>2, <2>1 DEF Unsynced
<1> QED BY <1>3, <1>4

\* Nothing unsynced: the directories are on disk as a reader sees them.
LEMMA AllSynced ==
  ASSUME TypeInv, \A t \in Table : ~Unsynced(t)
  PROVE  durable = finals
<1>1. \A f \in finals \cup durable : f.name.table \in Table BY DEF TypeInv, FilesOK, Name
<1>2. ASSUME NEW f \in finals PROVE f \in durable
  <2>1. ~Unsynced(f.name.table) BY <1>1
  <2> QED BY <2>1 DEF Unsynced
<1>3. ASSUME NEW f \in durable PROVE f \in finals
  <2>1. ~Unsynced(f.name.table) BY <1>1
  <2> QED BY <2>1 DEF Unsynced
<1> QED BY <1>2, <1>3

LEMMA SyncInit == ASSUME Sane, Init PROVE SyncInv
<1>1. Earlier
  <2>1. \A u \in Unit : ~(u.seq < 1) BY DEF Unit, Sane, LoadAssumption
  <2> QED BY <2>1 DEF Earlier, Init
<1> QED BY <1>1 DEF Init, SyncInv, Named, NoManifest, Owed, Unsynced, ToSync, Attempt, Attempting

\* Documents and files as they were: what was owed is owed.
LEMMA SyncDisk ==
  ASSUME SyncInv, UNCHANGED <<finals, durable, manifest, receipts, cur>>
  PROVE  Earlier' /\ Named' /\ Owed'
BY DEF SyncInv, Earlier, Named, Owed, Unsynced

LEMMA SyncQuiet ==
  ASSUME Sane, TypeInv, TypeInv', SyncInv,
         OpenSession \/ (\E t \in Table : EnsureTable(t) \/ Write(t)) \/ Replay \/ SessionDies
  PROVE  SyncInv'
<1>1. UNCHANGED <<finals, durable, manifest, receipts, cur>>
  BY DEF OpenSession, EnsureTable, Write, Replay, SessionDies, diskVars, engineVars
<1>2. Earlier' /\ Named' /\ Owed' BY <1>1, SyncDisk
<1>3. pc' \in {"none", "loading", "answered"} /\ (pc' = "answered" => cur' \in receipts')
  BY <1>1 DEF OpenSession, EnsureTable, Write, Replay, SessionDies
<1>4. ToSync' BY <1>3 DEF ToSync
<1>5. pc' = "loading" => Cut' /\ Indexed' /\ Distinct' /\ OfUnit'
  <2>1. CASE OpenSession \/ Replay \/ SessionDies
    <3>1. FreshUnit BY <2>1 DEF OpenSession, Replay, SessionDies
    <3>2. Parts' BY <1>3, <3>1, FreshParts
    <3> QED BY <3>2 DEF Parts
  <2>2. CASE \E t \in Table : EnsureTable(t)
    <3>1. pc = "loading" /\ UNCHANGED <<staged, open, sent, cur>>
      BY <2>2 DEF EnsureTable, engineVars
    <3> QED BY <3>1 DEF SyncInv, Attempt, Cut, Taken, Has, Indexed, PartIndex, Distinct, OfUnit
  <2>3. CASE \E t \in Table : Write(t)
    <3>1. PICK t \in Table : Write(t) BY <2>3
    <3>2. pc = "loading" BY <3>1 DEF Write
    <3>3. Parts BY <3>2 DEF SyncInv, Attempt, Parts, Attempting
    <3>4. Parts' BY <3>1, <3>3, PartsWrite
    <3> QED BY <3>4 DEF Parts
  <2> QED BY <2>1, <2>2, <2>3
<1>6. Attempt' BY <1>3, <1>5 DEF Attempt, Attempting
<1> QED BY <1>2, <1>4, <1>6 DEF SyncInv

LEMMA SyncBegin ==
  ASSUME Sane, TypeInv, TypeInv', SyncInv, BeginPublish
  PROVE  SyncInv'
<1>1. /\ pc = "loading" /\ pc' \in {"truncate", "sweep"} /\ cur \notin receipts /\ cur \in Unit
      /\ pc' = "truncate" => FirstCommitOfLoad
      /\ UNCHANGED <<finals, durable, manifest, receipts, cur>>
  BY DEF BeginPublish, TypeInv, Session, diskVars, engineVars
<1>2. Parts BY <1>1 DEF SyncInv, Attempt, Parts, Attempting
<1>3. Parts' BY <1>2, PartsBegin
<1>4. Whole' /\ OfUnit' BY <1>1, <1>3 DEF Parts, Attempting
<1>5. ASSUME NEW t \in Table, Feed(cur, t) > 0
      PROVE  \E k \in DOMAIN staged' : staged'[k].table = t
  <2>1. Feed(cur, t) \in Nat BY <1>1, CurOK DEF TypeInv
  <2>2. [unit |-> cur, n |-> 1] \in Rows(cur, t) BY <1>5, <2>1 DEF Rows
  <2>3. PICK k \in DOMAIN staged' : Has(k, t, [unit |-> cur, n |-> 1])'
    BY <1>1, <1>4, <2>2 DEF Whole
  <2> QED BY <2>3 DEF Has
<1>6. ToSync' BY <1>1, <1>5 DEF ToSync
<1>7. Attempt' BY <1>1, <1>4 DEF Attempt, Attempting, FirstCommitOfLoad
<1> QED BY <1>1, <1>6, <1>7, SyncDisk DEF SyncInv

\* A load's first commit is its commit 1.
LEMMA FirstIsFirst ==
  ASSUME Sane, Earlier, cur \in Unit, FirstCommitOfLoad
  PROVE  cur.seq = 1
<1>1. cur.seq \in 1 .. MaxSeq /\ MaxSeq \in Nat /\ cur.load \in 1 .. MaxLoad
  BY DEF Unit, Sane, LoadAssumption
<1>2. CASE cur.seq # 1
  <2>1. PICK u : u = [load |-> cur.load, seq |-> cur.seq - 1] OBVIOUS
  <2>2. u \in Unit /\ u.load = cur.load /\ u.seq < cur.seq BY <1>1, <1>2, <2>1 DEF Unit
  <2> QED BY <2>2 DEF Earlier, FirstCommitOfLoad
<1> QED BY <1>2

LEMMA SyncRemove ==
  ASSUME Sane, ReloadBrings, TypeInv, SyncInv, TruncateFile \/ SweepFile
  PROVE  SyncInv'
<1>1. /\ cur \in Unit /\ cur \notin receipts
      /\ pc \in {"truncate", "sweep"}
      /\ UNCHANGED <<manifest, receipts, cur, pc, staged, touched>>
  BY DEF TruncateFile, SweepFile, TypeInv, Session, SyncInv, Attempt, Attempting, engineVars,
         sessionVars
<1>2. \E t \in Table : Feed(cur, t) > 0 /\ \A s \in Table : Unsynced(s)' => s = t \/ Unsynced(s)
  <2>1. CASE TruncateFile
    <3>1. PICK f \in Replaced : SetFinals(finals \ {f}) BY <2>1 DEF TruncateFile
    <3>2. f \in finals /\ f.name.table \in Table /\ Mode[f.name.table] = "replace"
      BY DEF Replaced, TypeInv, Session
    <3>3. cur.seq = 1 BY <1>1, <2>1, FirstIsFirst DEF TruncateFile, SyncInv, Attempt
    <3>4. Feed(cur, f.name.table) > 0 BY <1>1, <3>2, <3>3 DEF ReloadBrings
    <3>5. \A s \in Table : Unsynced(s)' => s = f.name.table \/ Unsynced(s)
      BY <3>1, OneTable
    <3> QED BY <3>2, <3>4, <3>5
  <2>2. CASE SweepFile
    <3>1. PICK n \in Stale : SetFinals(Without(finals, {n})) BY <2>2 DEF SweepFile
    <3>2. n \in manifest.names /\ manifest.load = cur.load /\ manifest.seq = cur.seq
      BY <3>1 DEF Stale
    <3>3. UnitOf(n) = UnitOf(manifest) /\ UnitOf(manifest) = UnitOf(cur) /\ UnitOf(cur) = cur
          /\ n.table \in Table
      BY <1>1, <3>2, CurOK DEF TypeInv, ManifestOK, UnitOf, Name
    <3>4. Feed(cur, n.table) > 0 BY <3>2, <3>3 DEF SyncInv, Named
    <3>5. \A f : f.name.table # n.table => (f \in Without(finals, {n}) <=> f \in finals)
      BY DEF Without
    <3>6. \A s \in Table : Unsynced(s)' => s = n.table \/ Unsynced(s) BY <3>1, <3>5, OneTable
    <3> QED BY <3>3, <3>4, <3>6
  <2> QED BY <2>1, <2>2
<1>3. Owed' BY <1>1, <1>2 DEF SyncInv, Owed
<1>4. Earlier' /\ Named' BY <1>1 DEF SyncInv, Earlier, Named
<1>5. ToSync' BY <1>1 DEF SyncInv, ToSync
<1>6. Attempt'
  BY <1>1 DEF SyncInv, Attempt, Attempting, FirstCommitOfLoad, OfUnit
<1> QED BY <1>3, <1>4, <1>5, <1>6 DEF SyncInv

LEMMA SyncTruncated == ASSUME SyncInv, TruncateDone PROVE SyncInv'
<1>1. /\ pc = "truncate" /\ pc' = "sweep"
      /\ UNCHANGED <<finals, durable, manifest, receipts, cur, staged>>
  BY DEF TruncateDone, diskVars, engineVars
<1>2. ToSync' /\ Attempt' BY <1>1 DEF SyncInv, ToSync, Attempt, Attempting, OfUnit
<1> QED BY <1>1, <1>2, SyncDisk DEF SyncInv

LEMMA SyncManifest == ASSUME Sane, TypeInv, SyncInv, WriteManifest PROVE SyncInv'
<1>1. /\ pc = "sweep" /\ pc' = "publish" /\ cur \in Unit
      /\ manifest' = [load |-> cur.load, seq |-> cur.seq, names |-> NewNames]
      /\ UNCHANGED <<finals, durable, receipts, cur, staged>>
  BY DEF WriteManifest, TypeInv, Session, engineVars
<1>2. Named'
  <2> SUFFICES ASSUME NEW n \in NewNames PROVE Feed(UnitOf(n), n.table) > 0
    BY <1>1 DEF Named
  <2>1. PICK k \in DOMAIN staged : n = FinalName(staged[k].table, cur, staged[k].index)
    BY DEF NewNames
  <2>2. UnitOf(n) = cur BY <1>1, NewNamesOK
  <2>3. n.table = staged[k].table BY <2>1 DEF FinalName
  <2> QED BY <1>1, <2>2, <2>3, PartHasRows DEF SyncInv, Attempt
<1>3. Earlier' /\ Owed' BY <1>1 DEF SyncInv, Earlier, Owed, Unsynced
<1>4. ToSync' /\ Attempt' BY <1>1 DEF SyncInv, ToSync, Attempt, Attempting, OfUnit
<1> QED BY <1>2, <1>3, <1>4 DEF SyncInv

LEMMA SyncPublish == ASSUME Sane, TypeInv, SyncInv, PublishPart PROVE SyncInv'
<1>1. /\ pc = "publish" /\ pc' = "publish" /\ cur \in Unit /\ cur \notin receipts
      /\ UNCHANGED <<manifest, receipts, cur>>
  BY DEF PublishPart, TypeInv, Session, SyncInv, Attempt, Attempting, engineVars
<1>2. PICK t : t = Head(staged).table OBVIOUS
<1>3. /\ staged \in Seq(Part) /\ staged # <<>> /\ staged' = Tail(staged)
      /\ touched' = touched \cup {t}
      /\ SetFinals(Put(finals, File(t, cur, Head(staged).index, Head(staged).rows)))
  BY <1>2 DEF PublishPart, TypeInv, PartsOK
<1>4. /\ 1 \in DOMAIN staged /\ staged[1].table = t
      /\ \A k \in DOMAIN staged' : k + 1 \in DOMAIN staged /\ staged'[k] = staged[k + 1]
      /\ \A k \in DOMAIN staged : k = 1 \/ (k - 1 \in DOMAIN staged' /\ staged'[k - 1] = staged[k])
  BY <1>2, <1>3
<1>5. OfUnit BY <1>1 DEF SyncInv, Attempt
<1>6. t \in Table /\ Feed(cur, t) > 0 BY <1>1, <1>4, <1>5, PartHasRows
<1>7. \A s \in Table : Unsynced(s)' => s = t \/ Unsynced(s)
  <2>1. PICK p : p = File(t, cur, Head(staged).index, Head(staged).rows) OBVIOUS
  <2>2. p.name.table = t BY <2>1 DEF File, FinalName
  <2>3. \A f : f.name.table # t => (f \in Put(finals, p) <=> f \in finals)
    BY <2>2 DEF Put, Without
  <2> QED BY <1>3, <2>1, <2>3, OneTable
<1>8. Owed' BY <1>1, <1>6, <1>7 DEF SyncInv, Owed
<1>9. Earlier' /\ Named' BY <1>1 DEF SyncInv, Earlier, Named
<1>10. ToSync'
  <2>1. ASSUME NEW s \in Table, Feed(cur, s) > 0
        PROVE  s \in touched' \/ \E k \in DOMAIN staged' : staged'[k].table = s
    <3>1. s \in touched \/ \E k \in DOMAIN staged : staged[k].table = s
      BY <1>1, <2>1 DEF SyncInv, ToSync
    <3>2. CASE s \in touched BY <1>3, <3>2
    <3>3. CASE \E k \in DOMAIN staged : staged[k].table = s
      <4>1. PICK k \in DOMAIN staged : staged[k].table = s BY <3>3
      <4>2. CASE k = 1 BY <1>3, <1>4, <4>1, <4>2
      <4>3. CASE k # 1 BY <1>4, <4>1, <4>3
      <4> QED BY <4>2, <4>3
    <3> QED BY <3>1, <3>2, <3>3
  <2> QED BY <1>1, <2>1 DEF ToSync
<1>11. OfUnit' BY <1>1, <1>4, <1>5 DEF OfUnit
<1>12. Attempt' BY <1>1, <1>11 DEF Attempt, Attempting
<1> QED BY <1>8, <1>9, <1>10, <1>12 DEF SyncInv

LEMMA SyncSyncs == ASSUME Sane, TypeInv, SyncInv, SyncDirs PROVE SyncInv'
<1>1. /\ pc = "publish" /\ pc' = "state" /\ staged = <<>> /\ cur \notin receipts
      /\ UNCHANGED <<finals, manifest, receipts, cur>>
  BY DEF SyncDirs, SyncInv, Attempt, Attempting, engineVars
<1>2. durable' = {f \in durable : f.name.table \notin touched}
                 \cup {f \in finals : f.name.table \in touched}
  BY DEF SyncDirs
<1>3. \A t \in Table : Unsynced(t) => t \in touched BY <1>1 DEF SyncInv, Owed, ToSync
<1>4. \A f \in finals \cup durable : f.name.table \in Table BY DEF TypeInv, FilesOK, Name
<1>5. \A f : f.name.table \in Table /\ f.name.table \notin touched => (f \in finals <=> f \in durable)
  BY <1>3 DEF Unsynced
<1>6. durable' = finals' BY <1>1, <1>2, <1>4, <1>5
<1>7. Owed' BY <1>6 DEF Owed, Unsynced
<1>8. Earlier' /\ Named' BY <1>1 DEF SyncInv, Earlier, Named
<1>9. ToSync' /\ Attempt' BY <1>1, <1>6 DEF ToSync, Attempt, Attempting
<1> QED BY <1>7, <1>8, <1>9 DEF SyncInv

LEMMA SyncRecord == ASSUME SyncInv, WriteState \/ WriteReceipt PROVE SyncInv'
<1>1. /\ UNCHANGED <<finals, durable, manifest, cur>> /\ durable = finals
      /\ pc \in {"state", "receipt"} /\ cur \notin receipts
  BY DEF WriteState, WriteReceipt, SyncInv, ToSync, Attempt, Attempting, engineVars
<1>2. \/ pc' = "receipt" /\ receipts' = receipts
      \/ pc' = "answered" /\ receipts' = receipts \cup {cur}
  BY DEF WriteState, WriteReceipt
<1>3. Earlier' /\ Named' BY <1>1, <1>2 DEF SyncInv, Earlier, Named
<1>4. Owed' BY <1>1 DEF Owed, Unsynced
<1>5. ToSync' /\ Attempt' BY <1>1, <1>2 DEF ToSync, Attempt, Attempting
<1> QED BY <1>3, <1>4, <1>5 DEF SyncInv

LEMMA SyncAck == ASSUME Sane, TypeInv, SyncInv, EngineAck PROVE SyncInv'
<1>1. /\ cur \in receipts /\ cur \in Unit /\ UNCHANGED <<finals, durable, manifest, receipts>>
      /\ pc' \in {"none", "loading"} /\ FreshUnit
      /\ cur' = IF cur.seq < MaxSeq THEN [cur EXCEPT !.seq = cur.seq + 1]
                                    ELSE [load |-> cur.load + 1, seq |-> 1]
  BY DEF EngineAck, TypeInv, Session, SyncInv, Attempt, diskVars
<1>2. Earlier'
  <2> SUFFICES ASSUME NEW u \in Unit, u.load = cur'.load, u.seq < cur'.seq PROVE u \in receipts
    BY <1>1 DEF Earlier
  <2>1. u = [load |-> u.load, seq |-> u.seq] /\ u.seq \in 1 .. MaxSeq /\ MaxSeq \in Nat
        /\ cur = [load |-> cur.load, seq |-> cur.seq] /\ cur.seq \in 1 .. MaxSeq
    BY <1>1 DEF Unit, Sane, LoadAssumption
  <2>2. CASE cur.seq < MaxSeq
    <3>1. cur'.load = cur.load /\ cur'.seq = cur.seq + 1 BY <1>1, <2>1, <2>2
    <3>2. u = cur \/ u.seq < cur.seq BY <2>1, <3>1
    <3> QED BY <1>1, <3>1, <3>2 DEF SyncInv, Earlier
  <2>3. CASE ~(cur.seq < MaxSeq)
    <3>1. cur'.seq = 1 BY <1>1, <2>3
    <3> QED BY <2>1, <3>1
  <2> QED BY <2>2, <2>3
<1>3. Named' BY <1>1 DEF SyncInv, Named
<1>4. Owed' BY <1>1 DEF SyncInv, Owed, Unsynced
<1>5. Parts' BY <1>1, FreshParts
<1>6. ToSync' /\ Attempt' BY <1>1, <1>5 DEF ToSync, Attempt, Attempting, Parts
<1> QED BY <1>2, <1>3, <1>4, <1>6 DEF SyncInv

LEMMA SyncPower == ASSUME SyncInv, PowerLoss PROVE SyncInv'
<1>1. finals' = durable' /\ pc' = "none" /\ UNCHANGED <<manifest, receipts, cur>>
  BY DEF PowerLoss
<1>2. Owed' BY <1>1 DEF Owed, Unsynced
<1>3. Earlier' /\ Named' BY <1>1 DEF SyncInv, Earlier, Named
<1>4. ToSync' /\ Attempt' BY <1>1 DEF ToSync, Attempt, Attempting
<1> QED BY <1>2, <1>3, <1>4 DEF SyncInv

LEMMA SyncStep ==
  ASSUME Sane, ReloadBrings, TypeInv, TypeInv', SyncInv, [Next]_vars
  PROVE  SyncInv'
<1>1. CASE UNCHANGED vars
  BY <1>1 DEF vars, diskVars, engineVars, sessionVars, SyncInv, Earlier, Named, Owed, Unsynced,
     ToSync, Attempt, FirstCommitOfLoad, Cut, Taken, Has, Indexed, PartIndex, Distinct, OfUnit
<1>2. CASE Publish
  BY <1>2, SyncBegin, SyncRemove, SyncTruncated, SyncManifest, SyncPublish, SyncSyncs, SyncRecord
     DEF Publish
<1>3. CASE OpenSession \/ (\E t \in Table : EnsureTable(t) \/ Write(t)) \/ Replay \/ SessionDies
  BY <1>3, SyncQuiet
<1> QED BY <1>1, <1>2, <1>3, SyncAck, SyncPower DEF Next, Progress

\* A receipt means that the directories are on disk as a reader finds them
\* (ReceiptIsDurable; publish syncs every directory it touched before the state
\* and the receipt), on both storage arms and with power lost at any step, when
\* the first commit of a load brings rows to the tables it reloads.
THEOREM Durable ==
  ASSUME Sane, ReloadBrings
  PROVE  Spec => []ReceiptIsDurable
<1>1. Init => TypeInv /\ SyncInv BY TypeInit, SyncInit
<1>2. TypeInv /\ SyncInv /\ [Next]_vars => (TypeInv /\ SyncInv)' BY TypeStep, SyncStep
<1>3. TypeInv /\ SyncInv => ReceiptIsDurable BY AllSynced DEF SyncInv, Owed, ReceiptIsDurable
<1> QED BY <1>1, <1>2, <1>3, PTL DEF Spec

-----------------------------------------------------------------------------
(***************************************************************************)
(* FileParts                                                               *)
(***************************************************************************)
CONSTANTS PTable, Values, Null, Partitioned, OneSchema, TargetBytes, MaxOpenBytes, MaxBatches
VARIABLES popen, pstaged, area, queue, batch, given, batches, ppc

P == INSTANCE FileParts
     WITH Table <- PTable, open <- popen, staged <- pstaged, pc <- ppc

\* The instance counts as FiniteSets does.
LEMMA SameSets ==
  ASSUME NEW S
  PROVE  (P!IsFiniteSet(S) <=> IsFiniteSet(S)) /\ P!Cardinality(S) = Cardinality(S)
BY DEF P!IsFiniteSet, IsFiniteSet, P!Cardinality, Cardinality

-----------------------------------------------------------------------------
(* Keys and names *)

\* Two values never share a directory.
LEMMA EncodesApart ==
  ASSUME P!PartsAssumption, NEW v \in Values, NEW w \in Values,
         P!EncodePartitionValue(v) = P!EncodePartitionValue(w)
  PROVE  v = w
<1> DEFINE E(u) == P!EncodePartitionValue(u)
<1>1. \A u \in Values : \/ u = Null /\ E(u) = "__null__"
                        \/ u = "" /\ E(u) = "__empty__"
                        \/ u \in P!Unsafe /\ u # Null /\ u # "" /\ E(u) = "%" \o u
                        \/ u \notin P!Unsafe /\ u # Null /\ u # "" /\ E(u) = u
  BY DEF P!EncodePartitionValue, P!PartsAssumption, P!Unsafe
<1>2. /\ \A u \in Values \cap P!Unsafe : "%" \o u \notin Values /\ "%" \o u \notin P!Unsafe
      /\ \A t, u \in Values \cap P!Unsafe : "%" \o t = "%" \o u => t = u
  BY DEF P!PartsAssumption
<1>3. "__null__" \in P!Unsafe /\ "__empty__" \in P!Unsafe /\ "__null__" # "__empty__" BY DEF P!Unsafe
<1>4. E(v) = E(w) OBVIOUS
<1> HIDE DEF E
<1>5. CASE v \in P!Unsafe /\ v # Null /\ v # "" /\ E(v) = "%" \o v BY <1>1, <1>2, <1>3, <1>4, <1>5
<1>6. CASE w \in P!Unsafe /\ w # Null /\ w # "" /\ E(w) = "%" \o w BY <1>1, <1>2, <1>3, <1>4, <1>6
<1>7. CASE v = Null /\ E(v) = "__null__" BY <1>1, <1>3, <1>4, <1>6, <1>7
<1>8. CASE v = "" /\ E(v) = "__empty__" BY <1>1, <1>3, <1>4, <1>6, <1>8
<1>9. CASE v \notin P!Unsafe /\ v # Null /\ v # "" /\ E(v) = v BY <1>1, <1>3, <1>4, <1>6, <1>9
<1> QED BY <1>1, <1>5, <1>7, <1>8, <1>9

KeyOf(r) == <<r.table, P!SlugOf(r)>>

LEMMA KeyParts == ASSUME NEW k \in P!Key PROVE k = <<k[1], k[2]>>
BY DEF P!Key

\* The numbers of a table and partition are taken in order.
NamesOK ==
  /\ IsFiniteSet(pstaged)
  /\ \A s \in pstaged : s.key \in P!Key /\ s.index \in Nat /\ s.index < P!PartIndex(s.key)
  /\ \A x \in DOMAIN area : \E s \in pstaged : x = P!StagedName(s.key, s.index)

\* A2 is the staging area A with the part `name`, which holds R.
Adds(A, name, R, A2) ==
  DOMAIN A2 = DOMAIN A \cup {name} /\ A2[name] = R /\ \A x \in DOMAIN A : A2[x] = A[x]

\* Staging never puts a name twice.
LEMMA StageNames ==
  ASSUME NamesOK, NEW k \in P!Key, NEW R, P!Stage(k, R)
  PROVE  /\ NamesOK'
         /\ \E name : /\ name \notin DOMAIN area
                      /\ name[1] = k[1] /\ name[2] = k[2]
                      /\ Adds(area, name, R, area')
<1> DEFINE Of(S, j) == {s \in S : s.key = j}
<1>1. PICK n : n = P!PartIndex(k) OBVIOUS
<1>2. PICK S : S = pstaged OBVIOUS
<1>3. PICK p : p = [key |-> k, index |-> n] OBVIOUS
<1>4. pstaged' = S \cup {p} BY <1>1, <1>2, <1>3 DEF P!Stage
<1>5. \A j : IsFiniteSet(Of(S, j)) /\ Cardinality(Of(S, j)) \in Nat
  BY <1>2, FS_Subset, FS_CardinalityType DEF NamesOK
<1>6. n = Cardinality(Of(S, k)) /\ n \in Nat BY <1>1, <1>2, <1>5, SameSets DEF P!PartIndex
<1>7. \A s \in S : s.key = k => s.index \in Nat /\ s.index < n BY <1>1, <1>2 DEF NamesOK
<1>8. p \notin S BY <1>3, <1>6, <1>7
<1>9. Cardinality(Of(S \cup {p}, k)) = n + 1
  <2>1. Of(S \cup {p}, k) = Of(S, k) \cup {p} BY <1>3
  <2>2. p \notin Of(S, k) BY <1>8
  <2>3. PICK U : U = Of(S, k) OBVIOUS
  <2>4. IsFiniteSet(U) /\ Cardinality(U) = n /\ p \notin U BY <1>5, <1>6, <2>2, <2>3
  <2>5. Cardinality(U \cup {p}) = n + 1 BY <2>4, FS_AddElement
  <2> QED BY <2>1, <2>3, <2>5
<1>10. \A j : j # k => Of(S \cup {p}, j) = Of(S, j) BY <1>3
<1>11. \A j : P!PartIndex(j)' = Cardinality(Of(S \cup {p}, j)) BY <1>4, SameSets DEF P!PartIndex
<1>12. \A j : P!PartIndex(j) = Cardinality(Of(S, j)) BY <1>2, SameSets DEF P!PartIndex
<1> HIDE DEF Of
<1>13. \A s \in S \cup {p} : s.key \in P!Key /\ s.index \in Nat /\ s.index < P!PartIndex(s.key)'
  <2> TAKE s \in S \cup {p}
  <2>1. CASE s = p BY <1>3, <1>6, <1>9, <1>11, <2>1
  <2>2. CASE s \in S
    <3>1. s.key \in P!Key /\ s.index \in Nat /\ s.index < P!PartIndex(s.key) BY <1>2, <2>2 DEF NamesOK
    <3>2. CASE s.key = k
      <4>1. PICK i, m : i = s.index /\ m = P!PartIndex(s.key)' OBVIOUS
      <4>2. m = n + 1 BY <1>9, <1>11, <3>2, <4>1
      <4>3. i \in Nat /\ i < n BY <1>1, <3>1, <3>2, <4>1
      <4>4. i < m BY <1>6, <4>2, <4>3
      <4> QED BY <3>1, <4>1, <4>4
    <3>3. CASE s.key # k BY <1>10, <1>11, <1>12, <3>1, <3>3
    <3> QED BY <3>2, <3>3
  <2> QED BY <2>1, <2>2
<1>14. PICK name : name = P!StagedName(k, n) OBVIOUS
<1>15. name[1] = k[1] /\ name[2] = k[2] /\ name[3] = n BY <1>14 DEF P!StagedName
<1>16. name \notin DOMAIN area
  <2> SUFFICES ASSUME name \in DOMAIN area PROVE FALSE OBVIOUS
  <2>1. PICK s \in S : name = P!StagedName(s.key, s.index) BY <1>2 DEF NamesOK
  <2>2. s.key \in P!Key BY <1>2 DEF NamesOK
  <2>3. s.key[1] = k[1] /\ s.key[2] = k[2] /\ s.index = n BY <1>14, <2>1 DEF P!StagedName
  <2>4. s.key = k BY <2>2, <2>3, KeyParts
  <2> QED BY <1>7, <1>6, <2>3, <2>4
<1>17. area' = [x \in DOMAIN area \cup {name} |-> IF x = name THEN R ELSE area[x]]
  BY <1>1, <1>14 DEF P!Stage
<1>18. \A x \in DOMAIN area' : \E s \in S \cup {p} : x = P!StagedName(s.key, s.index)
  <2> TAKE x \in DOMAIN area'
  <2>1. x = name \/ x \in DOMAIN area BY <1>17
  <2>2. p.key = k /\ p.index = n BY <1>3
  <2> QED BY <1>2, <1>14, <2>1, <2>2 DEF NamesOK
<1>19. IsFiniteSet(S \cup {p}) BY <1>2, FS_AddElement DEF NamesOK
<1>20. NamesOK' BY <1>4, <1>13, <1>18, <1>19 DEF NamesOK, P!StagedName
<1>21. Adds(area, name, R, area') BY <1>16, <1>17 DEF Adds
<1> QED BY <1>15, <1>16, <1>20, <1>21

-----------------------------------------------------------------------------
(* The rows *)

\* A row of batch B still to be appended.
Due(r, B, Q) == r \in B.rows /\ KeyOf(r) \in Q

\* Staged parts A, open parts O, and batch B with the groups Q still to append
\* hold the rows G: each once, with its like.
Sound(A, O, B, Q, G) ==
  /\ \A x \in DOMAIN A : \A r \in A[x] : r \in G /\ KeyOf(r) = <<x[1], x[2]>> /\ ~Due(r, B, Q)
  /\ \A x \in DOMAIN A : \A r, q \in A[x] : OneSchema => r.schema = q.schema
  /\ \A x, y \in DOMAIN A : x # y => A[x] \cap A[y] = {}
  /\ \A k \in P!Key : \A r \in O[k].rows :
       /\ r \in G /\ KeyOf(r) = k /\ ~Due(r, B, Q)
       /\ OneSchema => r.schema = O[k].schema
       /\ \A x \in DOMAIN A : r \notin A[x]
  /\ \A k \in P!Key : ~O[k].open => O[k].rows = {}
  /\ \A r \in B.rows : r \in G /\ r.table = B.table /\ r.schema = B.schema
  /\ \A r \in G : \/ Due(r, B, Q)
                  \/ \E x \in DOMAIN A : r \in A[x]
                  \/ \E k \in P!Key : r \in O[k].rows

LEMMA CloseSound ==
  ASSUME NEW A, NEW O, NEW B, NEW Q, NEW G, Sound(A, O, B, Q, G), DOMAIN O = P!Key,
         NEW k \in P!Key, NEW name, name \notin DOMAIN A, name[1] = k[1], name[2] = k[2],
         NEW A2, Adds(A, name, O[k].rows, A2), NEW O2, O2 = [O EXCEPT ![k] = P!Shut]
  PROVE  Sound(A2, O2, B, Q, G)
<1>1. DOMAIN A2 = DOMAIN A \cup {name} /\ A2[name] = O[k].rows BY DEF Adds
<1>2. \A x \in DOMAIN A : A2[x] = A[x] /\ x # name BY DEF Adds
<1>3. O2[k] = P!Shut /\ \A j \in P!Key : j # k => O2[j] = O[j] OBVIOUS
<1>4. P!Shut.rows = {} /\ ~P!Shut.open BY DEF P!Shut
<1>5. <<name[1], name[2]>> = k BY KeyParts
<1>6. \A x \in DOMAIN A2 : \A r \in A2[x] : r \in G /\ KeyOf(r) = <<x[1], x[2]>> /\ ~Due(r, B, Q)
  BY <1>1, <1>2, <1>5 DEF Sound
<1>7. \A x \in DOMAIN A2 : \A r, q \in A2[x] : OneSchema => r.schema = q.schema
  BY <1>1, <1>2 DEF Sound
<1>8. \A x, y \in DOMAIN A2 : x # y => A2[x] \cap A2[y] = {}
  BY <1>1, <1>2 DEF Sound
<1>9. ASSUME NEW j \in P!Key, NEW r \in O2[j].rows
      PROVE  /\ r \in G /\ KeyOf(r) = j /\ ~Due(r, B, Q)
             /\ OneSchema => r.schema = O2[j].schema
             /\ \A x \in DOMAIN A2 : r \notin A2[x]
  <2>1. j # k /\ r \in O[j].rows BY <1>3, <1>4, <1>9
  <2>2. r \notin O[k].rows BY <2>1 DEF Sound
  <2> QED BY <1>1, <1>2, <1>3, <2>1, <2>2 DEF Sound
<1>10. \A j \in P!Key : ~O2[j].open => O2[j].rows = {} BY <1>3, <1>4 DEF Sound
<1>11. ASSUME NEW r \in G
       PROVE  \/ Due(r, B, Q)
              \/ \E x \in DOMAIN A2 : r \in A2[x]
              \/ \E j \in P!Key : r \in O2[j].rows
  BY <1>1, <1>2, <1>3 DEF Sound
<1>12. \A r \in B.rows : r \in G /\ r.table = B.table /\ r.schema = B.schema BY DEF Sound
<1> QED BY <1>6, <1>7, <1>8, <1>9, <1>10, <1>11, <1>12 DEF Sound

LEMMA AppendSound ==
  ASSUME NEW A, NEW O, NEW B, NEW Q, NEW G, Sound(A, O, B, Q, G), DOMAIN O = P!Key,
         NEW k \in P!Key, k \in Q, k[1] = B.table,
         OneSchema /\ O[k].open => O[k].schema = B.schema,
         NEW R, R = O[k].rows \cup {r \in B.rows : P!SlugOf(r) = k[2]}
  PROVE  Sound(A, [O EXCEPT ![k] = [rows |-> R, schema |-> B.schema, open |-> TRUE]],
               B, Q \ {k}, G)
<1> DEFINE O2 == [O EXCEPT ![k] = [rows |-> R, schema |-> B.schema, open |-> TRUE]]
<1>1. O2[k] = [rows |-> R, schema |-> B.schema, open |-> TRUE] /\ \A j \in P!Key : j # k => O2[j] = O[j]
  OBVIOUS
<1>2. O2[k].rows = R /\ O2[k].schema = B.schema /\ O2[k].open BY <1>1
<1> HIDE DEF O2
<1>3. \A r \in B.rows : P!SlugOf(r) = k[2] <=> KeyOf(r) = k BY KeyParts DEF Sound, KeyOf
<1>4. \A r \in R : r \in O[k].rows \/ (r \in B.rows /\ KeyOf(r) = k) BY <1>3
<1>5. \A r : Due(r, B, Q \ {k}) <=> Due(r, B, Q) /\ KeyOf(r) # k BY DEF Due
<1>6. \A r : r \in B.rows /\ KeyOf(r) = k => Due(r, B, Q) BY DEF Due
<1>7. \A x \in DOMAIN A : \A r \in A[x] :
        r \in G /\ KeyOf(r) = <<x[1], x[2]>> /\ ~Due(r, B, Q \ {k})
  BY <1>5 DEF Sound
<1>8. ASSUME NEW j \in P!Key, NEW r \in O2[j].rows
      PROVE  /\ r \in G /\ KeyOf(r) = j /\ ~Due(r, B, Q \ {k})
             /\ OneSchema => r.schema = O2[j].schema
             /\ \A x \in DOMAIN A : r \notin A[x]
  <2>1. CASE j # k
    <3>1. O2[j] = O[j] /\ r \in O[j].rows BY <1>1, <1>8, <2>1
    <3>2. /\ r \in G /\ KeyOf(r) = j /\ ~Due(r, B, Q)
          /\ OneSchema => r.schema = O[j].schema
          /\ \A x \in DOMAIN A : r \notin A[x]
      BY <3>1 DEF Sound
    <3>3. ~Due(r, B, Q \ {k}) BY <1>5, <3>2
    <3> QED BY <3>1, <3>2, <3>3
  <2>2. CASE j = k /\ r \in O[k].rows
    <3>1. O[k].open BY <2>2 DEF Sound
    <3> QED BY <1>2, <1>5, <2>2, <3>1 DEF Sound
  <2>3. CASE j = k /\ r \in B.rows /\ KeyOf(r) = k
    <3>1. Due(r, B, Q) /\ ~Due(r, B, Q \ {k}) BY <1>5, <1>6, <2>3
    <3> QED BY <1>2, <2>3, <3>1 DEF Sound
  <2> QED BY <1>2, <1>4, <1>8, <2>1, <2>2, <2>3
<1>9. \A j \in P!Key : ~O2[j].open => O2[j].rows = {} BY <1>1, <1>2 DEF Sound
<1>10. ASSUME NEW r \in G
       PROVE  \/ Due(r, B, Q \ {k})
              \/ \E x \in DOMAIN A : r \in A[x]
              \/ \E j \in P!Key : r \in O2[j].rows
  <2>1. CASE Due(r, B, Q) /\ KeyOf(r) # k BY <1>5, <2>1
  <2>2. CASE Due(r, B, Q) /\ KeyOf(r) = k BY <1>2, <1>3, <2>2 DEF Due
  <2>3. CASE \E x \in DOMAIN A : r \in A[x] BY <2>3
  <2>4. CASE \E j \in P!Key : r \in O[j].rows
    <3>1. PICK j \in P!Key : r \in O[j].rows BY <2>4
    <3> QED BY <1>1, <1>2, <3>1
  <2> QED BY <2>1, <2>2, <2>3, <2>4 DEF Sound
<1>11. Sound(A, O2, B, Q \ {k}, G) BY <1>7, <1>8, <1>9, <1>10 DEF Sound
<1> QED BY <1>11 DEF O2

LEMMA DeliverSound ==
  ASSUME NEW A, NEW O, NEW B, NEW G, Sound(A, O, B, {}, G),
         NEW B2, NEW Q2, B2.rows \cap G = {}, \A r \in B2.rows : KeyOf(r) \in Q2,
         \A r \in B2.rows : r.table = B2.table /\ r.schema = B2.schema
  PROVE  Sound(A, O, B2, Q2, G \cup B2.rows)
<1>1. \A r \in G : ~Due(r, B2, Q2) /\ ~Due(r, B, {}) BY DEF Due
<1>2. \A r \in B2.rows : Due(r, B2, Q2) BY DEF Due
<1> QED BY <1>1, <1>2 DEF Sound

-----------------------------------------------------------------------------
(* The inductive invariant *)

GivenOK ==
  /\ IsFiniteSet(given) /\ batches \in Nat
  /\ \A r \in given : r.n \in Nat /\ r.n <= batches /\ r.value \in Values

QueueOK ==
  /\ queue \subseteq P!Key /\ \A k \in queue : k[1] = batch.table
  /\ ppc # "writing" => queue = {}
  /\ ppc \in {"idle", "closing"} => batch.rows = {}

PartsInv ==
  /\ NamesOK /\ GivenOK /\ QueueOK /\ DOMAIN popen = P!Key
  /\ Sound(area, popen, batch, queue, given)
  /\ ppc = "idle" => P!Total(popen) <= MaxOpenBytes

\* Without open parts the ceiling holds, and nothing is anywhere.
LEMMA NoneOpen ==
  ASSUME P!PartsAssumption, NEW O, DOMAIN O = P!Key, \A k \in P!Key : O[k].rows = {}
  PROVE  P!Total(O) <= MaxOpenBytes
<1>1. UNION {O[k].rows : k \in P!Key} = {} OBVIOUS
<1>2. MaxOpenBytes \in Nat BY DEF P!PartsAssumption
<1> QED BY <1>1, <1>2, FS_EmptySet, SameSets DEF P!Total

LEMMA EmptySound ==
  ASSUME NEW A, DOMAIN A = {}, NEW O, \A k \in P!Key : O[k].rows = {}, NEW B, B.rows = {}, NEW Q
  PROVE  Sound(A, O, B, Q, {})
BY DEF Sound

LEMMA FreshNames == pstaged = {} /\ DOMAIN area = {} => NamesOK
BY FS_EmptySet DEF NamesOK

LEMMA PartsInit == ASSUME P!PartsAssumption, P!Init PROVE PartsInv
<1>1. P!Shut.rows = {} /\ P!NoBatch.rows = {} BY DEF P!Shut, P!NoBatch
<1>2. /\ DOMAIN popen = P!Key /\ \A k \in P!Key : popen[k].rows = {}
      /\ pstaged = {} /\ DOMAIN area = {} /\ queue = {} /\ batch = P!NoBatch /\ given = {} /\ batches = 0
  BY <1>1 DEF P!Init
<1>3. NamesOK BY <1>2, FreshNames
<1>4. Sound(area, popen, batch, queue, {}) BY <1>1, <1>2, EmptySound
<1>5. P!Total(popen) <= MaxOpenBytes BY <1>2, NoneOpen
<1>6. GivenOK BY <1>2, FS_EmptySet DEF GivenOK
<1>7. QueueOK BY <1>1, <1>2 DEF QueueOK
<1> QED BY <1>2, <1>3, <1>4, <1>5, <1>6, <1>7 DEF PartsInv

\* Closing the part of k, whatever asked for it.
LEMMA CloseKeeps ==
  ASSUME PartsInv, NEW k \in P!Key, P!Stage(k, popen[k].rows), popen' = [popen EXCEPT ![k] = P!Shut],
         ppc' # "idle", (ppc \in {"idle", "closing"}) <=> (ppc' \in {"idle", "closing"}),
         (ppc = "writing") <=> (ppc' = "writing"),
         UNCHANGED <<queue, batch, given, batches>>
  PROVE  PartsInv'
<1>1. NamesOK /\ GivenOK /\ QueueOK /\ DOMAIN popen = P!Key /\ Sound(area, popen, batch, queue, given)
  BY DEF PartsInv
<1>2. PICK R : R = popen[k].rows OBVIOUS
<1>3. P!Stage(k, R) BY <1>2
<1>4. NamesOK' /\ \E name : /\ name \notin DOMAIN area
                            /\ name[1] = k[1] /\ name[2] = k[2]
                            /\ Adds(area, name, R, area')
  BY <1>1, <1>3, StageNames
<1>5. PICK A, O, A2, O2, b, q, g :
        A = area /\ O = popen /\ A2 = area' /\ O2 = popen' /\ b = batch /\ q = queue /\ g = given
  OBVIOUS
<1>6. PICK name : name \notin DOMAIN A /\ name[1] = k[1] /\ name[2] = k[2] /\ Adds(A, name, R, A2)
  BY <1>4, <1>5
<1>7. Sound(A, O, b, q, g) /\ DOMAIN O = P!Key /\ R = O[k].rows /\ O2 = [O EXCEPT ![k] = P!Shut]
  BY <1>1, <1>2, <1>5
<1>8. Sound(A2, O2, b, q, g) BY <1>6, <1>7, CloseSound
<1>9. Sound(area, popen, batch, queue, given)' BY <1>5, <1>8
<1>10. GivenOK' BY <1>1 DEF GivenOK
<1>11. QueueOK' BY <1>1 DEF QueueOK
<1>12. DOMAIN popen' = P!Key BY <1>1
<1> QED BY <1>4, <1>9, <1>10, <1>11, <1>12 DEF PartsInv

LEMMA DeliverKeeps ==
  ASSUME P!PartsAssumption, PartsInv, NEW t \in PTable, NEW schema \in {1, 2},
         NEW values \in SUBSET Values \ {{}}, P!Deliver(t, schema, values)
  PROVE  PartsInv'
<1> DEFINE rows == {[n |-> batches + 1, value |-> v, table |-> t, schema |-> schema] : v \in values}
<1>1. PICK b : b = [table |-> t, schema |-> schema, rows |-> rows] OBVIOUS
<1>2. PICK Q : Q = {<<t, s>> : s \in {P!SlugOf(r) : r \in rows}} OBVIOUS
<1>3. /\ ppc = "idle" /\ batch' = b /\ queue' = Q /\ given' = given \cup rows
      /\ batches' = batches + 1 /\ ppc' = "writing" /\ UNCHANGED <<popen, pstaged, area>>
  BY <1>1, <1>2 DEF P!Deliver
<1>4. \A r \in rows : r.n = batches + 1 /\ r.value \in Values /\ r.table = t /\ r.schema = schema
  OBVIOUS
<1>5. IsFiniteSet(rows)
  <2>1. IsFiniteSet(values) BY FS_Subset, SameSets DEF P!PartsAssumption
  <2>2. [v \in values |-> [n |-> batches + 1, value |-> v, table |-> t, schema |-> schema]]
          \in Surjection(values, rows)
    BY DEF Surjection
  <2> QED BY <2>1, <2>2, FS_Surjection
<1>6. \A r \in rows : P!SlugOf(r) \in P!Slug BY <1>4 DEF P!SlugOf, P!Slug
<1> HIDE DEF rows
<1>7. b.rows = rows /\ b.table = t /\ b.schema = schema BY <1>1
<1>8. GivenOK /\ QueueOK /\ NamesOK /\ Sound(area, popen, batch, {}, given) /\ DOMAIN popen = P!Key
  BY <1>3 DEF PartsInv, QueueOK
<1>9. rows \cap given = {} BY <1>4, <1>8 DEF GivenOK
<1>10. GivenOK'
  <2>1. IsFiniteSet(given \cup rows) BY <1>5, <1>8, FS_Union DEF GivenOK
  <2> QED BY <1>3, <1>4, <1>8, <2>1 DEF GivenOK
<1>11. \A r \in rows : KeyOf(r) \in Q BY <1>2, <1>4 DEF KeyOf
<1>12. Sound(area, popen, b, Q, given \cup rows)
  BY <1>4, <1>7, <1>8, <1>9, <1>11, DeliverSound
<1>13. QueueOK'
  <2>1. Q \subseteq P!Key BY <1>2, <1>6 DEF P!Key
  <2>2. \A k \in Q : k[1] = t BY <1>2
  <2> QED BY <1>3, <1>7, <2>1, <2>2 DEF QueueOK
<1>14. NamesOK' BY <1>3, <1>8 DEF NamesOK, P!PartIndex, P!StagedName
<1> QED BY <1>3, <1>8, <1>10, <1>12, <1>13, <1>14 DEF PartsInv

LEMMA AppendKeeps ==
  ASSUME PartsInv, NEW k \in P!Key, P!AppendGroup(k)
  PROVE  PartsInv'
<1>1. /\ ppc = "writing" /\ k \in queue /\ ~P!Differs(k) /\ queue' = queue \ {k}
      /\ ppc' \in {"writing", "budget"} /\ (ppc' # "writing" => queue' = {})
      /\ UNCHANGED <<batch, given, batches>>
  BY DEF P!AppendGroup
<1>2. NamesOK /\ GivenOK /\ QueueOK /\ DOMAIN popen = P!Key /\ Sound(area, popen, batch, queue, given)
  BY DEF PartsInv
<1>3. PICK R : R = popen[k].rows \cup P!Group(k) OBVIOUS
<1>4. PICK A, O, Q : A = area /\ O = popen /\ Q = queue OBVIOUS
<1>5. PICK O2 : O2 = [O EXCEPT ![k] = [rows |-> R, schema |-> batch.schema, open |-> TRUE]] OBVIOUS
<1>6. Sound(A, O2, batch, Q \ {k}, given)
  <2>1. k[1] = batch.table /\ k \in Q BY <1>1, <1>2, <1>4 DEF QueueOK
  <2>2. OneSchema /\ O[k].open => O[k].schema = batch.schema BY <1>1, <1>4 DEF P!Differs
  <2>3. R = O[k].rows \cup {r \in batch.rows : P!SlugOf(r) = k[2]} BY <1>3, <1>4 DEF P!Group
  <2>4. Sound(A, O, batch, Q, given) /\ DOMAIN O = P!Key BY <1>2, <1>4
  <2> QED BY <1>5, <2>1, <2>2, <2>3, <2>4, AppendSound
<1>7. GivenOK' BY <1>1, <1>2 DEF GivenOK
<1>8. QueueOK' BY <1>1, <1>2 DEF QueueOK
<1>9. CASE P!Stage(k, R) /\ popen' = [popen EXCEPT ![k] = P!Shut]
  <2>1. NamesOK' /\ \E name : /\ name \notin DOMAIN area
                              /\ name[1] = k[1] /\ name[2] = k[2]
                              /\ Adds(area, name, R, area')
    BY <1>2, <1>9, StageNames
  <2>2. PICK A2, O3, b, g : A2 = area' /\ O3 = popen' /\ b = batch /\ g = given OBVIOUS
  <2>3. PICK name : name \notin DOMAIN A /\ name[1] = k[1] /\ name[2] = k[2] /\ Adds(A, name, R, A2)
    BY <1>4, <2>1, <2>2
  <2>4. DOMAIN O2 = P!Key /\ O2[k].rows = R BY <1>2, <1>4, <1>5
  <2>5. O3 = [O2 EXCEPT ![k] = P!Shut] BY <1>2, <1>4, <1>5, <1>9, <2>2
  <2>6. Sound(A, O2, b, Q \ {k}, g) BY <1>6, <2>2
  <2>7. Adds(A, name, O2[k].rows, A2) BY <2>3, <2>4
  <2>8. Sound(A2, O3, b, Q \ {k}, g) BY <2>3, <2>4, <2>5, <2>6, <2>7, CloseSound
  <2>9. Sound(area, popen, batch, queue, given)' BY <1>1, <1>4, <2>2, <2>8
  <2>10. DOMAIN popen' = P!Key BY <1>2, <1>9
  <2> QED BY <1>1, <1>7, <1>8, <2>1, <2>9, <2>10 DEF PartsInv
<1>10. CASE popen' = O2 /\ UNCHANGED <<pstaged, area>>
  <2>1. NamesOK' BY <1>2, <1>10 DEF NamesOK, P!PartIndex, P!StagedName
  <2>2. DOMAIN O2 = P!Key BY <1>2, <1>4, <1>5
  <2> QED BY <1>1, <1>4, <1>6, <1>7, <1>8, <1>10, <2>1, <2>2 DEF PartsInv
<1>11. \/ P!Stage(k, R) /\ popen' = [popen EXCEPT ![k] = P!Shut]
       \/ popen' = O2 /\ UNCHANGED <<pstaged, area>>
  <2>1. \E aged \in BOOLEAN :
          IF P!ShouldRoll(popen[k].rows \cup P!Group(k), aged)
          THEN P!Stage(k, popen[k].rows \cup P!Group(k)) /\ popen' = [popen EXCEPT ![k] = P!Shut]
          ELSE /\ popen' = [popen EXCEPT ![k] =
                             [rows |-> popen[k].rows \cup P!Group(k), schema |-> batch.schema, open |-> TRUE]]
               /\ UNCHANGED <<pstaged, area>>
    BY DEF P!AppendGroup
  <2>2. \E aged \in BOOLEAN :
          IF P!ShouldRoll(R, aged)
          THEN P!Stage(k, R) /\ popen' = [popen EXCEPT ![k] = P!Shut]
          ELSE /\ popen' = [popen EXCEPT ![k] = [rows |-> R, schema |-> batch.schema, open |-> TRUE]]
               /\ UNCHANGED <<pstaged, area>>
    BY <1>3, <2>1
  <2> QED BY <1>4, <1>5, <2>2
<1> QED BY <1>9, <1>10, <1>11

LEMMA WithinKeeps == ASSUME P!PartsAssumption, PartsInv, P!WithinBudget PROVE PartsInv'
<1>1. /\ ppc = "budget" /\ ~(P!Total(popen) > MaxOpenBytes) /\ ppc' = "idle" /\ batch' = P!NoBatch
      /\ UNCHANGED <<popen, pstaged, area, queue, given, batches>>
  BY DEF P!WithinBudget, P!OverBudget
<1>2. NamesOK /\ GivenOK /\ QueueOK /\ DOMAIN popen = P!Key /\ Sound(area, popen, batch, {}, given)
  BY <1>1 DEF PartsInv, QueueOK
<1>3. P!Total(popen) <= MaxOpenBytes
  <2>1. UNION {popen[k].rows : k \in P!Key} \subseteq given BY <1>2 DEF Sound
  <2>2. P!Total(popen) \in Nat
    BY <1>2, <2>1, FS_Subset, FS_CardinalityType, SameSets DEF GivenOK, P!Total
  <2>3. PICK n, m : n = P!Total(popen) /\ m = MaxOpenBytes OBVIOUS
  <2>4. n \in Nat /\ m \in Nat /\ ~(n > m) BY <1>1, <2>2, <2>3 DEF P!PartsAssumption
  <2>5. n <= m BY <2>4
  <2> QED BY <2>3, <2>5
<1>4. PICK b : b = P!NoBatch OBVIOUS
<1>5. b.rows = {} BY <1>4 DEF P!NoBatch
<1>6. Sound(area, popen, b, {}, given)
  <2>1. \A r, B : ~Due(r, B, {}) BY DEF Due
  <2> QED BY <1>2, <1>5, <2>1 DEF Sound
<1>7. queue = {} BY <1>1 DEF PartsInv, QueueOK
<1>8. NamesOK' BY <1>1, <1>2 DEF NamesOK, P!PartIndex, P!StagedName
<1>9. GivenOK' BY <1>1, <1>2 DEF GivenOK
<1>10. QueueOK' BY <1>1, <1>4, <1>5, <1>7 DEF QueueOK
<1>11. Sound(area, popen, batch, queue, given)' BY <1>1, <1>4, <1>6, <1>7
<1>12. P!Total(popen)' <= MaxOpenBytes BY <1>1, <1>3
<1> QED BY <1>1, <1>2, <1>8, <1>9, <1>10, <1>11, <1>12 DEF PartsInv

\* The commit, or the replay of one, leaves nothing behind.
LEMMA ClearKeeps ==
  ASSUME P!PartsAssumption, PartsInv, ppc \in {"idle", "closing"},
         DOMAIN popen' = P!Key, \A k \in P!Key : popen'[k].rows = {},
         pstaged' = {}, area' = [x \in {} |-> {}], given' = {}, batches' = 0, ppc' = "idle",
         UNCHANGED <<queue, batch>>
  PROVE  PartsInv'
<1>1. QueueOK /\ queue = {} /\ batch.rows = {} BY DEF PartsInv, QueueOK
<1>2. NamesOK' BY FS_EmptySet DEF NamesOK
<1>3. GivenOK' BY FS_EmptySet DEF GivenOK
<1>4. QueueOK' BY <1>1 DEF QueueOK
<1>5. PICK A, O, b : A = area' /\ O = popen' /\ b = batch OBVIOUS
<1>6. DOMAIN A = {} /\ (\A k \in P!Key : O[k].rows = {}) /\ b.rows = {} /\ DOMAIN O = P!Key
  BY <1>1, <1>5
<1>7. Sound(A, O, b, {}, {}) BY <1>6, EmptySound
<1>8. P!Total(O) <= MaxOpenBytes BY <1>6, NoneOpen
<1>9. Sound(area, popen, batch, queue, given)' BY <1>1, <1>5, <1>7
<1>10. P!Total(popen)' <= MaxOpenBytes BY <1>5, <1>8 DEF P!Total
<1> QED BY <1>2, <1>3, <1>4, <1>9, <1>10 DEF PartsInv

LEMMA PartsStep == ASSUME P!PartsAssumption, PartsInv, [P!Next]_P!vars PROVE PartsInv'
<1>1. CASE UNCHANGED P!vars
  BY <1>1 DEF PartsInv, NamesOK, P!PartIndex, P!StagedName, GivenOK, QueueOK, P!Total, P!vars
<1>2. ASSUME NEW t \in PTable, NEW schema \in {1, 2}, NEW values \in SUBSET Values \ {{}},
             P!Deliver(t, schema, values)
      PROVE  PartsInv'
  BY <1>2, DeliverKeeps
<1>3. ASSUME NEW k \in P!Key, P!CloseChanged(k) PROVE PartsInv'
  <2>1. /\ P!Stage(k, popen[k].rows) /\ popen' = [popen EXCEPT ![k] = P!Shut]
        /\ UNCHANGED <<queue, batch, given, batches>>
    BY <1>3 DEF P!CloseChanged
  <2>2. /\ ppc' # "idle" /\ ((ppc \in {"idle", "closing"}) <=> (ppc' \in {"idle", "closing"}))
        /\ ((ppc = "writing") <=> (ppc' = "writing"))
    BY <1>3 DEF P!CloseChanged
  <2> QED BY <2>1, <2>2, CloseKeeps
<1>4. ASSUME NEW k \in P!Key, P!AppendGroup(k) PROVE PartsInv'
  BY <1>4, AppendKeeps
<1>5. ASSUME NEW k \in P!Key, P!CloseLargest(k) PROVE PartsInv'
  <2>1. /\ P!Stage(k, popen[k].rows) /\ popen' = [popen EXCEPT ![k] = P!Shut]
        /\ UNCHANGED <<queue, batch, given, batches>>
    BY <1>5 DEF P!CloseLargest
  <2>2. /\ ppc' # "idle" /\ ((ppc \in {"idle", "closing"}) <=> (ppc' \in {"idle", "closing"}))
        /\ ((ppc = "writing") <=> (ppc' = "writing"))
    BY <1>5 DEF P!CloseLargest
  <2> QED BY <2>1, <2>2, CloseKeeps
<1>6. ASSUME NEW k \in P!Key, P!CloseForCommit(k) PROVE PartsInv'
  <2>1. /\ P!Stage(k, popen[k].rows) /\ popen' = [popen EXCEPT ![k] = P!Shut]
        /\ UNCHANGED <<queue, batch, given, batches>>
    BY <1>6 DEF P!CloseForCommit
  <2>2. /\ ppc' # "idle" /\ ((ppc \in {"idle", "closing"}) <=> (ppc' \in {"idle", "closing"}))
        /\ ((ppc = "writing") <=> (ppc' = "writing"))
    BY <1>6 DEF P!CloseForCommit
  <2> QED BY <2>1, <2>2, CloseKeeps
<1>7. CASE P!WithinBudget BY <1>7, WithinKeeps
<1>8. CASE P!Published
  <2>1. \A k \in P!Key : popen[k].rows = {} BY <1>8 DEF P!Published, PartsInv, Sound
  <2>2. DOMAIN popen = P!Key BY DEF PartsInv
  <2> QED BY <1>8, <2>1, <2>2, ClearKeeps DEF P!Published
<1>9. CASE P!Replay
  <2>1. P!Shut.rows = {} BY DEF P!Shut
  <2>2. DOMAIN popen' = P!Key /\ \A k \in P!Key : popen'[k].rows = {} BY <1>9, <2>1 DEF P!Replay
  <2>3. ppc' = "idle" /\ ppc = "idle" BY <1>9 DEF P!Replay
  <2> QED BY <1>9, <2>2, <2>3, ClearKeeps DEF P!Replay
<1> QED BY <1>1, <1>2, <1>3, <1>4, <1>5, <1>6, <1>7, <1>8, <1>9 DEF P!Next

LEMMA SoundIsPartsSound == ASSUME P!PartsAssumption, PartsInv PROVE P!PartsSound
<1>1. Sound(area, popen, batch, queue, given) /\ DOMAIN popen = P!Key /\ GivenOK /\ QueueOK
  BY DEF PartsInv
<1>2. ASSUME ppc \in {"idle", "closing"}
      PROVE  P!InArea \cup P!InOpen = given /\ P!InArea \cap P!InOpen = {}
  <2>1. \A r : ~Due(r, batch, queue) BY <1>1, <1>2 DEF QueueOK, Due
  <2>2. \A r : r \in P!InArea <=> \E x \in DOMAIN area : r \in area[x] BY DEF P!InArea
  <2>3. \A r : r \in P!InOpen <=> \E k \in P!Key : r \in popen[k].rows BY DEF P!InOpen
  <2> QED BY <1>1, <2>1, <2>2, <2>3 DEF Sound
<1>3. \A x, y \in DOMAIN area : x # y => area[x] \cap area[y] = {} BY <1>1 DEF Sound
<1>4. ASSUME NEW r \in given, NEW q \in given, KeyOf(r) = KeyOf(q)
      PROVE  r.table = q.table /\ (Partitioned => r.value = q.value)
  <2>1. r.table = q.table /\ P!SlugOf(r) = P!SlugOf(q) BY <1>4 DEF KeyOf
  <2>2. r.value \in Values /\ q.value \in Values BY <1>1 DEF GivenOK
  <2>3. CASE Partitioned
    <3>1. P!EncodePartitionValue(r.value) = P!EncodePartitionValue(q.value) BY <2>1, <2>3 DEF P!SlugOf
    <3> QED BY <2>1, <2>2, <3>1, EncodesApart
  <2> QED BY <2>1, <2>3
<1>5. ASSUME NEW rows \in {area[x] : x \in DOMAIN area} \cup {popen[k].rows : k \in P!Key},
             NEW r \in rows, NEW q \in rows
      PROVE  /\ r.table = q.table /\ (Partitioned => r.value = q.value)
             /\ OneSchema => r.schema = q.schema
  <2>1. CASE \E x \in DOMAIN area : rows = area[x]
    <3>1. PICK x \in DOMAIN area : rows = area[x] BY <2>1
    <3>2. /\ r \in given /\ q \in given /\ KeyOf(r) = KeyOf(q)
          /\ OneSchema => r.schema = q.schema
      BY <1>1, <1>5, <3>1 DEF Sound
    <3> QED BY <1>4, <3>2
  <2>2. CASE \E k \in P!Key : rows = popen[k].rows
    <3>1. PICK k \in P!Key : rows = popen[k].rows BY <2>2
    <3>2. /\ r \in given /\ q \in given /\ KeyOf(r) = KeyOf(q)
          /\ OneSchema => r.schema = q.schema
      BY <1>1, <1>5, <3>1 DEF Sound
    <3> QED BY <1>4, <3>2
  <2> QED BY <1>5, <2>1, <2>2
<1>6. ppc = "idle" => P!Total(popen) <= MaxOpenBytes BY DEF PartsInv
<1> QED BY <1>2, <1>3, <1>5, <1>6 DEF P!PartsSound

\* Between two writes every row of a commit is in one part, open or staged, with
\* rows of its table, partition and schema, and the open parts are within the
\* ceiling (FileParts' PartsSound; split_partitions, staged_name, close_part and
\* enforce_open_budget), for any tables, values, sizes and number of batches.
THEOREM PartRows == ASSUME P!PartsAssumption PROVE P!Spec => []P!PartsSound
<1>1. P!Init => PartsInv BY PartsInit
<1>2. PartsInv /\ [P!Next]_P!vars => PartsInv' BY PartsStep
<1>3. PartsInv => P!PartsSound BY SoundIsPartsSound
<1> QED BY <1>1, <1>2, <1>3, PTL DEF P!Spec

=============================================================================
