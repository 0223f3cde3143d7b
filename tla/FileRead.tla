------------------------------ MODULE FileRead ------------------------------
(***************************************************************************)
(* The file source: a listing, a plan against the recorded progress, and   *)
(* one reader per format.  Plain jsonl resumes at a byte behind a hash of  *)
(* the bytes before it, parquet at a row group behind a digest of the      *)
(* groups before it; csv and compressed jsonl are whole-file units.        *)
(*                                                                         *)
(* One file is modelled: the progress of the files of a stream is recorded *)
(* path by path, and a refusal of one ends the run.  The file is a         *)
(* sequence of units: bytes for jsonl, row groups for parquet, rows for a  *)
(* whole-file format.  Its stamp stands for the etag and the modification  *)
(* time, which every edit moves.                                           *)
(***************************************************************************)
EXTENDS Integers, SequencesExt

CONSTANTS Units,      \* what a file is made of
          NL,         \* the one of them that is the newline of a jsonl file
          MaxSize,    \* units of a file
          MaxStamp,   \* edits of the file
          MaxRows,    \* units at the destination
          SlabUnits,  \* units one fill of the jsonl reader asks for
          TailWindow, \* units a resume check covers
          Null

VARIABLES config,    \* [format, remote]: the stream's format and its location
          content, stamp,
          versions,  \* the contents the file has had, those that can still matter
          swapped,   \* an edit other than an append hit a read of the live file
          phase,     \* of the run
          listing,   \* [size, stamp] of the listing
          copy,      \* the fetched copy, or the object one request streams; Null: live
          at, held, tail, \* the reader: units consumed, bytes held back, rolling tail
          checkpoint,\* the progress last offered with what was pushed, or Null
          pushed,    \* pushed and not committed
          committed, \* the progress committed with the destination, or Null
          rows,      \* units at the destination
          torn       \* a record reached the destination in two pieces

file   == <<content, stamp, versions, swapped>>
reader == <<at, held, tail>>
run    == <<phase, listing, copy, reader, checkpoint, pushed>>
dest   == <<committed, rows, torn>>
vars   == <<config, file, run, dest>>

Formats == {"jsonl", "parquet", "whole"}
Contents == UNION {[1 .. n -> Units] : n \in 0 .. MaxSize}

LastOf(s, n) == IF Len(s) <= n THEN s ELSE SubSeq(s, Len(s) - n + 1, Len(s))
Upto(s, n)   == SubSeq(s, 1, n)

\* What a reader of the file sees now.
Source == IF copy = Null THEN content ELSE copy

\* A variant: the stamp is taken when the progress is recorded.
ProgressStampedNow(done, size, eol, tl) ==
    [done |-> done, size |-> size, eol |-> eol, stamp |-> stamp, tail |-> tl]

Progress(done, size, eol, tl) ==
    [done |-> done, size |-> size, eol |-> eol, stamp |-> listing.stamp, tail |-> tl]

NoRun == /\ listing' = Null /\ copy' = Null /\ at' = 0 /\ held' = <<>> /\ tail' = <<>>
         /\ checkpoint' = Null /\ pushed' = <<>>

\* A typed refusal ends the run; what was pushed and not committed is gone.
Refuse == phase' = "refused" /\ NoRun

Init == /\ config \in [format : Formats, remote : BOOLEAN]
        /\ content \in {c \in Contents : Len(c) < MaxSize} /\ stamp = 0 /\ versions = {content}
        /\ swapped = FALSE
        /\ phase = "idle" /\ listing = Null /\ copy = Null
        /\ at = 0 /\ held = <<>> /\ tail = <<>> /\ checkpoint = Null /\ pushed = <<>>
        /\ committed = Null /\ rows = <<>> /\ torn = FALSE
-----------------------------------------------------------------------------
(***************************************************************************)
(* Whoever writes the file, at any time: it grows, or is replaced in place.*)
(* A writer may append part of a line.  An edit that no step of the run    *)
(* can see is left until the run has ended.                                *)
(***************************************************************************)
Edit(new) ==
    /\ stamp < MaxStamp /\ new # content
    /\ phase \in {"idle", "listed", "planned", "reading"} /\ copy = Null
    /\ content' = new /\ stamp' = stamp + 1
    /\ versions' = {new} \cup {v \in versions : IsPrefix(rows, v) /\ ~IsPrefix(v, new)}
    /\ swapped' = (swapped \/ (phase = "reading" /\ copy = Null /\ ~IsPrefix(content, new)))
    /\ UNCHANGED <<config, run, dest>>
-----------------------------------------------------------------------------
Complete(p) == p.done = p.size

(***************************************************************************)
(* The listing.  A parquet object is fetched next, to count its groups,    *)
(* unless the progress proves it ingested under the very same etag.        *)
(***************************************************************************)
Settled == committed # Null /\ Complete(committed) /\ committed.stamp = listing.stamp

List ==
    /\ phase = "idle"
    /\ listing' = [size |-> Len(content), stamp |-> stamp]
    /\ phase' = IF config.remote /\ config.format = "parquet" THEN "listed" ELSE "described"
    /\ UNCHANGED <<config, file, copy, reader, checkpoint, pushed, dest>>

Describe ==
    /\ phase = "listed"
    /\ phase' = "described"
    /\ IF Settled
         THEN listing' = [listing EXCEPT !.size = committed.size] /\ copy' = copy
         ELSE listing' = [listing EXCEPT !.size = Len(content)] /\ copy' = content
    /\ UNCHANGED <<config, file, reader, checkpoint, pushed, dest>>

(***************************************************************************)
(* The tripwires of the planner, and the two planners.                     *)
(***************************************************************************)
Shrank    == listing.size < committed.size \/ committed.done > listing.size
Rewritten == listing.size = committed.size /\ listing.stamp # committed.stamp

\* A variant: a record cut at the last line's end is skipped for good.
PlanUnitsMidRecord ==
    CASE committed = Null                                          -> "fresh"
      [] committed # Null /\ (Shrank \/ Rewritten)                 -> "refuse"
      [] OTHER -> IF committed.done < committed.size \/ committed.done < listing.size
                    THEN "resume" ELSE "skip"

PlanUnits ==
    CASE committed = Null                                          -> "fresh"
      [] committed # Null /\ (Shrank \/ Rewritten)                 -> "refuse"
      [] OTHER -> IF committed.done < committed.size \/ committed.done < listing.size
                    THEN IF committed.eol THEN "resume" ELSE "refuse"
                    ELSE "skip"

PlanWhole ==
    CASE committed = Null                                          -> "fresh"
      [] committed # Null /\ (listing.size # committed.size \/ Rewritten) -> "refuse"
      [] OTHER -> IF committed.done < committed.size THEN "fresh" ELSE "skip"

Planned == IF config.format = "whole" THEN PlanWhole ELSE PlanUnits

PlanWork ==
    /\ phase = "described"
    /\ CASE Planned = "refuse" -> Refuse
         [] Planned = "skip"   -> phase' = "idle" /\ NoRun
         [] OTHER -> /\ phase' = "planned"
                     /\ at' = IF Planned = "resume" THEN committed.done ELSE 0
                     /\ UNCHANGED <<listing, copy, held, tail, checkpoint, pushed>>
    /\ UNCHANGED <<config, file, dest>>

(***************************************************************************)
(* The reader opens the file.  A remote object is one request or one copy; *)
(* a local one is read live, a whole-file unit only if it is still as      *)
(* listed.  A resume compares what precedes its offset with the record;    *)
(* the window is read again even when nothing is compared.  From here on   *)
(* the size of a parquet file is the group count of the footer opened.     *)
(***************************************************************************)
Opened == IF config.remote /\ copy = Null THEN content ELSE Source

ResumeHolds == at > 0 => LastOf(Upto(Opened, at), TailWindow) = committed.tail

StillListed == config.remote \/ (Len(content) = listing.size /\ stamp = listing.stamp)

MayRead ==
    CASE config.format = "whole" -> StillListed
      [] OTHER                   -> at <= Len(Opened) /\ ResumeHolds

Open ==
    /\ phase = "planned"
    /\ IF MayRead
         THEN /\ phase' = "reading"
              /\ copy' = IF config.remote THEN Opened ELSE Null
              /\ tail' = LastOf(Upto(Opened, at), TailWindow)
              /\ listing' = IF config.format = "parquet"
                              THEN [listing EXCEPT !.size = Len(Opened)] ELSE listing
              /\ UNCHANGED <<at, held, checkpoint, pushed>>
         ELSE Refuse
    /\ UNCHANGED <<config, file, dest>>

(***************************************************************************)
(* Plain jsonl: a fill, and the slab of whole lines it completes; a fill   *)
(* that answers nothing makes the held bytes the final line.  Each slab is *)
(* pushed and then checkpointed.                                           *)
(***************************************************************************)
Emit(slab, rest) ==
    LET end == at + Len(slab)
        tl  == LastOf(tail \o slab, TailWindow)
    IN  /\ at' = end /\ held' = rest /\ tail' = tl
        /\ pushed' = pushed \o slab
        /\ checkpoint' = Progress(end, Max({listing.size, end}), Last(slab) = NL, tl)

LastNewline(s) == Max({i \in 1 .. Len(s) : s[i] = NL} \cup {0})

Pour ==
    /\ phase = "reading" /\ config.format = "jsonl"
    /\ LET from == at + Len(held)
           got  == SubSeq(Source, from + 1, Min({from + SlabUnits, Len(Source)}))
           all  == held \o got
           cut  == LastNewline(all)
       IN  CASE got # <<>> /\ cut > 0 -> /\ Emit(Upto(all, cut), SubSeq(all, cut + 1, Len(all)))
                                         /\ phase' = phase
             [] got # <<>> /\ cut = 0 -> /\ held' = all
                                         /\ UNCHANGED <<phase, at, tail, pushed, checkpoint>>
             [] got = <<>> /\ held # <<>> -> Emit(held, <<>>) /\ phase' = "eof"
             [] got = <<>> /\ held = <<>> ->
                  phase' = "eof" /\ UNCHANGED <<reader, pushed, checkpoint>>
    /\ UNCHANGED <<config, file, listing, copy, dest>>

(***************************************************************************)
(* The end of a jsonl read: a file that ran out before its listed size is  *)
(* refused, else the progress is complete at what was consumed.            *)
(***************************************************************************)
EndOfFile ==
    /\ phase = "eof"
    /\ IF at < listing.size
         THEN Refuse
         ELSE /\ phase' = "done"
              /\ checkpoint' = Progress(at, at, IF checkpoint = Null THEN TRUE ELSE checkpoint.eol, tail)
              /\ UNCHANGED <<listing, copy, reader, pushed>>
    /\ UNCHANGED <<config, file, dest>>

(***************************************************************************)
(* Parquet: one group, one checkpoint; listing.size is the group count the *)
(* reader took from the footer when it opened the file.                    *)
(***************************************************************************)
ReadGroup ==
    /\ phase = "reading" /\ config.format = "parquet"
    /\ CASE at >= listing.size -> /\ phase' = "done"
                                  /\ UNCHANGED <<listing, copy, reader, pushed, checkpoint>>
         [] at < listing.size /\ at >= Len(Source) -> Refuse
         [] at < listing.size /\ at < Len(Source) ->
              LET digest == LastOf(Upto(Source, at + 1), TailWindow)
              IN  /\ at' = at + 1 /\ held' = held /\ tail' = digest
                  /\ pushed' = Append(pushed, Source[at + 1])
                  /\ checkpoint' = Progress(at + 1, listing.size, TRUE, digest)
                  /\ UNCHANGED <<phase, listing, copy>>
    /\ UNCHANGED <<config, file, dest>>

(***************************************************************************)
(* A whole-file unit: rows are pushed as they come, and the progress is    *)
(* offered once, at the end.                                               *)
(***************************************************************************)
ReadWhole ==
    /\ phase = "reading" /\ config.format = "whole"
    /\ IF at < Len(Source)
         THEN /\ \E n \in 1 .. Min({SlabUnits, Len(Source) - at}) :
                   at' = at + n /\ pushed' = pushed \o SubSeq(Source, at + 1, at + n)
              /\ UNCHANGED <<phase, checkpoint>>
         ELSE /\ phase' = "done"
              /\ checkpoint' = Progress(listing.size, listing.size, TRUE, <<>>)
              /\ UNCHANGED <<at, pushed>>
    /\ UNCHANGED <<config, file, listing, copy, held, tail, dest>>
-----------------------------------------------------------------------------
(***************************************************************************)
(* The engine commits what was pushed with the newest progress offered, in *)
(* one unit; a unit may end between two slabs of a whole-file unit.        *)
(***************************************************************************)
Absorb ==
    /\ Len(rows) + Len(pushed) <= MaxRows
    /\ rows' = rows \o pushed
    /\ torn' = (torn \/ (/\ config.format = "jsonl" /\ pushed # <<>> /\ rows # <<>>
                         /\ Last(rows) # NL))
    /\ committed' = IF checkpoint = Null THEN committed ELSE checkpoint

EngineCommit ==
    /\ phase \in {"reading", "eof"} /\ pushed # <<>>
    /\ Absorb
    /\ pushed' = <<>>
    /\ UNCHANGED <<config, file, phase, listing, copy, reader, checkpoint>>

FinishRun ==
    /\ phase = "done"
    /\ Absorb
    /\ phase' = "idle" /\ NoRun
    /\ UNCHANGED <<config, file>>

(***************************************************************************)
(* A crash or a cancellation: what was not committed is gone.  After a     *)
(* refusal the operator lets it run again.                                 *)
(***************************************************************************)
RunEnds ==
    /\ phase # "idle" /\ phase # "done"
    /\ phase' = "idle" /\ NoRun
    /\ UNCHANGED <<config, file, dest>>

Next == \/ \E new \in Contents : Edit(new)
        \/ List \/ Describe \/ PlanWork \/ Open
        \/ Pour \/ EndOfFile \/ ReadGroup \/ ReadWhole
        \/ EngineCommit \/ FinishRun \/ RunEnds

Spec == Init /\ [][Next]_vars
-----------------------------------------------------------------------------
(***************************************************************************)
(* Progress that vouches for the file as it is now, complete and under the *)
(* same stamp, is the truth: the planner would skip the file, and the      *)
(* destination holds exactly its units; for a whole-file unit, all of them *)
(* since the last time it was begun (cursor.rs plan, plan_whole,           *)
(* connector.rs settled_unit_count).  Files replaced between a listing and *)
(* its read, under a read or between runs are included; a local parquet    *)
(* file replaced under a read is not: its digest is taken from bytes the   *)
(* reader has not read.                                                    *)
(***************************************************************************)
VouchedIsDelivered ==
    (/\ committed # Null /\ Complete(committed) /\ committed.stamp = stamp
     /\ ~(swapped /\ config.format = "parquet")) =>
        /\ committed.size = Len(content)
        /\ IF config.format = "whole" THEN IsSuffix(content, rows) ELSE rows = content

(***************************************************************************)
(* A resumable read never mixes two versions of a file: the destination    *)
(* holds a prefix of one content the file has had, whatever was replaced,  *)
(* shrunk or grown between the runs, and no record arrives in two pieces   *)
(* (the resume checks and the unterminated-line tripwire).  Only a live    *)
(* local file that is rewritten while it is being read escapes.            *)
(***************************************************************************)
OneVersion ==
    config.format # "whole" /\ ~swapped =>
        /\ \E v \in versions : IsPrefix(rows, v)
        /\ ~torn
=============================================================================
