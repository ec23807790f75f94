--------------------------- MODULE AuxiliaryLane ---------------------------
(***************************************************************************)
(* run_auxiliary_node_acquisition of hl-capture: the task that tails one   *)
(* Node V1 output file into a byte-offset spool, moves sealed segments to  *)
(* the raw archive, records that in the auxiliary archive checkpoint,      *)
(* prunes the hot spool and only then acknowledges the source.             *)
(*                                                                         *)
(* The spool is SourceSpool, step for step.  The tailed file is a sequence *)
(* of generations (log rotation replaces the file behind the path); an     *)
(* offset counts lines.  A line whose body is in Malformed is one the      *)
(* parser refuses: it is stored as quarantine evidence.  A stop of the     *)
(* task, an I/O error or a refused write (disk reserve) is Crash: nothing  *)
(* of the task survives it.  The raw archive is modelled by what the lane  *)
(* uses: batches are immutable, appending one twice is the same as once    *)
(* (module RawArchive has its inside).                                     *)
(***************************************************************************)
EXTENDS SourceSpool, SequencesExt

CONSTANTS
    Malformed,    \* bodies the parser refuses
    V3,           \* raw_archive_format: V3 keeps a checkpoint in the archive
    GroupMax,     \* archive_commit_max_records
    MaxGens,      \* bound on log rotations
    MaxLines,     \* bound on the lines of one generation
    MaxTotal,     \* bound on all lines
    MaxFaults     \* bound on crashes, disconnects and cancellations

ASSUME LaneConstants ==
    /\ Malformed \subseteq Bodies /\ V3 \in BOOLEAN
    /\ GroupMax \in Nat \ {0} /\ MaxGens \in Nat \ {0}
    /\ MaxLines \in 1..MaxOffset /\ MaxTotal \in Nat /\ MaxFaults \in Nat

VARIABLES
    phase,     \* where the task is
    mode,      \* why it is archiving: startup, group, reopen, stop
    gens,      \* the generations of the tailed file; the path names the last
    src,       \* the open source: generation and lines read
    pending,   \* appended, not yet acknowledged to the source
    archive,   \* raw archive: batches
    arcCkpt,   \* V3: the batches the archive's checkpoint CURRENT names
    ckpt,      \* the lane's own checkpoint file
    srcAcked,  \* history: cursors acknowledged to the source
    faults

laneVars == <<phase, mode, gens, src, pending, archive, arcCkpt, ckpt, srcAcked, faults>>
vars == <<spoolVars, laneVars>>

NoCkpt == [seq |-> 0, hash |-> NoHash, cursor |-> NoCursor, first |-> 0, local |-> 0,
           entries |-> {}]
Baseline == [seq |-> ckpt.seq, hash |-> ckpt.hash, cursor |-> ckpt.cursor,
             local |-> ckpt.local]
NoSrc == [gen |-> 0, off |-> 0]

(***************************************************************************)
(* Startup: bind the checkpoint, finish an interrupted cleanup, open.      *)
(***************************************************************************)
(* bind_auxiliary_checkpoint and verify_archived_segment.  With the V3     *)
(* archive both checkpoints must be there and name the same batches.       *)
CheckpointBinds ==
    /\ ckpt.entries \subseteq archive
    /\ V3 => /\ (archive # {}) <=> (arcCkpt # {})
             /\ arcCkpt = ckpt.entries

Start ==
    /\ phase = "stopped" /\ CheckpointBinds
    /\ phase' = IF ckpt = NoCkpt THEN "open" ELSE "clean"
    /\ mode' = "startup"
    /\ UNCHANGED <<spoolVars, gens, src, pending, archive, arcCkpt, ckpt, srcAcked, faults>>

Without(f, k) == [i \in DOMAIN f \ {k} |-> f[i]]

(* Mutant: only the manifest is looked for when cleanup is resumed. *)
CleanupSegment_IfManifest ==
    /\ phase = "clean" /\ ckpt.seq \notin DOMAIN mans
    /\ phase' = IF up THEN "archive" ELSE "open"
    /\ segs' = IF up THEN Without(segs, ckpt.seq) ELSE segs
    /\ UNCHANGED <<mans, up, sp, stage, reply, ackedRecs, mode, gens, src, pending, archive,
                   arcCkpt, ckpt, srcAcked, faults>>

(* cleanup_archived_segment removes the manifest, then the segment; either *)
(* may be gone already.                                                    *)
CleanupManifest ==
    /\ phase = "clean" /\ ckpt.seq \in DOMAIN mans
    /\ mans' = Without(mans, ckpt.seq)
    /\ UNCHANGED <<segs, up, sp, stage, reply, ackedRecs, laneVars>>

CleanupSegment ==
    /\ phase = "clean" /\ ckpt.seq \notin DOMAIN mans
    /\ segs' = Without(segs, ckpt.seq)
    /\ phase' = IF up THEN "archive" ELSE "open"
    /\ UNCHANGED <<mans, up, sp, stage, reply, ackedRecs, mode, gens, src, pending, archive,
                   arcCkpt, ckpt, srcAcked, faults>>

OpenSpool ==
    /\ phase = "open" /\ Open(Baseline)
    /\ phase' = "seal"
    /\ UNCHANGED <<mode, gens, src, pending, archive, arcCkpt, ckpt, srcAcked, faults>>

(* seal_active at the start of the recovery loop and of every flush.       *)
Seal ==
    /\ phase = "seal"
    /\ SealActive \/ (up /\ stage = SpoolIdle /\ sp.count = 0 /\ UNCHANGED spoolVars)
    /\ phase' = "archive"
    /\ UNCHANGED <<mode, gens, src, pending, archive, arcCkpt, ckpt, srcAcked, faults>>

(***************************************************************************)
(* One closed segment: archive, checkpoint, forget, clean up.              *)
(***************************************************************************)
Archiving == phase = "archive" /\ up /\ stage = SpoolIdle

(* archive_segment starts a batch where RawBatchIdentity changes; within a *)
(* segment that is the schema or quarantine reason or the hour, for which  *)
(* the body stands.                                                        *)
BatchStarts(r) == {i \in 1..Len(r) : i = 1 \/ r[i].body # r[i - 1].body}

Batches(m) ==
    {[hash |-> Hash(m), first |-> m.first + i - 1,
      recs |-> SubSeq(m.recs, i, Min({j - 1 : j \in {k \in BatchStarts(m.recs) : k > i}}
                                       \cup {Len(m.recs)}))] : i \in BatchStarts(m.recs)}

Oldest == Min(sp.closed)
Segment1 == mans[Oldest]

ArchiveBatch ==
    /\ Archiving /\ sp.closed # {}
    /\ \E b \in Batches(Segment1) \ archive :
         /\ \A c \in Batches(Segment1) : c.first < b.first => c \in archive
         /\ archive' = archive \cup {b}
    /\ UNCHANGED <<spoolVars, phase, mode, gens, src, pending, arcCkpt, ckpt, srcAcked, faults>>

(* Every batch is there: V3 switches the archive's own checkpoint to them. *)
ArchiveDone ==
    /\ Archiving /\ sp.closed # {} /\ Batches(Segment1) \subseteq archive
    /\ arcCkpt' = IF V3 THEN Batches(Segment1) ELSE arcCkpt
    /\ phase' = "checkpoint"
    /\ UNCHANGED <<spoolVars, mode, gens, src, pending, archive, ckpt, srcAcked, faults>>

NewCheckpoint ==
    [seq |-> Segment1.seq, hash |-> Hash(Segment1), cursor |-> Cursor(Last(Segment1.recs)),
     first |-> Segment1.first, local |-> Segment1.last, entries |-> Batches(Segment1)]

(* forget_archived_segment, in memory.                                     *)
Forget ==
    [sp EXCEPT !.closed = @ \ {Oldest}, !.retained = Without(@, Oldest)]

(* Mutant: the segment is forgotten and removed, the checkpoint stays. *)
PublishCheckpoint_Skipped ==
    /\ phase = "checkpoint"
    /\ sp' = Forget /\ phase' = "archive"
    /\ segs' = Without(segs, Oldest) /\ mans' = Without(mans, Oldest)
    /\ UNCHANGED <<up, stage, reply, ackedRecs, mode, gens, src, pending, archive, arcCkpt,
                   ckpt, srcAcked, faults>>

(* publish_auxiliary_checkpoint (a rename), then forget_archived_segment.  *)
PublishCheckpoint ==
    /\ phase = "checkpoint"
    /\ ckpt' = NewCheckpoint
    /\ sp' = Forget
    /\ phase' = "clean"
    /\ UNCHANGED <<segs, mans, up, stage, reply, ackedRecs, mode, gens, src, pending, archive,
                   arcCkpt, srcAcked, faults>>

(* Nothing is left to archive: the source is opened, or the group is       *)
(* acknowledged.                                                           *)
Archived ==
    /\ Archiving /\ sp.closed = {}
    /\ phase' = IF mode = "startup" THEN "source" ELSE "ack"
    /\ UNCHANGED <<spoolVars, mode, gens, src, pending, archive, arcCkpt, ckpt, srcAcked, faults>>

AfterAck == CASE mode = "group"  -> "run"
              [] mode = "reopen" -> "source"
              [] mode = "stop"   -> "closing"

Acknowledge ==
    /\ phase = "ack"
    /\ srcAcked' = srcAcked \cup ToSet(pending)
    /\ pending' = <<>>
    /\ phase' = AfterAck
    /\ UNCHANGED <<spoolVars, mode, gens, src, archive, arcCkpt, ckpt, faults>>

(***************************************************************************)
(* The tailed file and the source that reads it.                           *)
(***************************************************************************)
Lines == FoldFunction(LAMBDA g, n : n + Len(g.lines), 0, gens)

AppendLine ==
    \E b \in Bodies :
        /\ gens # <<>> /\ Len(Last(gens).lines) < MaxLines /\ Lines < MaxTotal
        /\ gens' = [gens EXCEPT ![Len(gens)].lines = Append(@, b)]
        /\ UNCHANGED <<spoolVars, phase, mode, src, pending, archive, arcCkpt, ckpt,
                       srcAcked, faults>>

(* A new file with its opening record; the epoch is the file's identity    *)
(* and that record, which may come back.                                   *)
RotateLog ==
    \E e \in Epochs, b \in Bodies :
        /\ Len(gens) < MaxGens /\ Lines < MaxTotal
        /\ gens' = Append(gens, [epoch |-> e, lines |-> <<b>>])
        /\ UNCHANGED <<spoolVars, phase, mode, src, pending, archive, arcCkpt, ckpt,
                       srcAcked, faults>>

(* Mutant: the source resumes at the durable offset in whatever file is there. *)
OpenSource_IgnoresEpoch ==
    /\ phase = "source" /\ gens # <<>>
    /\ sp.last.off <= Len(Last(gens).lines)
    /\ src' = [gen |-> Len(gens), off |-> sp.last.off]
    /\ phase' = "run"
    /\ UNCHANGED <<spoolVars, mode, gens, pending, archive, arcCkpt, ckpt, srcAcked, faults>>

(* NodeLineFileSource::open at the durable cursor: the same epoch resumes  *)
(* after it, another one starts at 0.                                      *)
OpenSource ==
    /\ phase = "source" /\ gens # <<>>
    /\ sp.last.epoch = Last(gens).epoch => sp.last.off <= Len(Last(gens).lines)
    /\ src' = [gen |-> Len(gens),
               off |-> IF sp.last.epoch = Last(gens).epoch THEN sp.last.off ELSE 0]
    /\ phase' = "run"
    /\ UNCHANGED <<spoolVars, mode, gens, pending, archive, arcCkpt, ckpt, srcAcked, faults>>

Running == phase = "run" /\ up /\ stage = SpoolIdle

Gen == gens[src.gen]
Line == [epoch |-> Gen.epoch, off |-> src.off + 1, body |-> Gen.lines[src.off + 1]]

(* Mutant: the source counts the new file as one more than the path names. *)
FollowRotation_PastEnd ==
    /\ Running /\ src.off = Len(Gen.lines) /\ src.gen < Len(gens)
    /\ src' = [gen |-> Len(gens) + 1, off |-> 0]
    /\ UNCHANGED <<spoolVars, phase, mode, gens, pending, archive, arcCkpt, ckpt,
                   srcAcked, faults>>

(* rotate_if_ready: at the end of the replaced file the path is opened.    *)
(* The end of the file is read first (read_next_line) and the path is      *)
(* examined after it; here both are one step, so a line that is written to *)
(* the old file and rotated away between the two, which the code skips, is *)
(* not seen, nor would CapturedInOrder see it.                             *)
FollowRotation ==
    /\ Running /\ src.off = Len(Gen.lines) /\ src.gen < Len(gens)
    /\ src' = [gen |-> Len(gens), off |-> 0]
    /\ UNCHANGED <<spoolVars, phase, mode, gens, pending, archive, arcCkpt, ckpt,
                   srcAcked, faults>>

EpochArchived(e) == \E b \in archive : \E i \in 1..Len(b.recs) : b.recs[i].epoch = e

(* append_auxiliary_observation refuses an epoch that left the spool.      *)
Admissible(o) == ~(EpochChanged(o) /\ EpochArchived(o.epoch))

Observe(due) ==
    /\ Running /\ src.off < Len(Gen.lines)
    /\ Admissible(Line)
    /\ AppendBegin(Line, due)
    /\ src' = [src EXCEPT !.off = @ + 1]
    /\ phase' = "append"
    /\ UNCHANGED <<mode, gens, pending, archive, arcCkpt, ckpt, srcAcked, faults>>

(* A refused line (an epoch seen before) ends the task.                    *)
ObserveRefused ==
    /\ Running /\ src.off < Len(Gen.lines)
    /\ ~Admissible(Line) \/ Regression(Line) \/ FindRetained(Line).found
    /\ phase' = "stopped"
    /\ up' = FALSE /\ sp' = Down /\ stage' = SpoolIdle /\ reply' = NoReply
    /\ pending' = <<>> /\ src' = NoSrc
    /\ UNCHANGED <<segs, mans, ackedRecs, mode, gens, archive, arcCkpt, ckpt, srcAcked, faults>>

(* Mutant: a quarantined line is acknowledged with the group it joins. *)
Appended_AckQuarantine ==
    /\ phase = "append" /\ WriteRecord
    /\ pending' = Append(pending, Cursor(stage.obs))
    /\ srcAcked' = IF stage.obs.body \in Malformed
                   THEN srcAcked \cup {Cursor(stage.obs)} ELSE srcAcked
    /\ phase' = "run" /\ mode' = "group"
    /\ UNCHANGED <<gens, src, archive, arcCkpt, ckpt, faults>>

(* The record is durable in the spool: it joins the group, which is        *)
(* flushed at once after a rotation, at its limit and for quarantine.      *)
Appended ==
    /\ phase = "append" /\ WriteRecord
    /\ pending' = Append(pending, Cursor(stage.obs))
    /\ phase' = IF \/ stage.obs.body \in Malformed
                   \/ sp.closed # {} \/ Len(pending) + 1 >= GroupMax
                THEN "seal" ELSE "run"
    /\ mode' = "group"
    /\ UNCHANGED <<gens, src, archive, arcCkpt, ckpt, srcAcked, faults>>

(* Mutant: a group that never fills has no deadline. *)
Flush_NoDeadline(why) ==
    /\ Running /\ mode' = why
    /\ why # "group" /\ faults < MaxFaults /\ faults' = faults + 1
    /\ phase' = IF pending # <<>> THEN "seal"
                ELSE IF why = "reopen" THEN "source" ELSE "closing"
    /\ UNCHANGED <<spoolVars, gens, src, pending, archive, arcCkpt, ckpt, srcAcked>>

(* The group's deadline, a disconnect or a cancellation flush a group that *)
(* is not empty.                                                           *)
Flush(why) ==
    /\ Running /\ mode' = why
    /\ IF why = "group" THEN pending # <<>> /\ UNCHANGED faults
       ELSE faults < MaxFaults /\ faults' = faults + 1
    /\ phase' = IF pending # <<>> THEN "seal"
                ELSE IF why = "reopen" THEN "source" ELSE "closing"
    /\ UNCHANGED <<spoolVars, gens, src, pending, archive, arcCkpt, ckpt, srcAcked>>

(* close_spool on an empty active segment.                                 *)
Close ==
    /\ phase = "closing" /\ ShutdownEmpty
    /\ phase' = "stopped" /\ src' = NoSrc
    /\ UNCHANGED <<mode, gens, pending, archive, arcCkpt, ckpt, srcAcked, faults>>

SpoolStage ==
    /\ PublishManifest \/ CreateSegment
    /\ UNCHANGED laneVars

LaneCrash ==
    /\ phase # "stopped" /\ faults < MaxFaults
    /\ faults' = faults + 1
    /\ phase' = "stopped" /\ src' = NoSrc /\ pending' = <<>>
    /\ Crash \/ (~up /\ UNCHANGED spoolVars)
    /\ UNCHANGED <<mode, gens, archive, arcCkpt, ckpt, srcAcked>>

LaneInit ==
    /\ SpoolInit
    /\ phase = "stopped" /\ mode = "startup" /\ gens = <<>> /\ src = NoSrc
    /\ pending = <<>> /\ archive = {} /\ arcCkpt = {} /\ ckpt = NoCkpt
    /\ srcAcked = {} /\ faults = 0

TaskStep ==
    \/ Start \/ CleanupManifest \/ CleanupSegment \/ OpenSpool \/ SpoolStage \/ Seal
    \/ ArchiveBatch \/ ArchiveDone \/ PublishCheckpoint \/ Archived \/ Acknowledge
    \/ OpenSource \/ FollowRotation \/ ObserveRefused \/ Appended
    \/ \E due \in BOOLEAN : Observe(due)
    \/ Flush("group")

LaneNext ==
    \/ TaskStep \/ AppendLine \/ RotateLog
    \/ Flush("reopen") \/ Flush("stop") \/ Close
    \/ LaneCrash

LaneSpec == LaneInit /\ [][LaneNext]_vars

(* The task runs until it is stopped; a failing one ends the service,      *)
(* which systemd starts again.                                             *)
FairLaneSpec == LaneSpec /\ WF_vars(TaskStep) /\ WF_vars(Close)

(***************************************************************************)
(* Properties.                                                             *)
(***************************************************************************)
(* Positions name what exists: a generation that is there, a segment in    *)
(* range.                                                                  *)
LaneTypeOK ==
    /\ phase \in {"stopped", "clean", "open", "seal", "archive", "checkpoint", "source",
                  "run", "append", "ack", "closing"}
    /\ mode \in {"startup", "group", "reopen", "stop"}
    /\ src.gen \in 0..Len(gens) /\ faults \in 0..MaxFaults
    /\ ckpt.local \in Nat /\ ckpt.seq \in 0..MaxSegments

(* What the archive holds under number n.                                  *)
ArchivedAs(n) == {c.recs[n - c.first + 1] : c \in {d \in archive :
                    n \in d.first .. (d.first + Len(d.recs) - 1)}}

(* Every record the spool acknowledged is in the archive once the          *)
(* checkpoint covers it, and in the spool until then, under the number it  *)
(* got; no number names two records.                                       *)
NothingLost ==
    /\ AckedHeld(Baseline)
    /\ \A i \in 1..Len(ackedRecs) :
         /\ ackedRecs[i].local <= ckpt.local => ArchivedAs(ackedRecs[i].local) = {ackedRecs[i].obs}
         /\ ArchivedAs(ackedRecs[i].local) \subseteq {ackedRecs[i].obs}

(* The archive holds the record and the checkpoint a restart begins from   *)
(* covers it.                                                              *)
Checkpointed(c) == \E b \in archive : \E i \in 1..Len(b.recs) :
                      Cursor(b.recs[i]) = c /\ b.first + i - 1 <= ckpt.local

(* The source is told that a line is durable only when the archive holds   *)
(* it and the checkpoint a restart begins from covers it.                  *)
SourceAckedAfterCheckpoint == \A c \in srcAcked : Checkpointed(c)

(* The captured stream: the archive up to the checkpoint, then the spool.  *)
Captured(n) == IF n <= ckpt.local THEN ArchivedAs(n) ELSE Held(n, Baseline)
CapturedTo == ckpt.local + Cardinality({p \in Positions : p[1] > ckpt.seq})

(* Every number names one record.  Within an epoch no line is skipped and  *)
(* none is captured twice, however often the task is stopped and its       *)
(* source reopened; an epoch that was left is not captured again, not even *)
(* when every segment that had it has been pruned.                         *)
NoLineSkipped ==
    \A n \in 1..CapturedTo :
        \E o \in Captured(n) :
            /\ Captured(n) = {o}
            /\ \/ o.off = 1 /\ \A q \in Captured(n - 1) : q.epoch # o.epoch
               \/ \E q \in Captured(n - 1) : q.epoch = o.epoch /\ o.off = q.off + 1

EpochsNotReadmitted ==
    \A i, j, k \in 1..CapturedTo :
        i < k /\ k < j => \A o \in Captured(i), q \in Captured(j) :
            o.epoch = q.epoch => \A r \in Captured(k) : r.epoch = o.epoch

CapturedInOrder == NoLineSkipped /\ EpochsNotReadmitted

(* The checkpoint and the spool it resumes agree after every stop: a       *)
(* stopped lane binds, once cleanup is finished the directory opens unless *)
(* the crash interrupted a manifest or a segment header, and a clean stop  *)
(* finds no record that is not checkpointed (close_spool would archive it  *)
(* without a checkpoint).                                                  *)
RestartSucceeds ==
    /\ phase = "stopped" => CheckpointBinds
    /\ phase = "open" /\ ~Interrupted => Openable(Baseline)
    /\ phase = "closing" => sp.count = 0 /\ sp.closed = {} /\ pending = <<>>

(* "Closed, verified spool segments are archived idempotently into raw     *)
(* Parquet before restart completion" (docs/DEVELOPMENT.md): whatever step *)
(* of archiving a sealed segment the last process was stopped in, the next *)
(* start binds the checkpoint of the lane and that of the archive, without *)
(* which it never comes to the segment.                                    *)
BindsAfterCrash == phase = "stopped" => CheckpointBinds

(* A line of the tailed file is archived and checkpointed in the end, also *)
(* when a fault interrupts the group it is in, unless the log is rotated   *)
(* away or the lane is refused for ever: by an interrupted directory or by *)
(* an epoch that came back.                                                *)
Refused ==
    \/ Interrupted
    \/ \E g, h \in 1..Len(gens) : g # h /\ gens[g].epoch = gens[h].epoch
    \/ LastSequence(Baseline) = MaxSegments

LinesArchived ==
    \A h \in 1..MaxGens, n \in 1..MaxLines :
        (Len(gens) = h /\ n <= Len(gens[h].lines)) ~>
            \/ Refused \/ Len(gens) > h
            \/ Len(gens) = h /\ Checkpointed([epoch |-> gens[h].epoch, off |-> n])
=============================================================================
