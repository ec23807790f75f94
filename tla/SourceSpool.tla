---------------------------- MODULE SourceSpool ----------------------------
(***************************************************************************)
(* The byte-offset source spool of hl-capture (spool/source_spool.rs with  *)
(* its writer, manifest, inspection and recovery), which fsyncs every      *)
(* record.  A spool is a directory of numbered segments; every segment but *)
(* the last has a published close manifest that chains to its predecessor. *)
(* The native-offset policy of the committed lane, which keeps no local    *)
(* sequences, is part of CommittedDrain.                                   *)
(*                                                                         *)
(* A durable file operation (publish a manifest, create a segment, append  *)
(* a record) is one stage of an operation.  Completing it applies its      *)
(* whole effect; a crash inside it leaves one of the partial effects its   *)
(* system calls allow.  An I/O error ends the owning task, so it is the    *)
(* same step as a crash.                                                   *)
(*                                                                         *)
(* Abstractions: a payload is a member of Bodies (equal bodies have equal  *)
(* content hashes); a manifest hash is the manifest's sequence and the     *)
(* records it vouches for; byte sizes and ages only decide rotation_due,   *)
(* which is a free choice for a non-empty segment; source, schema and      *)
(* build identities never change between two openings of one directory.    *)
(***************************************************************************)
EXTENDS Naturals, Sequences, FiniteSets, FiniteSetsExt

CONSTANTS
    Epochs,      \* cursor epochs (one per upstream file generation)
    MaxOffset,   \* largest cursor offset the environment offers
    Bodies,      \* payload contents
    MaxSegments  \* bound on the segment sequence

ASSUME SpoolConstants ==
    /\ IsFiniteSet(Epochs) /\ Epochs # {}
    /\ MaxOffset \in Nat /\ MaxSegments \in Nat \ {0}
    /\ Bodies # {}

Cursors      == [epoch : Epochs, off : 1..MaxOffset]
NoCursor     == [epoch |-> "none", off |-> 0]
Observations == [epoch : Epochs, off : 1..MaxOffset, body : Bodies]
NoObs        == [epoch |-> "none", off |-> 0, body |-> "none"]

Cursor(o) == [epoch |-> o.epoch, off |-> o.off]

(* A segment is its header (written whole or not), its complete records    *)
(* and whether an incomplete record follows them.                          *)
Segment(hdr, recs, torn) == [hdr |-> hdr, recs |-> recs, torn |-> torn]

NoHash == [seq |-> 0, recs |-> <<>>]
Hash(m) == [seq |-> m.seq, recs |-> m.recs]

(* What SourceSpool::open may start from after earlier segments were       *)
(* archived and pruned: SourceSpoolBaseline.                               *)
NoBaseline == [seq |-> 0, hash |-> NoHash, cursor |-> NoCursor, local |-> 0]

VARIABLES
    segs,   \* segment files: sequence -> Segment
    mans,   \* manifest files: sequence -> [tmp, seq, prev, first, last, recs]
    up,     \* a SourceSpool value owns the directory
    sp,     \* its fields
    stage,  \* the file operation in progress, with the observation to append
    reply,  \* the result of the last append
    ackedRecs   \* history: every append acknowledged as durable, with its number

spoolVars == <<segs, mans, up, sp, stage, reply, ackedRecs>>

Closed == {s \in DOMAIN mans : ~mans[s].tmp}
OpenSegments == DOMAIN segs \ Closed

(***************************************************************************)
(* inspect_directory_entries and the record pass of open.                  *)
(***************************************************************************)
(* The complete records on disk, by segment and place, and their order.    *)
Positions == UNION {{<<s, j>> : j \in 1..Len(segs[s].recs)} : s \in DOMAIN segs}
Rec(p) == segs[p[1]].recs[p[2]]
Precedes(p, q) == p[1] < q[1] \/ (p[1] = q[1] /\ p[2] < q[2])
Latest(P) == CHOOSE p \in P : \A q \in P \ {p} : Precedes(q, p)

(* What the manifests before segment s leave for the next one to continue: *)
(* previous_sequence, previous_manifest_hash, previous_local_sequence.     *)
Previous(s, b) ==
    LET earlier == {t \in Closed : t < s}
        m == mans[Max(earlier)]
    IN  IF earlier = {} THEN [seq |-> b.seq, hash |-> b.hash, local |-> b.local]
        ELSE [seq |-> Max(earlier), hash |-> Hash(m), local |-> m.last]

Tip(b) == Previous(MaxSegments + 1, b)

(* The local sequence of the record at p.                                  *)
Number(p, b) == Previous(p[1], b).local + p[2]

(* The manifest of s vouches for the segment's bytes, and its local        *)
(* sequences are as many as the records.                                   *)
ManifestHolds(s) ==
    /\ s \in DOMAIN segs /\ segs[s].hdr /\ ~segs[s].torn
    /\ segs[s].recs = mans[s].recs
    /\ mans[s].last = mans[s].first + Len(mans[s].recs) - 1

InSequence(s, b) == Previous(s, b).seq # 0 => s = Previous(s, b).seq + 1

(* collect_entries and the manifest chain: every closed segment follows    *)
(* its predecessor, names its hash, and continues its local sequences.     *)
ChainIntact(b) ==
    /\ \A s \in DOMAIN mans : ~mans[s].tmp
    /\ \A s \in Closed :
         /\ InSequence(s, b)
         /\ mans[s].prev = Previous(s, b).hash
         /\ ManifestHolds(s)
         /\ mans[s].first = Previous(s, b).local + 1
    /\ Cardinality(OpenSegments) <= 1
    /\ \A s \in OpenSegments : InSequence(s, b) /\ segs[s].hdr

(* Successor(c, p, first): validate_successor.                             *)
Successor(c, p, first) ==
    \/ p = NoCursor
    \/ c.epoch = p.epoch /\ c.off > p.off
    \/ c.epoch # p.epoch /\ first

(* last_durable_cursor after the records at P.                             *)
LastCursor(P, b) == IF P = {} THEN b.cursor ELSE Cursor(Rec(Latest(P)))

RecordsAdmissible(b) ==
    \A p \in Positions :
        LET earlier == {q \in Positions : Precedes(q, p)}
            last    == LastCursor(earlier, b)
        IN  /\ Successor(Cursor(Rec(p)), last, p[2] = 1)
            /\ (last # NoCursor /\ p[2] = 1 /\ last.epoch # Rec(p).epoch) =>
                 \A q \in earlier : Rec(q).epoch # Rec(p).epoch

Openable(b) == ChainIntact(b) /\ RecordsAdmissible(b)

(***************************************************************************)
(* The fields of the SourceSpool after open.                               *)
(***************************************************************************)
(* retained_segments: per segment with records, the epoch, the range of    *)
(* offsets and the first local sequence.                                   *)
RetainedIndex(b) ==
    [s \in {t \in DOMAIN segs : segs[t].recs # <<>>} |->
       LET r == segs[s].recs
       IN  [epoch |-> r[1].epoch, min |-> r[1].off, max |-> r[Len(r)].off,
            first |-> Previous(s, b).local + 1]]

OpenSegment == IF OpenSegments = {} THEN 0 ELSE Max(OpenSegments)
OpenCount   == IF OpenSegments = {} THEN 0 ELSE Len(segs[OpenSegment].recs)

(* Mutant: numbering restarts with the open segment. *)
Recovered_OpenOnly(b) ==
    [writer |-> OpenSegment, count |-> OpenCount, last |-> LastCursor(Positions, b),
     local |-> b.local + OpenCount, closed |-> Closed, retained |-> RetainedIndex(b),
     tip |-> Tip(b).hash]

Recovered(b) ==
    [writer |-> OpenSegment, count |-> OpenCount, last |-> LastCursor(Positions, b),
     local |-> Tip(b).local + OpenCount, closed |-> Closed, retained |-> RetainedIndex(b),
     tip |-> Tip(b).hash]

LastSequence(b) == IF DOMAIN segs = {} THEN b.seq ELSE Max(DOMAIN segs)

SpoolIdle          == [at |-> "idle", obs |-> NoObs, next |-> 0]
Down          == [writer |-> 0, count |-> 0, last |-> NoCursor, local |-> 0,
                  closed |-> {}, retained |-> <<>>, tip |-> NoHash]
NoReply       == [kind |-> "none", obs |-> NoObs, local |-> 0]

(* SourceSpool::open.  The incomplete tail of the open segment is cut off  *)
(* first; without an open segment the next one is created.                 *)
Open(b) ==
    /\ ~up /\ Openable(b)
    /\ up' = TRUE
    /\ segs' = [s \in DOMAIN segs |-> [segs[s] EXCEPT !.torn = FALSE]]
    /\ sp' = Recovered(b)
    /\ IF OpenSegments = {}
       THEN /\ LastSequence(b) < MaxSegments
            /\ stage' = [at |-> "create", obs |-> NoObs, next |-> LastSequence(b) + 1]
       ELSE stage' = SpoolIdle
    /\ reply' = NoReply
    /\ UNCHANGED <<mans, ackedRecs>>

(***************************************************************************)
(* append                                                                  *)
(***************************************************************************)
(* find_retained: the first entry whose range holds the cursor is scanned. *)
FindRetained(o) ==
    LET hits == {s \in DOMAIN sp.retained :
                   /\ sp.retained[s].epoch = o.epoch
                   /\ o.off \in sp.retained[s].min .. sp.retained[s].max}
        r    == segs[Min(hits)].recs
        at   == {j \in 1..Len(r) : Cursor(r[j]) = Cursor(o)}
    IN  IF hits = {} \/ at = {} THEN [found |-> FALSE]
        ELSE [found |-> TRUE, body |-> r[Min(at)].body,
              local |-> sp.retained[Min(hits)].first + Min(at) - 1]

EpochChanged(o) == sp.last # NoCursor /\ sp.last.epoch # o.epoch

(* The transitions append_byte_offset refuses: an offset that does not     *)
(* advance, or an epoch still retained.                                    *)
Regression(o) ==
    \/ sp.last # NoCursor /\ sp.last.epoch = o.epoch /\ o.off <= sp.last.off
    \/ EpochChanged(o) /\ \E s \in DOMAIN sp.retained : sp.retained[s].epoch = o.epoch

Reply(kind, o, n) == reply' = [kind |-> kind, obs |-> o, local |-> n]

(* duplicate_append: a retained cursor is answered with the number the     *)
(* record has, if its content is the same.                                 *)
SpoolAppendKnown(o) ==
    LET f == FindRetained(o)
    IN  /\ up /\ stage = SpoolIdle /\ sp.writer # 0
        /\ f.found
        /\ Reply(IF f.body = o.body THEN "Duplicate" ELSE "CursorConflict", o,
                 IF f.body = o.body THEN f.local ELSE 0)
        /\ UNCHANGED <<segs, mans, up, sp, stage, ackedRecs>>

AppendRefused(o) ==
    /\ up /\ stage = SpoolIdle /\ sp.writer # 0
    /\ ~FindRetained(o).found
    /\ Regression(o)
    /\ Reply("CursorRegression", o, 0)
    /\ UNCHANGED <<segs, mans, up, sp, stage, ackedRecs>>

(* A non-empty segment is rotated first for another epoch, or when the     *)
(* size or the age says so.                                                *)
RotatesFor(o, due) == sp.count > 0 /\ (due \/ EpochChanged(o))

AppendBegin(o, due) ==
    /\ up /\ stage = SpoolIdle /\ sp.writer # 0
    /\ ~FindRetained(o).found
    /\ ~Regression(o)
    /\ RotatesFor(o, due) => sp.writer < MaxSegments
    /\ stage' = [at   |-> IF RotatesFor(o, due) THEN "close" ELSE "write",
                 obs  |-> o,
                 next |-> IF RotatesFor(o, due) THEN sp.writer + 1 ELSE 0]
    /\ UNCHANGED <<segs, mans, up, sp, reply, ackedRecs>>

(* seal_active leaves an empty segment alone.                              *)
SealActive ==
    /\ up /\ stage = SpoolIdle /\ sp.writer # 0 /\ sp.count > 0 /\ sp.writer < MaxSegments
    /\ stage' = [at |-> "close", obs |-> NoObs, next |-> sp.writer + 1]
    /\ UNCHANGED <<segs, mans, up, sp, reply, ackedRecs>>

(* shutdown closes a non-empty segment and creates no other.               *)
ShutdownBegin ==
    /\ up /\ stage = SpoolIdle /\ sp.writer # 0 /\ sp.count > 0
    /\ stage' = [at |-> "close", obs |-> NoObs, next |-> 0]
    /\ UNCHANGED <<segs, mans, up, sp, reply, ackedRecs>>

ShutdownEmpty ==
    /\ up /\ stage = SpoolIdle /\ sp.writer # 0 /\ sp.count = 0
    /\ up' = FALSE /\ sp' = Down
    /\ UNCHANGED <<segs, mans, stage, reply, ackedRecs>>

(***************************************************************************)
(* The stages.                                                             *)
(***************************************************************************)
(* Mutant: the manifest of a segment does not name its predecessor. *)
NewManifest_Unchained(tmp) ==
    LET first == sp.retained[sp.writer].first
    IN  [tmp |-> tmp, seq |-> sp.writer, prev |-> NoHash, first |-> first,
         last |-> first + sp.count - 1,
         recs |-> segs[sp.writer].recs]

(* close_writer and close_with_manifest: what the manifest says, under its *)
(* temporary name and after the rename.                                    *)
NewManifest(tmp) ==
    LET first == sp.retained[sp.writer].first
    IN  [tmp |-> tmp, seq |-> sp.writer, prev |-> sp.tip, first |-> first,
         last |-> first + sp.count - 1,
         recs |-> segs[sp.writer].recs]

With(f, k, v) == [i \in DOMAIN f \cup {k} |-> IF i = k THEN v ELSE f[i]]

(* publish_manifest; a shutdown ends here.                                 *)
PublishManifest ==
    /\ up /\ stage.at = "close"
    /\ mans' = With(mans, sp.writer, NewManifest(FALSE))
    /\ IF stage.next = 0
       THEN up' = FALSE /\ sp' = Down /\ stage' = SpoolIdle
       ELSE /\ sp' = [sp EXCEPT !.tip = Hash(NewManifest(FALSE))]
            /\ stage' = [stage EXCEPT !.at = "create"]
            /\ UNCHANGED up
    /\ UNCHANGED <<segs, reply, ackedRecs>>

(* SpoolWriter::create, by rotate or by open.                              *)
CreateSegment ==
    /\ up /\ stage.at = "create"
    /\ segs' = With(segs, stage.next, Segment(TRUE, <<>>, FALSE))
    /\ sp' = [sp EXCEPT !.writer = stage.next, !.count = 0,
                        !.closed = IF sp.writer = 0 THEN @ ELSE @ \cup {sp.writer}]
    /\ stage' = IF stage.obs = NoObs THEN SpoolIdle
                ELSE [at |-> "write", obs |-> stage.obs, next |-> 0]
    /\ UNCHANGED <<mans, up, reply, ackedRecs>>

(* extend_retained_segment: only the last entry is extended.               *)
ExtendRetained(o, n) ==
    IF DOMAIN sp.retained # {} /\ Max(DOMAIN sp.retained) = sp.writer
    THEN [sp.retained EXCEPT ![sp.writer].max = o.off]
    ELSE With(sp.retained, sp.writer, [epoch |-> o.epoch, min |-> o.off, max |-> o.off, first |-> n])

(* SpoolWriter::append with FsyncEveryRecord, and the bookkeeping after.   *)
WriteRecord ==
    /\ up /\ stage.at = "write"
    /\ segs' = [segs EXCEPT ![sp.writer].recs = Append(@, stage.obs)]
    /\ sp' = [sp EXCEPT !.count = @ + 1, !.last = Cursor(stage.obs), !.local = @ + 1,
                        !.retained = ExtendRetained(stage.obs, sp.local + 1)]
    /\ Reply("Appended", stage.obs, sp.local + 1)
    /\ ackedRecs' = Append(ackedRecs, [obs |-> stage.obs, local |-> sp.local + 1])
    /\ stage' = SpoolIdle
    /\ UNCHANGED <<mans, up>>

(* What a crash inside a stage leaves behind: nothing, a part, or all.     *)
CrashInPublish ==
    /\ stage.at = "close"
    /\ \E m \in {mans, With(mans, sp.writer, NewManifest(TRUE)),
                 With(mans, sp.writer, NewManifest(FALSE))} : mans' = m
    /\ UNCHANGED segs

CrashInCreate ==
    /\ stage.at = "create"
    /\ \E f \in {segs, With(segs, stage.next, Segment(FALSE, <<>>, FALSE)),
                 With(segs, stage.next, Segment(TRUE, <<>>, FALSE))} : segs' = f
    /\ UNCHANGED mans

CrashInWrite ==
    /\ stage.at = "write"
    /\ \E r \in {segs[sp.writer], [segs[sp.writer] EXCEPT !.torn = TRUE],
                 [segs[sp.writer] EXCEPT !.recs = Append(@, stage.obs)]} :
         segs' = [segs EXCEPT ![sp.writer] = r]
    /\ UNCHANGED mans

CrashIdle == stage.at = "idle" /\ UNCHANGED <<segs, mans>>

Crash ==
    /\ up
    /\ CrashInPublish \/ CrashInCreate \/ CrashInWrite \/ CrashIdle
    /\ up' = FALSE /\ sp' = Down /\ stage' = SpoolIdle /\ reply' = NoReply
    /\ UNCHANGED ackedRecs

SpoolInit ==
    /\ segs = [s \in {} |-> NoObs] /\ mans = [s \in {} |-> NoObs]
    /\ up = FALSE /\ sp = Down /\ stage = SpoolIdle /\ reply = NoReply
    /\ ackedRecs = <<>>

StageStep == PublishManifest \/ CreateSegment \/ WriteRecord

SpoolNext ==
    \/ Open(NoBaseline)
    \/ \E o \in Observations :
         SpoolAppendKnown(o) \/ AppendRefused(o) \/ \E due \in BOOLEAN : AppendBegin(o, due)
    \/ SealActive \/ ShutdownBegin \/ ShutdownEmpty
    \/ StageStep
    \/ Crash

SpoolSpec == SpoolInit /\ [][SpoolNext]_spoolVars

(***************************************************************************)
(* Properties.                                                             *)
(***************************************************************************)
(* Shape of the directory and of the fields of an open spool.              *)
SpoolTypeOK ==
    /\ DOMAIN segs \subseteq 1..MaxSegments /\ DOMAIN mans \subseteq 1..MaxSegments
    /\ \A s \in DOMAIN segs :
         /\ segs[s].hdr \in BOOLEAN /\ segs[s].torn \in BOOLEAN
         /\ \A j \in 1..Len(segs[s].recs) : segs[s].recs[j] \in Observations
    /\ \A s \in DOMAIN mans : mans[s].tmp \in BOOLEAN /\ mans[s].seq = s
    /\ up \in BOOLEAN
    /\ stage.at \in {"idle", "close", "create", "write"}
    /\ sp.writer \in 0..MaxSegments /\ sp.local \in Nat

(* What the retained segments after the baseline hold under number n.      *)
Held(n, b) == {Rec(p) : p \in {q \in Positions : q[1] > b.seq /\ Number(q, b) = n}}

(* Every record the spool acknowledged is still on disk under the number   *)
(* it was acknowledged with, and no other is, through any crash, rotation  *)
(* and reopening; the records of the baseline were archived and pruned.    *)
AckedHeld(b) ==
    \A i \in 1..Len(ackedRecs) :
        ackedRecs[i].local > b.local => Held(ackedRecs[i].local, b) = {ackedRecs[i].obs}

(* No two records on disk share a cursor; within an epoch the offsets      *)
(* advance; an epoch, once left, does not come back.                       *)
CursorsAdvance ==
    \A p, q \in Positions :
        Precedes(p, q) /\ Rec(p).epoch = Rec(q).epoch =>
            /\ Rec(p).off < Rec(q).off
            /\ \A r \in Positions :
                 Precedes(p, r) /\ Precedes(r, q) => Rec(r).epoch = Rec(p).epoch

(* A crash leaves a directory the next open accepts, unless it interrupted *)
(* a manifest publication or the writing of a segment header: the two      *)
(* states recovery refuses to repair.                                      *)
Interrupted ==
    \/ \E s \in DOMAIN mans : mans[s].tmp
    \/ \E s \in DOMAIN segs : ~segs[s].hdr

ReopensUnlessInterrupted == ~up /\ ~Interrupted => Openable(NoBaseline)

(* A repeated append is answered with the number under which exactly this  *)
(* record is on disk; a conflict names a cursor that is on disk with other *)
(* content.                                                                *)
RepliesName ==
    /\ reply.kind = "Duplicate" => Held(reply.local, NoBaseline) = {reply.obs}
    /\ reply.kind = "CursorConflict" =>
         \E p \in Positions : Cursor(Rec(p)) = Cursor(reply.obs) /\ Rec(p) # reply.obs

(* The fields an open spool works from describe the directory: the next    *)
(* record gets the number after as many as there are on disk, and the      *)
(* duplicate index covers every record.                                    *)
MemoryMatchesDisk ==
    up /\ stage = SpoolIdle =>
        /\ sp.local = Cardinality(Positions)
        /\ sp.last = LastCursor(Positions, NoBaseline)
        /\ \A p \in Positions : FindRetained(Rec(p)).found
        /\ sp.closed = Closed

(* What the spool promises: acknowledged records stay, cursors advance,    *)
(* replies are true and the memory of an open spool describes its files.   *)
SpoolSafe ==
    /\ SpoolTypeOK
    /\ AckedHeld(NoBaseline)
    /\ CursorsAdvance
    /\ RepliesName
    /\ MemoryMatchesDisk
=============================================================================
