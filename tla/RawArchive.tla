----------------------------- MODULE RawArchive -----------------------------
(***************************************************************************)
(* The V3 store of raw observations (crates/canonical-archive:             *)
(* raw_v3_store.rs and raw_v3_store/{checkpoint,gc,retention,scrub}.rs) of *)
(* one chain and source.                                                   *)
(*                                                                         *)
(* append_batch, pack_index and pack_logical_range write immutable files,  *)
(* extend the append-only index journal, write a root bundle that          *)
(* authenticates a prefix of it, and switch CURRENT.  Garbage collection   *)
(* works in three calls (backup, plan, execute) and unlinks file by file   *)
(* through a deletion journal.  All of these hold the writer lock, and the *)
(* process may end between any two durable steps.  Readers take a shared   *)
(* lease on the root they loaded and nothing else.                         *)
(*                                                                         *)
(* Abstractions: a batch is one local sequence number; a logical commit    *)
(* manifest and its Parquet object are one file, as are a pack manifest    *)
(* and its object; a page of the journal is the set of leaves of the tree  *)
(* it is the root of; hashes are the contents they bind, and the contents  *)
(* include durable_at; one day partition; index packs and receipt hints,   *)
(* which are never the only copy of anything, and capacity limits are left *)
(* out.  A batch repeated has the content of the first attempt.  A lease   *)
(* is opened and locked in one step.  A checkpoint document is of version  *)
(* 2, the one the service writes.                                          *)
(***************************************************************************)
EXTENDS Naturals, Sequences, FiniteSets, SequencesExt

CONSTANTS
    Readers,     \* readers of the archive
    MaxBatch,    \* batches are 1..MaxBatch
    MaxRecords,  \* journal records after which journal_needs_rotation holds
    MaxGen,      \* bound on journal generations
    MaxRoots,    \* bound on root bundles written
    Horizon,     \* retention_horizon_seconds, in ticks
    MaxNow,      \* bound on the clock
    MaxDocs,     \* bound on checkpoint documents and on backup receipts
    MaxPlans,    \* bound on GC plans
    MaxRawEnds   \* bound on how often the process ends inside an operation

ASSUME RawConstants ==
    /\ IsFiniteSet(Readers)
    /\ {MaxBatch, MaxGen, MaxRoots, MaxDocs} \subseteq Nat \ {0}
    /\ MaxRecords \in Nat \ {0, 1}
    /\ {Horizon, MaxNow, MaxPlans, MaxRawEnds} \subseteq Nat

VARIABLES
    now,         \* the clock of the archive
    rawFiles,    \* commits, packs, roots and leases on disk
    journals,    \* generation -> pages of the index journal
    rawRoots,    \* root bundles ever written; the index stands for the hash
    rawCurrent,  \* the root CURRENT names, 0 for none
    ckDocs,      \* checkpoint documents published: [root, lo, hi]
    ckCurrent,   \* root of the checkpoint its CURRENT names, 0 for none
    ckMissing,   \* history: files of its leaves that were gone at the switch
    backups,     \* backup receipts: [root, files]
    plans,       \* GC plans: [root, files, states], and the checkpoint then
    rawOp,       \* the operation that holds the writer lock
    readers,     \* reader -> [root, lease, late]
    rawReceipts, \* history: batch -> commit file a receipt was returned for
    skipped,     \* history: roots a plan lists that became the checkpoint's
                 \* before its execution, which therefore did not lock them
    rawEnds      \* how often the process ended inside an operation

rawVars == <<now, rawFiles, journals, rawRoots, rawCurrent, ckDocs, ckCurrent, ckMissing,
             backups, plans, rawOp, readers, rawReceipts, skipped, rawEnds>>

indexVars      == <<journals, rawRoots, rawCurrent>>
checkpointVars == <<ckDocs, ckCurrent, ckMissing>>
collectorVars  == <<backups, plans, skipped>>
outsideVars    == <<now, readers, rawEnds>>

Path(kind, id)  == [kind |-> kind, id |-> id]
CommitFile(n, at) == Path("commit", <<n, at>>)
RootFile(r)     == Path("root", <<r>>)
LeaseFile(r)    == Path("lease", <<r>>)

(* SequenceLeafEntryV3: the range, the file that stores it, and the        *)
(* logical commits it holds.                                               *)
LogicalLeaf(n, at) ==
    [lo |-> n, hi |-> n, file |-> CommitFile(n, at), inputs |-> {CommitFile(n, at)}]
PackedLeaf(lo, hi, at, leaves) ==
    [lo |-> lo, hi |-> hi, file |-> Path("pack", <<lo, hi, at>>),
     inputs |-> {l.file : l \in leaves}]

IsPacked(l) == l.file.kind = "pack"
Leaves(r)   == Last(rawRoots[r].prefix)
LeafFiles(r) == {l.file : l \in Leaves(r)}
HeadSequence(leaves) == CHOOSE h \in {l.hi : l \in leaves} : \A l \in leaves : l.hi <= h
Covering(leaves, n) == {l \in leaves : l.lo <= n /\ n <= l.hi}
Within(leaves, lo, hi) == {l \in leaves : l.lo <= hi /\ lo <= l.hi}
RawIdle == [step |-> "idle"]
NoReader == [root |-> 0, lease |-> "none", late |-> FALSE]

(* load_verified_root: the bundle is there and the journal still begins    *)
(* with the pages it authenticates.                                        *)
RootLoads(r) ==
    /\ RootFile(r) \in rawFiles
    /\ IsPrefix(rawRoots[r].prefix, journals[rawRoots[r].gen])

RawInit ==
    /\ now = 0 /\ rawFiles = {} /\ journals = [g \in 1..MaxGen |-> <<>>]
    /\ rawRoots = <<>> /\ rawCurrent = 0 /\ ckDocs = {} /\ ckCurrent = 0
    /\ ckMissing = {} /\ backups = {} /\ plans = <<>> /\ rawOp = RawIdle
    /\ readers = [rd \in Readers |-> NoReader]
    /\ rawReceipts = [n \in {} |-> 0] /\ skipped = {} /\ rawEnds = 0

(***************************************************************************)
(* append_batch, pack_index_locked and pack_logical_range_locked           *)
(***************************************************************************)
Operation(step, kind, at, batch, file, gen, committed, page) ==
    [step |-> step, kind |-> kind, at |-> at, batch |-> batch, file |-> file,
     gen |-> gen, committed |-> committed, full |-> Append(committed, page), root |-> 0]

AppendOperation(n, at) ==
    LET leaf == LogicalLeaf(n, at)
    IN  IF rawCurrent = 0
        THEN Operation("file", "append", at, n, leaf.file, 1, <<>>, {leaf})
        ELSE LET root == rawRoots[rawCurrent]
             IN  Operation("file", "append", at, n, leaf.file, root.gen, root.prefix,
                           Last(root.prefix) \cup {leaf})

(* The rotated journal is seeded with the same leaves in a new generation. *)
PackIndexOperation(at, batch) ==
    LET root == rawRoots[rawCurrent]
    IN  Operation("journal", "pack_index", at, batch, Path("pack", <<>>),
                  root.gen + 1, <<>>, Last(root.prefix))

RotationDue == rawCurrent # 0 /\ Len(rawRoots[rawCurrent].prefix) >= MaxRecords

WriterReady ==
    /\ rawOp = RawIdle
    /\ rawCurrent # 0 => RootLoads(rawCurrent)

Begin(op) == op.gen \in 1..MaxGen /\ Len(rawRoots) < MaxRoots /\ rawOp' = op

(* A batch that extends the head, after a rotation where one is due.  For  *)
(* the other calls a rotation that is due is a pack_index before the call. *)
BeginAppend(n) ==
    /\ WriterReady
    /\ n = IF rawCurrent = 0 THEN 1 ELSE HeadSequence(Leaves(rawCurrent)) + 1
    /\ Begin(IF RotationDue THEN PackIndexOperation(now, n) ELSE AppendOperation(n, now))
    /\ UNCHANGED <<rawFiles, rawReceipts, indexVars, checkpointVars, collectorVars, outsideVars>>

(* find_exact_logical, find_exact_packed: a batch the tree holds already   *)
(* is answered with the receipt of its commit.                             *)
AppendKnown(n) ==
    /\ WriterReady /\ ~RotationDue /\ rawCurrent # 0
    /\ \E l \in Covering(Leaves(rawCurrent), n) :
         /\ l.file \in rawFiles
         /\ \E c \in l.inputs :
              /\ c.id[1] = n
              /\ rawReceipts' = [m \in (DOMAIN rawReceipts) \cup {n} |->
                                    IF m = n THEN c ELSE rawReceipts[m]]
    /\ UNCHANGED <<rawFiles, rawOp, indexVars, checkpointVars, collectorVars, outsideVars>>

BeginPackIndex ==
    /\ WriterReady /\ rawCurrent # 0
    /\ Len(rawRoots[rawCurrent].prefix) > 1
    /\ Begin(PackIndexOperation(now, 0))
    /\ UNCHANGED <<rawFiles, rawReceipts, indexVars, checkpointVars, collectorVars, outsideVars>>

(* At least two consecutive leaves that are not packed and read back.      *)
BeginPackRange(lo, hi) ==
    /\ WriterReady /\ ~RotationDue /\ rawCurrent # 0 /\ lo < hi
    /\ LET root == rawRoots[rawCurrent]
           in   == Within(Last(root.prefix), lo, hi)
           leaf == PackedLeaf(lo, hi, now, in)
       IN  /\ UNION {l.lo..l.hi : l \in in} = lo..hi
           /\ \A l \in in : ~IsPacked(l) /\ l.file \in rawFiles
           /\ Begin(Operation("file", "pack_range", now, 0, leaf.file, root.gen,
                              root.prefix, (Last(root.prefix) \ in) \cup {leaf}))
    /\ UNCHANGED <<rawFiles, rawReceipts, indexVars, checkpointVars, collectorVars, outsideVars>>

(* The logical object and its manifest, or the pack and its manifest.      *)
WriteFile ==
    /\ rawOp.step = "file"
    /\ rawFiles' = rawFiles \cup {rawOp.file}
    /\ rawOp' = [rawOp EXCEPT !.step = "journal"]
    /\ UNCHANGED <<rawReceipts, indexVars, checkpointVars, collectorVars, outsideVars>>

(* fs::extend_append_only: the journal may already hold the same bytes or  *)
(* a part of them; other bytes after the committed prefix are refused.     *)
Extends(existing, committed, full) ==
    /\ IsPrefix(committed, existing)
    /\ IsPrefix(existing, full)

ExtendJournal ==
    /\ rawOp.step = "journal"
    /\ IF Extends(journals[rawOp.gen], rawOp.committed, rawOp.full)
       THEN /\ journals' = [journals EXCEPT ![rawOp.gen] = rawOp.full]
            /\ rawOp' = [rawOp EXCEPT !.step = "root"]
       ELSE rawOp' = RawIdle /\ UNCHANGED journals
    /\ UNCHANGED <<rawFiles, rawRoots, rawCurrent, rawReceipts, checkpointVars, collectorVars, outsideVars>>

WriteRoot ==
    /\ rawOp.step = "root"
    /\ LET root == [gen |-> rawOp.gen, prefix |-> rawOp.full, at |-> rawOp.at]
           same == {r \in DOMAIN rawRoots : rawRoots[r] = root}
           r    == IF same = {} THEN Len(rawRoots) + 1 ELSE CHOOSE r \in same : TRUE
       IN  /\ r <= MaxRoots
           /\ rawRoots' = IF same = {} THEN Append(rawRoots, root) ELSE rawRoots
           /\ rawFiles' = rawFiles \cup {RootFile(r)}
           /\ rawOp' = [rawOp EXCEPT !.step = "current", !.root = r]
    /\ UNCHANGED <<journals, rawCurrent, rawReceipts, checkpointVars, collectorVars, outsideVars>>

PublishCurrent ==
    /\ rawOp.step = "current"
    /\ rawCurrent' = rawOp.root
    /\ rawOp' = [rawOp EXCEPT !.step = "readback"]
    /\ UNCHANGED <<rawFiles, journals, rawRoots, rawReceipts, checkpointVars, collectorVars,
                   outsideVars>>

(* The root and the commit are read back and the receipt returned; an      *)
(* append that rotated first goes on with the batch.                       *)
Return ==
    /\ rawOp.step = "readback"
    /\ IF rawOp.kind = "append"
       THEN /\ rawReceipts' = [m \in (DOMAIN rawReceipts) \cup {rawOp.batch} |->
                                  IF m = rawOp.batch THEN rawOp.file ELSE rawReceipts[m]]
            /\ rawOp' = RawIdle
       ELSE /\ UNCHANGED rawReceipts
            /\ IF rawOp.batch = 0 THEN rawOp' = RawIdle
               ELSE Begin(AppendOperation(rawOp.batch, rawOp.at))
    /\ UNCHANGED <<rawFiles, indexVars, checkpointVars, collectorVars, outsideVars>>

(***************************************************************************)
(* checkpoint.rs                                                           *)
(***************************************************************************)
(* A document binds a root and lists the entries of a contiguous range of  *)
(* batches, in the service those of one segment.  authenticate_v2_entries  *)
(* reads the leaves that hold the listed entries and no other leaf.        *)
DocFiles(d) == {l.file : l \in Within(Leaves(d.root), d.lo, d.hi)}

PublishCheckpoint(lo, hi) ==
    /\ WriterReady /\ rawCurrent # 0
    /\ lo <= hi /\ hi <= HeadSequence(Leaves(rawCurrent))
    /\ LET doc == [root |-> rawCurrent, lo |-> lo, hi |-> hi]
       IN  /\ DocFiles(doc) \subseteq rawFiles
           /\ ckDocs' = ckDocs \cup {doc} /\ Cardinality(ckDocs') <= MaxDocs
    /\ rawFiles' = rawFiles \cup {LeaseFile(rawCurrent)}
    /\ UNCHANGED <<ckCurrent, ckMissing, rawOp, rawReceipts, indexVars, collectorVars, outsideVars>>

(* authenticate_loaded: the root the document names and its entries.  A    *)
(* leaf of that root that the document does not list may be gone.          *)
SwitchCheckpoint(d) ==
    /\ rawOp = RawIdle /\ d \in ckDocs
    /\ RootLoads(d.root) /\ DocFiles(d) \subseteq rawFiles
    /\ ckCurrent' = d.root
    /\ ckMissing' = LeafFiles(d.root) \ rawFiles
    /\ rawFiles' = rawFiles \cup {LeaseFile(d.root)}
    /\ UNCHANGED <<ckDocs, rawOp, rawReceipts, indexVars, collectorVars, outsideVars>>

(***************************************************************************)
(* gc.rs                                                                   *)
(***************************************************************************)
Elapsed(at) == now - at >= Horizon

ListedRoots == {r \in DOMAIN rawRoots : RootFile(r) \in rawFiles}
LeaseOnly   == {r \in DOMAIN rawRoots : LeaseFile(r) \in rawFiles} \ ListedRoots
OtherRoots  == ListedRoots \ {rawCurrent, ckCurrent}

(* collect_root_paths; only CURRENT lets go of the inputs of its packs.    *)
Protected(r) == LeafFiles(r) \cup UNION {l.inputs : l \in Leaves(r)}

(* The loads of eligible_files; one that fails refuses the call.           *)
TreeLoads(r) == RootLoads(r) /\ LeafFiles(r) \subseteq rawFiles
OtherRootsLoad == \A r \in OtherRoots : RootLoads(r) /\ (Elapsed(rawRoots[r].at) \/ TreeLoads(r))
EligibleLoads ==
    /\ rawCurrent # 0 /\ TreeLoads(rawCurrent)
    /\ ckCurrent # 0 => TreeLoads(ckCurrent)
    /\ OtherRootsLoad

(* Mutant: the root of the checkpoint is collected like any other.         *)
EligibleFiles_CheckpointToo(present) ==
    LET old == {r \in ListedRoots \ {rawCurrent} : Elapsed(rawRoots[r].at)}
        packed == {l \in Leaves(rawCurrent) : IsPacked(l) /\ Elapsed(l.file.id[3])}
        found == (UNION {l.inputs : l \in packed}) \cup {RootFile(r) : r \in old}
    IN  (found \cap present) \ LeafFiles(rawCurrent)

(* Files only superseded roots and packed commits past the horizon need,   *)
(* of those the call finds present.                                        *)
EligibleFiles(present) ==
    LET kept   == {r \in OtherRoots : ~Elapsed(rawRoots[r].at)}
                      \cup ({ckCurrent} \ {0, rawCurrent})
        packed == {l \in Leaves(rawCurrent) : IsPacked(l) /\ Elapsed(l.file.id[3])}
        old    == OtherRoots \ kept
        found  == (UNION {l.inputs : l \in packed})
                      \cup {RootFile(r) : r \in old} \cup {LeaseFile(r) : r \in old}
                      \cup {LeaseFile(r) : r \in LeaseOnly \ {rawCurrent, ckCurrent}}
    IN  (found \cap present) \ (LeafFiles(rawCurrent) \cup (UNION {Protected(r) : r \in kept})
             \cup IF ckCurrent = rawCurrent THEN Protected(rawCurrent) ELSE {})

(* exclusive_gc_leases: every root and lease but those of CURRENT and of   *)
(* the checkpoint; a lease a reader holds refuses the call.                *)
Lockable == (ListedRoots \cup LeaseOnly) \ {rawCurrent, ckCurrent}
(* Mutant: the leases are opened and not locked.                           *)
LeasesFree_Unlocked == \A r \in Lockable \cap ListedRoots : RootLoads(r)

LeasesFree ==
    /\ \A rd \in Readers : readers[rd].lease = "held" => readers[rd].root \notin Lockable
    /\ \A r \in Lockable \cap ListedRoots : RootLoads(r)

(* A receipt of no files authorizes only empty plans and is left out.      *)
BackupEligible ==
    /\ rawOp = RawIdle /\ EligibleLoads /\ EligibleFiles(rawFiles) # {}
    /\ backups' = backups \cup {[root |-> rawCurrent, files |-> EligibleFiles(rawFiles)]}
    /\ Cardinality(backups') <= MaxDocs
    /\ UNCHANGED <<rawFiles, plans, skipped, rawOp, rawReceipts, indexVars, checkpointVars,
                   outsideVars>>

(* The leases are opened, and so created, before the files are listed.     *)
PlanGc(backup) ==
    /\ rawOp = RawIdle /\ EligibleLoads /\ LeasesFree
    /\ backup \in backups /\ backup.root = rawCurrent
    /\ Len(plans) < MaxPlans
    /\ rawFiles' = rawFiles \cup {LeaseFile(r) : r \in Lockable}
    /\ LET files == EligibleFiles(rawFiles') \cap backup.files
       IN  plans' = Append(plans, [root   |-> rawCurrent, files |-> files, ck |-> ckCurrent,
                                   states |-> [f \in files |-> "none"]])
    /\ UNCHANGED <<backups, skipped, rawOp, rawReceipts, indexVars, checkpointVars, outsideVars>>

(* execute_packed_object_gc, and apply_authorized_retention around it.     *)
BeginGc(i) ==
    /\ rawOp = RawIdle /\ i \in DOMAIN plans
    /\ rawCurrent = plans[i].root /\ RootLoads(rawCurrent) /\ LeasesFree
    /\ \E f \in plans[i].files : plans[i].states[f] # "synced"
    /\ rawOp' = [step |-> "gc", plan |-> i, locked |-> Lockable]
    /\ rawFiles' = rawFiles \cup {LeaseFile(r) : r \in Lockable}
    /\ skipped' = skipped \cup
         {r \in {ckCurrent} \ {0, plans[i].ck} :
             plans[i].files \cap ({RootFile(r), LeaseFile(r)} \cup LeafFiles(r)) # {}}
    /\ UNCHANGED <<backups, plans, rawReceipts, indexVars, checkpointVars, outsideVars>>

(* Files are taken in the order of their paths: manifests, leases, roots.  *)
PathRank(f) == CASE f.kind = "commit" -> 1 [] f.kind = "lease" -> 2 [] OTHER -> 3
FirstOf(files) == CHOOSE f \in files : \A g \in files : PathRank(f) <= PathRank(g)

GcTurn(f) ==
    /\ rawOp.step = "gc"
    /\ LET plan == plans[rawOp.plan]
           todo == {g \in plan.files : plan.states[g] # "synced"}
           begun == {g \in todo : plan.states[g] # "none"}
       IN  todo # {} /\ f = FirstOf(IF begun = {} THEN todo ELSE begun)

State(f) == plans[rawOp.plan].states[f]
Record(f, state) == plans' = [plans EXCEPT ![rawOp.plan].states[f] = state]

(* The plan is journaled before the file is touched; a file that is gone   *)
(* without a record refuses the call.                                      *)
GcPlanned(f) ==
    /\ GcTurn(f) /\ State(f) = "none"
    /\ IF f \in rawFiles THEN Record(f, "planned") /\ UNCHANGED rawOp
                         ELSE rawOp' = RawIdle /\ UNCHANGED plans
    /\ UNCHANGED <<rawFiles, backups, skipped, rawReceipts, indexVars, checkpointVars, outsideVars>>

(* recheck_before_unlink holds under the writer lock.  Unlinking a lease   *)
(* leaves its holders with the lock of a file that no longer has a name.   *)
GcUnlink(f) ==
    /\ GcTurn(f) /\ State(f) = "planned" /\ f \in rawFiles
    /\ rawFiles' = rawFiles \ {f}
    /\ rawOp' = IF f.kind = "lease" THEN [rawOp EXCEPT !.locked = @ \ {f.id[1]}] ELSE rawOp
    /\ readers' = [rd \in Readers |->
                     IF f.kind = "lease" /\ readers[rd].lease = "held" /\ readers[rd].root = f.id[1]
                     THEN [readers[rd] EXCEPT !.lease = "orphan"] ELSE readers[rd]]
    /\ UNCHANGED <<now, rawEnds, rawReceipts, indexVars, checkpointVars, collectorVars>>

GcUnlinked(f) ==
    /\ GcTurn(f) /\ State(f) = "planned" /\ f \notin rawFiles
    /\ Record(f, "unlinked")
    /\ UNCHANGED <<rawFiles, rawOp, backups, skipped, rawReceipts, indexVars, checkpointVars,
                   outsideVars>>

GcSynced(f) ==
    /\ GcTurn(f) /\ State(f) = "unlinked"
    /\ Record(f, "synced")
    /\ UNCHANGED <<rawFiles, rawOp, backups, skipped, rawReceipts, indexVars, checkpointVars,
                   outsideVars>>

FinishGc ==
    /\ rawOp.step = "gc"
    /\ \A f \in plans[rawOp.plan].files : State(f) = "synced"
    /\ rawOp' = RawIdle
    /\ UNCHANGED <<rawFiles, rawReceipts, indexVars, checkpointVars, collectorVars, outsideVars>>

(* restore_planned_files_from_backup, one file of its loop: a file that is *)
(* missing must have a record and comes back from the backup.              *)
RestoreFile(i, f) ==
    /\ rawOp = RawIdle /\ i \in DOMAIN plans /\ f \in plans[i].files
    /\ rawCurrent = plans[i].root /\ RootLoads(rawCurrent) /\ LeasesFree
    /\ f \notin rawFiles /\ f = FirstOf(plans[i].files \ rawFiles)
    /\ plans[i].states[f] # "none"
    /\ \E b \in backups : f \in b.files
    /\ rawFiles' = rawFiles \cup {f} \cup {LeaseFile(r) : r \in Lockable}
    /\ UNCHANGED <<rawOp, rawReceipts, indexVars, checkpointVars, collectorVars, outsideVars>>

(***************************************************************************)
(* Readers: read_observations_by_sequence, lease_root                      *)
(***************************************************************************)
ReaderLoad(rd) ==
    /\ readers[rd] = NoReader /\ rawCurrent # 0 /\ RootLoads(rawCurrent)
    /\ readers' = [readers EXCEPT ![rd].root = rawCurrent]
    /\ UNCHANGED <<now, rawEnds, rawFiles, rawOp, rawReceipts, indexVars, checkpointVars,
                   collectorVars>>

LockedByGc(r) == rawOp.step = "gc" /\ r \in rawOp.locked

(* The lease file is created if it is not there and locked, and the root   *)
(* read again.  open and flock are two calls of the code and one step      *)
(* here: a reader whose file an execution unlinks between them, and which  *)
(* locks the nameless file after that execution was interrupted, is not    *)
(* among the behaviours.                                                   *)
ReaderLease(rd) ==
    /\ readers[rd].root # 0 /\ readers[rd].lease = "none"
    /\ LET r == readers[rd].root
       IN  /\ rawFiles' = rawFiles \cup {LeaseFile(r)}
           /\ readers' = [readers EXCEPT ![rd] =
                 IF LockedByGc(r) \/ RootFile(r) \notin rawFiles THEN NoReader
                 ELSE [root |-> r, lease |-> "held", late |-> rawOp.step = "gc"]]
    /\ UNCHANGED <<now, rawEnds, rawOp, rawReceipts, indexVars, checkpointVars, collectorVars>>

(* replay_root_by_sequence ended, with the rows or with an error.          *)
ReaderDone(rd) ==
    /\ readers[rd].lease # "none"
    /\ readers' = [readers EXCEPT ![rd] = NoReader]
    /\ UNCHANGED <<now, rawEnds, rawFiles, rawOp, rawReceipts, indexVars, checkpointVars,
                   collectorVars>>

(***************************************************************************)
(* Environment                                                             *)
(***************************************************************************)
(* Only the start of an operation reads the clock.                         *)
Tick ==
    /\ rawOp = RawIdle
    /\ now < MaxNow /\ now' = now + 1
    /\ UNCHANGED <<rawFiles, rawOp, readers, rawReceipts, rawEnds, indexVars, checkpointVars,
                   collectorVars>>

RawProcessEnds ==
    /\ rawOp # RawIdle /\ rawEnds < MaxRawEnds
    /\ rawOp' = RawIdle /\ rawEnds' = rawEnds + 1
    /\ UNCHANGED <<now, rawFiles, readers, rawReceipts, indexVars, checkpointVars, collectorVars>>

Batches == 1..MaxBatch
GcFiles == IF rawOp.step = "gc" THEN plans[rawOp.plan].files ELSE {}

RawNext ==
    \/ \E n \in Batches : BeginAppend(n)
    \/ \E n \in Batches : AppendKnown(n)
    \/ BeginPackIndex
    \/ \E lo, hi \in Batches : BeginPackRange(lo, hi)
    \/ WriteFile
    \/ ExtendJournal
    \/ WriteRoot
    \/ PublishCurrent
    \/ Return
    \/ \E lo, hi \in Batches : PublishCheckpoint(lo, hi)
    \/ \E d \in ckDocs : SwitchCheckpoint(d)
    \/ BackupEligible
    \/ \E b \in backups : PlanGc(b)
    \/ \E i \in DOMAIN plans : BeginGc(i)
    \/ \E f \in GcFiles : GcPlanned(f)
    \/ \E f \in GcFiles : GcUnlink(f)
    \/ \E f \in GcFiles : GcUnlinked(f)
    \/ \E f \in GcFiles : GcSynced(f)
    \/ FinishGc
    \/ \E i \in DOMAIN plans : \E f \in plans[i].files : RestoreFile(i, f)
    \/ \E rd \in Readers : ReaderLoad(rd)
    \/ \E rd \in Readers : ReaderLease(rd)
    \/ \E rd \in Readers : ReaderDone(rd)
    \/ Tick
    \/ RawProcessEnds

RawSpec == RawInit /\ [][RawNext]_rawVars

(***************************************************************************)
(* Properties                                                              *)
(***************************************************************************)
(* Roots tile 1..head with consecutive leaves, CURRENT and the checkpoint  *)
(* name roots that were written, and a commit is the file of one batch.    *)
RawTypeOK ==
    /\ rawCurrent \in 0..Len(rawRoots)
    /\ ckCurrent \in {d.root : d \in ckDocs} \cup {0}
    /\ {d.root : d \in ckDocs} \subseteq DOMAIN rawRoots
    /\ \A r \in DOMAIN rawRoots :
         \A n \in 1..HeadSequence(Leaves(r)) : Cardinality(Covering(Leaves(r), n)) = 1
    /\ \A rd \in Readers : readers[rd].lease # "none" => readers[rd].root \in DOMAIN rawRoots

(* What an append returned a receipt for is read through CURRENT under the *)
(* same commit, whatever was packed, rotated or collected since.           *)
RawReceiptsReadable ==
    \A n \in DOMAIN rawReceipts :
        /\ RootLoads(rawCurrent)
        /\ \E l \in Covering(Leaves(rawCurrent), n) :
             l.file \in rawFiles /\ rawReceipts[n] \in l.inputs

(* Retention never shuts itself out: the roots and manifests that backup   *)
(* and plan must load are there.  Two exceptions, both about the root of   *)
(* the checkpoint.  A plan that lists it, made before the checkpoint was   *)
(* switched to it and executed after, does not lock it (skipped).  And the *)
(* switch itself checks the entries the document lists and no others, so   *)
(* it may go to a root of which an interrupted execution has already       *)
(* unlinked another leaf (ckMissing): eligible_files cannot read it there, *)
(* and backup and plan are refused until it is restored or the checkpoint  *)
(* moves on.                                                               *)
MaintenanceLoads ==
    rawOp = RawIdle /\ rawCurrent # 0 =>
        /\ TreeLoads(rawCurrent) /\ OtherRootsLoad
        /\ ckCurrent # 0 /\ skipped = {} =>
             RootLoads(ckCurrent) /\ (ckMissing = {} => TreeLoads(ckCurrent))

(* A file that was written and is gone has a record in a deletion journal  *)
(* and a copy in a backup: restore finds it.                               *)
MissingRecoverable ==
    \A r \in DOMAIN rawRoots :
        \A f \in ({RootFile(r)} \cup Protected(r)) \ rawFiles :
            \E i \in DOMAIN plans :
                /\ f \in plans[i].files /\ plans[i].states[f] # "none"
                /\ \E b \in backups : f \in b.files

(* append_batch, packing, checkpoints and collection together: receipts    *)
(* stay readable, retention never shuts itself out and what is deleted can *)
(* be restored, wherever a process ended.                                  *)
RawStoreSafe ==
    RawTypeOK /\ RawReceiptsReadable /\ MaintenanceLoads /\ MissingRecoverable

(* Collection respects the leases it finds: while a reader holds the lease *)
(* of a root, no file of that root is unlinked.  Not covered: a lease      *)
(* taken while an execution runs, on a lease file made anew after the      *)
(* execution unlinked the old one; the root of a checkpoint that was       *)
(* switched after the plan was made; and a lease opened before it was      *)
(* unlinked and locked after, which ReaderLease cannot do.                 *)
LeasedFilesStay ==
    [][\A rd \in Readers :
          LET r == readers[rd].root
          IN  /\ readers[rd].lease # "none" /\ readers'[rd].lease # "none"
              /\ ~readers[rd].late /\ r \notin skipped
              => ({RootFile(r)} \cup LeafFiles(r)) \cap rawFiles \subseteq rawFiles']_rawVars

(* An append that was interrupted is completed when it is repeated: unless *)
(* the process ends again, an append that passes its checks runs to its    *)
(* receipt.                                                                *)
RepeatedAppendCompletes ==
    [][\A n \in Batches :
          /\ rawOp # RawIdle /\ rawOp.step # "gc" /\ rawOp' = RawIdle
          /\ rawEnds' = rawEnds /\ rawOp.batch = n
          => n \in DOMAIN rawReceipts']_rawVars
=============================================================================
