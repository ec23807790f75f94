-------------------------- MODULE CanonicalArchive --------------------------
(***************************************************************************)
(* The local Parquet archive of canonical blocks (crates/canonical-archive:*)
(* writer.rs, compactor.rs, reader.rs, fs.rs).  One chain.                 *)
(*                                                                         *)
(* Files are immutable and named by their hash; only the CURRENT pointers  *)
(* of the catalog and of each hour partition are replaced.  append_block   *)
(* and compact_range hold the writer lock and are sequences of durable     *)
(* file operations; the process may end between any two of them.  Readers  *)
(* take no lock.  Every publication is written to a temporary file, synced *)
(* and renamed, and its directory synced, so a completed operation also    *)
(* survives a power loss and an interrupted one leaves nothing.            *)
(*                                                                         *)
(* Abstractions: a partition or catalog manifest is named by its place in  *)
(* the sequence of manifests written, which stands for its hash; a block   *)
(* manifest and its object are the set of blocks they hold; block_time is  *)
(* the hour that partition_for makes of it; byte and block limits of a     *)
(* read, creation times and build identities are left out.                 *)
(***************************************************************************)
EXTENDS Naturals, Sequences, FiniteSets, SequencesExt

CONSTANTS
    MaxHeight,    \* heights are 1..MaxHeight
    Hours,        \* hour partitions
    Contents,     \* block contents
    MaxManifests, \* bound on the manifests written per catalog and partition
    MaxEnds       \* bound on how often the process ends inside an operation

ASSUME ArchiveConstants ==
    /\ MaxHeight \in Nat \ {0} /\ MaxManifests \in Nat \ {0} /\ MaxEnds \in Nat
    /\ IsFiniteSet(Hours) /\ Hours # {} /\ Contents # {}

BlockHeights == 1..MaxHeight

(* canonical_block_hash covers height, time and content: equal hashes are  *)
(* equal records.                                                          *)
ArchiveBlocks == [height : BlockHeights, hour : Hours, content : Contents]

VARIABLES
    objects,      \* Parquet objects on disk: sets of blocks
    manifests,    \* block manifests on disk: sets of blocks
    partFiles,    \* hour -> partition manifests written
    partCurrent,  \* hour -> index of the manifest CURRENT names, 0 for none
    catFiles,     \* catalog manifests written
    catCurrent,   \* index of the catalog CURRENT names, 0 for none
    writing,      \* the operation that holds the writer lock
    receipts,     \* history: blocks an append returned a receipt for
    ends          \* how often the process ended inside an operation

archiveVars == <<objects, manifests, partFiles, partCurrent, catFiles,
                 catCurrent, writing, receipts, ends>>

(* refs maps a height to the block and the block manifest that holds it.   *)
NoRefs == [h \in {} |-> {}]
Ref(b, bundle) == [block |-> b, bundle |-> bundle]

(***************************************************************************)
(* reader.rs                                                               *)
(***************************************************************************)
(* verify_block_manifest: the manifest and the object it binds decode.     *)
BundleVerifies(bundle) == bundle \in manifests /\ bundle \in objects

(* partition_transition_is_valid.                                          *)
PartitionTransition(old, new) ==
    \/ /\ new.kind = "append"
       /\ Cardinality(DOMAIN new.refs) = Cardinality(DOMAIN old.refs) + 1
       /\ \A h \in DOMAIN old.refs : h \in DOMAIN new.refs /\ new.refs[h] = old.refs[h]
    \/ /\ new.kind = "compaction"
       /\ DOMAIN new.refs = DOMAIN old.refs
       /\ \A h \in DOMAIN old.refs : new.refs[h].block = old.refs[h].block
       /\ new.refs # old.refs

(* verify_partition_chain for every manifest file up to the given one:     *)
(* the chain is the smallest set that has the file and, with a file, the   *)
(* one it follows.                                                         *)
ChainFrom(files, i, S) ==
    i \in S \cup {0} /\ \A j \in S : files[j].prev \in S \cup {0}

Ancestors(files, i) ==
    {k \in 1..Len(files) : \A S \in SUBSET (1..Len(files)) : ChainFrom(files, i, S) => k \in S}

PartitionVerifies(hour, i) ==
    \A j \in Ancestors(partFiles[hour], i) :
        LET new == partFiles[hour][j]
        IN  IF new.prev = 0 THEN new.kind = "append"
            ELSE PartitionTransition(partFiles[hour][new.prev], new)

(* catalog_transition_is_append_only and                                   *)
(* catalog_partition_advance_descends.                                     *)
CatalogTransition(old, new) ==
    LET changed == {p \in DOMAIN old : p \notin DOMAIN new \/ new[p] # old[p]}
        added   == DOMAIN new \ DOMAIN old
    IN  /\ Cardinality(changed) + Cardinality(added) = 1
        /\ changed \subseteq DOMAIN new
        /\ \A p \in changed : old[p] \in Ancestors(partFiles[p], new[p])

CatalogVerifies(i) ==
    \A j \in Ancestors(catFiles, i) :
        catFiles[j].prev # 0 =>
            CatalogTransition(catFiles[catFiles[j].prev].parts, catFiles[j].parts)

CatalogParts(i) == IF i = 0 THEN [p \in {} |-> 0] ELSE catFiles[i].parts

(* range_references: the references of every partition the catalog names.  *)
References(cat, lo, hi) ==
    {r \in (DOMAIN CatalogParts(cat)) \X (lo..hi) :
        r[2] \in DOMAIN partFiles[r[1]][CatalogParts(cat)[r[1]]].refs}

ReferencedBy(cat, r) == partFiles[r[1]][CatalogParts(cat)[r[1]]].refs[r[2]]

(* read_range through one catalog: every height exactly once, everything   *)
(* verified.                                                               *)
Readable(cat, lo, hi) ==
    LET refs == References(cat, lo, hi)
    IN  /\ cat # 0 /\ CatalogVerifies(cat)
        /\ \A p \in DOMAIN CatalogParts(cat) :
             PartitionVerifies(p, CatalogParts(cat)[p])
        /\ \A h \in lo..hi : Cardinality({r \in refs : r[2] = h}) = 1
        /\ \A r \in refs : LET ref == ReferencedBy(cat, r)
                           IN  BundleVerifies(ref.bundle) /\ ref.block \in ref.bundle

ReadRange(cat, lo, hi) == {ReferencedBy(cat, r).block : r \in References(cat, lo, hi)}

(***************************************************************************)
(* The operation in progress: the remaining file operations, in order.     *)
(***************************************************************************)
Idle == [op |-> "idle", todo |-> <<>>]
ArchiveUnlocked == writing.op = "idle"

NewBundle   == <<"object", "manifest", "partFile", "partCurrent",
                 "catFile", "catCurrent">>
CatalogOnly == <<"catFile", "catCurrent">>

HeadRefs(hour) ==
    IF partCurrent[hour] = 0 THEN NoRefs ELSE partFiles[hour][partCurrent[hour]].refs

(* load_current_catalog, load_current_partition and                        *)
(* validate_catalog_partition_relationship.                                *)
LoadsFor(hour) ==
    /\ CatalogVerifies(catCurrent)
    /\ PartitionVerifies(hour, partCurrent[hour])
    /\ hour \in DOMAIN CatalogParts(catCurrent) =>
         CatalogParts(catCurrent)[hour] \in Ancestors(partFiles[hour], partCurrent[hour])

CatalogReferences(hour) ==
    /\ hour \in DOMAIN CatalogParts(catCurrent)
    /\ CatalogParts(catCurrent)[hour] = partCurrent[hour]

Room(hour) == Len(partFiles[hour]) < MaxManifests /\ Len(catFiles) < MaxManifests

(* publish_partition: the manifest that follows the partition head.        *)
NextPartition(hour, kind, refs) ==
    [prev |-> partCurrent[hour], kind |-> kind, refs |-> refs]

(* append_block of a height its hour's partition does not hold.            *)
AppendNew(b) ==
    /\ ArchiveUnlocked /\ LoadsFor(b.hour) /\ Room(b.hour)
    /\ b.height \notin DOMAIN HeadRefs(b.hour)
    /\ writing' = [op |-> "append", todo |-> NewBundle, block |-> b,
                   bundle |-> {b}, hour |-> b.hour,
                   part |-> NextPartition(b.hour, "append",
                              [h \in DOMAIN HeadRefs(b.hour) \cup {b.height} |->
                                 IF h = b.height THEN Ref(b, {b}) ELSE HeadRefs(b.hour)[h]]),
                   cat |-> catCurrent]
    /\ UNCHANGED <<objects, manifests, partFiles, partCurrent, catFiles,
                   catCurrent, receipts, ends>>

(* Mutant: the retry answers from the partition without the catalog. *)
AppendExisting_NoCatalog(b) ==
    /\ ArchiveUnlocked /\ LoadsFor(b.hour)
    /\ b.height \in DOMAIN HeadRefs(b.hour)
    /\ HeadRefs(b.hour)[b.height].block = b
    /\ BundleVerifies(HeadRefs(b.hour)[b.height].bundle)
    /\ receipts' = receipts \cup {b}
    /\ UNCHANGED <<writing, objects, manifests, partFiles, partCurrent, catFiles,
                   catCurrent, ends>>

(* append_block of a block the partition holds: the catalog is brought up  *)
(* to the partition head if an earlier append was interrupted before it.   *)
AppendExisting(b) ==
    /\ ArchiveUnlocked /\ LoadsFor(b.hour)
    /\ b.height \in DOMAIN HeadRefs(b.hour)
    /\ HeadRefs(b.hour)[b.height].block = b
    /\ BundleVerifies(HeadRefs(b.hour)[b.height].bundle)
    /\ IF CatalogReferences(b.hour)
       THEN receipts' = receipts \cup {b} /\ UNCHANGED writing
       ELSE /\ Room(b.hour)
            /\ writing' = [op |-> "append", todo |-> CatalogOnly, block |-> b,
                           bundle |-> HeadRefs(b.hour)[b.height].bundle,
                           hour |-> b.hour, part |-> {}, cat |-> catCurrent]
            /\ UNCHANGED receipts
    /\ UNCHANGED <<objects, manifests, partFiles, partCurrent, catFiles, catCurrent, ends>>

(* compact_range of lo..hi.  The blocks come from the catalog, the new     *)
(* references from the partition head.  Fewer than two input objects is an *)
(* error, or the receipt of the existing bundle: nothing changes.          *)
Compact(lo, hi, hour) ==
    LET blocks == ReadRange(catCurrent, lo, hi)
        refs   == HeadRefs(hour)
    IN  /\ ArchiveUnlocked /\ lo < hi
        /\ Readable(catCurrent, lo, hi)
        /\ \A b \in blocks : b.hour = hour
        /\ PartitionVerifies(hour, partCurrent[hour])
        /\ lo..hi \subseteq DOMAIN refs
        /\ Cardinality({refs[h].bundle : h \in lo..hi}) >= 2
        /\ Room(hour)
        /\ writing' = [op |-> "compact", todo |-> NewBundle, block |-> {},
                       bundle |-> blocks, hour |-> hour,
                       part |-> NextPartition(hour, "compaction",
                                  [h \in DOMAIN refs |->
                                     IF h \in lo..hi THEN Ref(refs[h].block, blocks)
                                     ELSE refs[h]]),
                       cat |-> catCurrent]
        /\ UNCHANGED <<objects, manifests, partFiles, partCurrent, catFiles,
                       catCurrent, receipts, ends>>

(* publish_immutable: a file that is already there is kept.                *)
Published(files, m) == IF Contains(files, m) THEN files ELSE Append(files, m)
PlaceOf(files, m) == CHOOSE i \in 1..Len(files) : files[i] = m

NewCatalog ==
    LET parts == CatalogParts(writing.cat)
        hour  == writing.hour
    IN  [prev |-> writing.cat,
         parts |-> [p \in DOMAIN parts \cup {hour} |->
                      IF p = hour THEN partCurrent[hour] ELSE parts[p]]]

(* write_parquet_object, publish_immutable, publish_partition,             *)
(* publish_catalog: the next durable file operation.  publish_catalog      *)
(* builds on the catalog that was loaded at the start.                     *)
FileStep ==
    LET step == Head(writing.todo)
        hour == writing.hour
    IN  /\ writing.todo # <<>>
        /\ writing' = [writing EXCEPT !.todo = Tail(@)]
        /\ objects' = IF step = "object" THEN objects \cup {writing.bundle} ELSE objects
        /\ manifests' = IF step = "manifest" THEN manifests \cup {writing.bundle}
                        ELSE manifests
        /\ partFiles' = IF step = "partFile"
                        THEN [partFiles EXCEPT ![hour] = Published(@, writing.part)]
                        ELSE partFiles
        /\ partCurrent' = IF step = "partCurrent"
                          THEN [partCurrent EXCEPT
                                  ![hour] = PlaceOf(partFiles[hour], writing.part)]
                          ELSE partCurrent
        /\ catFiles' = IF step = "catFile" THEN Published(catFiles, NewCatalog)
                       ELSE catFiles
        /\ catCurrent' = IF step = "catCurrent" THEN PlaceOf(catFiles, NewCatalog)
                         ELSE catCurrent
        /\ UNCHANGED <<receipts, ends>>

(* The final verification, the receipt and the release of the lock.        *)
Finish ==
    /\ ~ArchiveUnlocked /\ writing.todo = <<>>
    /\ receipts' = IF writing.op = "append" /\ BundleVerifies(writing.bundle)
                   THEN receipts \cup {writing.block} ELSE receipts
    /\ writing' = Idle
    /\ UNCHANGED <<objects, manifests, partFiles, partCurrent, catFiles, catCurrent, ends>>

(* The process ends: the lock is released, the files stay.                 *)
ArchiveCrash ==
    /\ ~ArchiveUnlocked /\ ends < MaxEnds
    /\ writing' = Idle
    /\ ends' = ends + 1
    /\ UNCHANGED <<objects, manifests, partFiles, partCurrent, catFiles,
                   catCurrent, receipts>>

ArchiveInit ==
    /\ objects = {} /\ manifests = {}
    /\ partFiles = [p \in Hours |-> <<>>] /\ partCurrent = [p \in Hours |-> 0]
    /\ catFiles = <<>> /\ catCurrent = 0
    /\ writing = Idle /\ receipts = {} /\ ends = 0

ArchiveNext ==
    \/ \E b \in ArchiveBlocks : AppendNew(b) \/ AppendExisting(b)
    \/ \E lo \in BlockHeights, hi \in BlockHeights, p \in Hours : Compact(lo, hi, p)
    \/ FileStep
    \/ Finish
    \/ ArchiveCrash

ArchiveSpec == ArchiveInit /\ [][ArchiveNext]_archiveVars

(***************************************************************************)
(* Properties                                                              *)
(***************************************************************************)
(* Every pointer names a manifest that was written, every manifest has its *)
(* object.                                                                 *)
ArchiveTypeOK ==
    /\ objects \subseteq SUBSET ArchiveBlocks /\ manifests \subseteq objects
    /\ \A p \in Hours : partCurrent[p] \in 0..Len(partFiles[p])
    /\ catCurrent \in 0..Len(catFiles)
    /\ receipts \subseteq ArchiveBlocks

(* The height was archived under two hours: find_existing_block looks only *)
(* into the hour of the block, and read_range then refuses the height.     *)
FiledTwice(h) ==
    Cardinality({p \in Hours : h \in DOMAIN HeadRefs(p)}) > 1

(* A block whose append returned a receipt is readable, alone, through     *)
(* the current catalog, with its content, whatever was appended, compacted *)
(* or interrupted since.                                                   *)
ReceiptsReadable ==
    \A b \in receipts : ~FiledTwice(b.height) =>
        /\ Readable(catCurrent, b.height, b.height)
        /\ ReadRange(catCurrent, b.height, b.height) = {b}

(* Wherever an operation was interrupted, the next one can load: the chains *)
(* verify, and each partition head descends from the one the catalog names. *)
AlwaysLoads == \A p \in Hours : LoadsFor(p)

(* A reader that took any catalog that was ever current still reads what   *)
(* that catalog says: its files are complete and never change.             *)
OldCatalogsRead ==
    \A c \in Ancestors(catFiles, catCurrent) :
        \A h \in BlockHeights :
            Cardinality(References(c, h, h)) = 1 => Readable(c, h, h)

(* append_block, compact_range and read_range together: whatever was       *)
(* interrupted, compacted or read from an old catalog, the archive opens   *)
(* and gives back every block it gave a receipt for.                       *)
ArchiveSafe == ArchiveTypeOK /\ ReceiptsReadable /\ AlwaysLoads /\ OldCatalogsRead
=============================================================================
