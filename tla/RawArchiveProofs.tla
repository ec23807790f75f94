-------------------------- MODULE RawArchiveProofs --------------------------
(***************************************************************************)
(* Proofs about the raw archive, for every number of batches, roots,       *)
(* generations, plans, backups, readers and ends of the process.           *)
(*                                                                         *)
(* RawStoreSafe is not inductive: that a receipt stays readable depends on *)
(* what an operation half way through has written and will publish, and on *)
(* what a plan made earlier may still unlink.  RawInv adds                 *)
(*   RootsInv   the leaves of every root tile the batches up to its head,  *)
(*              and its pages are a prefix of the journal it was cut from; *)
(*   FilesInv   CURRENT and the roots within the horizon are whole, and so *)
(*              is the root of the checkpoint, unless a plan that lists it *)
(*              was executed past it or the switch already found a leaf    *)
(*              gone that its document does not list;                      *)
(*   OpInv      what each step of append_batch and of the two packs has    *)
(*              left: the page to publish carries every leaf of CURRENT,   *)
(*              and its files are there before the root is;                *)
(*   PlansInv   a plan is for CURRENT, and then spares the files of        *)
(*              CURRENT, of the checkpoint and of recent roots, or for a   *)
(*              root CURRENT has left for good, and is then refused;       *)
(*   GcInv      the plan under execution is one for CURRENT;               *)
(*   LeasesInv  a lease that is held has its file, so the collector, which *)
(*              locks the leases it finds, only runs beside a timely lease *)
(*              on CURRENT or on the checkpoint.                           *)
(***************************************************************************)
EXTENDS RawArchive, FiniteSetTheorems, SequenceTheorems, TLAPS

(***************************************************************************)
(* The inductive invariant                                                 *)
(***************************************************************************)
FileKinds == {"commit", "pack", "root", "lease"}
Files == [kind : FileKinds, id : Seq(Nat)]
LeafEntries == [lo : Nat, hi : Nat, file : Files, inputs : SUBSET Files]
Pages == SUBSET LeafEntries
Roots == [gen : 1..MaxGen, prefix : Seq(Pages), at : Nat]
Steps == {"file", "journal", "root", "current", "readback"}
Operations ==
    [step : Steps, kind : {"append", "pack_index", "pack_range"}, at : Nat, batch : Nat,
     file : Files, gen : 1..MaxGen, committed : Seq(Pages), full : Seq(Pages), root : Nat]
Collections == [step : {"gc"}, plan : Nat, locked : SUBSET Nat]
FileStates == {"none", "planned", "unlinked", "synced"}
ReaderStates == [root : Nat, lease : {"none", "held", "orphan"}, late : BOOLEAN]

(* Leaves that tile 1..h, each with the commits of its range.              *)
TreeTo(leaves, h) ==
    /\ \A l \in leaves :
         /\ 1 <= l.lo /\ l.lo <= l.hi /\ l.hi <= h
         /\ l.file.kind = "pack" \/ (l.file.kind = "commit" /\ l.inputs = {l.file})
         /\ \A c \in l.inputs : c.kind = "commit" /\ c.id[1] \in l.lo..l.hi
    /\ \A n \in 1..h : \E l \in leaves : l.lo <= n /\ n <= l.hi
    /\ \A l, m \in leaves : l.lo <= m.hi /\ m.lo <= l.hi => l = m

Tree(leaves) == \E h \in Nat \ {0} : TreeTo(leaves, h)

(* What a leaf holds is held by a leaf of the next tree.                   *)
Carries(old, new) ==
    \A l \in old : \E m \in new : m.lo <= l.lo /\ l.hi <= m.hi /\ l.inputs \subseteq m.inputs

RawTyped ==
    /\ now \in Nat
    /\ rawFiles \subseteq Files
    /\ journals \in [1..MaxGen -> Seq(Pages)]
    /\ rawRoots \in Seq(Roots)
    /\ rawCurrent \in 0..Len(rawRoots)
    /\ \A d \in ckDocs : d.root \in 1..Len(rawRoots)
    /\ ckCurrent = 0 \/ \E d \in ckDocs : d.root = ckCurrent
    /\ rawOp \in {RawIdle} \cup Operations \cup Collections
    /\ readers \in [Readers -> ReaderStates]
    /\ \A rd \in Readers : readers[rd].root \in 0..Len(rawRoots)

RootsInv ==
    \A r \in DOMAIN rawRoots :
        /\ rawRoots[r].prefix # <<>> /\ Tree(Leaves(r))
        /\ IsPrefix(rawRoots[r].prefix, journals[rawRoots[r].gen])

Present(r) == RootFile(r) \in rawFiles /\ LeafFiles(r) \subseteq rawFiles

FilesInv ==
    /\ rawCurrent # 0 => Present(rawCurrent)
    /\ ckCurrent # 0 /\ skipped = {} =>
         RootFile(ckCurrent) \in rawFiles /\ (ckMissing = {} => Present(ckCurrent))
    /\ \A r \in DOMAIN rawRoots : Elapsed(rawRoots[r].at) \/ Present(r)

ReceiptsInv ==
    \A n \in DOMAIN rawReceipts :
        /\ n \in Nat /\ rawCurrent # 0
        /\ \E l \in Covering(Leaves(rawCurrent), n) : rawReceipts[n] \in l.inputs

(* The operation under way against the root it extends.                    *)
Supersedes(op) ==
    IF rawCurrent = 0 THEN op.gen = 1 /\ op.committed = <<>>
    ELSE \/ op.gen = rawRoots[rawCurrent].gen /\ op.committed = rawRoots[rawCurrent].prefix
         \/ op.gen = rawRoots[rawCurrent].gen + 1 /\ op.committed = <<>>

NewFile(op) ==
    \/ op.file.kind = "pack"
    \/ /\ op.file.kind = "commit" /\ op.file.id[1] \in Nat
       /\ rawCurrent # 0 => TreeTo(Leaves(rawCurrent), op.file.id[1] - 1)

OpPage(op) == Last(op.full)
PageFiles(op) == {l.file : l \in OpPage(op)}
PageInputs(op) == UNION {l.inputs : l \in OpPage(op)}

OpOK(op) ==
    /\ op.full = Append(op.committed, OpPage(op)) /\ OpPage(op) \in Pages /\ Tree(OpPage(op))
    /\ op.kind = "append" =>
         \E l \in OpPage(op) : l.lo <= op.batch /\ op.batch <= l.hi /\ op.file \in l.inputs
    /\ op.kind # "append" /\ op.batch # 0 => TreeTo(OpPage(op), op.batch - 1)
    /\ op.step # "readback" =>
         /\ Supersedes(op) /\ NewFile(op) /\ (op.kind = "pack_index" => op.file.kind = "pack")
         /\ IF rawCurrent = 0
            THEN PageFiles(op) \subseteq {op.file} /\ PageInputs(op) \subseteq {op.file}
            ELSE /\ Carries(Leaves(rawCurrent), OpPage(op))
                 /\ PageFiles(op) \subseteq LeafFiles(rawCurrent) \cup {op.file}
                 /\ PageInputs(op) \subseteq Protected(rawCurrent) \cup {op.file}
    /\ op.step = "file" => PageFiles(op) \subseteq rawFiles \cup {op.file}
    /\ op.step # "file" => PageFiles(op) \subseteq rawFiles
    /\ op.step # "file" => op.kind = "pack_index" \/ op.file \in rawFiles
    /\ op.step \in {"root", "current", "readback"} => IsPrefix(op.full, journals[op.gen])
    /\ op.step \in {"current", "readback"} =>
         /\ op.root \in DOMAIN rawRoots /\ RootFile(op.root) \in rawFiles
         /\ rawRoots[op.root] = [gen |-> op.gen, prefix |-> op.full, at |-> op.at]
    /\ op.step = "readback" => rawCurrent = op.root

OpInv == rawOp \in Operations => OpOK(rawOp)

(* A plan is for CURRENT or for a root that CURRENT has left for good.     *)
Older(r, s) ==
    \/ rawRoots[r].gen < rawRoots[s].gen
    \/ rawRoots[r].gen = rawRoots[s].gen /\ Len(rawRoots[r].prefix) < Len(rawRoots[s].prefix)

RootPaths(r) == {RootFile(r), LeaseFile(r)} \cup LeafFiles(r)

PlanSpares(files, ck) ==
    /\ files \cap RootPaths(rawCurrent) = {}
    /\ ck # 0 => files \cap RootPaths(ck) = {}
    /\ \A r \in DOMAIN rawRoots :
         Elapsed(rawRoots[r].at) \/ files \cap ({RootFile(r)} \cup LeafFiles(r)) = {}
    /\ \A f \in files :
         \/ \E h \in Nat : TreeTo(Leaves(rawCurrent), h) /\ f.kind = "commit" /\ f.id[1] <= h
         \/ \E r \in DOMAIN rawRoots : f = RootFile(r) \/ f = LeaseFile(r)

PlanRecords ==
    [root : Nat, files : SUBSET Files, ck : Nat,
     states : UNION {[S -> FileStates] : S \in SUBSET Files}]

PlanOK(p) ==
    /\ p.root \in DOMAIN rawRoots /\ p.ck \in 0..Len(rawRoots)
    /\ p.states \in [p.files -> FileStates]
    /\ \E b \in backups : p.files \subseteq b.files
    /\ p.root = rawCurrent \/ (rawCurrent # 0 /\ Older(p.root, rawCurrent))
    /\ p.root = rawCurrent => PlanSpares(p.files, p.ck)

PlansInv ==
    /\ plans \in Seq(PlanRecords)
    /\ \A i \in DOMAIN plans : PlanOK(plans[i])

GcInv ==
    rawOp.step = "gc" =>
        /\ rawOp.plan \in DOMAIN plans
        /\ plans[rawOp.plan].root = rawCurrent
        /\ \/ ckCurrent \in {0, plans[rawOp.plan].ck} \cup skipped
           \/ plans[rawOp.plan].files \cap RootPaths(ckCurrent) = {}

LeasesInv ==
    \A rd \in Readers :
        /\ readers[rd].lease # "none" => readers[rd].root # 0
        /\ readers[rd].lease = "held" => LeaseFile(readers[rd].root) \in rawFiles
        /\ readers[rd].lease = "orphan" => readers[rd].late \/ readers[rd].root \in skipped
        /\ rawOp.step = "gc" /\ readers[rd].lease = "held" /\ ~readers[rd].late
              => readers[rd].root \in {rawCurrent, ckCurrent}

RawInv ==
    /\ RawTyped /\ RootsInv /\ FilesInv /\ ReceiptsInv /\ OpInv /\ PlansInv /\ GcInv
    /\ LeasesInv /\ MissingRecoverable

-----------------------------------------------------------------------------
(* Trees of leaves                                                         *)

(* head_sequence of a tree that tiles 1..h is h.                           *)
LEMMA HeadIs ==
    ASSUME NEW leaves \in Pages, NEW h \in Nat \ {0}, TreeTo(leaves, h)
    PROVE  HeadSequence(leaves) = h
<1>1. PICK l \in leaves : l.lo <= h /\ h <= l.hi
    BY DEF TreeTo
<1>2. \A m \in leaves : m.hi \in Nat /\ m.hi <= h
    BY DEF TreeTo, Pages, LeafEntries
<1>3. l.hi = h
    BY <1>1, <1>2
<1>4. h \in {m.hi : m \in leaves} /\ \A m \in leaves : m.hi <= h
    BY <1>2, <1>3
<1>5. \A k \in {m.hi : m \in leaves} : (\A m \in leaves : m.hi <= k) => k = h
    BY <1>2, <1>3
<1> QED
    BY <1>4, <1>5 DEF HeadSequence

(* A tree tiles the sequences up to its head_sequence.                     *)
LEMMA TreeOfHead ==
    ASSUME NEW leaves \in Pages, Tree(leaves)
    PROVE  HeadSequence(leaves) \in Nat \ {0} /\ TreeTo(leaves, HeadSequence(leaves))
BY HeadIs DEF Tree

(* The leaf of one appended batch.                                         *)
LEMMA LogicalLeafType ==
    ASSUME NEW n \in Nat, NEW at \in Nat
    PROVE  /\ CommitFile(n, at) \in Files
           /\ CommitFile(n, at).kind = "commit" /\ CommitFile(n, at).id[1] = n
           /\ LogicalLeaf(n, at) \in LeafEntries
           /\ LogicalLeaf(n, at).lo = n /\ LogicalLeaf(n, at).hi = n
           /\ LogicalLeaf(n, at).file = CommitFile(n, at)
           /\ LogicalLeaf(n, at).inputs = {CommitFile(n, at)}
<1>1. <<n, at>> \in Seq(Nat) /\ <<n, at>>[1] = n
    OBVIOUS
<1>2. CommitFile(n, at) \in Files
    BY <1>1 DEF CommitFile, Path, Files, FileKinds
<1>3. CommitFile(n, at).kind = "commit" /\ CommitFile(n, at).id[1] = n
    BY <1>1 DEF CommitFile, Path
<1> QED
    BY <1>2, <1>3 DEF LogicalLeaf, LeafEntries

(* The first append.                                                       *)
LEMMA TreeFirst ==
    ASSUME NEW at \in Nat
    PROVE  TreeTo({LogicalLeaf(1, at)}, 1)
BY LogicalLeafType DEF TreeTo

(* An append to a tree.                                                    *)
LEMMA TreeAppend ==
    ASSUME NEW leaves \in Pages, NEW h \in Nat \ {0}, TreeTo(leaves, h), NEW at \in Nat
    PROVE  /\ leaves \cup {LogicalLeaf(h + 1, at)} \in Pages
           /\ TreeTo(leaves \cup {LogicalLeaf(h + 1, at)}, h + 1)
           /\ Carries(leaves, leaves \cup {LogicalLeaf(h + 1, at)})
<1> DEFINE leaf == LogicalLeaf(h + 1, at)
           new == leaves \cup {leaf}
<1>1. /\ leaf \in LeafEntries /\ leaf.lo = h + 1 /\ leaf.hi = h + 1
      /\ leaf.file.kind = "commit" /\ leaf.file.id[1] = h + 1 /\ leaf.inputs = {leaf.file}
    BY LogicalLeafType
<1>2. \A l \in leaves : l.lo \in Nat /\ l.hi \in Nat /\ l.hi <= h /\ l.lo <= l.hi /\ 1 <= l.lo
    BY DEF TreeTo, Pages, LeafEntries
<1> HIDE DEF leaf
<1>3. new \in Pages
    BY <1>1 DEF Pages
<1>4. \A l \in new :
        /\ 1 <= l.lo /\ l.lo <= l.hi /\ l.hi <= h + 1
        /\ l.file.kind = "pack" \/ (l.file.kind = "commit" /\ l.inputs = {l.file})
        /\ \A c \in l.inputs : c.kind = "commit" /\ c.id[1] \in l.lo..l.hi
  <2> SUFFICES ASSUME NEW l \in new
               PROVE  /\ 1 <= l.lo /\ l.lo <= l.hi /\ l.hi <= h + 1
                      /\ l.file.kind = "pack" \/ (l.file.kind = "commit" /\ l.inputs = {l.file})
                      /\ \A c \in l.inputs : c.kind = "commit" /\ c.id[1] \in l.lo..l.hi
      OBVIOUS
  <2>1. CASE l = leaf
      BY <2>1, <1>1
  <2>2. CASE l \in leaves
      BY <2>2, <1>2 DEF TreeTo
  <2> QED
      BY <2>1, <2>2
<1>5. \A n \in 1..h + 1 : \E l \in new : l.lo <= n /\ n <= l.hi
  <2> SUFFICES ASSUME NEW n \in 1..h + 1 PROVE \E l \in new : l.lo <= n /\ n <= l.hi
      OBVIOUS
  <2>1. CASE n = h + 1
      BY <2>1, <1>1
  <2>2. CASE n # h + 1
    <3>1. n \in 1..h
        BY <2>2
    <3> QED
        BY <3>1 DEF TreeTo
  <2> QED
      BY <2>1, <2>2
<1>6. \A l, m \in new : l.lo <= m.hi /\ m.lo <= l.hi => l = m
  <2>1. \A l, m \in leaves : l.lo <= m.hi /\ m.lo <= l.hi => l = m
      BY DEF TreeTo
  <2> QED
      BY <2>1, <1>1, <1>2
<1>7. TreeTo(new, h + 1)
    BY <1>4, <1>5, <1>6 DEF TreeTo
<1>8. Carries(leaves, new)
    BY <1>2 DEF Carries
<1> QED
    BY <1>3, <1>7, <1>8 DEF leaf

(* The leaves that pack_logical_range replaces.                            *)
Packable(leaves, in, lo, hi) ==
    /\ in \in SUBSET leaves /\ \A l \in leaves : l \in in <=> l.lo <= hi /\ lo <= l.hi
    /\ \A n \in lo..hi : \E l \in in : l.lo <= n /\ n <= l.hi
    /\ \A l \in in : l.lo \in lo..hi /\ l.hi \in lo..hi /\ ~IsPacked(l)

(* The tree with one leaf in their place.                                  *)
Packed(leaves, in, leaf, h) ==
    /\ leaf \in LeafEntries /\ leaf.file.kind = "pack"
    /\ leaf.inputs = {l.file : l \in in}
    /\ (leaves \ in) \cup {leaf} \in Pages
    /\ TreeTo((leaves \ in) \cup {leaf}, h)
    /\ Carries(leaves, (leaves \ in) \cup {leaf})

(* pack_logical_range: one packed leaf in the place of the leaves that     *)
(* tile lo..hi.                                                            *)
LEMMA TreePack ==
    ASSUME NEW leaves \in Pages, NEW h \in Nat \ {0}, TreeTo(leaves, h), NEW at \in Nat,
           NEW lo \in Nat, NEW hi \in Nat, lo < hi,
           NEW in, Packable(leaves, in, lo, hi), NEW leaf, leaf = PackedLeaf(lo, hi, at, in)
    PROVE  Packed(leaves, in, leaf, h)
<1> DEFINE new == (leaves \ in) \cup {leaf}
<1> USE DEF Packable
<1>1. \A l \in leaves : /\ l \in LeafEntries /\ l.lo \in Nat /\ l.hi \in Nat /\ l.file \in Files
                        /\ l.hi <= h /\ l.lo <= l.hi /\ 1 <= l.lo
    BY DEF TreeTo, Pages, LeafEntries
<1>2. /\ leaf.lo = lo /\ leaf.hi = hi /\ leaf.file.kind = "pack"
      /\ leaf.inputs = {l.file : l \in in}
    BY DEF PackedLeaf, Path
<1>3. leaf \in LeafEntries
  <2>1. <<lo, hi, at>> \in Seq(Nat)
      OBVIOUS
  <2>2. Path("pack", <<lo, hi, at>>) \in Files
      BY <2>1 DEF Path, Files, FileKinds
  <2>3. {l.file : l \in in} \subseteq Files
      BY <1>1
  <2> QED
      BY <2>2, <2>3 DEF PackedLeaf, LeafEntries
<1>4. \A l \in in : /\ l \in leaves /\ lo <= l.lo /\ l.hi <= hi
                    /\ l.file.kind = "commit" /\ l.inputs = {l.file}
                    /\ l.file.id[1] \in l.lo..l.hi
  <2> SUFFICES ASSUME NEW l \in in
               PROVE  /\ lo <= l.lo /\ l.hi <= hi
                      /\ l.file.kind = "commit" /\ l.inputs = {l.file}
                      /\ l.file.id[1] \in l.lo..l.hi
      OBVIOUS
  <2>2. l.lo \in lo..hi /\ l.hi \in lo..hi
      OBVIOUS
  <2>3. l.file.kind = "commit" /\ l.inputs = {l.file}
      BY DEF TreeTo, IsPacked
  <2>4. l.file.id[1] \in l.lo..l.hi
    <3>1. l.file \in l.inputs
        BY <2>3
    <3> QED
        BY <3>1 DEF TreeTo
  <2> QED
      BY <2>2, <2>3, <2>4
<1>5. 1 <= lo /\ hi <= h
  <2>1. lo \in lo..hi /\ hi \in lo..hi
      OBVIOUS
  <2>2. PICK a \in in : a.lo <= lo /\ lo <= a.hi
      BY <2>1
  <2>3. PICK b \in in : b.lo <= hi /\ hi <= b.hi
      BY <2>1
  <2> QED
      BY <2>2, <2>3, <1>1
<1>6. new \in Pages
    BY <1>3 DEF Pages
<1>7. \A l \in new :
        /\ 1 <= l.lo /\ l.lo <= l.hi /\ l.hi <= h
        /\ l.file.kind = "pack" \/ (l.file.kind = "commit" /\ l.inputs = {l.file})
        /\ \A c \in l.inputs : c.kind = "commit" /\ c.id[1] \in l.lo..l.hi
  <2> SUFFICES ASSUME NEW l \in new
               PROVE  /\ 1 <= l.lo /\ l.lo <= l.hi /\ l.hi <= h
                      /\ l.file.kind = "pack" \/ (l.file.kind = "commit" /\ l.inputs = {l.file})
                      /\ \A c \in l.inputs : c.kind = "commit" /\ c.id[1] \in l.lo..l.hi
      OBVIOUS
  <2>1. CASE l = leaf
    <3>1. ASSUME NEW c \in l.inputs
          PROVE  c.kind = "commit" /\ c.id[1] \in l.lo..l.hi
      <4>1. PICK m \in in : c = m.file
          BY <2>1, <1>2
      <4>2. c.kind = "commit" /\ c.id[1] \in m.lo..m.hi /\ lo <= m.lo /\ m.hi <= hi
          BY <4>1, <1>4
      <4>3. m.lo \in Nat /\ m.hi \in Nat /\ l.lo = lo /\ l.hi = hi
          BY <1>1, <2>1, <1>2
      <4> QED
          BY <4>2, <4>3
    <3> QED
        BY <3>1, <2>1, <1>2, <1>5
  <2>2. CASE l \in leaves
      BY <2>2 DEF TreeTo
  <2> QED
      BY <2>1, <2>2
<1>8. \A n \in 1..h : \E l \in new : l.lo <= n /\ n <= l.hi
  <2> SUFFICES ASSUME NEW n \in 1..h PROVE \E l \in new : l.lo <= n /\ n <= l.hi
      OBVIOUS
  <2>1. CASE n \in lo..hi
    <3>1. leaf \in new /\ leaf.lo <= n /\ n <= leaf.hi
        BY <2>1, <1>2
    <3> QED
        BY <3>1
  <2>2. CASE n \notin lo..hi
    <3>1. PICK l \in leaves : l.lo <= n /\ n <= l.hi
        BY DEF TreeTo
    <3>2. l \notin in
        BY <3>1, <2>2, <1>1, <1>4
    <3> QED
        BY <3>1, <3>2
  <2> QED
      BY <2>1, <2>2
<1>9. \A l, m \in new : l.lo <= m.hi /\ m.lo <= l.hi => l = m
  <2>1. \A l, m \in leaves : l.lo <= m.hi /\ m.lo <= l.hi => l = m
      BY DEF TreeTo
  <2>2. \A l \in leaves \ in : ~(l.lo <= hi /\ lo <= l.hi)
      OBVIOUS
  <2> QED
      BY <2>1, <2>2, <1>2
<1>10. Carries(leaves, new)
  <2> SUFFICES ASSUME NEW l \in leaves
               PROVE  \E m \in new : m.lo <= l.lo /\ l.hi <= m.hi /\ l.inputs \subseteq m.inputs
      BY DEF Carries
  <2>1. CASE l \in in
      BY <2>1, <1>2, <1>4
  <2>2. CASE l \notin in
      BY <2>2, <1>1
  <2> QED
      BY <2>1, <2>2
<1> QED
    BY <1>2, <1>3, <1>6, <1>7, <1>8, <1>9, <1>10 DEF TreeTo, Packed

(* A journal that extends a prefix keeps every prefix of it.               *)
LEMMA PrefixOfExtension ==
    ASSUME NEW S, NEW p \in Seq(S), NEW s \in Seq(S), NEW t \in Seq(S),
           IsPrefix(p, s), IsPrefix(s, t)
    PROVE  IsPrefix(p, t)
<1>1. Len(p) <= Len(s) /\ Len(s) <= Len(t) /\ Len(p) \in Nat /\ Len(s) \in Nat /\ Len(t) \in Nat
    BY DEF IsPrefix
<1>2. \A i \in 1..Len(p) : p[i] = s[i]
  <2> SUFFICES ASSUME NEW i \in 1..Len(p) PROVE p[i] = s[i]
      OBVIOUS
  <2>1. SubSeq(p, 1, Len(p))[i] = p[i] /\ SubSeq(s, 1, Len(p))[i] = s[i]
      BY <1>1
  <2> QED
      BY <2>1 DEF IsPrefix
<1>3. \A i \in 1..Len(s) : s[i] = t[i]
  <2> SUFFICES ASSUME NEW i \in 1..Len(s) PROVE s[i] = t[i]
      OBVIOUS
  <2>1. SubSeq(s, 1, Len(s))[i] = s[i] /\ SubSeq(t, 1, Len(s))[i] = t[i]
      BY <1>1
  <2> QED
      BY <2>1 DEF IsPrefix
<1>4. \A i \in 1..Len(p) : p[i] = t[i]
    BY <1>1, <1>2, <1>3
<1>5. SubSeq(p, 1, Len(p)) = SubSeq(t, 1, Len(p))
    BY <1>1, <1>4
<1> QED
    BY <1>1, <1>5 DEF IsPrefix

(* A sequence is a prefix of what is appended to it.                       *)
LEMMA PrefixOfItself ==
    ASSUME NEW S, NEW s \in Seq(S)
    PROVE  IsPrefix(s, s)
BY DEF IsPrefix

-----------------------------------------------------------------------------
(* Roots                                                                   *)

RootsKept ==
    /\ DOMAIN rawRoots \subseteq DOMAIN rawRoots'
    /\ \A r \in DOMAIN rawRoots : rawRoots'[r] = rawRoots[r]

(* The operators that look at one root, in the next state.                 *)
LEMMA SameRoot ==
    ASSUME RootsKept, NEW r \in DOMAIN rawRoots
    PROVE  /\ Leaves(r)' = Leaves(r) /\ LeafFiles(r)' = LeafFiles(r)
           /\ Protected(r)' = Protected(r) /\ RootPaths(r)' = RootPaths(r)
BY DEF RootsKept, Leaves, LeafFiles, Protected, RootPaths

(* What is read off a root depends on the list of roots only.              *)
LEMMA RootsUnchanged ==
    ASSUME rawRoots' = rawRoots
    PROVE  RootsKept
BY DEF RootsKept

(* A published root: its generation, its leaves, and that it loads while   *)
(* its file is there.                                                      *)
LEMMA RootFacts ==
    ASSUME RawTyped, RootsInv, NEW r \in DOMAIN rawRoots
    PROVE  /\ rawRoots[r] \in Roots /\ rawRoots[r].gen \in 1..MaxGen
           /\ rawRoots[r].prefix \in Seq(Pages) /\ Len(rawRoots[r].prefix) \in Nat \ {0}
           /\ rawRoots[r].at \in Nat /\ r \in 1..Len(rawRoots) /\ r \in Nat \ {0}
           /\ Leaves(r) \in Pages /\ Tree(Leaves(r))
           /\ journals[rawRoots[r].gen] \in Seq(Pages)
           /\ RootFile(r) \in rawFiles => RootLoads(r)
<1>1. rawRoots[r] \in Roots /\ r \in 1..Len(rawRoots) /\ r \in Nat \ {0}
    BY DEF RawTyped
<1>2. /\ rawRoots[r].gen \in 1..MaxGen /\ rawRoots[r].prefix \in Seq(Pages)
      /\ rawRoots[r].at \in Nat
    BY <1>1 DEF Roots
<1>3. Len(rawRoots[r].prefix) \in Nat \ {0}
    BY <1>2 DEF RootsInv
<1>4. Leaves(r) \in Pages
    BY <1>2, <1>3 DEF Leaves, Last
<1>5. journals[rawRoots[r].gen] \in Seq(Pages)
    BY <1>2 DEF RawTyped
<1> QED
    BY <1>1, <1>2, <1>3, <1>4, <1>5 DEF RootsInv, RootLoads

(* CURRENT and the checkpoint name roots that were published.              *)
LEMMA CurrentFacts ==
    ASSUME RawTyped
    PROVE  /\ rawCurrent # 0 => rawCurrent \in DOMAIN rawRoots
           /\ ckCurrent # 0 => ckCurrent \in DOMAIN rawRoots
           /\ Len(rawRoots) \in Nat /\ DOMAIN rawRoots = 1..Len(rawRoots)
           /\ 0 \notin DOMAIN rawRoots
BY DEF RawTyped

-----------------------------------------------------------------------------
(* What a step leaves alone                                                *)

(* Frame of RootsInv.                                                      *)
LEMMA FrameRoots ==
    ASSUME RootsInv, UNCHANGED <<journals, rawRoots>>
    PROVE  RootsInv'
BY DEF RootsInv, Leaves

(* A retention window that has elapsed stays elapsed.                      *)
LEMMA ElapsedStays ==
    ASSUME now \in Nat, now' \in Nat, now <= now', NEW at \in Nat, Elapsed(at)
    PROVE  Elapsed(at)'
BY RawConstants DEF Elapsed

(* Frame of FilesInv: the clock may move and files may be added.           *)
LEMMA FrameFiles ==
    ASSUME RawTyped, RootsInv, FilesInv, UNCHANGED <<rawRoots, rawCurrent, ckCurrent, ckMissing>>,
           now' \in Nat, now <= now',
           rawFiles \subseteq rawFiles', skipped' = {} => skipped = {}
    PROVE  FilesInv'
<1>1. \A r \in DOMAIN rawRoots : Present(r) => Present(r)'
    BY SameRoot, RootsUnchanged DEF Present, RootFile
<1>2. \A r \in DOMAIN rawRoots : Elapsed(rawRoots[r].at) => Elapsed(rawRoots[r].at)'
    BY ElapsedStays, RootFacts DEF RawTyped
<1> QED
    BY <1>1, <1>2, CurrentFacts DEF FilesInv, RootFile

(* Frame of ReceiptsInv.                                                   *)
LEMMA FrameReceipts ==
    ASSUME RawTyped, ReceiptsInv, RootsKept, UNCHANGED <<rawCurrent, rawReceipts>>
    PROVE  ReceiptsInv'
<1>1. rawCurrent # 0 => Leaves(rawCurrent)' = Leaves(rawCurrent)
    BY SameRoot, CurrentFacts
<1> QED
    BY <1>1 DEF ReceiptsInv, Covering

(* The idle writer and the collector are not index operations.             *)
LEMMA IdleNoOp ==
    /\ RawIdle \notin Operations /\ RawIdle.step = "idle"
    /\ \A op \in Operations : op.step # "gc" /\ op.step # "idle"
    /\ \A op \in Collections : op.step = "gc" /\ op \notin Operations
BY DEF RawIdle, Operations, Steps, Collections

(* Frame of OpOK: files may be added and roots appended.                   *)
LEMMA FrameOperation ==
    ASSUME RawTyped, NEW op, OpOK(op), UNCHANGED <<rawRoots, rawCurrent, journals>>,
           rawFiles \subseteq rawFiles'
    PROVE  OpOK(op)'
<1>1. RootsKept
    BY RootsUnchanged
<1>2. rawCurrent # 0 => /\ Leaves(rawCurrent)' = Leaves(rawCurrent)
                        /\ LeafFiles(rawCurrent)' = LeafFiles(rawCurrent)
                        /\ Protected(rawCurrent)' = Protected(rawCurrent)
    BY <1>1, SameRoot, CurrentFacts
<1> QED
    BY <1>2 DEF OpOK, Supersedes, NewFile, OpPage, PageFiles, PageInputs, RootFile

(* Frame of OpInv.                                                         *)
LEMMA FrameOp ==
    ASSUME RawTyped, OpInv, UNCHANGED <<rawOp, rawRoots, rawCurrent, journals>>,
           rawFiles \subseteq rawFiles'
    PROVE  OpInv'
<1>1. PICK op : op = rawOp
    OBVIOUS
<1>2. OpOK(op) => OpOK(op)'
    BY FrameOperation
<1> QED
    BY <1>1, <1>2 DEF OpInv

(* Frame of PlanOK: backups and roots only grow, and windows only elapse.  *)
LEMMA FramePlan ==
    ASSUME RawTyped, RootsInv, NEW p, PlanOK(p), UNCHANGED <<rawRoots, rawCurrent>>,
           backups \subseteq backups', now' \in Nat, now <= now'
    PROVE  PlanOK(p)'
<1>1. RootsKept
    BY RootsUnchanged
<1>2. \A r \in DOMAIN rawRoots :
        LeafFiles(r)' = LeafFiles(r) /\ RootPaths(r)' = RootPaths(r) /\ Leaves(r)' = Leaves(r)
    BY <1>1, SameRoot
<1>3. \A r \in DOMAIN rawRoots : Elapsed(rawRoots[r].at) => Elapsed(rawRoots[r].at)'
    BY ElapsedStays, RootFacts DEF RawTyped
<1>4. ASSUME p.root = rawCurrent
      PROVE  PlanSpares(p.files, p.ck)'
  <2>1. p.ck # 0 => p.ck \in DOMAIN rawRoots
      BY CurrentFacts DEF PlanOK
  <2>2. PlanSpares(p.files, p.ck) /\ rawCurrent \in DOMAIN rawRoots
      BY <1>4 DEF PlanOK
  <2> QED
      BY <1>2, <1>3, <2>1, <2>2 DEF PlanSpares, RootFile, LeaseFile
<1>5. \A r, s : Older(r, s) => Older(r, s)'
    BY DEF Older
<1> QED
    BY <1>4, <1>5 DEF PlanOK

(* Frame of PlansInv.                                                      *)
LEMMA FramePlans ==
    ASSUME RawTyped, RootsInv, PlansInv, UNCHANGED <<plans, rawRoots, rawCurrent>>,
           backups \subseteq backups', now' \in Nat, now <= now'
    PROVE  PlansInv'
<1>1. plans' \in Seq(PlanRecords) /\ DOMAIN plans' = DOMAIN plans
    BY DEF PlansInv
<1>2. ASSUME NEW i \in DOMAIN plans
      PROVE  PlanOK(plans[i])'
  <2>1. PICK p : p = plans[i]
      OBVIOUS
  <2>2. PlanOK(p)
      BY <2>1 DEF PlansInv
  <2>3. PlanOK(p)'
      BY <2>2, FramePlan
  <2> QED
      BY <2>1, <2>3
<1> QED
    BY <1>1, <1>2 DEF PlansInv

(* Frame of GcInv.                                                         *)
LEMMA FrameGc ==
    ASSUME RawTyped, GcInv, UNCHANGED <<rawOp, plans, rawRoots, rawCurrent, ckCurrent, skipped>>
    PROVE  GcInv'
<1>1. ckCurrent # 0 => RootPaths(ckCurrent)' = RootPaths(ckCurrent)
    BY RootsUnchanged, SameRoot, CurrentFacts
<1> QED
    BY <1>1 DEF GcInv

(* Frame of LeasesInv.                                                     *)
LEMMA FrameLeases ==
    ASSUME LeasesInv, UNCHANGED readers, rawFiles \subseteq rawFiles', skipped \subseteq skipped',
           rawOp'.step # "gc" \/ UNCHANGED <<rawOp, rawCurrent, ckCurrent>>
    PROVE  LeasesInv'
BY DEF LeasesInv, LeaseFile

(* Frame of MissingRecoverable.                                            *)
LEMMA FrameMissing ==
    ASSUME MissingRecoverable, UNCHANGED <<plans, rawRoots>>,
           backups \subseteq backups', rawFiles \subseteq rawFiles'
    PROVE  MissingRecoverable'
<1>1. RootsKept
    BY RootsUnchanged
<1>2. \A r \in DOMAIN rawRoots : Protected(r)' = Protected(r)
    BY <1>1, SameRoot
<1> QED
    BY <1>2 DEF MissingRecoverable, RootFile

-----------------------------------------------------------------------------
(* The initial state, the environment, readers and checkpoints             *)

(* The empty store.                                                        *)
LEMMA InitInv ==
    ASSUME RawInit
    PROVE  RawInv
<1>1. rawRoots = <<>> /\ Len(rawRoots) = 0 /\ DOMAIN rawRoots = {} /\ plans = <<>> /\ DOMAIN plans = {}
    BY DEF RawInit
<1>2. rawOp = RawIdle /\ rawOp \notin Operations /\ rawOp.step # "gc"
    BY IdleNoOp DEF RawInit
<1>3. \A rd \in Readers : readers[rd] = NoReader
    BY DEF RawInit
<1>4. NoReader \in ReaderStates /\ NoReader.root = 0 /\ NoReader.lease = "none"
    BY DEF NoReader, ReaderStates
<1>5. RawTyped
    BY <1>1, <1>2, <1>3, <1>4 DEF RawInit, RawTyped
<1>6. RootsInv /\ FilesInv /\ ReceiptsInv /\ OpInv /\ GcInv /\ MissingRecoverable
    BY <1>1, <1>2 DEF RawInit, RootsInv, FilesInv, ReceiptsInv, OpInv, GcInv, MissingRecoverable
<1>7. PlansInv /\ LeasesInv
    BY <1>1, <1>2, <1>3, <1>4 DEF PlansInv, LeasesInv
<1> QED
    BY <1>5, <1>6, <1>7 DEF RawInv

(* The clock.                                                              *)
LEMMA TickInv ==
    ASSUME RawInv, Tick
    PROVE  RawInv'
<1> USE DEF RawInv, Tick, indexVars, checkpointVars, collectorVars
<1>1. RawTyped'
    BY DEF RawTyped
<1>2. now \in Nat /\ now' \in Nat /\ now <= now'
    BY DEF RawTyped
<1>3. RootsInv' /\ FilesInv' /\ ReceiptsInv' /\ OpInv' /\ PlansInv'
    BY <1>2, FrameRoots, FrameFiles, FrameReceipts, RootsUnchanged, FrameOp, FramePlans
<1>4. GcInv' /\ LeasesInv' /\ MissingRecoverable'
    BY FrameGc, FrameLeases, FrameMissing
<1> QED
    BY <1>1, <1>3, <1>4

(* Steps after which no operation is under way and nothing else changed.   *)
LEMMA ToIdle ==
    ASSUME RawInv, rawOp' = RawIdle,
           UNCHANGED <<now, rawFiles, readers, rawReceipts, indexVars, checkpointVars, collectorVars>>
    PROVE  RawInv'
<1> USE DEF RawInv, indexVars, checkpointVars, collectorVars
<1>1. RawTyped'
    BY DEF RawTyped
<1>2. now \in Nat /\ now <= now /\ rawOp' \notin Operations /\ rawOp'.step # "gc"
    BY IdleNoOp DEF RawTyped
<1>3. RootsInv' /\ FilesInv' /\ ReceiptsInv' /\ PlansInv'
    BY <1>2, FrameRoots, FrameFiles, FrameReceipts, RootsUnchanged, FramePlans
<1>4. OpInv' /\ GcInv'
    BY <1>2 DEF OpInv, GcInv
<1>5. LeasesInv' /\ MissingRecoverable'
    BY <1>2, FrameLeases, FrameMissing
<1> QED
    BY <1>1, <1>3, <1>4, <1>5

(* A step of one reader keeps the type of the readers.                     *)
LEMMA ReaderTyped ==
    ASSUME RawTyped, NEW rd \in Readers, NEW state \in ReaderStates,
           state.root \in 0..Len(rawRoots), readers' = [readers EXCEPT ![rd] = state],
           UNCHANGED <<now, rawOp, indexVars, checkpointVars>>, rawFiles' \subseteq Files
    PROVE  RawTyped'
<1>1. \A q \in Readers : readers'[q] = IF q = rd THEN state ELSE readers[q]
    BY DEF RawTyped
<1>2. readers' \in [Readers -> ReaderStates]
    BY DEF RawTyped
<1> QED
    BY <1>1, <1>2 DEF RawTyped, indexVars, checkpointVars

(* The lease of a root is a file, and not a root or a leaf.                *)
LEMMA LeaseFileType ==
    ASSUME NEW r \in Nat
    PROVE  /\ LeaseFile(r) \in Files /\ LeaseFile(r).kind = "lease" /\ LeaseFile(r).id[1] = r
           /\ RootFile(r) \in Files /\ RootFile(r).kind = "root" /\ RootFile(r).id[1] = r
<1>1. <<r>> \in Seq(Nat) /\ <<r>>[1] = r
    OBVIOUS
<1> QED
    BY <1>1 DEF LeaseFile, RootFile, Path, Files, FileKinds

(* The parts that do not look at the readers, when files only appear.      *)
LEMMA FrameStore ==
    ASSUME RawInv, rawFiles \subseteq rawFiles',
           UNCHANGED <<now, rawOp, rawReceipts, indexVars, ckCurrent, ckMissing, collectorVars>>
    PROVE  /\ RootsInv' /\ FilesInv' /\ ReceiptsInv' /\ OpInv' /\ PlansInv' /\ GcInv'
           /\ MissingRecoverable'
<1> USE DEF RawInv, indexVars, checkpointVars, collectorVars
<1>1. now \in Nat /\ now <= now
    BY DEF RawTyped
<1> QED
    BY <1>1, FrameRoots, FrameFiles, FrameReceipts, RootsUnchanged, FrameOp, FramePlans,
       FrameGc, FrameMissing

(* A reader loads CURRENT.                                                 *)
LEMMA ReaderLoadInv ==
    ASSUME RawInv, NEW rd \in Readers, ReaderLoad(rd)
    PROVE  RawInv'
<1> USE DEF indexVars, checkpointVars, collectorVars
<1>1. RawTyped /\ readers \in [Readers -> ReaderStates] /\ rawCurrent \in 0..Len(rawRoots)
    BY DEF RawInv, RawTyped
<1>2. readers' \in [Readers -> ReaderStates]
    BY <1>1, CurrentFacts DEF ReaderLoad, ReaderStates
<1>3. \A q \in Readers : /\ readers'[q].lease = readers[q].lease
                         /\ readers'[q].root = IF q = rd THEN rawCurrent ELSE readers[q].root
    BY <1>1 DEF ReaderLoad, ReaderStates
<1>4. readers[rd].lease = "none" /\ \A q \in Readers \ {rd} : readers'[q] = readers[q]
    BY <1>1 DEF ReaderLoad, NoReader
<1>5. RawTyped'
    BY <1>1, <1>2, <1>3 DEF ReaderLoad, RawTyped
<1>6. LeasesInv'
    BY <1>3, <1>4 DEF LeasesInv, ReaderLoad, RawInv, LeaseFile
<1> QED
    BY <1>5, <1>6, FrameStore DEF RawInv, ReaderLoad

(* A reader drops its lease.                                               *)
LEMMA ReaderDoneInv ==
    ASSUME RawInv, NEW rd \in Readers, ReaderDone(rd)
    PROVE  RawInv'
<1> USE DEF indexVars, checkpointVars, collectorVars
<1>1. NoReader \in ReaderStates /\ NoReader.root = 0 /\ NoReader.lease = "none"
    BY DEF NoReader, ReaderStates
<1>2. RawTyped /\ NoReader.root \in 0..Len(rawRoots) /\ rawFiles' \subseteq Files
    BY <1>1 DEF RawInv, RawTyped, ReaderDone
<1>3. RawTyped'
    BY <1>1, <1>2, ReaderTyped DEF ReaderDone
<1>4. LeasesInv'
  <2>1. \A q \in Readers : readers'[q] = IF q = rd THEN NoReader ELSE readers[q]
      BY <1>2 DEF RawTyped, ReaderDone
  <2> QED
      BY <1>1, <2>1 DEF LeasesInv, ReaderDone, RawInv, LeaseFile
<1> QED
    BY <1>3, <1>4, FrameStore DEF RawInv, ReaderDone

(* A reader takes its lease: the only way a lease is held is that its file *)
(* is there.                                                               *)
LEMMA ReaderLeaseInv ==
    ASSUME RawInv, NEW rd \in Readers, ReaderLease(rd)
    PROVE  RawInv'
<1> USE DEF indexVars, checkpointVars, collectorVars
<1>1. NoReader \in ReaderStates /\ NoReader.root = 0 /\ NoReader.lease = "none"
    BY DEF NoReader, ReaderStates
<1>2. RawTyped
    BY DEF RawInv
<1>3. PICK r \in 0..Len(rawRoots) : r = readers[rd].root /\ r # 0
    BY <1>2 DEF RawTyped, ReaderLease
<1>4. r \in Nat /\ LeaseFile(r) \in Files
    BY <1>3, LeaseFileType, CurrentFacts, <1>2
<1>5. /\ rawFiles' = rawFiles \cup {LeaseFile(r)}
      /\ UNCHANGED <<now, rawEnds, rawOp, rawReceipts, indexVars, checkpointVars, collectorVars>>
    BY <1>3 DEF ReaderLease
<1>6. rawFiles' \subseteq Files
    BY <1>2, <1>4, <1>5 DEF RawTyped
<1>7. PICK state : /\ readers' = [readers EXCEPT ![rd] = state]
                   /\ \/ state = NoReader
                      \/ state = [root |-> r, lease |-> "held", late |-> rawOp.step = "gc"]
    BY <1>3 DEF ReaderLease
<1>8. state \in ReaderStates /\ state.root \in 0..Len(rawRoots)
  <2>1. CASE state = NoReader
      BY <2>1, <1>1, <1>2 DEF RawTyped
  <2>2. CASE state = [root |-> r, lease |-> "held", late |-> rawOp.step = "gc"]
    <3>1. (rawOp.step = "gc") \in BOOLEAN
        OBVIOUS
    <3> QED
        BY <2>2, <1>3, <1>4, <3>1, Zenon DEF ReaderStates
  <2> QED
      BY <1>7, <2>1, <2>2
<1>9. RawTyped'
    BY <1>2, <1>5, <1>6, <1>7, <1>8, ReaderTyped
<1>10. LeasesInv'
  <2>1. \A q \in Readers : readers'[q] = IF q = rd THEN state ELSE readers[q]
      BY <1>2, <1>7 DEF RawTyped
  <2>2. \A q \in Readers \ {rd} : readers'[q] = readers[q]
      BY <2>1
  <2>3. readers'[rd] = state
      BY <2>1
  <2>4. /\ state.lease # "none" => state.root = r /\ state.lease = "held"
        /\ state.lease = "held" /\ rawOp.step = "gc" => state.late
    <3>1. CASE state = NoReader
        BY <3>1, <1>1
    <3>2. CASE state = [root |-> r, lease |-> "held", late |-> rawOp.step = "gc"]
      <4>1. state.root = r /\ state.lease = "held"
          BY <3>2
      <4>2. rawOp.step = "gc" => state.late
          BY <3>2, Zenon
      <4> QED
          BY <4>1, <4>2
    <3> QED
        BY <1>7, <3>1, <3>2
  <2> QED
      BY <1>3, <1>5, <2>2, <2>3, <2>4 DEF LeasesInv, RawInv, LeaseFile
<1> QED
    BY <1>5, <1>9, <1>10, FrameStore DEF RawInv

(* A repeated append that finds its batch in the tree.                     *)
LEMMA AppendKnownInv ==
    ASSUME RawInv, NEW n \in Batches, AppendKnown(n)
    PROVE  RawInv'
<1> USE DEF indexVars, checkpointVars, collectorVars, outsideVars
<1>1. n \in Nat
    BY DEF Batches
<1>2. RawTyped'
    BY DEF RawInv, RawTyped, AppendKnown
<1>3. now \in Nat /\ now <= now
    BY DEF RawInv, RawTyped
<1>4. RootsInv' /\ FilesInv' /\ OpInv' /\ PlansInv' /\ GcInv' /\ LeasesInv' /\ MissingRecoverable'
    BY <1>3, FrameRoots, FrameFiles, FrameOp, FramePlans, FrameGc, FrameLeases, FrameMissing
    DEF RawInv, AppendKnown
<1>5. ReceiptsInv'
  <2>1. PICK l \in Covering(Leaves(rawCurrent), n) : \E c \in l.inputs :
            rawReceipts' = [m \in (DOMAIN rawReceipts) \cup {n} |->
                                    IF m = n THEN c ELSE rawReceipts[m]]
      BY DEF AppendKnown
  <2>2. PICK c \in l.inputs :
            rawReceipts' = [m \in (DOMAIN rawReceipts) \cup {n} |->
                                    IF m = n THEN c ELSE rawReceipts[m]]
      BY <2>1
  <2>3. DOMAIN rawReceipts' = (DOMAIN rawReceipts) \cup {n}
      BY <2>2
  <2>4. rawReceipts'[n] = c /\ \A m \in DOMAIN rawReceipts : m # n => rawReceipts'[m] = rawReceipts[m]
      BY <2>2
  <2>5. rawCurrent # 0 /\ rawCurrent' = rawCurrent /\ Leaves(rawCurrent)' = Leaves(rawCurrent)
      BY DEF AppendKnown, Leaves
  <2>6. ReceiptsInv
      BY DEF RawInv
  <2>7. \A m : Covering(Leaves(rawCurrent), m)' = Covering(Leaves(rawCurrent), m)
      BY <2>5 DEF Covering
  <2> QED
      BY <1>1, <2>1, <2>3, <2>4, <2>5, <2>6, <2>7 DEF ReceiptsInv
<1> QED
    BY <1>2, <1>4, <1>5 DEF RawInv

(* A checkpoint document names CURRENT and creates its lease.              *)
LEMMA PublishCheckpointInv ==
    ASSUME RawInv, NEW lo \in Batches, NEW hi \in Batches, PublishCheckpoint(lo, hi)
    PROVE  RawInv'
<1> USE DEF indexVars, checkpointVars, collectorVars, outsideVars
<1>1. RawTyped /\ rawCurrent \in Nat /\ rawCurrent \in 1..Len(rawRoots)
    BY CurrentFacts DEF RawInv, PublishCheckpoint
<1>2. LeaseFile(rawCurrent) \in Files
    BY <1>1, LeaseFileType
<1>3. /\ ckDocs' = ckDocs \cup {[root |-> rawCurrent, lo |-> lo, hi |-> hi]}
      /\ rawFiles' = rawFiles \cup {LeaseFile(rawCurrent)}
      /\ UNCHANGED <<ckCurrent, ckMissing, rawOp, rawReceipts, indexVars, collectorVars, outsideVars>>
    BY DEF PublishCheckpoint
<1>4. (\A d \in ckDocs' : d.root \in 1..Len(rawRoots)) /\ ckDocs \subseteq ckDocs'
    BY <1>1, <1>3 DEF RawTyped
<1>5. RawTyped'
    BY <1>1, <1>2, <1>3, <1>4 DEF RawTyped
<1>6. LeasesInv'
    BY <1>3, FrameLeases DEF RawInv
<1> QED
    BY <1>3, <1>5, <1>6, FrameStore DEF RawInv

(* The checkpoint moves to a document whose root loads.  The leaves of the *)
(* root that the document does not list may be gone, and ckMissing says    *)
(* which ones are.                                                         *)
LEMMA SwitchCheckpointInv ==
    ASSUME RawInv, NEW d \in ckDocs, SwitchCheckpoint(d)
    PROVE  RawInv'
<1> USE DEF indexVars, checkpointVars, collectorVars, outsideVars
<1>1. PICK r : r = d.root
    OBVIOUS
<1>2. /\ RawTyped /\ r \in Nat /\ r \in DOMAIN rawRoots /\ now \in Nat /\ now <= now
      /\ rawFiles \subseteq rawFiles'
    BY <1>1, CurrentFacts DEF RawInv, RawTyped, SwitchCheckpoint
<1>3. LeaseFile(r) \in Files
    BY <1>2, LeaseFileType
<1>4. RawTyped'
    BY <1>1, <1>2, <1>3 DEF RawTyped, SwitchCheckpoint
<1>5. rawOp' = rawOp /\ rawOp.step = "idle"
    BY IdleNoOp DEF SwitchCheckpoint
<1>6. RootsInv' /\ ReceiptsInv' /\ OpInv' /\ PlansInv' /\ MissingRecoverable'
    BY <1>2, FrameRoots, FrameReceipts, RootsUnchanged, FrameOp, FramePlans, FrameMissing
    DEF RawInv, SwitchCheckpoint
<1>7. LeasesInv'
    BY <1>2, <1>5, FrameLeases DEF RawInv, SwitchCheckpoint
<1>8. GcInv'
    BY <1>5 DEF GcInv
<1>9. FilesInv'
  <2>1. \A q \in DOMAIN rawRoots : Present(q) => Present(q)'
      BY <1>2, SameRoot, RootsUnchanged DEF Present, RootFile, SwitchCheckpoint
  <2>2. RootFile(r) \in rawFiles /\ (LeafFiles(r) \ rawFiles = {} => Present(r))
      BY <1>1 DEF SwitchCheckpoint, Present, RootLoads
  <2>3. \A q \in DOMAIN rawRoots : Elapsed(rawRoots[q].at) => Elapsed(rawRoots[q].at)'
      BY DEF SwitchCheckpoint, Elapsed
  <2>4. FilesInv
      BY DEF RawInv
  <2>5. RootFile(r)' = RootFile(r) /\ ckCurrent' = r /\ ckMissing' = LeafFiles(r) \ rawFiles
      BY <1>1 DEF SwitchCheckpoint, RootFile
  <2> QED
      BY <1>2, <2>1, <2>2, <2>3, <2>4, <2>5, CurrentFacts DEF FilesInv, SwitchCheckpoint
<1> QED
    BY <1>4, <1>6, <1>7, <1>8, <1>9 DEF RawInv

-----------------------------------------------------------------------------
(* Collection                                                              *)

(* The files a root protects are commits and packs.                        *)
LEMMA LeafKinds ==
    ASSUME RawTyped, RootsInv, NEW r \in DOMAIN rawRoots, NEW f \in Protected(r)
    PROVE  f.kind \in {"commit", "pack"}
<1>1. PICK h \in Nat : TreeTo(Leaves(r), h)
    BY RootFacts DEF Tree
<1>2. PICK l \in Leaves(r) : f = l.file \/ f \in l.inputs
    BY DEF Protected, LeafFiles
<1> QED
    BY <1>1, <1>2 DEF TreeTo

(* What eligible_files lists is a commit that a pack of CURRENT replaced,  *)
(* or the bundle or the lease of another root.                             *)
LEMMA EligibleIs ==
    ASSUME RawTyped, NEW present, NEW f \in EligibleFiles(present)
    PROVE  /\ f \in present /\ f \notin LeafFiles(rawCurrent)
           /\ \/ \E l \in Leaves(rawCurrent) : f \in l.inputs
              \/ \E r \in OtherRoots : f = RootFile(r) /\ Elapsed(rawRoots[r].at)
              \/ \E r \in DOMAIN rawRoots \ {rawCurrent, ckCurrent} : f = LeaseFile(r)
           /\ \A r \in OtherRoots : Elapsed(rawRoots[r].at) \/ f \notin Protected(r)
           /\ ckCurrent # 0 /\ ckCurrent # rawCurrent => f \notin Protected(ckCurrent)
           /\ ckCurrent = rawCurrent => f \notin Protected(rawCurrent)
<1>1. f \in present /\ f \notin LeafFiles(rawCurrent)
    BY DEF EligibleFiles
<1>2. \/ \E l \in Leaves(rawCurrent) : f \in l.inputs
      \/ \E r \in OtherRoots : f = RootFile(r) /\ Elapsed(rawRoots[r].at)
      \/ \E r \in DOMAIN rawRoots \ {rawCurrent, ckCurrent} : f = LeaseFile(r)
    BY DEF EligibleFiles, OtherRoots, ListedRoots, LeaseOnly
<1>3. \A r \in OtherRoots : Elapsed(rawRoots[r].at) \/ f \notin Protected(r)
    BY DEF EligibleFiles
<1>4. ckCurrent # 0 /\ ckCurrent # rawCurrent => f \notin Protected(ckCurrent)
    BY DEF EligibleFiles
<1>5. ckCurrent = rawCurrent => f \notin Protected(rawCurrent)
    BY DEF EligibleFiles
<1> QED
    BY <1>1, <1>2, <1>3, <1>4, <1>5

(* A plan spares CURRENT, the checkpoint and every root within the horizon.*)
LEMMA EligibleSpares ==
    ASSUME RawInv, rawCurrent # 0, NEW present, NEW files \in SUBSET EligibleFiles(present)
    PROVE  PlanSpares(files, ckCurrent)
<1>1. RawTyped /\ RootsInv /\ FilesInv /\ rawCurrent \in DOMAIN rawRoots
    BY CurrentFacts DEF RawInv
<1>2. ckCurrent # 0 => ckCurrent \in DOMAIN rawRoots
    BY <1>1, CurrentFacts
<1>3. PICK h \in Nat : TreeTo(Leaves(rawCurrent), h)
    BY <1>1, RootFacts DEF Tree
<1>4. \A l \in Leaves(rawCurrent) : \A f \in l.inputs :
          f.kind = "commit" /\ f.id[1] \in Nat /\ f.id[1] <= h
  <2> SUFFICES ASSUME NEW l \in Leaves(rawCurrent), NEW f \in l.inputs
               PROVE  f.kind = "commit" /\ f.id[1] \in Nat /\ f.id[1] <= h
      OBVIOUS
  <2>1. l.lo \in Nat /\ l.hi \in Nat
      BY <1>1, RootFacts DEF Pages, LeafEntries
  <2> QED
      BY <1>3, <2>1 DEF TreeTo
<1>5. \A r \in DOMAIN rawRoots : \A f \in Protected(r) : f.kind \in {"commit", "pack"}
    BY <1>1, LeafKinds
<1>6. \A r \in DOMAIN rawRoots : LeafFiles(r) \subseteq Protected(r)
    BY DEF Protected
<1>7. \A r \in DOMAIN rawRoots : /\ RootFile(r).kind = "root" /\ RootFile(r).id[1] = r
                                 /\ LeaseFile(r).kind = "lease" /\ LeaseFile(r).id[1] = r
    BY <1>1, RootFacts, LeaseFileType
<1>8. ASSUME NEW f \in files
      PROVE  f \notin RootPaths(rawCurrent)
    BY <1>1, <1>4, <1>7, EligibleIs DEF RootPaths, OtherRoots, ListedRoots
<1>9. ASSUME NEW f \in files, ckCurrent # 0
      PROVE  f \notin RootPaths(ckCurrent)
  <2>1. CASE ckCurrent = rawCurrent
      BY <2>1, <1>8, <1>9
  <2>2. CASE ckCurrent # rawCurrent
      BY <2>2, <1>9, <1>1, <1>2, <1>4, <1>6, <1>7, EligibleIs DEF RootPaths, OtherRoots, ListedRoots
  <2> QED
      BY <2>1, <2>2
<1>10. ASSUME NEW f \in files, NEW r \in DOMAIN rawRoots, ~Elapsed(rawRoots[r].at)
       PROVE  f \notin {RootFile(r)} \cup LeafFiles(r)
  <2>1. CASE r = rawCurrent
      BY <2>1, <1>8 DEF RootPaths
  <2>2. CASE r = ckCurrent
      BY <2>2, <1>9, <1>1, CurrentFacts DEF RootPaths
  <2>3. CASE r \notin {rawCurrent, ckCurrent}
    <3>1. r \in OtherRoots
        BY <2>3, <1>1, <1>10 DEF FilesInv, Present, OtherRoots, ListedRoots
    <3> QED
        BY <3>1, <1>1, <1>4, <1>6, <1>7, <1>10, EligibleIs DEF OtherRoots, ListedRoots
  <2> QED
      BY <2>1, <2>2, <2>3
<1>11. ASSUME NEW f \in files
       PROVE  \/ \E k \in Nat : TreeTo(Leaves(rawCurrent), k) /\ f.kind = "commit" /\ f.id[1] <= k
              \/ \E r \in DOMAIN rawRoots : f = RootFile(r) \/ f = LeaseFile(r)
    BY <1>1, <1>3, <1>4, EligibleIs DEF OtherRoots, ListedRoots
<1> QED
    BY <1>8, <1>9, <1>10, <1>11 DEF PlanSpares

(* A backup of the eligible files is added.                                *)
LEMMA BackupEligibleInv ==
    ASSUME RawInv, BackupEligible
    PROVE  RawInv'
<1> USE DEF indexVars, checkpointVars, outsideVars
<1>1. RawTyped'
    BY DEF RawInv, RawTyped, BackupEligible
<1>2. now \in Nat /\ now <= now /\ backups \subseteq backups'
    BY DEF RawInv, RawTyped, BackupEligible
<1>3. /\ RootsInv' /\ FilesInv' /\ ReceiptsInv' /\ OpInv' /\ PlansInv' /\ GcInv' /\ LeasesInv'
      /\ MissingRecoverable'
    BY <1>2, FrameRoots, FrameFiles, FrameReceipts, RootsUnchanged, FrameOp, FramePlans, FrameGc,
       FrameLeases, FrameMissing
    DEF RawInv, BackupEligible
<1> QED
    BY <1>1, <1>3 DEF RawInv

(* The lease files a plan collects.                                        *)
LEMMA LeaseFilesTyped ==
    ASSUME RawTyped
    PROVE  {LeaseFile(r) : r \in Lockable} \subseteq Files
<1>1. \A r \in Lockable : r \in Nat
    BY DEF Lockable, ListedRoots, LeaseOnly, RawTyped
<1> QED
    BY <1>1, LeaseFileType

(* The plan is for CURRENT and spares what CURRENT, the checkpoint and the *)
(* recent roots need.                                                      *)
LEMMA PlanGcInv ==
    ASSUME RawInv, NEW backup \in backups, PlanGc(backup)
    PROVE  RawInv'
<1> USE DEF indexVars, checkpointVars, outsideVars
<1>1. /\ RawTyped /\ RootsInv /\ PlansInv /\ rawCurrent # 0 /\ rawCurrent \in DOMAIN rawRoots
      /\ now \in Nat /\ now <= now
    BY CurrentFacts DEF RawInv, PlanGc, EligibleLoads, RawTyped
<1>2. PICK files : files = EligibleFiles(rawFiles') \cap backup.files
    OBVIOUS
<1>3. PICK plan : plan = [root |-> rawCurrent, files |-> files, ck |-> ckCurrent,
                          states |-> [f \in files |-> "none"]]
    OBVIOUS
<1>4. /\ plans' = Append(plans, plan) /\ rawFiles' = rawFiles \cup {LeaseFile(r) : r \in Lockable}
      /\ UNCHANGED <<now, readers, rawEnds, backups, skipped, rawOp, rawReceipts, indexVars,
                     checkpointVars>>
    BY <1>2, <1>3 DEF PlanGc
<1>5. files \in SUBSET EligibleFiles(rawFiles') /\ files \subseteq Files /\ files \subseteq backup.files
  <2>1. rawFiles' \subseteq Files
      BY <1>1, <1>4, LeaseFilesTyped DEF RawTyped
  <2>2. \A f \in EligibleFiles(rawFiles') : f \in rawFiles'
      BY <1>1, EligibleIs
  <2> QED
      BY <1>2, <2>1, <2>2
<1>6. plan \in PlanRecords
  <2>1. [f \in files |-> "none"] \in [files -> FileStates]
      BY DEF FileStates
  <2>2. rawCurrent \in Nat /\ ckCurrent \in Nat
      BY <1>1 DEF RawTyped
  <2> QED
      BY <1>3, <1>5, <2>1, <2>2 DEF PlanRecords
<1>7. /\ plans \in Seq(PlanRecords) /\ plans' \in Seq(PlanRecords)
      /\ DOMAIN plans' = DOMAIN plans \cup {Len(plans) + 1}
      /\ plans'[Len(plans) + 1] = plan
      /\ \A i \in DOMAIN plans : plans'[i] = plans[i]
    BY <1>1, <1>4, <1>6 DEF PlansInv
<1>8. PlanOK(plan)
  <2>1. /\ plan.root = rawCurrent /\ plan.files = files /\ plan.ck = ckCurrent
        /\ plan.states = [f \in files |-> "none"]
      BY <1>3
  <2>2. PlanSpares(files, ckCurrent)
      BY <1>1, <1>5, EligibleSpares
  <2>3. plan.states \in [files -> FileStates]
      BY <2>1 DEF FileStates
  <2>4. ckCurrent \in 0..Len(rawRoots)
      BY <1>1 DEF RawTyped
  <2> QED
      BY <1>1, <1>5, <2>1, <2>2, <2>3, <2>4 DEF PlanOK
<1>9. PlansInv'
  <2>1. \A p : PlanOK(p) => PlanOK(p)'
      BY <1>1, <1>4, FramePlan
  <2>2. \A i \in DOMAIN plans' : PlanOK(plans[i])'
    <3> SUFFICES ASSUME NEW i \in DOMAIN plans' PROVE PlanOK(plans[i])'
        OBVIOUS
    <3>1. PICK p : p = plans'[i]
        OBVIOUS
    <3>2. PlanOK(p)
        BY <3>1, <1>1, <1>7, <1>8 DEF PlansInv
    <3>3. PlanOK(p)'
        BY <3>2, <2>1
    <3> QED
        BY <3>1, <3>3
  <2> QED
      BY <1>7, <2>2 DEF PlansInv
<1>10. RawTyped'
    BY <1>1, <1>4, LeaseFilesTyped DEF RawTyped
<1>11. rawOp.step # "gc" /\ rawOp' = rawOp
    BY IdleNoOp DEF PlanGc
<1>12. GcInv' /\ LeasesInv'
    BY <1>4, <1>11, FrameLeases DEF GcInv, RawInv
<1>13. RootsInv' /\ FilesInv' /\ ReceiptsInv' /\ OpInv'
    BY <1>1, <1>4, FrameRoots, FrameFiles, FrameReceipts, RootsUnchanged, FrameOp DEF RawInv
<1>14. MissingRecoverable'
  <2>1. \A r \in DOMAIN rawRoots : Protected(r)' = Protected(r)
      BY <1>4, RootsUnchanged, SameRoot
  <2> QED
      BY <1>4, <1>7, <2>1 DEF MissingRecoverable, RootFile, RawInv
<1> QED
    BY <1>9, <1>10, <1>12, <1>13, <1>14 DEF RawInv

(* An execution begins: its checks and the leases it takes.                *)
LEMMA BeginGcInv ==
    ASSUME RawInv, NEW i \in DOMAIN plans, BeginGc(i)
    PROVE  RawInv'
<1> USE DEF indexVars, checkpointVars, outsideVars
<1>1. RawTyped /\ RootsInv /\ PlansInv /\ now \in Nat /\ now <= now
    BY DEF RawInv, RawTyped
<1>2. PICK op : op = [step |-> "gc", plan |-> i, locked |-> Lockable]
    OBVIOUS
<1>3. /\ rawOp' = op /\ rawFiles' = rawFiles \cup {LeaseFile(r) : r \in Lockable}
      /\ skipped' = skipped \cup {r \in {ckCurrent} \ {0, plans[i].ck} :
             plans[i].files \cap ({RootFile(r), LeaseFile(r)} \cup LeafFiles(r)) # {}}
      /\ UNCHANGED <<now, readers, rawEnds, backups, plans, rawReceipts, indexVars, checkpointVars>>
      /\ rawCurrent = plans[i].root /\ LeasesFree
    BY <1>2 DEF BeginGc
<1>4. op \in Collections
  <2>1. i \in Nat
      BY <1>1 DEF PlansInv
  <2>2. Lockable \subseteq Nat
      BY <1>1 DEF Lockable, ListedRoots, LeaseOnly, RawTyped
  <2> QED
      BY <1>2, <2>1, <2>2 DEF Collections
<1>5. RawTyped'
    BY <1>1, <1>3, <1>4, LeaseFilesTyped DEF RawTyped
<1>6. rawOp' \notin Operations /\ rawOp'.step = "gc" /\ rawOp'.plan = i
    BY <1>2, <1>3, <1>4, IdleNoOp
<1>7. OpInv'
    BY <1>6 DEF OpInv
<1>8. RootsInv' /\ FilesInv' /\ ReceiptsInv' /\ PlansInv' /\ MissingRecoverable'
    BY <1>1, <1>3, FrameRoots, FrameFiles, FrameReceipts, RootsUnchanged, FramePlans, FrameMissing
    DEF RawInv
<1>9. GcInv'
  <2>1. RootPaths(ckCurrent)' = {RootFile(ckCurrent), LeaseFile(ckCurrent)} \cup LeafFiles(ckCurrent)
      BY <1>3 DEF RootPaths, LeafFiles, Leaves, RootFile, LeaseFile
  <2>2. \/ ckCurrent \in {0, plans[i].ck} \cup skipped'
        \/ plans[i].files \cap ({RootFile(ckCurrent), LeaseFile(ckCurrent)} \cup LeafFiles(ckCurrent)) = {}
      BY <1>3
  <2>3. UNCHANGED <<plans, rawCurrent, ckCurrent>>
      BY <1>3
  <2> QED
      BY <1>3, <1>6, <2>1, <2>2, <2>3 DEF GcInv
<1>10. LeasesInv'
  <2> SUFFICES ASSUME NEW rd \in Readers, readers[rd].lease = "held"
               PROVE  readers[rd].root \in {rawCurrent, ckCurrent}
      BY <1>3 DEF RawInv, LeasesInv, LeaseFile
  <2>1. readers[rd].root \in DOMAIN rawRoots /\ LeaseFile(readers[rd].root) \in rawFiles
      BY <1>1, CurrentFacts DEF RawInv, LeasesInv, RawTyped
  <2>2. readers[rd].root \notin Lockable
      BY <1>3 DEF LeasesFree
  <2> QED
      BY <2>1, <2>2 DEF Lockable, ListedRoots, LeaseOnly
<1> QED
    BY <1>5, <1>7, <1>8, <1>9, <1>10 DEF RawInv

(* A file of a plan is restored from the backup.                           *)
LEMMA RestoreFileInv ==
    ASSUME RawInv, NEW i \in DOMAIN plans, NEW f \in plans[i].files, RestoreFile(i, f)
    PROVE  RawInv'
<1> USE DEF indexVars, checkpointVars, collectorVars, outsideVars
<1>1. RawTyped /\ PlansInv
    BY DEF RawInv
<1>2. f \in Files
  <2>1. plans[i] \in PlanRecords
      BY <1>1 DEF PlansInv
  <2> QED
      BY <2>1 DEF PlanRecords
<1>3. RawTyped'
    BY <1>1, <1>2, LeaseFilesTyped DEF RawTyped, RestoreFile
<1>4. LeasesInv'
    BY FrameLeases DEF RestoreFile, RawInv
<1> QED
    BY <1>3, <1>4, FrameStore DEF RestoreFile, RawInv

(* Only the state of file f in plan k changed.                             *)
Recorded(k, f, state) ==
    /\ plans' \in Seq(PlanRecords) /\ DOMAIN plans' = DOMAIN plans
    /\ \A i \in DOMAIN plans :
         /\ plans'[i].root = plans[i].root /\ plans'[i].ck = plans[i].ck
         /\ plans'[i].files = plans[i].files
         /\ i # k => plans'[i] = plans[i]
    /\ plans'[k].states = [plans[k].states EXCEPT ![f] = state]

(* The deletion journal moves the record of one file.                      *)
LEMMA RecordFacts ==
    ASSUME plans \in Seq(PlanRecords), NEW k \in DOMAIN plans,
           plans[k].states \in [plans[k].files -> FileStates],
           NEW f \in plans[k].files, NEW state \in FileStates,
           plans' = [plans EXCEPT ![k].states[f] = state]
    PROVE  Recorded(k, f, state)
<1>1. PICK p : p = plans[k]
    OBVIOUS
<1>2. p \in PlanRecords
    BY <1>1
<1>3. PICK states : states = [p.states EXCEPT ![f] = state]
    OBVIOUS
<1>4. states \in [p.files -> FileStates]
    BY <1>1, <1>3
<1>5. PICK q : q = [root |-> p.root, files |-> p.files, ck |-> p.ck, states |-> states]
    OBVIOUS
<1>6. q \in PlanRecords
  <2>1. p.root \in Nat /\ p.files \in SUBSET Files /\ p.ck \in Nat
      BY <1>2 DEF PlanRecords
  <2> QED
      BY <1>4, <1>5, <2>1 DEF PlanRecords
<1>7. [p EXCEPT !.states = states] = q
  <2>1. p = [root |-> p.root, files |-> p.files, ck |-> p.ck, states |-> p.states]
      BY <1>2 DEF PlanRecords
  <2> QED
      BY <2>1, <1>5
<1>8. plans' = [plans EXCEPT ![k] = q]
  <2>1. plans' = [plans EXCEPT ![k] = [plans[k] EXCEPT !.states = [plans[k].states EXCEPT ![f] = state]]]
      BY Zenon
  <2> QED
      BY <2>1, <1>1, <1>3, <1>7, Zenon
<1>9. /\ plans' \in Seq(PlanRecords) /\ DOMAIN plans' = DOMAIN plans
      /\ plans'[k] = q /\ \A i \in DOMAIN plans : i # k => plans'[i] = plans[i]
    BY <1>6, <1>8
<1> QED
    BY <1>1, <1>3, <1>5, <1>9 DEF Recorded

(* A record of the deletion journal of the plan under execution.           *)
LEMMA RecordInv ==
    ASSUME RawInv, rawOp.step = "gc", NEW f \in plans[rawOp.plan].files,
           NEW state \in FileStates \ {"none"}, Record(f, state),
           UNCHANGED <<rawFiles, rawOp, backups, skipped, rawReceipts, indexVars, checkpointVars,
                       outsideVars>>
    PROVE  RawInv'
<1> USE DEF indexVars, checkpointVars, outsideVars
<1>1. PICK k \in DOMAIN plans : k = rawOp.plan /\ f \in plans[k].files
    BY DEF RawInv, GcInv
<1>2. /\ RawTyped /\ RootsInv /\ PlansInv /\ GcInv /\ now \in Nat /\ now <= now
      /\ plans \in Seq(PlanRecords) /\ plans[k].states \in [plans[k].files -> FileStates]
    BY DEF RawInv, RawTyped, PlansInv, PlanOK
<1>3. plans' = [plans EXCEPT ![k].states[f] = state]
    BY <1>1 DEF Record
<1>4. /\ plans' \in Seq(PlanRecords) /\ DOMAIN plans' = DOMAIN plans
      /\ \A i \in DOMAIN plans :
           /\ plans'[i].root = plans[i].root /\ plans'[i].ck = plans[i].ck
           /\ plans'[i].files = plans[i].files
           /\ i # k => plans'[i] = plans[i]
      /\ plans'[k].states = [plans[k].states EXCEPT ![f] = state]
  <2>1. state \in FileStates /\ f \in plans[k].files
      BY <1>1
  <2>2. Recorded(k, f, state)
      BY <1>2, <1>3, <2>1, RecordFacts, Zenon
  <2> QED
      BY <2>2, Zenon DEF Recorded
<1>5. /\ plans'[k].states \in [plans'[k].files -> FileStates]
      /\ \A g \in plans[k].files : plans'[k].states[g] = IF g = f THEN state ELSE plans[k].states[g]
    BY <1>1, <1>2, <1>4
<1>6. PlansInv'
  <2> SUFFICES ASSUME NEW i \in DOMAIN plans PROVE PlanOK(plans[i])'
      BY <1>4 DEF PlansInv
  <2>1. PICK p : p = plans[i]
      OBVIOUS
  <2>2. PICK q : q = plans'[i]
      OBVIOUS
  <2>3. PlanOK(p)'
      BY <1>2, <2>1, FramePlan DEF PlansInv
  <2>4. q.root = p.root /\ q.ck = p.ck /\ q.files = p.files
      BY <1>4, <2>1, <2>2
  <2>5. q.states \in [q.files -> FileStates]
      BY <1>2, <1>4, <1>5, <2>2 DEF PlansInv, PlanOK
  <2>6. PlanOK(q)'
      BY <2>3, <2>4, <2>5 DEF PlanOK
  <2> QED
      BY <2>2, <2>6
<1>7. RawTyped'
    BY <1>2 DEF RawTyped
<1>8. RootsInv' /\ FilesInv' /\ ReceiptsInv' /\ OpInv' /\ LeasesInv'
    BY <1>2, FrameRoots, FrameFiles, FrameReceipts, RootsUnchanged, FrameOp, FrameLeases DEF RawInv
<1>9. GcInv'
  <2>1. RootPaths(ckCurrent)' = RootPaths(ckCurrent)
      BY DEF RootPaths, LeafFiles, Leaves, RootFile, LeaseFile
  <2> QED
      BY <1>1, <1>2, <1>4, <2>1 DEF GcInv
<1>10. MissingRecoverable'
  <2>1. \A r \in DOMAIN rawRoots : Protected(r)' = Protected(r)
      BY RootsUnchanged, SameRoot
  <2>2. \A i \in DOMAIN plans : \A g \in plans[i].files :
            plans[i].states[g] # "none" => g \in plans'[i].files /\ plans'[i].states[g] # "none"
      BY <1>4, <1>5
  <2> QED
      BY <1>4, <2>1, <2>2 DEF MissingRecoverable, RootFile, RawInv
<1> QED
    BY <1>6, <1>7, <1>8, <1>9, <1>10 DEF RawInv

(* The three records of the deletion journal.                              *)
LEMMA GcRecordsInv ==
    ASSUME RawInv, NEW f \in GcFiles, GcPlanned(f) \/ GcUnlinked(f) \/ GcSynced(f)
    PROVE  RawInv'
<1>1. rawOp.step = "gc" /\ f \in plans[rawOp.plan].files
    BY DEF GcPlanned, GcUnlinked, GcSynced, GcTurn, GcFiles
<1>2. {"planned", "unlinked", "synced"} \subseteq FileStates \ {"none"}
    BY DEF FileStates
<1>3. CASE GcPlanned(f) /\ f \in rawFiles
    BY <1>1, <1>2, <1>3, RecordInv DEF GcPlanned
<1>4. CASE GcPlanned(f) /\ f \notin rawFiles
    BY <1>4, ToIdle DEF GcPlanned, collectorVars, outsideVars
<1>5. CASE GcUnlinked(f)
    BY <1>1, <1>2, <1>5, RecordInv DEF GcUnlinked
<1>6. CASE GcSynced(f)
    BY <1>1, <1>2, <1>6, RecordInv DEF GcSynced
<1> QED
    BY <1>3, <1>4, <1>5, <1>6, Zenon

(* What an execution of a plan unlinks belongs to no root it must spare.   *)
LEMMA UnlinkSpares ==
    ASSUME RawInv, rawOp.step = "gc", NEW f \in plans[rawOp.plan].files
    PROVE  /\ rawCurrent \in DOMAIN rawRoots /\ f \notin RootPaths(rawCurrent)
           /\ ckCurrent # 0 /\ ckCurrent \notin skipped => f \notin RootPaths(ckCurrent)
           /\ \A r \in DOMAIN rawRoots :
                Elapsed(rawRoots[r].at) \/ f \notin {RootFile(r)} \cup LeafFiles(r)
           /\ f.kind = "lease" => \E r \in DOMAIN rawRoots : f = LeaseFile(r)
           /\ f \in Files /\ \E b \in backups : f \in b.files
<1>1. PICK k \in DOMAIN plans : k = rawOp.plan /\ f \in plans[k].files
    BY DEF RawInv, GcInv
<1>2. plans[k] \in PlanRecords /\ PlanOK(plans[k]) /\ plans[k].root = rawCurrent /\ RawTyped
    BY <1>1 DEF RawInv, PlansInv, GcInv
<1>3. PlanSpares(plans[k].files, plans[k].ck)
    BY <1>2 DEF PlanOK
<1>4. f \in Files
    BY <1>1, <1>2 DEF PlanRecords
<1>5. \E b \in backups : f \in b.files
    BY <1>1, <1>2 DEF PlanOK
<1>6. rawCurrent \in DOMAIN rawRoots
    BY <1>2 DEF PlanOK
<1>7. f.kind = "lease" => \E r \in DOMAIN rawRoots : f = LeaseFile(r)
  <2>1. \A r \in DOMAIN rawRoots : RootFile(r).kind = "root"
      BY DEF RootFile, Path
  <2> QED
      BY <1>1, <1>3, <2>1 DEF PlanSpares
<1>8. ckCurrent # 0 /\ ckCurrent \notin skipped => f \notin RootPaths(ckCurrent)
    BY <1>1, <1>3 DEF RawInv, GcInv, PlanSpares
<1> QED
    BY <1>1, <1>3, <1>4, <1>5, <1>6, <1>7, <1>8 DEF PlanSpares

(* The unlink removes nothing that CURRENT, the checkpoint or a recent     *)
(* root needs.                                                             *)
LEMMA GcUnlinkInv ==
    ASSUME RawInv, NEW f \in GcFiles, GcUnlink(f)
    PROVE  RawInv'
<1> USE DEF indexVars, checkpointVars, collectorVars
<1>0. GcTurn(f)
    BY Zenon DEF GcUnlink
<1>1. /\ RawTyped /\ RootsInv /\ GcInv /\ PlansInv /\ now \in Nat /\ now <= now
      /\ rawOp.step = "gc" /\ f \in plans[rawOp.plan].files
  <2>1. RawTyped /\ RootsInv /\ GcInv /\ PlansInv
      BY DEF RawInv
  <2>2. now \in Nat /\ now <= now
      BY <2>1 DEF RawTyped
  <2>3. rawOp.step = "gc"
      BY <1>0, Zenon DEF GcTurn
  <2> QED
      BY <2>1, <2>2, <2>3 DEF GcFiles
<1>2. /\ rawCurrent \in DOMAIN rawRoots /\ f \notin RootPaths(rawCurrent)
      /\ ckCurrent # 0 /\ ckCurrent \notin skipped => f \notin RootPaths(ckCurrent)
      /\ \A r \in DOMAIN rawRoots :
            Elapsed(rawRoots[r].at) \/ f \notin {RootFile(r)} \cup LeafFiles(r)
      /\ f.kind = "lease" => \E r \in DOMAIN rawRoots : f = LeaseFile(r)
      /\ \E b \in backups : f \in b.files
    BY <1>1, UnlinkSpares
<1>3. /\ rawFiles' = rawFiles \ {f}
      /\ UNCHANGED <<now, rawEnds, rawReceipts, indexVars, checkpointVars, collectorVars>>
    BY DEF GcUnlink
<1>4. rawOp \in Collections
    BY <1>1, IdleNoOp DEF RawTyped
<1>5. rawOp' \in Collections /\ rawOp'.plan = rawOp.plan /\ rawOp'.step = "gc" /\ rawOp' \notin Operations
  <2>1. rawOp' = rawOp \/ rawOp' = [rawOp EXCEPT !.locked = rawOp.locked \ {f.id[1]}]
      BY DEF GcUnlink
  <2>2. rawOp' \in Collections /\ rawOp'.plan = rawOp.plan
      BY <1>4, <2>1 DEF Collections
  <2> QED
      BY <2>2, IdleNoOp
<1>6. \A rd \in Readers :
        /\ readers'[rd] \in ReaderStates
        /\ readers'[rd].root = readers[rd].root /\ readers'[rd].late = readers[rd].late
        /\ readers'[rd].lease =
              IF f.kind = "lease" /\ readers[rd].lease = "held" /\ readers[rd].root = f.id[1]
              THEN "orphan" ELSE readers[rd].lease
  <2> SUFFICES ASSUME NEW rd \in Readers
               PROVE  /\ readers'[rd] \in ReaderStates
                      /\ readers'[rd].root = readers[rd].root /\ readers'[rd].late = readers[rd].late
                      /\ readers'[rd].lease =
                            IF f.kind = "lease" /\ readers[rd].lease = "held" /\ readers[rd].root = f.id[1]
                            THEN "orphan" ELSE readers[rd].lease
      OBVIOUS
  <2>1. PICK s \in ReaderStates : s = readers[rd]
      BY <1>1 DEF RawTyped
  <2>2. readers'[rd] = IF f.kind = "lease" /\ s.lease = "held" /\ s.root = f.id[1]
                       THEN [s EXCEPT !.lease = "orphan"] ELSE s
      BY <2>1 DEF GcUnlink
  <2> QED
      BY <2>1, <2>2 DEF ReaderStates
<1>7. readers' \in [Readers -> ReaderStates]
    BY <1>6 DEF GcUnlink
<1>8. RawTyped'
    BY <1>1, <1>3, <1>5, <1>6, <1>7 DEF RawTyped
<1>9. RootsInv' /\ ReceiptsInv' /\ PlansInv'
    BY <1>1, <1>3, FrameRoots, FrameReceipts, RootsUnchanged, FramePlans DEF RawInv
<1>10. OpInv'
    BY <1>5 DEF OpInv
<1>11. GcInv'
  <2>1. RootPaths(ckCurrent)' = RootPaths(ckCurrent)
      BY <1>3 DEF RootPaths, LeafFiles, Leaves, RootFile, LeaseFile
  <2> QED
      BY <1>1, <1>3, <1>5, <2>1 DEF GcInv
<1>12. FilesInv'
  <2>1. \A r \in DOMAIN rawRoots :
            Present(r) /\ f \notin {RootFile(r)} \cup LeafFiles(r) => Present(r)'
    <3>1. \A r \in DOMAIN rawRoots : LeafFiles(r)' = LeafFiles(r)
        BY <1>3, SameRoot, RootsUnchanged
    <3> QED
        BY <1>3, <3>1 DEF Present, RootFile
  <2>2. \A r \in DOMAIN rawRoots : Elapsed(rawRoots[r].at)' <=> Elapsed(rawRoots[r].at)
      BY <1>3 DEF Elapsed
  <2>3. \A r : {RootFile(r)} \cup LeafFiles(r) \subseteq RootPaths(r)
      BY DEF RootPaths
  <2>4. FilesInv
      BY DEF RawInv
  <2>5. rawCurrent' = rawCurrent /\ rawCurrent # 0 /\ Present(rawCurrent)'
      BY <1>1, <1>2, <1>3, <2>1, <2>3, <2>4, CurrentFacts DEF FilesInv
  <2>6. ckCurrent' # 0 /\ skipped' = {} =>
           RootFile(ckCurrent)' \in rawFiles' /\ (ckMissing' = {} => Present(ckCurrent)')
      BY <1>1, <1>2, <1>3, <2>1, <2>3, <2>4, CurrentFacts DEF FilesInv, RootFile
  <2>7. \A r \in DOMAIN rawRoots' : (Elapsed(rawRoots[r].at) \/ Present(r))'
      BY <1>2, <1>3, <2>1, <2>2, <2>4 DEF FilesInv
  <2> QED
      BY <2>5, <2>6, <2>7 DEF FilesInv
<1>13. LeasesInv'
  <2> SUFFICES ASSUME NEW rd \in Readers
               PROVE  /\ readers'[rd].lease # "none" => readers'[rd].root # 0
                      /\ readers'[rd].lease = "held" => LeaseFile(readers'[rd].root) \in rawFiles'
                      /\ readers'[rd].lease = "orphan"
                            => readers'[rd].late \/ readers'[rd].root \in skipped'
                      /\ rawOp'.step = "gc" /\ readers'[rd].lease = "held" /\ ~readers'[rd].late
                            => readers'[rd].root \in {rawCurrent', ckCurrent'}
      BY DEF LeasesInv, LeaseFile
  <2>1. /\ readers[rd].lease # "none" => readers[rd].root # 0
        /\ readers[rd].lease = "held" => LeaseFile(readers[rd].root) \in rawFiles
        /\ readers[rd].lease = "orphan" => readers[rd].late \/ readers[rd].root \in skipped
        /\ readers[rd].lease = "held" /\ ~readers[rd].late => readers[rd].root \in {rawCurrent, ckCurrent}
      BY <1>1 DEF RawInv, LeasesInv
  <2>2. readers[rd].root \in Nat
      BY <1>1 DEF RawTyped, ReaderStates
  <2>3. CASE f.kind = "lease" /\ readers[rd].lease = "held" /\ readers[rd].root = f.id[1]
    <3>1. PICK r \in DOMAIN rawRoots : f = LeaseFile(r)
        BY <1>2, <2>3
    <3>2. readers[rd].root = r
        BY <2>3, <3>1, <1>1, RootFacts, LeaseFileType
    <3>3. f \in RootPaths(r)
        BY <3>1 DEF RootPaths
    <3>4. readers[rd].late \/ readers[rd].root \in skipped
        BY <2>1, <2>3, <3>2, <3>3, <1>1, <1>2, CurrentFacts
    <3>5. /\ readers'[rd].lease = "orphan" /\ readers'[rd].root = readers[rd].root
          /\ readers'[rd].late = readers[rd].late
        BY <1>6, <2>3
    <3>6. readers'[rd].late \/ readers'[rd].root \in skipped'
        BY <3>4, <3>5, <1>3
    <3> QED
        BY <2>1, <2>3, <3>5, <3>6
  <2>4. CASE ~(f.kind = "lease" /\ readers[rd].lease = "held" /\ readers[rd].root = f.id[1])
    <3>1. /\ readers'[rd].lease = readers[rd].lease /\ readers'[rd].root = readers[rd].root
          /\ readers'[rd].late = readers[rd].late
        BY <1>6, <2>4
    <3>2. readers[rd].lease = "held" => f # LeaseFile(readers[rd].root)
        BY <2>2, <2>4, LeaseFileType
    <3>3. readers'[rd].lease = "orphan" => readers'[rd].late \/ readers'[rd].root \in skipped'
        BY <2>1, <3>1, <1>3
    <3>4. readers'[rd].lease = "held" /\ ~readers'[rd].late
             => readers'[rd].root \in {rawCurrent', ckCurrent'}
        BY <2>1, <3>1, <1>3
    <3> QED
        BY <1>3, <2>1, <3>1, <3>2, <3>3, <3>4
  <2> QED
      BY <2>3, <2>4
<1>14. MissingRecoverable'
  <2>1. \A r \in DOMAIN rawRoots : Protected(r)' = Protected(r)
      BY <1>3, RootsUnchanged, SameRoot
  <2>2. rawOp.plan \in DOMAIN plans /\ plans[rawOp.plan].states[f] # "none"
      BY <1>1 DEF GcInv, GcUnlink, State
  <2> QED
      BY <1>1, <1>2, <1>3, <2>1, <2>2 DEF MissingRecoverable, RootFile, RawInv
<1> QED
    BY <1>8, <1>9, <1>10, <1>11, <1>12, <1>13, <1>14 DEF RawInv

(* The end of an execution.                                                *)
LEMMA FinishGcInv ==
    ASSUME RawInv, FinishGc
    PROVE  RawInv'
BY ToIdle DEF FinishGc, outsideVars

(* The process ends between any two steps.                                 *)
LEMMA RawProcessEndsInv ==
    ASSUME RawInv, RawProcessEnds
    PROVE  RawInv'
BY ToIdle DEF RawProcessEnds

-----------------------------------------------------------------------------
(* Appending and packing                                                   *)

OpFields == {"step", "kind", "at", "batch", "file", "gen", "committed", "full", "root"}
HasOpFields(op) == op = [x \in OpFields |-> op[x]]

(* The fields of an index operation.                                       *)
LEMMA OperationFields ==
    ASSUME NEW op \in Operations
    PROVE  /\ HasOpFields(op) /\ op.step \in Steps /\ op.kind \in {"append", "pack_index", "pack_range"}
           /\ op.at \in Nat /\ op.batch \in Nat /\ op.file \in Files /\ op.gen \in 1..MaxGen
           /\ op.committed \in Seq(Pages) /\ op.full \in Seq(Pages) /\ op.root \in Nat
BY SMT DEF Operations, HasOpFields, OpFields

(* A record with these fields is an index operation.                       *)
LEMMA OperationFromFields ==
    ASSUME NEW op, HasOpFields(op), op.step \in Steps,
           op.kind \in {"append", "pack_index", "pack_range"},
           op.at \in Nat, op.batch \in Nat, op.file \in Files, op.gen \in 1..MaxGen,
           op.committed \in Seq(Pages), op.full \in Seq(Pages), op.root \in Nat
    PROVE  op \in Operations
BY SMT DEF Operations, HasOpFields, OpFields

(* The operation at its next step.                                         *)
Continues(op, new, s, r) ==
    /\ new \in Operations /\ new.step = s /\ new.root = r
    /\ new.kind = op.kind /\ new.at = op.at /\ new.batch = op.batch /\ new.file = op.file
    /\ new.gen = op.gen /\ new.committed = op.committed /\ new.full = op.full

(* An operation that moves to its next step.                               *)
LEMMA NextStep ==
    ASSUME NEW op \in Operations, NEW s \in Steps
    PROVE  Continues(op, [op EXCEPT !.step = s], s, op.root)
<1>1. HasOpFields(op)
    BY OperationFields
<1>2. PICK new : new = [op EXCEPT !.step = s]
    OBVIOUS
<1>3. HasOpFields(new)
    BY <1>1, <1>2, Zenon DEF HasOpFields, OpFields
<1>4. /\ new.step = s /\ new.root = op.root
      /\ new.kind = op.kind /\ new.at = op.at /\ new.batch = op.batch /\ new.file = op.file
      /\ new.gen = op.gen /\ new.committed = op.committed /\ new.full = op.full
    BY <1>1, <1>2, Zenon DEF HasOpFields, OpFields
<1>5. Continues(op, new, s, op.root)
    BY <1>3, <1>4, OperationFields, OperationFromFields DEF Continues
<1> QED
    BY <1>2, <1>5, Zenon

(* An operation that moves to its next step with the root it wrote.        *)
LEMMA NextStepAndRoot ==
    ASSUME NEW op \in Operations, NEW s \in Steps, NEW r \in Nat
    PROVE  Continues(op, [op EXCEPT !.step = s, !.root = r], s, r)
<1>1. HasOpFields(op)
    BY OperationFields
<1>2. PICK new : new = [op EXCEPT !.step = s, !.root = r]
    OBVIOUS
<1>3. HasOpFields(new)
    BY <1>1, <1>2, Zenon DEF HasOpFields, OpFields
<1>4. /\ new.step = s /\ new.root = r
      /\ new.kind = op.kind /\ new.at = op.at /\ new.batch = op.batch /\ new.file = op.file
      /\ new.gen = op.gen /\ new.committed = op.committed /\ new.full = op.full
    BY <1>1, <1>2, Zenon DEF HasOpFields, OpFields
<1>5. Continues(op, new, s, r)
    BY <1>3, <1>4, OperationFields, OperationFromFields DEF Continues
<1> QED
    BY <1>2, <1>5, Zenon

(* The page an operation adds to its prefix.                               *)
LEMMA LastOfAppend ==
    ASSUME NEW committed \in Seq(Pages), NEW page \in Pages
    PROVE  Append(committed, page) \in Seq(Pages) /\ Last(Append(committed, page)) = page
BY DEF Last

(* An operation begins.                                                    *)
LEMMA BeginOpInv ==
    ASSUME RawInv, NEW op, rawOp' = op, op \in Operations, OpOK(op),
           UNCHANGED <<rawFiles, rawReceipts, indexVars, checkpointVars, collectorVars, outsideVars>>
    PROVE  RawInv'
<1> USE DEF indexVars, checkpointVars, collectorVars, outsideVars
<1>1. RawTyped /\ now \in Nat /\ now <= now
    BY DEF RawInv, RawTyped
<1>2. RawTyped'
    BY <1>1 DEF RawTyped
<1>3. rawOp'.step # "gc"
    BY IdleNoOp
<1>4. RootsInv' /\ FilesInv' /\ ReceiptsInv' /\ PlansInv' /\ LeasesInv' /\ MissingRecoverable'
    BY <1>1, <1>3, FrameRoots, FrameFiles, FrameReceipts, RootsUnchanged, FramePlans, FrameLeases,
       FrameMissing DEF RawInv
<1>5. OpInv'
  <2>1. OpOK(op)'
      BY <1>1, FrameOperation
  <2> QED
      BY <2>1 DEF OpInv
<1>6. GcInv'
    BY <1>3 DEF GcInv
<1> QED
    BY <1>2, <1>4, <1>5, <1>6 DEF RawInv

(* With a published root, CURRENT is present and its leaves tile the       *)
(* batches.                                                                *)
LEMMA CurrentReady ==
    ASSUME RawInv, rawCurrent # 0
    PROVE  /\ rawCurrent \in DOMAIN rawRoots
           /\ rawRoots[rawCurrent].gen \in 1..MaxGen
           /\ rawRoots[rawCurrent].prefix \in Seq(Pages)
           /\ Leaves(rawCurrent) = Last(rawRoots[rawCurrent].prefix)
           /\ Leaves(rawCurrent) \in Pages /\ Tree(Leaves(rawCurrent))
           /\ HeadSequence(Leaves(rawCurrent)) \in Nat \ {0}
           /\ TreeTo(Leaves(rawCurrent), HeadSequence(Leaves(rawCurrent)))
           /\ LeafFiles(rawCurrent) \subseteq rawFiles
<1>1. RawTyped /\ RootsInv /\ FilesInv /\ rawCurrent \in DOMAIN rawRoots
    BY CurrentFacts DEF RawInv
<1> QED
    BY <1>1, RootFacts, TreeOfHead DEF Leaves, FilesInv, Present

(* The append of the next batch, as an operation.                          *)
LEMMA AppendOperationOK ==
    ASSUME RawInv, NEW n \in Nat \ {0}, NEW at \in Nat,
           IF rawCurrent = 0 THEN n = 1 ELSE TreeTo(Leaves(rawCurrent), n - 1) /\ n > 1
    PROVE  AppendOperation(n, at) \in Operations /\ OpOK(AppendOperation(n, at))
<1>1. PICK op : op = AppendOperation(n, at)
    OBVIOUS
<1>2. PICK leaf : leaf = LogicalLeaf(n, at)
    OBVIOUS
<1>3. /\ leaf \in LeafEntries /\ leaf.lo = n /\ leaf.hi = n /\ leaf.file \in Files
      /\ leaf.file.kind = "commit" /\ leaf.file.id[1] = n /\ leaf.inputs = {leaf.file}
  <2>1. PICK c : c = CommitFile(n, at)
      OBVIOUS
  <2>2. /\ c \in Files /\ c.kind = "commit" /\ c.id[1] = n /\ leaf \in LeafEntries
        /\ leaf.lo = n /\ leaf.hi = n /\ leaf.file = c /\ leaf.inputs = {c}
    <3>1. n \in Nat
        OBVIOUS
    <3> QED
        BY <1>2, <2>1, <3>1, LogicalLeafType, Zenon
  <2> QED
      BY <2>2, Zenon
<1>4. "file" \in Steps /\ "append" \in {"append", "pack_index", "pack_range"}
    BY DEF Steps
<1>5. CASE rawCurrent = 0
  <2>1. op = Operation("file", "append", at, n, leaf.file, 1, <<>>, {leaf})
      BY <1>1, <1>2, <1>5 DEF AppendOperation
  <2>2. 1 \in 1..MaxGen /\ <<>> \in Seq(Pages) /\ {leaf} \in Pages
      BY <1>3, RawConstants DEF Pages
  <2>3. /\ op \in Operations
        /\ op.step = "file" /\ op.kind = "append" /\ op.batch = n /\ op.file = leaf.file
        /\ op.gen = 1 /\ op.committed = <<>>
        /\ op.full = Append(<<>>, {leaf}) /\ OpPage(op) = {leaf}
    <3>1. /\ op.step = "file" /\ op.kind = "append" /\ op.batch = n /\ op.file = leaf.file
          /\ op.gen = 1 /\ op.committed = <<>> /\ op.full = Append(<<>>, {leaf})
        BY <2>1 DEF Operation
    <3>2. Append(<<>>, {leaf}) \in Seq(Pages) /\ OpPage(op) = {leaf}
        BY <2>2, <3>1, LastOfAppend DEF OpPage
    <3>3. op \in Operations
        BY <1>3, <1>4, <2>1, <2>2, <3>2 DEF Operation, Operations
    <3> QED
        BY <3>1, <3>2, <3>3
  <2>4. n = 1 /\ TreeTo({leaf}, 1)
      BY <1>2, <1>5, TreeFirst
  <2>5. Tree({leaf})
      BY <2>4 DEF Tree
  <2>6. PageFiles(op) \subseteq {op.file} /\ PageInputs(op) \subseteq {op.file}
      BY <2>3, <1>3 DEF PageFiles, PageInputs
  <2>7. Supersedes(op) /\ NewFile(op)
      BY <2>3, <1>3, <1>5 DEF Supersedes, NewFile
  <2>8. \E l \in OpPage(op) : l.lo <= op.batch /\ op.batch <= l.hi /\ op.file \in l.inputs
      BY <2>3, <1>3
  <2> QED
      BY <1>1, <1>5, <2>2, <2>3, <2>5, <2>6, <2>7, <2>8 DEF OpOK
<1>6. CASE rawCurrent # 0
  <2>1. PICK root : root = rawRoots[rawCurrent]
      OBVIOUS
  <2>2. PICK page : page = Leaves(rawCurrent) \cup {leaf}
      OBVIOUS
  <2>3. /\ rawCurrent \in DOMAIN rawRoots /\ root.gen \in 1..MaxGen /\ root.prefix \in Seq(Pages)
        /\ Leaves(rawCurrent) = Last(root.prefix) /\ Leaves(rawCurrent) \in Pages
        /\ LeafFiles(rawCurrent) \subseteq rawFiles
      BY <1>6, <2>1, CurrentReady
  <2>4. op = Operation("file", "append", at, n, leaf.file, root.gen, root.prefix, page)
      BY <1>1, <1>2, <1>6, <2>1, <2>2, <2>3 DEF AppendOperation
  <2>5. page \in Pages /\ TreeTo(page, n) /\ Carries(Leaves(rawCurrent), page)
    <3>1. n - 1 \in Nat \ {0} /\ (n - 1) + 1 = n /\ TreeTo(Leaves(rawCurrent), n - 1)
        BY <1>6
    <3> QED
        BY <1>2, <2>2, <2>3, <3>1, TreeAppend
  <2>6. /\ op \in Operations
        /\ op.step = "file" /\ op.kind = "append" /\ op.batch = n /\ op.file = leaf.file
        /\ op.gen = root.gen /\ op.committed = root.prefix
        /\ op.full = Append(op.committed, page) /\ OpPage(op) = page
    <3>1. /\ op.step = "file" /\ op.kind = "append" /\ op.batch = n /\ op.file = leaf.file
          /\ op.gen = root.gen /\ op.committed = root.prefix /\ op.full = Append(root.prefix, page)
        BY <2>4 DEF Operation
    <3>2. Append(root.prefix, page) \in Seq(Pages) /\ OpPage(op) = page
        BY <2>3, <2>5, <3>1, LastOfAppend DEF OpPage
    <3>3. op \in Operations
        BY <1>3, <1>4, <2>3, <2>4, <3>2 DEF Operation, Operations
    <3> QED
        BY <3>1, <3>2, <3>3
  <2>7. Tree(page)
      BY <2>5 DEF Tree
  <2>8. /\ PageFiles(op) \subseteq LeafFiles(rawCurrent) \cup {op.file}
        /\ PageInputs(op) \subseteq Protected(rawCurrent) \cup {op.file}
      BY <1>3, <2>2, <2>6 DEF PageFiles, PageInputs, LeafFiles, Protected
  <2>9. Supersedes(op)
      BY <1>6, <2>1, <2>6 DEF Supersedes
  <2>10. NewFile(op)
      BY <1>3, <1>6, <2>6 DEF NewFile
  <2>11. \E l \in OpPage(op) : l.lo <= op.batch /\ op.batch <= l.hi /\ op.file \in l.inputs
    <3>1. leaf \in OpPage(op)
        BY <2>2, <2>6
    <3> QED
        BY <3>1, <2>6, <1>3
  <2> QED
      BY <1>1, <1>6, <2>3, <2>5, <2>6, <2>7, <2>8, <2>9, <2>10, <2>11 DEF OpOK
<1> QED
    BY <1>5, <1>6

(* A pack of the index, as an operation.                                   *)
LEMMA PackIndexOperationOK ==
    ASSUME RawInv, rawCurrent # 0, NEW at \in Nat, NEW batch \in Nat,
           batch # 0 => TreeTo(Leaves(rawCurrent), batch - 1),
           PackIndexOperation(at, batch).gen \in 1..MaxGen
    PROVE  PackIndexOperation(at, batch) \in Operations /\ OpOK(PackIndexOperation(at, batch))
<1>1. PICK op : op = PackIndexOperation(at, batch)
    OBVIOUS
<1>2. PICK root : root = rawRoots[rawCurrent]
    OBVIOUS
<1>3. PICK page : page = Leaves(rawCurrent)
    OBVIOUS
<1>4. /\ rawCurrent \in DOMAIN rawRoots /\ root.gen \in 1..MaxGen /\ root.prefix \in Seq(Pages)
      /\ page = Last(root.prefix) /\ page \in Pages /\ Tree(page)
      /\ LeafFiles(rawCurrent) \subseteq rawFiles
    BY <1>2, <1>3, CurrentReady
<1>5. op = Operation("journal", "pack_index", at, batch, Path("pack", <<>>), root.gen + 1, <<>>, page)
    BY <1>1, <1>2, <1>4 DEF PackIndexOperation
<1>6. root.gen + 1 \in 1..MaxGen
    BY <1>1, <1>5 DEF Operation
<1>7. Path("pack", <<>>) \in Files /\ Path("pack", <<>>).kind = "pack"
    BY DEF Path, Files, FileKinds
<1>8. "journal" \in Steps /\ <<>> \in Seq(Pages)
    BY DEF Steps
<1>9. /\ op \in Operations
      /\ op.step = "journal" /\ op.kind = "pack_index" /\ op.batch = batch
      /\ op.file = Path("pack", <<>>) /\ op.gen = root.gen + 1 /\ op.committed = <<>>
      /\ op.full = Append(op.committed, page) /\ OpPage(op) = page
  <2>1. /\ op.step = "journal" /\ op.kind = "pack_index" /\ op.batch = batch
        /\ op.file = Path("pack", <<>>) /\ op.gen = root.gen + 1 /\ op.committed = <<>>
        /\ op.full = Append(<<>>, page)
      BY <1>5 DEF Operation
  <2>2. Append(<<>>, page) \in Seq(Pages) /\ OpPage(op) = page
      BY <1>4, <1>8, <2>1, LastOfAppend DEF OpPage
  <2>3. op \in Operations
      BY <1>5, <1>6, <1>7, <1>8, <2>2 DEF Operation, Operations
  <2> QED
      BY <2>1, <2>2, <2>3
<1>10. Carries(page, page)
  <2>1. \A l \in page : l.lo <= l.lo /\ l.hi <= l.hi
      BY <1>4 DEF Pages, LeafEntries
  <2> QED
      BY <2>1 DEF Carries
<1>11. /\ PageFiles(op) = LeafFiles(rawCurrent)
       /\ PageInputs(op) \subseteq Protected(rawCurrent)
    BY <1>3, <1>9 DEF PageFiles, PageInputs, LeafFiles, Protected
<1>12. Supersedes(op) /\ NewFile(op)
    BY <1>2, <1>7, <1>9 DEF Supersedes, NewFile
<1> QED
    BY <1>1, <1>3, <1>4, <1>7, <1>9, <1>10, <1>11, <1>12 DEF OpOK

(* An append begins.                                                       *)
LEMMA BeginAppendInv ==
    ASSUME RawInv, NEW n \in Batches, BeginAppend(n)
    PROVE  RawInv'
<1>1. n \in Nat /\ now \in Nat
    BY DEF Batches, RawInv, RawTyped
<1>2. IF rawCurrent = 0 THEN n = 1 ELSE TreeTo(Leaves(rawCurrent), n - 1) /\ n > 1
  <2>1. CASE rawCurrent = 0
      BY <2>1 DEF BeginAppend
  <2>2. CASE rawCurrent # 0
    <3>1. PICK h \in Nat \ {0} : h = HeadSequence(Leaves(rawCurrent)) /\ TreeTo(Leaves(rawCurrent), h)
        BY <2>2, CurrentReady
    <3>2. n = h + 1
        BY <2>2, <3>1 DEF BeginAppend
    <3>3. n - 1 = h /\ n > 1
        BY <3>2
    <3> QED
        BY <2>2, <3>1, <3>3
  <2> QED
      BY <2>1, <2>2
<1>3. PICK op : /\ op = IF RotationDue THEN PackIndexOperation(now, n) ELSE AppendOperation(n, now)
                /\ Begin(op)
    BY DEF BeginAppend
<1>4. rawOp' = op /\ op.gen \in 1..MaxGen
    BY <1>3 DEF Begin
<1>5. op \in Operations /\ OpOK(op)
  <2>1. CASE RotationDue
    <3>1. rawCurrent # 0 /\ op = PackIndexOperation(now, n)
        BY <2>1, <1>3 DEF RotationDue
    <3>2. TreeTo(Leaves(rawCurrent), n - 1)
        BY <3>1, <1>2
    <3> QED
        BY <1>1, <1>4, <3>1, <3>2, PackIndexOperationOK
  <2>2. CASE ~RotationDue
    <3>1. n \in Nat \ {0} /\ op = AppendOperation(n, now)
        BY <2>2, <1>3 DEF Batches
    <3> QED
        BY <1>1, <1>2, <3>1, AppendOperationOK
  <2> QED
      BY <2>1, <2>2
<1> QED
    BY <1>4, <1>5, BeginOpInv DEF BeginAppend

(* A pack of the index begins.                                             *)
LEMMA BeginPackIndexInv ==
    ASSUME RawInv, BeginPackIndex
    PROVE  RawInv'
<1>1. PICK op : op = PackIndexOperation(now, 0) /\ Begin(op)
    BY DEF BeginPackIndex
<1>2. rawCurrent # 0 /\ now \in Nat /\ rawOp' = op /\ op.gen \in 1..MaxGen
    BY <1>1 DEF BeginPackIndex, Begin, RawInv, RawTyped
<1>3. op \in Operations /\ OpOK(op)
    BY <1>1, <1>2, PackIndexOperationOK
<1> QED
    BY <1>2, <1>3, BeginOpInv DEF BeginPackIndex

(* A pack of a range begins.                                               *)
LEMMA BeginPackRangeInv ==
    ASSUME RawInv, NEW lo \in Batches, NEW hi \in Batches, BeginPackRange(lo, hi)
    PROVE  RawInv'
<1>1. lo \in Nat /\ hi \in Nat /\ lo < hi /\ now \in Nat /\ rawCurrent # 0
    BY DEF Batches, RawInv, RawTyped, BeginPackRange
<1>2. PICK root : root = rawRoots[rawCurrent]
    OBVIOUS
<1>3. PICK leaves : leaves = Leaves(rawCurrent)
    OBVIOUS
<1>4. /\ rawCurrent \in DOMAIN rawRoots /\ root.gen \in 1..MaxGen /\ root.prefix \in Seq(Pages)
      /\ leaves = Last(root.prefix) /\ leaves \in Pages
      /\ LeafFiles(rawCurrent) \subseteq rawFiles
    BY <1>1, <1>2, <1>3, CurrentReady
<1>5. PICK h \in Nat \ {0} : TreeTo(leaves, h)
    BY <1>1, <1>3, CurrentReady
<1>6. PICK in : in = {l \in leaves : l.lo <= hi /\ lo <= l.hi}
    OBVIOUS
<1>7. PICK leaf : leaf = PackedLeaf(lo, hi, now, in)
    OBVIOUS
<1>8. PICK page : page = (leaves \ in) \cup {leaf}
    OBVIOUS
<1>9. PICK op : op = Operation("file", "pack_range", now, 0, leaf.file, root.gen, root.prefix, page)
    OBVIOUS
<1>10. /\ UNION {l.lo..l.hi : l \in in} = lo..hi
       /\ \A l \in in : ~IsPacked(l) /\ l.file \in rawFiles
       /\ Begin(op)
    BY <1>2, <1>4, <1>6, <1>7, <1>8, <1>9 DEF BeginPackRange, Within
<1>11. /\ leaf \in LeafEntries /\ leaf.file.kind = "pack" /\ leaf.inputs = {l.file : l \in in}
       /\ page \in Pages /\ TreeTo(page, h) /\ Carries(leaves, page)
  <2>1. in \in SUBSET leaves /\ \A l \in leaves : l \in in <=> l.lo <= hi /\ lo <= l.hi
      BY <1>6
  <2>2. \A l \in in : l.lo \in Nat /\ l.hi \in Nat /\ l.lo <= l.hi
      BY <1>4, <1>5, <2>1 DEF Pages, LeafEntries, TreeTo
  <2>3. \A n \in lo..hi : \E l \in in : l.lo <= n /\ n <= l.hi
    <3> SUFFICES ASSUME NEW n \in lo..hi PROVE \E l \in in : l.lo <= n /\ n <= l.hi
        OBVIOUS
    <3>1. PICK l \in in : n \in l.lo..l.hi
        BY <1>10
    <3> QED
        BY <3>1, <2>2
  <2>4. \A l \in in : l.lo \in lo..hi /\ l.hi \in lo..hi /\ ~IsPacked(l)
    <3> SUFFICES ASSUME NEW l \in in PROVE l.lo \in lo..hi /\ l.hi \in lo..hi
        BY <1>10
    <3>1. l.lo \in l.lo..l.hi /\ l.hi \in l.lo..l.hi
        BY <2>2
    <3> QED
        BY <3>1, <1>10
  <2>5. Packable(leaves, in, lo, hi)
      BY <2>1, <2>3, <2>4 DEF Packable
  <2>6. Packed(leaves, in, leaf, h)
      BY <1>1, <1>4, <1>5, <1>7, <2>5, TreePack
  <2> QED
      BY <1>8, <2>6 DEF Packed
<1>12. leaf.file \in Files /\ "file" \in Steps
    BY <1>11 DEF LeafEntries, Steps
<1>13. /\ op \in Operations
       /\ op.step = "file" /\ op.kind = "pack_range" /\ op.batch = 0 /\ op.file = leaf.file
       /\ op.gen = root.gen /\ op.committed = root.prefix
       /\ op.full = Append(op.committed, page) /\ OpPage(op) = page
  <2>1. /\ op.step = "file" /\ op.kind = "pack_range" /\ op.batch = 0 /\ op.file = leaf.file
        /\ op.gen = root.gen /\ op.committed = root.prefix /\ op.full = Append(root.prefix, page)
      BY <1>9 DEF Operation
  <2>2. Append(root.prefix, page) \in Seq(Pages) /\ OpPage(op) = page
      BY <1>4, <1>11, <2>1, LastOfAppend DEF OpPage
  <2>3. op \in Operations
      BY <1>1, <1>4, <1>9, <1>12, <2>2 DEF Operation, Operations
  <2> QED
      BY <2>1, <2>2, <2>3
<1>14. Tree(page)
    BY <1>11 DEF Tree
<1>15. PageFiles(op) \subseteq LeafFiles(rawCurrent) \cup {op.file}
    BY <1>3, <1>8, <1>13 DEF PageFiles, LeafFiles
<1>16. PageInputs(op) \subseteq Protected(rawCurrent) \cup {op.file}
    BY <1>3, <1>6, <1>8, <1>11, <1>13 DEF PageInputs, LeafFiles, Protected
<1>17. Supersedes(op) /\ NewFile(op)
    BY <1>1, <1>2, <1>11, <1>13 DEF Supersedes, NewFile
<1>18. OpOK(op)
    BY <1>1, <1>3, <1>4, <1>11, <1>13, <1>14, <1>15, <1>16, <1>17 DEF OpOK
<1>19. rawOp' = op
    BY <1>10 DEF Begin
<1> QED
    BY <1>13, <1>18, <1>19, BeginOpInv DEF BeginPackRange

(* The commit or the pack is written.                                      *)
LEMMA WriteFileInv ==
    ASSUME RawInv, WriteFile
    PROVE  RawInv'
<1> USE DEF indexVars, checkpointVars, collectorVars, outsideVars
<1>0. rawOp.step = "file"
    BY Zenon DEF WriteFile
<1>1. PICK op : op = rawOp
    OBVIOUS
<1>2. RawTyped /\ RootsInv /\ now \in Nat /\ now <= now /\ op \in Operations /\ OpOK(op)
    BY <1>0, <1>1, IdleNoOp DEF RawInv, RawTyped, OpInv
<1>3. PICK new : new = [op EXCEPT !.step = "journal"]
    OBVIOUS
<1>4. /\ rawOp' = new /\ rawFiles' = rawFiles \cup {op.file}
      /\ UNCHANGED <<rawReceipts, indexVars, checkpointVars, collectorVars, outsideVars>>
    BY <1>1, <1>3, Zenon DEF WriteFile
<1>5. op.file \in Files /\ op.root \in Nat /\ "journal" \in Steps
    BY <1>2, OperationFields DEF Steps
<1>6. /\ new \in Operations /\ new.step = "journal" /\ new.root = op.root
      /\ new.kind = op.kind /\ new.at = op.at /\ new.batch = op.batch /\ new.file = op.file
      /\ new.gen = op.gen /\ new.committed = op.committed /\ new.full = op.full
  <2>1. Continues(op, new, "journal", op.root)
      BY <1>2, <1>3, <1>5, NextStep, Zenon
  <2> QED
      BY <2>1 DEF Continues
<1>7. RawTyped'
    BY <1>2, <1>4, <1>5, <1>6 DEF RawTyped
<1>8. rawOp'.step # "gc"
    BY <1>4, <1>6
<1>9. RootsInv' /\ FilesInv' /\ ReceiptsInv' /\ PlansInv' /\ LeasesInv' /\ MissingRecoverable'
    BY <1>2, <1>4, <1>8, FrameRoots, FrameFiles, FrameReceipts, RootsUnchanged, FramePlans,
       FrameLeases, FrameMissing DEF RawInv
<1>10. GcInv'
    BY <1>8 DEF GcInv
<1>11. OpInv'
  <2>1. OpOK(op)'
      BY <1>2, <1>4, FrameOperation
  <2>2. op.step = "file" /\ PageFiles(op) \subseteq rawFiles \cup {op.file}
      BY <1>0, <1>1, <1>2 DEF OpOK
  <2>3. PageFiles(new) = PageFiles(op) /\ PageInputs(new) = PageInputs(op) /\ OpPage(new) = OpPage(op)
      BY <1>6 DEF PageFiles, PageInputs, OpPage
  <2>4. PageFiles(new)' = PageFiles(op) /\ PageInputs(new)' = PageInputs(op)' /\ OpPage(new)' = OpPage(op)'
        /\ PageFiles(op)' = PageFiles(op)
      BY <1>6 DEF PageFiles, PageInputs, OpPage
  <2>5. Supersedes(op)' => Supersedes(new)'
      BY <1>6 DEF Supersedes
  <2>6. NewFile(op)' => NewFile(new)'
      BY <1>6 DEF NewFile
  <2>7. OpOK(new)'
      BY <1>4, <1>6, <2>1, <2>2, <2>4, <2>5, <2>6 DEF OpOK
  <2> QED
      BY <1>4, <2>7 DEF OpInv
<1> QED
    BY <1>7, <1>9, <1>10, <1>11 DEF RawInv

(* The journal of the generation is extended, or the operation stops at a  *)
(* journal that another one has extended.                                  *)
LEMMA ExtendJournalInv ==
    ASSUME RawInv, ExtendJournal
    PROVE  RawInv'
<1> USE DEF indexVars, checkpointVars, collectorVars, outsideVars
<1>0. rawOp.step = "journal"
    BY Zenon DEF ExtendJournal
<1>1. PICK op : op = rawOp
    OBVIOUS
<1>2. RawTyped /\ RootsInv /\ now \in Nat /\ now <= now /\ op \in Operations /\ OpOK(op)
    BY <1>0, <1>1, IdleNoOp DEF RawInv, RawTyped, OpInv
<1>3. CASE ~Extends(journals[rawOp.gen], rawOp.committed, rawOp.full)
    BY <1>3, ToIdle DEF ExtendJournal
<1>4. CASE Extends(journals[rawOp.gen], rawOp.committed, rawOp.full)
  <2>1. PICK new : new = [op EXCEPT !.step = "root"]
      OBVIOUS
  <2>2. /\ rawOp' = new /\ journals' = [journals EXCEPT ![op.gen] = op.full]
        /\ UNCHANGED <<rawFiles, rawRoots, rawCurrent, rawReceipts, checkpointVars, collectorVars,
                       outsideVars>>
      BY <1>1, <1>4, <2>1, Zenon DEF ExtendJournal
  <2>3. /\ op.gen \in 1..MaxGen /\ op.full \in Seq(Pages) /\ op.root \in Nat /\ "root" \in Steps
      BY <1>2, OperationFields DEF Steps
  <2>4. /\ new \in Operations /\ new.step = "root" /\ new.root = op.root
        /\ new.kind = op.kind /\ new.at = op.at /\ new.batch = op.batch /\ new.file = op.file
        /\ new.gen = op.gen /\ new.committed = op.committed /\ new.full = op.full
    <3>1. Continues(op, new, "root", op.root)
        BY <1>2, <2>1, <2>3, NextStep, Zenon
    <3> QED
        BY <3>1 DEF Continues
  <2>5. /\ journals' \in [1..MaxGen -> Seq(Pages)] /\ journals'[op.gen] = op.full
        /\ \A g \in 1..MaxGen : g # op.gen => journals'[g] = journals[g]
        /\ journals[op.gen] \in Seq(Pages) /\ IsPrefix(journals[op.gen], op.full)
      BY <1>1, <1>2, <1>4, <2>2, <2>3 DEF RawTyped, Extends
  <2>6. RawTyped'
      BY <1>2, <2>2, <2>4, <2>5 DEF RawTyped
  <2>7. RootsInv'
    <3> SUFFICES ASSUME NEW r \in DOMAIN rawRoots
                 PROVE  IsPrefix(rawRoots[r].prefix, journals'[rawRoots[r].gen])
        BY <1>2, <2>2 DEF RootsInv, Leaves
    <3>1. /\ rawRoots[r].gen \in 1..MaxGen /\ rawRoots[r].prefix \in Seq(Pages)
          /\ IsPrefix(rawRoots[r].prefix, journals[rawRoots[r].gen])
        BY <1>2, RootFacts DEF RootsInv
    <3> QED
        BY <2>3, <2>5, <3>1, PrefixOfExtension
  <2>8. rawOp'.step # "gc"
      BY <2>2, <2>4
  <2>9. FilesInv' /\ ReceiptsInv' /\ PlansInv' /\ LeasesInv' /\ MissingRecoverable'
      BY <1>2, <2>2, <2>8, FrameFiles, FrameReceipts, RootsUnchanged, FramePlans,
         FrameLeases, FrameMissing DEF RawInv
  <2>10. GcInv'
      BY <2>8 DEF GcInv
  <2>11. OpOK(new)'
    <3>1. rawCurrent # 0 => /\ Leaves(rawCurrent)' = Leaves(rawCurrent)
                            /\ LeafFiles(rawCurrent)' = LeafFiles(rawCurrent)
                            /\ Protected(rawCurrent)' = Protected(rawCurrent)
        BY <1>2, <2>2, RootsUnchanged, SameRoot, CurrentFacts
    <3>2. PageFiles(new)' = PageFiles(op) /\ PageInputs(new)' = PageInputs(op) /\ OpPage(new)' = OpPage(op)
        BY <2>4 DEF PageFiles, PageInputs, OpPage
    <3>3. Supersedes(op) => Supersedes(new)'
        BY <2>2, <2>4 DEF Supersedes
    <3>4. NewFile(op) => NewFile(new)'
        BY <2>2, <2>4, <3>1 DEF NewFile
    <3>5. IsPrefix(op.full, op.full)
        BY <2>3, PrefixOfItself
    <3> QED
        BY <1>0, <1>1, <1>2, <2>2, <2>4, <2>5, <3>1, <3>2, <3>3, <3>4, <3>5 DEF OpOK
  <2>12. OpInv'
      BY <2>2, <2>11 DEF OpInv
  <2> QED
      BY <2>6, <2>7, <2>9, <2>10, <2>12 DEF RawInv
<1> QED
    BY <1>3, <1>4

(* The root that write_root finds or adds.                                 *)
LEMMA WriteRootFacts ==
    ASSUME RawInv, WriteRoot, NEW op, op = rawOp
    PROVE  \E r \in Nat \ {0} :
             /\ RootsKept /\ rawRoots' \in Seq(Roots)
             /\ DOMAIN rawRoots' = DOMAIN rawRoots \cup {r}
             /\ r \in DOMAIN rawRoots \/ r = Len(rawRoots) + 1
             /\ rawRoots'[r] = [gen |-> op.gen, prefix |-> op.full, at |-> op.at]
             /\ rawFiles' = rawFiles \cup {RootFile(r)}
             /\ rawOp' = [op EXCEPT !.step = "current", !.root = r]
<1>1. op \in Operations
  <2>1. rawOp.step = "root"
      BY Zenon DEF WriteRoot
  <2> QED
      BY <2>1, IdleNoOp DEF RawInv, RawTyped
<1>2. PICK root : root = [gen |-> op.gen, prefix |-> op.full, at |-> op.at]
    OBVIOUS
<1>3. root \in Roots /\ rawRoots \in Seq(Roots)
  <2>1. op.gen \in 1..MaxGen /\ op.full \in Seq(Pages) /\ op.at \in Nat
      BY <1>1, OperationFields
  <2> QED
      BY <1>2, <2>1 DEF Roots, RawInv, RawTyped
<1>4. PICK same : same = {r \in DOMAIN rawRoots : rawRoots[r] = root}
    OBVIOUS
<1>5. PICK r : r = IF same = {} THEN Len(rawRoots) + 1 ELSE CHOOSE q \in same : TRUE
    OBVIOUS
<1>6. /\ rawRoots' = IF same = {} THEN Append(rawRoots, root) ELSE rawRoots
      /\ rawFiles' = rawFiles \cup {RootFile(r)}
      /\ rawOp' = [op EXCEPT !.step = "current", !.root = r]
    BY <1>2, <1>4, <1>5, Zenon DEF WriteRoot
<1>7. CASE same = {}
  <2>1. r = Len(rawRoots) + 1 /\ rawRoots' = Append(rawRoots, root)
      BY <1>5, <1>6, <1>7
  <2>2. /\ rawRoots' \in Seq(Roots) /\ DOMAIN rawRoots' = DOMAIN rawRoots \cup {r}
        /\ rawRoots'[r] = root /\ \A q \in DOMAIN rawRoots : rawRoots'[q] = rawRoots[q]
        /\ r \in Nat \ {0}
      BY <1>3, <2>1
  <2>3. RootsKept
      BY <2>2 DEF RootsKept
  <2>4. rawFiles' = rawFiles \cup {RootFile(r)} /\ rawOp' = [op EXCEPT !.step = "current", !.root = r]
      BY <1>6, Zenon
  <2> QED
      BY <1>2, <2>1, <2>2, <2>3, <2>4, Zenon
<1>8. CASE same # {}
  <2>1. r \in same /\ rawRoots' = rawRoots
      BY <1>5, <1>6, <1>8
  <2>2. r \in DOMAIN rawRoots /\ rawRoots[r] = root /\ r \in Nat \ {0}
      BY <1>3, <1>4, <2>1
  <2>3. RootsKept
      BY <2>1, RootsUnchanged
  <2>4. rawFiles' = rawFiles \cup {RootFile(r)} /\ rawOp' = [op EXCEPT !.step = "current", !.root = r]
      BY <1>6, Zenon
  <2>5. rawRoots' \in Seq(Roots) /\ DOMAIN rawRoots' = DOMAIN rawRoots \cup {r} /\ rawRoots'[r] = root
      BY <1>3, <2>1, <2>2
  <2> QED
      BY <1>2, <2>2, <2>3, <2>4, <2>5, Zenon
<1> QED
    BY <1>7, <1>8

(* The root is written: a new one, which nobody names yet, or one that was *)
(* there already with the same content.                                    *)
LEMMA WriteRootInv ==
    ASSUME RawInv, WriteRoot
    PROVE  RawInv'
<1> USE DEF checkpointVars, collectorVars, outsideVars
<1>0. rawOp.step = "root"
    BY Zenon DEF WriteRoot
<1>1. PICK op : op = rawOp
    OBVIOUS
<1>2. RawTyped /\ RootsInv /\ now \in Nat /\ op \in Operations /\ OpOK(op) /\ op.step = "root"
    BY <1>0, <1>1, IdleNoOp DEF RawInv, RawTyped, OpInv
<1>3. PICK r \in Nat \ {0} :
        /\ RootsKept /\ rawRoots' \in Seq(Roots)
        /\ DOMAIN rawRoots' = DOMAIN rawRoots \cup {r}
        /\ r \in DOMAIN rawRoots \/ r = Len(rawRoots) + 1
        /\ rawRoots'[r] = [gen |-> op.gen, prefix |-> op.full, at |-> op.at]
        /\ rawFiles' = rawFiles \cup {RootFile(r)}
        /\ rawOp' = [op EXCEPT !.step = "current", !.root = r]
    BY <1>1, WriteRootFacts, Zenon
<1>4. PICK new : new = [op EXCEPT !.step = "current", !.root = r]
    OBVIOUS
<1>5. rawOp' = new
    BY <1>3, <1>4, Zenon
<1>6. /\ RootsKept /\ rawRoots' \in Seq(Roots)
      /\ DOMAIN rawRoots' = DOMAIN rawRoots \cup {r}
      /\ r \in DOMAIN rawRoots \/ r = Len(rawRoots) + 1
      /\ rawRoots'[r] = [gen |-> op.gen, prefix |-> op.full, at |-> op.at]
      /\ rawFiles' = rawFiles \cup {RootFile(r)}
    BY <1>3, Zenon
<1>7. UNCHANGED <<journals, rawCurrent, rawReceipts, checkpointVars, collectorVars, outsideVars>>
    BY Zenon DEF WriteRoot
<1>8. /\ new \in Operations /\ new.step = "current" /\ new.root = r
      /\ new.kind = op.kind /\ new.at = op.at /\ new.batch = op.batch /\ new.file = op.file
      /\ new.gen = op.gen /\ new.committed = op.committed /\ new.full = op.full
  <2>1. "current" \in Steps /\ r \in Nat
      BY DEF Steps
  <2>2. Continues(op, new, "current", r)
      BY <1>2, <1>4, <2>1, NextStepAndRoot, Zenon
  <2> QED
      BY <2>2 DEF Continues
<1>9. /\ rawRoots'[r].gen = op.gen /\ rawRoots'[r].prefix = op.full /\ rawRoots'[r].at = op.at
      /\ Leaves(r)' = OpPage(op) /\ LeafFiles(r)' = PageFiles(op)
      /\ Protected(r)' = PageFiles(op) \cup PageInputs(op)
  <2>1. rawRoots'[r].gen = op.gen /\ rawRoots'[r].prefix = op.full /\ rawRoots'[r].at = op.at
      BY <1>6
  <2>2. Leaves(r)' = OpPage(op)
      BY <2>1 DEF Leaves, OpPage
  <2> QED
      BY <2>1, <2>2 DEF LeafFiles, Protected, PageFiles, PageInputs
<1>10. \A q \in DOMAIN rawRoots :
         /\ q \in DOMAIN rawRoots' /\ rawRoots'[q] = rawRoots[q]
         /\ Leaves(q)' = Leaves(q) /\ LeafFiles(q)' = LeafFiles(q)
         /\ Protected(q)' = Protected(q) /\ RootPaths(q)' = RootPaths(q)
    BY <1>6, SameRoot DEF RootsKept
<1>11. /\ PageFiles(op) \subseteq rawFiles /\ IsPrefix(op.full, journals[op.gen])
       /\ Tree(OpPage(op)) /\ op.full # <<>>
  <2>1. op.committed \in Seq(Pages) /\ op.full = Append(op.committed, OpPage(op))
      BY <1>2, OperationFields DEF OpOK
  <2>2. op.full # <<>>
      BY <2>1, <1>2 DEF OpOK
  <2> QED
      BY <1>2, <2>2 DEF OpOK
<1>12. Len(rawRoots') \in Nat /\ Len(rawRoots) <= Len(rawRoots') /\ DOMAIN rawRoots' = 1..Len(rawRoots')
  <2>1. Len(rawRoots') \in Nat /\ DOMAIN rawRoots' = 1..Len(rawRoots')
      BY <1>6
  <2>2. Len(rawRoots) \in Nat /\ DOMAIN rawRoots = 1..Len(rawRoots)
      BY <1>2, CurrentFacts
  <2>3. Len(rawRoots) = 0 \/ Len(rawRoots) \in DOMAIN rawRoots
      BY <2>2
  <2>4. Len(rawRoots) = 0 \/ Len(rawRoots) \in 1..Len(rawRoots')
      BY <1>6, <2>1, <2>3
  <2> QED
      BY <2>1, <2>2, <2>4
<1>13. RootFile(r) \in Files
    BY LeaseFileType
<1>14. RawTyped'
    BY <1>2, <1>5, <1>6, <1>7, <1>8, <1>12, <1>13 DEF RawTyped
<1>15. RootsInv'
  <2> SUFFICES ASSUME NEW q \in DOMAIN rawRoots'
               PROVE  /\ rawRoots'[q].prefix # <<>> /\ Tree(Leaves(q)')
                      /\ IsPrefix(rawRoots'[q].prefix, journals'[rawRoots'[q].gen])
      BY DEF RootsInv, Tree, TreeTo
  <2>1. CASE q = r
      BY <2>1, <1>7, <1>9, <1>11
  <2>2. CASE q \in DOMAIN rawRoots
      BY <2>2, <1>2, <1>7, <1>10 DEF RootsInv
  <2> QED
      BY <1>6, <2>1, <2>2
<1>16. FilesInv'
  <2>1. \A q \in DOMAIN rawRoots : Present(q) => Present(q)'
      BY <1>6, <1>10 DEF Present, RootFile
  <2>2. Present(r)'
      BY <1>6, <1>9, <1>11 DEF Present, RootFile
  <2>3. \A q \in DOMAIN rawRoots : Elapsed(rawRoots[q].at) => Elapsed(rawRoots[q].at)'
      BY <1>7, <1>10 DEF Elapsed
  <2>4. FilesInv
      BY DEF RawInv
  <2> QED
      BY <1>2, <1>6, <1>7, <2>1, <2>2, <2>3, <2>4, CurrentFacts DEF FilesInv, RootFile
<1>17. ReceiptsInv'
    BY <1>2, <1>6, <1>7, FrameReceipts DEF RawInv
<1>18. rawOp'.step # "gc"
    BY <1>5, <1>8
<1>19. GcInv' /\ LeasesInv'
    BY <1>6, <1>7, <1>18, FrameLeases DEF GcInv, RawInv
<1>20. OpInv'
  <2>1. rawCurrent # 0 => /\ rawCurrent \in DOMAIN rawRoots
                          /\ Leaves(rawCurrent)' = Leaves(rawCurrent)
                          /\ LeafFiles(rawCurrent)' = LeafFiles(rawCurrent)
                          /\ Protected(rawCurrent)' = Protected(rawCurrent)
                          /\ rawRoots'[rawCurrent] = rawRoots[rawCurrent]
      BY <1>2, <1>7, <1>10, CurrentFacts
  <2>2. PageFiles(new)' = PageFiles(op) /\ PageInputs(new)' = PageInputs(op) /\ OpPage(new)' = OpPage(op)
      BY <1>8 DEF PageFiles, PageInputs, OpPage
  <2>3. Supersedes(op) => Supersedes(new)'
      BY <1>7, <1>8, <2>1 DEF Supersedes
  <2>4. NewFile(op) => NewFile(new)'
      BY <1>7, <1>8, <2>1 DEF NewFile
  <2>5. RootFile(r) \in rawFiles'
      BY <1>6
  <2>6. OpOK(new)'
      BY <1>2, <1>6, <1>7, <1>8, <2>1, <2>2, <2>3, <2>4, <2>5 DEF OpOK, RootFile
  <2> QED
      BY <1>5, <2>6 DEF OpInv
<1>21. PlansInv'
  <2>1. plans' = plans /\ PlansInv
      BY <1>7 DEF RawInv
  <2> SUFFICES ASSUME NEW i \in DOMAIN plans PROVE PlanOK(plans[i])'
      BY <2>1 DEF PlansInv
  <2>2. PICK p : p = plans[i]
      OBVIOUS
  <2>3. PlanOK(p)
      BY <2>1, <2>2 DEF PlansInv
  <2>4. p.root \in DOMAIN rawRoots /\ (p.ck # 0 => p.ck \in DOMAIN rawRoots)
      BY <1>2, <2>3, CurrentFacts DEF PlanOK
  <2>5. p.root \in DOMAIN rawRoots' /\ p.ck \in 0..Len(rawRoots')
      BY <1>2, <1>10, <1>12, <2>3, <2>4, CurrentFacts DEF PlanOK
  <2>6. rawCurrent # 0 /\ Older(p.root, rawCurrent) => Older(p.root, rawCurrent)'
      BY <1>2, <1>7, <1>10, <2>4, CurrentFacts DEF Older
  <2>7. ASSUME p.root = rawCurrent
        PROVE  PlanSpares(p.files, p.ck)'
    <3>1. PlanSpares(p.files, p.ck) /\ rawCurrent \in DOMAIN rawRoots /\ rawCurrent # 0
        BY <1>2, <2>3, <2>4, <2>7, CurrentFacts DEF PlanOK
    <3>2. \A f \in p.files : f # op.file
      <4> SUFFICES ASSUME NEW f \in p.files, f = op.file PROVE FALSE
          OBVIOUS
      <4>1. NewFile(op)
          BY <1>2 DEF OpOK
      <4>2. f.kind \notin {"root", "lease"}
          BY <4>1 DEF NewFile
      <4>3. \A q \in DOMAIN rawRoots : RootFile(q).kind = "root" /\ LeaseFile(q).kind = "lease"
          BY DEF RootFile, LeaseFile, Path
      <4>4. PICK h \in Nat : TreeTo(Leaves(rawCurrent), h) /\ f.kind = "commit" /\ f.id[1] <= h
          BY <3>1, <4>2, <4>3 DEF PlanSpares
      <4>5. TreeTo(Leaves(rawCurrent), op.file.id[1] - 1)
          BY <3>1, <4>1, <4>4 DEF NewFile
      <4>6. PICK k : k = op.file.id[1]
          OBVIOUS
      <4>7. k <= h /\ TreeTo(Leaves(rawCurrent), k - 1)
          BY <4>4, <4>5, <4>6
      <4>8. Leaves(rawCurrent) \in Pages /\ Tree(Leaves(rawCurrent))
          BY <1>2, <3>1, RootFacts
      <4>9. h \in Nat \ {0} /\ \E l \in Leaves(rawCurrent) : l.lo <= h /\ h <= l.hi
        <5>1. PICK m \in Nat \ {0} : TreeTo(Leaves(rawCurrent), m)
            BY <4>8 DEF Tree
        <5>2. PICK l \in Leaves(rawCurrent) : l.lo <= m /\ m <= l.hi
            BY <5>1 DEF TreeTo
        <5>3. l.lo \in Nat /\ l.hi \in Nat /\ 1 <= l.lo /\ l.lo <= l.hi /\ l.hi <= h
            BY <4>4, <4>8, <5>2 DEF TreeTo, Pages, LeafEntries
        <5>4. h \in Nat \ {0} /\ h \in 1..h
            BY <5>3
        <5> QED
            BY <4>4, <5>4 DEF TreeTo
      <4>10. PICK l \in Leaves(rawCurrent) : l.lo <= h /\ h <= l.hi
          BY <4>9
      <4>11. l.hi \in Nat /\ l.hi <= k - 1
          BY <4>7, <4>8, <4>10 DEF TreeTo, Pages, LeafEntries
      <4>12. k \in Nat
          BY <4>1, <4>4, <4>6 DEF NewFile
      <4> QED
          BY <4>7, <4>10, <4>11, <4>12
    <3>3. p.files \cap LeafFiles(rawCurrent) = {}
        BY <3>1 DEF PlanSpares, RootPaths
    <3>4. PageFiles(op) \subseteq LeafFiles(rawCurrent) \cup {op.file}
        BY <1>2, <3>1 DEF OpOK
    <3>5. p.files \cap LeafFiles(r)' = {}
        BY <1>9, <3>2, <3>3, <3>4
    <3>6. r \in DOMAIN rawRoots \/ RootFile(r) \notin p.files
      <4> SUFFICES ASSUME r = Len(rawRoots) + 1, RootFile(r) \in p.files PROVE FALSE
          BY <1>6
      <4>1. RootFile(r).kind = "root" /\ RootFile(r).id[1] = r
          BY LeaseFileType
      <4>2. \A q \in DOMAIN rawRoots : /\ LeaseFile(q).kind = "lease" /\ RootFile(q).id[1] = q
                                       /\ q \in 1..Len(rawRoots)
          BY <1>2, RootFacts, LeaseFileType
      <4>3. PICK q \in DOMAIN rawRoots : RootFile(r) = RootFile(q)
          BY <3>1, <4>1, <4>2 DEF PlanSpares
      <4> QED
          BY <4>1, <4>2, <4>3
    <3>7. \A q \in DOMAIN rawRoots' :
            Elapsed(rawRoots[q].at)' \/ p.files \cap ({RootFile(q)} \cup LeafFiles(q)') = {}
      <4> SUFFICES ASSUME NEW q \in DOMAIN rawRoots', ~Elapsed(rawRoots[q].at)'
                   PROVE  RootFile(q) \notin p.files /\ p.files \cap LeafFiles(q)' = {}
          OBVIOUS
      <4>1. CASE q \in DOMAIN rawRoots
        <5>1. ~Elapsed(rawRoots[q].at)
            BY <4>1, <1>7, <1>10 DEF Elapsed
        <5> QED
            BY <3>1, <4>1, <5>1, <1>10 DEF PlanSpares
      <4>2. CASE q \notin DOMAIN rawRoots
          BY <4>2, <1>6, <3>5, <3>6
      <4> QED
          BY <4>1, <4>2
    <3>8. p.files \cap RootPaths(rawCurrent)' = {} /\ (p.ck # 0 => p.files \cap RootPaths(p.ck)' = {})
        BY <1>7, <1>10, <2>4, <3>1 DEF PlanSpares
    <3>9. \A f \in p.files :
            \/ \E h \in Nat : TreeTo(Leaves(rawCurrent)', h) /\ f.kind = "commit" /\ f.id[1] <= h
            \/ \E q \in DOMAIN rawRoots' : f = RootFile(q) \/ f = LeaseFile(q)
        BY <1>7, <1>10, <3>1 DEF PlanSpares
    <3>10. RootPaths(rawCurrent)' = {RootFile(rawCurrent), LeaseFile(rawCurrent)} \cup LeafFiles(rawCurrent)'
           /\ rawCurrent' = rawCurrent
        BY <1>7 DEF RootPaths, RootFile, LeaseFile
    <3> QED
        BY <3>7, <3>8, <3>9, <3>10 DEF PlanSpares, RootFile, LeaseFile, TreeTo
  <2>8. PlanOK(p)'
      BY <1>7, <2>3, <2>5, <2>6, <2>7 DEF PlanOK
  <2> QED
      BY <2>1, <2>2, <2>8
<1>22. MissingRecoverable'
  <2> SUFFICES ASSUME NEW q \in DOMAIN rawRoots',
                      NEW f \in ({RootFile(q)} \cup Protected(q)') \ rawFiles'
               PROVE  \E i \in DOMAIN plans :
                          /\ f \in plans[i].files /\ plans[i].states[f] # "none"
                          /\ \E b \in backups : f \in b.files
      BY <1>7 DEF MissingRecoverable, RootFile
  <2>1. \A s \in DOMAIN rawRoots : \A g \in ({RootFile(s)} \cup Protected(s)) \ rawFiles :
            \E i \in DOMAIN plans :
                /\ g \in plans[i].files /\ plans[i].states[g] # "none"
                /\ \E b \in backups : g \in b.files
      BY DEF MissingRecoverable, RawInv
  <2>2. CASE q \in DOMAIN rawRoots
      BY <2>1, <2>2, <1>6, <1>10
  <2>3. CASE q = r
    <3>1. f \notin rawFiles /\ f \in PageInputs(op)
        BY <2>3, <1>6, <1>9, <1>11
    <3>2. CASE rawCurrent # 0 /\ f \in Protected(rawCurrent)
        BY <3>1, <3>2, <2>1, <1>2, CurrentFacts
    <3>3. CASE f = op.file
      <4>1. f.kind = "pack"
          BY <3>1, <3>3, <1>2 DEF OpOK
      <4>2. f.kind = "commit"
        <5>1. PICK l \in OpPage(op) : f \in l.inputs
            BY <3>1 DEF PageInputs
        <5> QED
            BY <5>1, <1>11 DEF Tree, TreeTo
      <4> QED
          BY <4>1, <4>2
    <3> QED
        BY <3>1, <3>2, <3>3, <1>2 DEF OpOK
  <2> QED
      BY <1>6, <2>2, <2>3
<1> QED
    BY <1>14, <1>15, <1>16, <1>17, <1>19, <1>20, <1>21, <1>22 DEF RawInv

(* CURRENT is replaced. Plans for the old root become plans for a root     *)
(* that CURRENT has left, and no receipt is lost because the new tree      *)
(* carries the old one.                                                    *)
LEMMA PublishCurrentInv ==
    ASSUME RawInv, PublishCurrent
    PROVE  RawInv'
<1> USE DEF checkpointVars, collectorVars, outsideVars
<1>0. rawOp.step = "current"
    BY Zenon DEF PublishCurrent
<1>1. PICK op : op = rawOp
    OBVIOUS
<1>2. /\ RawTyped /\ RootsInv /\ FilesInv /\ PlansInv /\ now \in Nat /\ now <= now
      /\ op \in Operations /\ OpOK(op) /\ op.step = "current"
    BY <1>0, <1>1, IdleNoOp DEF RawInv, RawTyped, OpInv
<1>3. PICK new : new = [op EXCEPT !.step = "readback"]
    OBVIOUS
<1>4. /\ rawOp' = new /\ rawCurrent' = op.root
      /\ UNCHANGED <<rawFiles, journals, rawRoots, rawReceipts, checkpointVars, collectorVars,
                     outsideVars>>
    BY <1>1, <1>3, Zenon DEF PublishCurrent
<1>5. op.root \in Nat /\ op.full \in Seq(Pages) /\ op.committed \in Seq(Pages) /\ op.gen \in 1..MaxGen
    BY <1>2, OperationFields
<1>6. /\ new \in Operations /\ new.step = "readback" /\ new.root = op.root
      /\ new.kind = op.kind /\ new.at = op.at /\ new.batch = op.batch /\ new.file = op.file
      /\ new.gen = op.gen /\ new.committed = op.committed /\ new.full = op.full
  <2>1. "readback" \in Steps
      BY DEF Steps
  <2>2. Continues(op, new, "readback", op.root)
      BY <1>2, <1>3, <2>1, NextStep, Zenon
  <2> QED
      BY <2>2 DEF Continues
<1>7. PICK r \in DOMAIN rawRoots : r = op.root /\ r # 0
    BY <1>2, CurrentFacts DEF OpOK
<1>8. /\ rawRoots[r].gen = op.gen /\ rawRoots[r].prefix = op.full
      /\ Leaves(r) = OpPage(op) /\ LeafFiles(r) = PageFiles(op)
      /\ RootFile(r) \in rawFiles
  <2>1. rawRoots[r] = [gen |-> op.gen, prefix |-> op.full, at |-> op.at] /\ RootFile(r) \in rawFiles
      BY <1>2, <1>7 DEF OpOK
  <2>2. rawRoots[r].gen = op.gen /\ rawRoots[r].prefix = op.full
      BY <2>1
  <2> QED
      BY <2>1, <2>2 DEF Leaves, OpPage, LeafFiles, PageFiles
<1>9. Present(r) /\ Present(r)'
    BY <1>2, <1>4, <1>8 DEF Present, OpOK, LeafFiles, Leaves, RootFile
<1>10. RawTyped'
    BY <1>2, <1>4, <1>6, <1>7, CurrentFacts DEF RawTyped
<1>11. RootsInv' /\ MissingRecoverable'
    BY <1>2, <1>4, FrameRoots, FrameMissing DEF RawInv
<1>12. FilesInv'
  <2>1. \A q \in DOMAIN rawRoots : Present(q) => Present(q)'
      BY <1>4, SameRoot, RootsUnchanged DEF Present, RootFile
  <2>2. \A q \in DOMAIN rawRoots : Elapsed(rawRoots[q].at) => Elapsed(rawRoots[q].at)'
      BY <1>4 DEF Elapsed
  <2>3. rawCurrent' # 0 => Present(rawCurrent)'
      BY <1>4, <1>7, <1>9
  <2>4. ckCurrent' # 0 /\ skipped' = {} =>
           RootFile(ckCurrent)' \in rawFiles' /\ (ckMissing' = {} => Present(ckCurrent)')
      BY <1>2, <1>4, <2>1, CurrentFacts DEF FilesInv, RootFile
  <2> QED
      BY <1>2, <1>4, <2>1, <2>2, <2>3, <2>4 DEF FilesInv
<1>13. ReceiptsInv'
  <2> SUFFICES ASSUME NEW n \in DOMAIN rawReceipts
               PROVE  /\ n \in Nat /\ rawCurrent' # 0
                      /\ \E l \in Leaves(rawCurrent)' : l.lo <= n /\ n <= l.hi /\ rawReceipts[n] \in l.inputs
      BY <1>4 DEF ReceiptsInv, Covering
  <2>1. /\ n \in Nat /\ rawCurrent # 0
        /\ \E l \in Leaves(rawCurrent) : l.lo <= n /\ n <= l.hi /\ rawReceipts[n] \in l.inputs
      BY DEF RawInv, ReceiptsInv, Covering
  <2>2. PICK l \in Leaves(rawCurrent) : l.lo <= n /\ n <= l.hi /\ rawReceipts[n] \in l.inputs
      BY <2>1
  <2>3. PICK m \in OpPage(op) : m.lo <= l.lo /\ l.hi <= m.hi /\ l.inputs \subseteq m.inputs
      BY <1>2, <2>1 DEF OpOK, Carries
  <2>4. Leaves(rawCurrent)' = OpPage(op)
      BY <1>4, <1>7, <1>8 DEF Leaves
  <2>5. l.lo \in Nat /\ l.hi \in Nat /\ m.lo \in Nat /\ m.hi \in Nat
    <3>1. Leaves(rawCurrent) \in Pages
        BY <1>2, <2>1, RootFacts, CurrentFacts
    <3>2. OpPage(op) \in Pages
        BY <1>2 DEF OpOK
    <3> QED
        BY <2>2, <2>3, <3>1, <3>2 DEF Pages, LeafEntries
  <2>6. m.lo <= n /\ n <= m.hi /\ rawReceipts[n] \in m.inputs
      BY <2>1, <2>2, <2>3, <2>5
  <2> QED
      BY <1>4, <1>7, <2>1, <2>3, <2>4, <2>6
<1>14. rawOp'.step # "gc"
    BY <1>4, <1>6
<1>15. GcInv' /\ LeasesInv'
    BY <1>4, <1>14, FrameLeases DEF GcInv, RawInv
<1>16. OpInv'
  <2>1. PageFiles(new)' = PageFiles(op) /\ OpPage(new)' = OpPage(op)
      BY <1>6 DEF PageFiles, OpPage
  <2>2. OpOK(new)'
      BY <1>2, <1>4, <1>6, <2>1 DEF OpOK, RootFile
  <2> QED
      BY <1>4, <2>2 DEF OpInv
<1>17. rawCurrent # 0 => Older(rawCurrent, r)
  <2> SUFFICES ASSUME rawCurrent # 0 PROVE Older(rawCurrent, r)
      OBVIOUS
  <2>1. /\ rawCurrent \in DOMAIN rawRoots /\ rawRoots[rawCurrent].gen \in 1..MaxGen
        /\ rawRoots[rawCurrent].prefix \in Seq(Pages)
      BY <1>2, CurrentFacts, RootFacts
  <2>2. Supersedes(op) /\ op.full = Append(op.committed, OpPage(op)) /\ OpPage(op) \in Pages
      BY <1>2 DEF OpOK
  <2>3. Len(op.full) = Len(op.committed) + 1 /\ Len(op.committed) \in Nat
      BY <1>5, <2>2
  <2> QED
      BY <1>8, <2>1, <2>2, <2>3 DEF Supersedes, Older
<1>18. PlansInv'
  <2> SUFFICES ASSUME NEW i \in DOMAIN plans PROVE PlanOK(plans[i])'
      BY <1>2, <1>4 DEF PlansInv
  <2>1. PICK p : p = plans[i]
      OBVIOUS
  <2>2. PlanOK(p)
      BY <1>2, <2>1 DEF PlansInv
  <2>3. p.root \in DOMAIN rawRoots /\ rawCurrent # 0 /\ rawCurrent \in DOMAIN rawRoots
      BY <1>2, <2>2, CurrentFacts DEF PlanOK
  <2>4. Older(p.root, r)
    <3>1. /\ rawRoots[p.root].gen \in Nat /\ rawRoots[rawCurrent].gen \in Nat /\ rawRoots[r].gen \in Nat
          /\ Len(rawRoots[p.root].prefix) \in Nat /\ Len(rawRoots[rawCurrent].prefix) \in Nat
          /\ Len(rawRoots[r].prefix) \in Nat
        BY <1>2, <2>3, RootFacts
    <3>2. p.root = rawCurrent \/ Older(p.root, rawCurrent)
        BY <2>2 DEF PlanOK
    <3> QED
        BY <1>17, <2>3, <3>1, <3>2 DEF Older
  <2>5. p.root # r
    <3>1. rawRoots[r].gen \in Nat /\ Len(rawRoots[r].prefix) \in Nat
        BY <1>2, RootFacts
    <3> QED
        BY <2>4, <3>1 DEF Older
  <2>6. PlanOK(p)'
      BY <1>4, <1>7, <2>2, <2>4, <2>5 DEF PlanOK, Older
  <2> QED
      BY <1>4, <2>1, <2>6
<1> QED
    BY <1>10, <1>11, <1>12, <1>13, <1>15, <1>16, <1>18 DEF RawInv

(* The read back of CURRENT, and the receipt of an append.                 *)
LEMMA ReturnInv ==
    ASSUME RawInv, Return
    PROVE  RawInv'
<1> USE DEF indexVars, checkpointVars, collectorVars, outsideVars
<1>1. PICK op : op = rawOp
    OBVIOUS
<1>2. /\ RawTyped /\ RootsInv /\ now \in Nat /\ now <= now
      /\ op \in Operations /\ OpOK(op) /\ op.step = "readback"
    BY <1>1, IdleNoOp DEF RawInv, RawTyped, OpInv, Return
<1>3. op.batch \in Nat /\ op.at \in Nat
    BY <1>2, OperationFields
<1>4. rawCurrent \in DOMAIN rawRoots /\ rawCurrent # 0 /\ Leaves(rawCurrent) = OpPage(op)
  <2>1. /\ rawCurrent = op.root /\ op.root \in DOMAIN rawRoots
        /\ rawRoots[op.root] = [gen |-> op.gen, prefix |-> op.full, at |-> op.at]
      BY <1>2 DEF OpOK
  <2>2. rawRoots[rawCurrent].prefix = op.full
      BY <2>1
  <2> QED
      BY <1>2, <2>1, <2>2, CurrentFacts DEF Leaves, OpPage
<1>5. UNCHANGED <<rawFiles, indexVars, checkpointVars, collectorVars, outsideVars>>
    BY DEF Return
<1>6. CASE op.kind = "append"
  <2>1. /\ rawReceipts' = [m \in (DOMAIN rawReceipts) \cup {op.batch} |->
                               IF m = op.batch THEN op.file ELSE rawReceipts[m]]
        /\ rawOp' = RawIdle
      BY <1>1, <1>6 DEF Return
  <2>2. rawOp' \notin Operations /\ rawOp'.step # "gc"
      BY <2>1, IdleNoOp
  <2>3. RawTyped'
      BY <1>2, <1>5, <2>1 DEF RawTyped
  <2>4. RootsInv' /\ FilesInv' /\ PlansInv' /\ LeasesInv' /\ MissingRecoverable'
      BY <1>2, <1>5, <2>2, FrameRoots, FrameFiles, FramePlans, FrameLeases, FrameMissing DEF RawInv
  <2>5. OpInv' /\ GcInv'
      BY <2>2 DEF OpInv, GcInv
  <2>6. ReceiptsInv'
    <3>1. \E l \in Leaves(rawCurrent) : l.lo <= op.batch /\ op.batch <= l.hi /\ op.file \in l.inputs
        BY <1>2, <1>4, <1>6 DEF OpOK
    <3>2. /\ DOMAIN rawReceipts' = (DOMAIN rawReceipts) \cup {op.batch}
          /\ rawReceipts'[op.batch] = op.file
          /\ \A m \in DOMAIN rawReceipts : m # op.batch => rawReceipts'[m] = rawReceipts[m]
        BY <2>1
    <3>3. Leaves(rawCurrent)' = Leaves(rawCurrent) /\ rawCurrent' = rawCurrent
        BY <1>5 DEF Leaves
    <3>4. ReceiptsInv
        BY DEF RawInv
    <3> QED
        BY <1>3, <1>4, <3>1, <3>2, <3>3, <3>4 DEF ReceiptsInv, Covering
  <2> QED
      BY <2>3, <2>4, <2>5, <2>6 DEF RawInv
<1>7. CASE op.kind # "append" /\ op.batch = 0
    BY <1>1, <1>5, <1>7, ToIdle DEF Return
<1>8. CASE op.kind # "append" /\ op.batch # 0
  <2>1. PICK new : new = AppendOperation(op.batch, op.at)
      OBVIOUS
  <2>2. rawOp' = new /\ rawReceipts' = rawReceipts
      BY <1>1, <1>8, <2>1 DEF Return, Begin
  <2>3. TreeTo(Leaves(rawCurrent), op.batch - 1)
      BY <1>2, <1>4, <1>8 DEF OpOK
  <2>4. op.batch \in Nat \ {0} /\ op.batch > 1
    <3>1. Leaves(rawCurrent) \in Pages /\ Tree(Leaves(rawCurrent))
        BY <1>2, <1>4, RootFacts
    <3>2. PICK m \in Nat \ {0} : TreeTo(Leaves(rawCurrent), m)
        BY <3>1 DEF Tree
    <3>3. PICK l \in Leaves(rawCurrent) : l.lo <= m /\ m <= l.hi
        BY <3>2 DEF TreeTo
    <3>4. l.hi \in Nat /\ l.hi <= op.batch - 1
        BY <2>3, <3>1, <3>3 DEF TreeTo, Pages, LeafEntries
    <3> QED
        BY <1>3, <1>8, <3>3, <3>4
  <2>5. new \in Operations /\ OpOK(new)
      BY <1>3, <1>4, <2>1, <2>3, <2>4, AppendOperationOK
  <2> QED
      BY <1>5, <2>2, <2>5, BeginOpInv
<1> QED
    BY <1>6, <1>7, <1>8

-----------------------------------------------------------------------------
(* The theorems                                                            *)

(* Every step keeps the invariant.                                         *)
LEMMA StepInv ==
    ASSUME RawInv, [RawNext]_rawVars
    PROVE  RawInv'
<1>1. CASE RawNext
    BY <1>1, BeginAppendInv, AppendKnownInv, BeginPackIndexInv, BeginPackRangeInv, WriteFileInv,
       ExtendJournalInv, WriteRootInv, PublishCurrentInv, ReturnInv, PublishCheckpointInv,
       SwitchCheckpointInv, BackupEligibleInv, PlanGcInv, BeginGcInv, GcRecordsInv, GcUnlinkInv,
       FinishGcInv, RestoreFileInv, ReaderLoadInv, ReaderLeaseInv, ReaderDoneInv, TickInv,
       RawProcessEndsInv, Zenon
    DEF RawNext
<1>2. CASE UNCHANGED rawVars
  <2>1. /\ RawTyped /\ RawTyped' /\ now \in Nat /\ now <= now
        /\ UNCHANGED <<now, rawFiles, journals, rawRoots, rawCurrent, ckDocs, ckCurrent,
                       ckMissing, backups, plans, rawOp, readers, rawReceipts, skipped>>
      BY <1>2 DEF rawVars, RawInv, RawTyped
  <2>2. LeasesInv'
      BY <2>1, FrameLeases DEF RawInv
  <2> QED
      BY <2>1, <2>2, FrameStore DEF RawInv, indexVars, collectorVars
<1> QED
    BY <1>1, <1>2

(* The store of raw observations keeps its files, roots, plans and leases  *)
(* in step with each other, whatever operation is under way and wherever   *)
(* the process ended.                                                      *)
THEOREM RawInvariant == RawSpec => []RawInv
<1>1. RawInit => RawInv
    BY InitInv
<1>2. RawInv /\ [RawNext]_rawVars => RawInv'
    BY StepInv
<1> QED
    BY <1>1, <1>2, PTL DEF RawSpec

(* Exactly one leaf of a tree covers a batch.                              *)
LEMMA OneLeafCovers ==
    ASSUME NEW leaves \in Pages, Tree(leaves), NEW n \in 1..HeadSequence(leaves)
    PROVE  Cardinality(Covering(leaves, n)) = 1
<1>1. PICK h \in Nat \ {0} : h = HeadSequence(leaves) /\ TreeTo(leaves, h)
    BY TreeOfHead
<1>2. PICK l \in leaves : l.lo <= n /\ n <= l.hi
    BY <1>1 DEF TreeTo
<1>3. ASSUME NEW m \in leaves, m.lo <= n, n <= m.hi
      PROVE  m = l
  <2>1. l.lo \in Nat /\ l.hi \in Nat /\ m.lo \in Nat /\ m.hi \in Nat
      BY DEF Pages, LeafEntries
  <2>2. l.lo <= m.hi /\ m.lo <= l.hi
      BY <1>2, <1>3, <2>1
  <2> QED
      BY <1>1, <2>2 DEF TreeTo
<1>4. Covering(leaves, n) = {l}
    BY <1>2, <1>3 DEF Covering
<1> QED
    BY <1>4, FS_Singleton

(* The invariant implies what the run checks.                              *)
LEMMA SafeFromInv ==
    ASSUME RawInv
    PROVE  RawStoreSafe
<1>1. RawTyped /\ RootsInv /\ FilesInv
    BY DEF RawInv
<1>2. RawTypeOK
  <2>1. \A r \in DOMAIN rawRoots : \A n \in 1..HeadSequence(Leaves(r)) :
            Cardinality(Covering(Leaves(r), n)) = 1
      BY <1>1, RootFacts, OneLeafCovers
  <2>2. \A rd \in Readers : readers[rd].lease # "none" => readers[rd].root \in DOMAIN rawRoots
      BY <1>1, CurrentFacts DEF RawInv, LeasesInv, RawTyped
  <2> QED
      BY <1>1, <2>1, <2>2, CurrentFacts DEF RawTypeOK, RawTyped
<1>3. RawReceiptsReadable
  <2> SUFFICES ASSUME NEW n \in DOMAIN rawReceipts
               PROVE  /\ RootLoads(rawCurrent)
                      /\ \E l \in Covering(Leaves(rawCurrent), n) :
                           l.file \in rawFiles /\ rawReceipts[n] \in l.inputs
      BY DEF RawReceiptsReadable
  <2>1. rawCurrent # 0 /\ \E l \in Covering(Leaves(rawCurrent), n) : rawReceipts[n] \in l.inputs
      BY DEF RawInv, ReceiptsInv
  <2>2. RootFile(rawCurrent) \in rawFiles /\ LeafFiles(rawCurrent) \subseteq rawFiles
      BY <1>1, <2>1 DEF FilesInv, Present
  <2>3. RootLoads(rawCurrent)
      BY <1>1, <2>1, <2>2, RootFacts, CurrentFacts
  <2> QED
      BY <2>1, <2>2, <2>3 DEF LeafFiles, Covering
<1>4. MaintenanceLoads
  <2> SUFFICES ASSUME rawCurrent # 0
               PROVE  /\ TreeLoads(rawCurrent) /\ OtherRootsLoad
                      /\ ckCurrent # 0 /\ skipped = {} =>
                           RootLoads(ckCurrent) /\ (ckMissing = {} => TreeLoads(ckCurrent))
      BY DEF MaintenanceLoads
  <2>1. \A r \in DOMAIN rawRoots : RootFile(r) \in rawFiles => RootLoads(r)
      BY <1>1, RootFacts
  <2>2. Present(rawCurrent)
      BY <1>1 DEF FilesInv
  <2>3. TreeLoads(rawCurrent)
      BY <1>1, <2>1, <2>2, CurrentFacts DEF Present, TreeLoads
  <2>4. ASSUME ckCurrent # 0, skipped = {}
        PROVE  RootLoads(ckCurrent) /\ (ckMissing = {} => TreeLoads(ckCurrent))
      BY <1>1, <2>1, <2>4, CurrentFacts DEF FilesInv, Present, TreeLoads
  <2>5. OtherRootsLoad
      BY <1>1, <2>1 DEF OtherRootsLoad, TreeLoads, OtherRoots, ListedRoots, FilesInv, Present
  <2> QED
      BY <2>3, <2>4, <2>5
<1>5. MissingRecoverable
    BY DEF RawInv
<1> QED
    BY <1>2, <1>3, <1>4, <1>5 DEF RawStoreSafe

(* append_batch, packing, checkpoints and collection together: a receipt   *)
(* stays readable through CURRENT under the same commit, backup and plan   *)
(* find every root they must load but for the two exceptions of            *)
(* MaintenanceLoads, and what was deleted is journaled and in a backup,    *)
(* for any number of batches, roots, plans and readers.                    *)
THEOREM RawStoreIsSafe == RawSpec => []RawStoreSafe
BY RawInvariant, SafeFromInv, PTL

(* Only the unlink of a collection removes files.                          *)
LEMMA OnlyUnlinkRemoves ==
    ASSUME RawNext
    PROVE  rawFiles \subseteq rawFiles' \/ \E f \in GcFiles : GcUnlink(f)
<1>1. CASE \E n \in Batches : BeginAppend(n) \/ AppendKnown(n)
    BY <1>1 DEF BeginAppend, AppendKnown
<1>2. CASE BeginPackIndex \/ (\E lo, hi \in Batches : BeginPackRange(lo, hi))
    BY <1>2 DEF BeginPackIndex, BeginPackRange
<1>3. CASE WriteFile
  <2>1. rawFiles' = rawFiles \cup {rawOp.file}
      BY <1>3, Zenon DEF WriteFile
  <2> QED
      BY <2>1
<1>4. CASE ExtendJournal \/ PublishCurrent \/ Return
  <2>1. rawFiles' = rawFiles
      BY <1>4, Zenon DEF ExtendJournal, PublishCurrent, Return
  <2> QED
      BY <2>1
<1>5. CASE WriteRoot
  <2>1. \E r : rawFiles' = rawFiles \cup {RootFile(r)}
      BY <1>5, Zenon DEF WriteRoot
  <2> QED
      BY <2>1
<1>6. CASE (\E lo, hi \in Batches : PublishCheckpoint(lo, hi)) \/ (\E d \in ckDocs : SwitchCheckpoint(d))
           \/ BackupEligible
    BY <1>6 DEF PublishCheckpoint, SwitchCheckpoint, BackupEligible
<1>7. CASE (\E b \in backups : PlanGc(b)) \/ (\E i \in DOMAIN plans : BeginGc(i))
    BY <1>7 DEF PlanGc, BeginGc
<1>8. CASE \E f \in GcFiles : GcPlanned(f) \/ GcUnlinked(f) \/ GcSynced(f)
  <2>1. rawFiles' = rawFiles
      BY <1>8, Zenon DEF GcPlanned, GcUnlinked, GcSynced
  <2> QED
      BY <2>1
<1>9. CASE FinishGc \/ (\E i \in DOMAIN plans : \E f \in plans[i].files : RestoreFile(i, f))
    BY <1>9 DEF FinishGc, RestoreFile
<1>10. CASE \E rd \in Readers : ReaderLoad(rd) \/ ReaderDone(rd)
  <2>1. rawFiles' = rawFiles
      BY <1>10, Zenon DEF ReaderLoad, ReaderDone
  <2> QED
      BY <2>1
<1>11. CASE \E rd \in Readers : ReaderLease(rd)
  <2>1. \E r : rawFiles' = rawFiles \cup {LeaseFile(r)}
      BY <1>11, Zenon DEF ReaderLease
  <2> QED
      BY <2>1
<1>12. CASE Tick \/ RawProcessEnds
    BY <1>12 DEF Tick, RawProcessEnds
<1> QED
    BY <1>1, <1>2, <1>3, <1>4, <1>5, <1>6, <1>7, <1>8, <1>9, <1>10, <1>11, <1>12, Zenon DEF RawNext

(* A step keeps the files of a root under a lease in time.                 *)
LEMMA LeasedStay ==
    ASSUME RawInv, [RawNext]_rawVars, NEW rd \in Readers,
           readers[rd].lease # "none", ~readers[rd].late, readers[rd].root \notin skipped
    PROVE  ({RootFile(readers[rd].root)} \cup LeafFiles(readers[rd].root)) \cap rawFiles \subseteq rawFiles'
<1>1. CASE rawFiles \subseteq rawFiles'
    BY <1>1
<1>2. CASE UNCHANGED rawVars
    BY <1>2 DEF rawVars
<1>3. CASE \E f \in GcFiles : GcUnlink(f)
  <2>1. PICK f \in GcFiles : GcUnlink(f)
      BY <1>3
  <2>2. rawOp.step = "gc" /\ rawFiles' = rawFiles \ {f}
      BY <2>1, Zenon DEF GcUnlink, GcTurn
  <2>3. f \in plans[rawOp.plan].files
      BY <2>2 DEF GcFiles
  <2>4. readers[rd].lease = "held" /\ readers[rd].root \in {rawCurrent, ckCurrent} /\ readers[rd].root # 0
    <3>1. readers[rd].lease \in {"none", "held", "orphan"}
        BY DEF RawInv, RawTyped, ReaderStates
    <3> QED
        BY <2>2, <3>1 DEF RawInv, LeasesInv
  <2>5. f \notin RootPaths(readers[rd].root)
      BY <2>2, <2>3, <2>4, UnlinkSpares
  <2> QED
      BY <2>2, <2>5 DEF RootPaths
<1> QED
    BY <1>1, <1>2, <1>3, OnlyUnlinkRemoves

(* execute_packed_object_gc: as long as a reader has the lease that it     *)
(* took on a root before the execution began, no file of that root is      *)
(* unlinked.                                                               *)
THEOREM LeasedFilesAlwaysStay == RawSpec => LeasedFilesStay
<1>1. RawInv /\ [RawNext]_rawVars =>
        [\A rd \in Readers :
          LET r == readers[rd].root
          IN  /\ readers[rd].lease # "none" /\ readers'[rd].lease # "none"
              /\ ~readers[rd].late /\ r \notin skipped
              => ({RootFile(r)} \cup LeafFiles(r)) \cap rawFiles \subseteq rawFiles']_rawVars
    BY LeasedStay
<1> QED
    BY <1>1, RawInvariant, PTL DEF RawSpec, LeasedFilesStay
=============================================================================
