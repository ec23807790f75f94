------------------------ MODULE CanonicalArchiveProofs ------------------------
(***************************************************************************)
(* Proofs about the canonical archive: for every number of heights, hours  *)
(* and contents, however many manifests are written and however often the  *)
(* process ends inside an operation.                                       *)
(*                                                                         *)
(* ArchiveSafe speaks of the manifests that CURRENT reaches.  Inductive is *)
(* what holds of every manifest file ever written, also those an           *)
(* interrupted operation left behind: FilesInv.  WritingInv says how far   *)
(* the operation in progress has come and what the files it has yet to     *)
(* write will look like.                                                   *)
(***************************************************************************)
EXTENDS CanonicalArchive, FiniteSetTheorems, SequenceTheorems, TLAPS

-----------------------------------------------------------------------------
(* The manifests.                                                          *)
BlockRefs == [block : ArchiveBlocks, bundle : SUBSET ArchiveBlocks]
RefMaps == UNION {[D -> BlockRefs] : D \in SUBSET BlockHeights}
PartManifests == [prev : Nat, kind : {"append", "compaction"}, refs : RefMaps]
CatManifests == [prev : Nat, parts : UNION {[D -> Nat] : D \in SUBSET Hours}]

(* A reference of partition p at height h: its block is in a bundle of the *)
(* given set, under its own height and hour.                               *)
RefFits(p, h, ref, bundles) ==
  /\ ref.block.height = h /\ ref.block.hour = p
  /\ ref.block \in ref.bundle /\ ref.bundle \in bundles

(* Manifest new has every block that old has.                              *)
Keeps(old, new) ==
  \A h \in DOMAIN old.refs : h \in DOMAIN new.refs /\ new.refs[h].block = old.refs[h].block

(* Manifest m is one that may follow in partition p.                       *)
Follows(p, m, bundles) ==
  /\ IF m.prev = 0 THEN m.kind = "append" ELSE PartitionTransition(partFiles[p][m.prev], m)
  /\ \A h \in DOMAIN m.refs : RefFits(p, h, m.refs[h], bundles)
  /\ m.prev # 0 => Keeps(partFiles[p][m.prev], m)

StoredBundles == manifests \cap objects

(* Every partition manifest that was ever written.                         *)
PartFilesInv ==
  /\ partFiles \in [Hours -> Seq(PartManifests)]
  /\ partCurrent \in [Hours -> Nat]
  /\ \A p \in Hours :
       /\ partCurrent[p] \in 0..Len(partFiles[p])
       /\ \A i \in 1..Len(partFiles[p]) :
            /\ partFiles[p][i].prev \in 0..i - 1
            /\ Follows(p, partFiles[p][i], StoredBundles)
            /\ \A a \in Ancestors(partFiles[p], i) : Keeps(partFiles[p][a], partFiles[p][i])

(* Every catalog manifest that was ever written; each partition head       *)
(* descends from the manifest the current catalog names.                   *)
CatFilesInv ==
  /\ catFiles \in Seq(CatManifests)
  /\ catCurrent \in 0..Len(catFiles)
  /\ \A j \in 1..Len(catFiles) :
       /\ catFiles[j].prev \in 0..j - 1
       /\ \A p \in DOMAIN catFiles[j].parts : catFiles[j].parts[p] \in 1..Len(partFiles[p])
       /\ catFiles[j].prev # 0 =>
            CatalogTransition(catFiles[catFiles[j].prev].parts, catFiles[j].parts)
  /\ \A p \in DOMAIN CatalogParts(catCurrent) :
       CatalogParts(catCurrent)[p] \in Ancestors(partFiles[p], partCurrent[p])

(* The current catalog has the block.                                      *)
InCatalog(b) ==
  /\ b.hour \in DOMAIN CatalogParts(catCurrent)
  /\ LET refs == partFiles[b.hour][CatalogParts(catCurrent)[b.hour]].refs
     IN b.height \in DOMAIN refs /\ refs[b.height].block = b

FilesInv ==
  /\ objects \subseteq SUBSET ArchiveBlocks /\ manifests \subseteq objects
  /\ PartFilesInv /\ CatFilesInv
  /\ receipts \subseteq ArchiveBlocks /\ \A b \in receipts : InCatalog(b)

-----------------------------------------------------------------------------
(* What is left of an operation that writes a bundle.                      *)
Todos ==
  {<<"object", "manifest", "partFile", "partCurrent", "catFile", "catCurrent">>,
   <<"manifest", "partFile", "partCurrent", "catFile", "catCurrent">>,
   <<"partFile", "partCurrent", "catFile", "catCurrent">>,
   <<"partCurrent", "catFile", "catCurrent">>,
   <<"catFile", "catCurrent">>, <<"catCurrent">>, <<>>}

Left == Len(writing.todo)

(* The partition manifest is not current yet.                              *)
PartitionAhead ==
  /\ writing.part \in PartManifests /\ writing.part.prev = partCurrent[writing.hour]
  /\ Follows(writing.hour, writing.part, StoredBundles \cup {writing.bundle})
  /\ Left = 3 =>
       \E i \in 1..Len(partFiles[writing.hour]) : partFiles[writing.hour][i] = writing.part
  /\ writing.op = "append" =>
       /\ writing.block.height \in DOMAIN writing.part.refs
       /\ writing.part.refs[writing.block.height].block = writing.block

(* The partition manifest is current, the catalog does not name it yet.    *)
CatalogAhead ==
  /\ partCurrent[writing.hour] # 0
  /\ ~CatalogReferences(writing.hour)
  /\ Left = 1 => \E i \in 1..Len(catFiles) : catFiles[i] = NewCatalog
  /\ writing.op = "append" =>
       /\ writing.block.height \in DOMAIN HeadRefs(writing.hour)
       /\ HeadRefs(writing.hour)[writing.block.height].block = writing.block

OperationFields == {"op", "todo", "block", "bundle", "hour", "part", "cat"}

WritingInv ==
  \/ writing = Idle
  \/ /\ DOMAIN writing = OperationFields
     /\ writing.op \in {"append", "compact"} /\ writing.todo \in Todos
     /\ writing.hour \in Hours /\ writing.bundle \subseteq ArchiveBlocks
     /\ writing.op = "append" => writing.block \in ArchiveBlocks /\ writing.block.hour = writing.hour
     /\ Left <= 5 => writing.bundle \in objects
     /\ Left <= 4 => writing.bundle \in manifests
     /\ Left >= 3 => PartitionAhead
     /\ Left \in {1, 2} => CatalogAhead
     /\ writing.todo # <<>> => writing.cat = catCurrent
     /\ writing.todo = <<>> /\ writing.op = "append" => InCatalog(writing.block)

ArchiveInv == FilesInv /\ WritingInv

-----------------------------------------------------------------------------
(* Chains of manifests: each names an earlier one.                         *)
NamesEarlier(files) == \A j \in 1..Len(files) : files[j].prev \in 0..j - 1

(* The chain of no manifest is empty, that of a manifest holds it and goes *)
(* back in the order of writing.                                           *)
LEMMA AncestorsBasic ==
  ASSUME NEW F, NEW files \in Seq(F), NamesEarlier(files)
  PROVE  /\ Ancestors(files, 0) = {}
         /\ \A i \in 1..Len(files) : i \in Ancestors(files, i) /\ Ancestors(files, i) \subseteq 1..i
<1>0. Len(files) \in Nat
  BY LenProperties
<1>1. Ancestors(files, 0) = {}
  <2>1. ChainFrom(files, 0, {})
    BY DEF ChainFrom
  <2> QED
    BY <2>1 DEF Ancestors
<1>2. ASSUME NEW i \in 1..Len(files) PROVE i \in Ancestors(files, i)
  BY <1>0 DEF Ancestors, ChainFrom
<1>3. ASSUME NEW i \in 1..Len(files) PROVE Ancestors(files, i) \subseteq 1..i
  <2>1. 1..i \in SUBSET (1..Len(files))
    BY <1>0
  <2>2. ChainFrom(files, i, 1..i)
    <3>1. ASSUME NEW j \in 1..i PROVE files[j].prev \in (1..i) \cup {0}
      <4>1. j \in 1..Len(files)
        BY <2>1
      <4>2. files[j].prev \in 0..j - 1
        BY <4>1 DEF NamesEarlier
      <4> QED
        BY <4>2
    <3> QED
      BY <3>1 DEF ChainFrom
  <2> QED
    BY <2>1, <2>2 DEF Ancestors
<1> QED
  BY <1>1, <1>2, <1>3

(* The chain of a manifest is the manifest and the chain of the one it     *)
(* follows.                                                                *)
LEMMA AncestorsStep ==
  ASSUME NEW F, NEW files \in Seq(F), NamesEarlier(files), NEW i \in 1..Len(files)
  PROVE  Ancestors(files, i) = {i} \cup Ancestors(files, files[i].prev)
<1> DEFINE q == files[i].prev
<1>0. Len(files) \in Nat /\ q \in 0..i - 1
  BY LenProperties DEF NamesEarlier
<1>1. ASSUME NEW k \in Ancestors(files, q) PROVE k \in Ancestors(files, i)
  <2> SUFFICES ASSUME NEW S \in SUBSET (1..Len(files)), ChainFrom(files, i, S) PROVE k \in S
    BY <1>1 DEF Ancestors
  <2>1. ChainFrom(files, q, S)
    BY <1>0 DEF ChainFrom
  <2> QED
    BY <1>1, <2>1 DEF Ancestors
<1>2. ASSUME NEW k \in Ancestors(files, i), k # i PROVE k \in Ancestors(files, q)
  <2> SUFFICES ASSUME NEW S \in SUBSET (1..Len(files)), ChainFrom(files, q, S) PROVE k \in S
    BY <1>2 DEF Ancestors
  <2>1. S \cup {i} \in SUBSET (1..Len(files))
    OBVIOUS
  <2>2. ChainFrom(files, i, S \cup {i})
    BY DEF ChainFrom
  <2> QED
    BY <1>2, <2>1, <2>2 DEF Ancestors
<1>3. i \in Ancestors(files, i)
  BY AncestorsBasic
<1> QED
  BY <1>1, <1>2, <1>3

(* A new manifest changes no chain, and names an earlier one.              *)
LEMMA AncestorsGrow ==
  ASSUME NEW F, NEW files \in Seq(F), NamesEarlier(files),
         NEW m \in F, m.prev \in 0..Len(files)
  PROVE  /\ NamesEarlier(Append(files, m))
         /\ \A i \in 0..Len(files) : Ancestors(Append(files, m), i) = Ancestors(files, i)
<1> DEFINE n == Len(files)
           more == Append(files, m)
<1>0. n \in Nat /\ Len(more) = n + 1 /\ more[n + 1] = m /\ \A j \in 1..n : more[j] = files[j]
  BY LenProperties, AppendProperties
<1> HIDE DEF more
<1>1. NamesEarlier(more)
  <2> SUFFICES ASSUME NEW j \in 1..n + 1 PROVE more[j].prev \in 0..j - 1
    BY <1>0 DEF NamesEarlier
  <2>1. CASE j \in 1..n
    BY <1>0, <2>1 DEF NamesEarlier
  <2>2. CASE j = n + 1
    BY <1>0, <2>2
  <2> QED
    BY <1>0, <2>1, <2>2
<1>2. ASSUME NEW i \in 0..n, NEW k \in Ancestors(more, i) PROVE k \in Ancestors(files, i)
  <2>1. ASSUME NEW S \in SUBSET (1..n), ChainFrom(files, i, S) PROVE k \in S
    <3>1. S \in SUBSET (1..Len(more))
      BY <1>0
    <3>2. ChainFrom(more, i, S)
      BY <1>0, <2>1 DEF ChainFrom
    <3> QED
      BY <1>2, <3>1, <3>2 DEF Ancestors
  <2>2. ChainFrom(files, i, 1..n)
    <3>1. ASSUME NEW j \in 1..n PROVE files[j].prev \in (1..n) \cup {0}
      <4>1. files[j].prev \in 0..j - 1
        BY DEF NamesEarlier
      <4> QED
        BY <1>0, <4>1
    <3> QED
      BY <1>0, <3>1 DEF ChainFrom
  <2>3. k \in 1..n
    BY <2>1, <2>2
  <2> QED
    BY <2>1, <2>3 DEF Ancestors
<1>3. ASSUME NEW i \in 0..n, NEW k \in Ancestors(files, i) PROVE k \in Ancestors(more, i)
  <2>1. ASSUME NEW S \in SUBSET (1..Len(more)), ChainFrom(more, i, S) PROVE k \in S
    <3> DEFINE T == S \cap (1..n)
    <3>1. ChainFrom(files, i, T)
      <4>1. i \in T \cup {0}
        BY <1>0, <2>1 DEF ChainFrom
      <4>2. ASSUME NEW j \in T PROVE files[j].prev \in T \cup {0}
        <5>1. files[j].prev \in 0..j - 1 /\ files[j].prev \in S \cup {0}
          BY <1>0, <2>1 DEF ChainFrom, NamesEarlier
        <5>2. j \in 1..n
          OBVIOUS
        <5> QED
          BY <1>0, <5>1, <5>2
      <4> QED
        BY <4>1, <4>2 DEF ChainFrom
    <3> QED
      BY <1>3, <3>1 DEF Ancestors
  <2>2. k \in 1..Len(more)
    BY <1>0, <1>3 DEF Ancestors
  <2> QED
    BY <2>1, <2>2 DEF Ancestors
<1> QED
  BY <1>1, <1>2, <1>3 DEF more

-----------------------------------------------------------------------------
(* What is left of an operation, step by step.                             *)
LEMMA TodoFacts ==
  ASSUME NEW t \in Todos
  PROVE  /\ Len(t) \in 0..6 /\ (t = <<>> <=> Len(t) = 0)
         /\ t # <<>> => Tail(t) \in Todos /\ Len(Tail(t)) = Len(t) - 1
         /\ t # <<>> =>
              /\ Head(t) = "object" <=> Len(t) = 6
              /\ Head(t) = "manifest" <=> Len(t) = 5
              /\ Head(t) = "partFile" <=> Len(t) = 4
              /\ Head(t) = "partCurrent" <=> Len(t) = 3
              /\ Head(t) = "catFile" <=> Len(t) = 2
              /\ Head(t) = "catCurrent" <=> Len(t) = 1
<1>1. CASE t = <<"object", "manifest", "partFile", "partCurrent", "catFile", "catCurrent">>
  BY <1>1 DEF Todos
<1>2. CASE t = <<"manifest", "partFile", "partCurrent", "catFile", "catCurrent">>
  BY <1>2 DEF Todos
<1>3. CASE t = <<"partFile", "partCurrent", "catFile", "catCurrent">>
  BY <1>3 DEF Todos
<1>4. CASE t = <<"partCurrent", "catFile", "catCurrent">>
  BY <1>4 DEF Todos
<1>5. CASE t = <<"catFile", "catCurrent">>
  BY <1>5 DEF Todos
<1>6. CASE t = <<"catCurrent">>
  BY <1>6 DEF Todos
<1>7. CASE t = <<>>
  BY <1>7
<1> QED
  BY <1>1, <1>2, <1>3, <1>4, <1>5, <1>6, <1>7 DEF Todos

(* The files as sequences of manifests.                                    *)
LEMMA FileFacts ==
  ASSUME FilesInv
  PROVE  /\ \A p \in Hours : /\ partFiles[p] \in Seq(PartManifests) /\ Len(partFiles[p]) \in Nat
                             /\ NamesEarlier(partFiles[p]) /\ partCurrent[p] \in 0..Len(partFiles[p])
         /\ catFiles \in Seq(CatManifests) /\ Len(catFiles) \in Nat
         /\ NamesEarlier(catFiles) /\ catCurrent \in 0..Len(catFiles)
<1>1. ASSUME NEW p \in Hours
      PROVE  /\ partFiles[p] \in Seq(PartManifests) /\ Len(partFiles[p]) \in Nat
             /\ NamesEarlier(partFiles[p]) /\ partCurrent[p] \in 0..Len(partFiles[p])
  <2>1. partFiles[p] \in Seq(PartManifests)
    BY DEF FilesInv, PartFilesInv
  <2>2. Len(partFiles[p]) \in Nat
    BY <2>1, LenProperties
  <2>3. NamesEarlier(partFiles[p]) /\ partCurrent[p] \in 0..Len(partFiles[p])
    BY DEF FilesInv, PartFilesInv, NamesEarlier
  <2> QED
    BY <2>1, <2>2, <2>3
<1>2. catFiles \in Seq(CatManifests) /\ catCurrent \in 0..Len(catFiles) /\ NamesEarlier(catFiles)
  BY DEF FilesInv, CatFilesInv, NamesEarlier
<1>3. Len(catFiles) \in Nat
  BY <1>2, LenProperties
<1> QED
  BY <1>1, <1>2, <1>3

(* The catalog that CURRENT names: its partitions and their manifests.     *)
LEMMA CatalogFacts ==
  ASSUME FilesInv, NEW c \in 0..Len(catFiles)
  PROVE  /\ DOMAIN CatalogParts(c) \subseteq Hours
         /\ CatalogParts(c) \in [DOMAIN CatalogParts(c) -> Nat]
         /\ \A p \in DOMAIN CatalogParts(c) : CatalogParts(c)[p] \in 1..Len(partFiles[p])
<1>0. catFiles \in Seq(CatManifests) /\ Len(catFiles) \in Nat
  BY FileFacts
<1>1. CASE c = 0
  BY <1>1 DEF CatalogParts
<1>2. CASE c \in 1..Len(catFiles)
  <2>1. catFiles[c] \in CatManifests
    BY <1>0, <1>2, ElementOfSeq
  <2>2. CatalogParts(c) = catFiles[c].parts
    BY <1>0, <1>2 DEF CatalogParts
  <2>3. \A p \in DOMAIN catFiles[c].parts : catFiles[c].parts[p] \in 1..Len(partFiles[p])
    BY <1>2 DEF FilesInv, CatFilesInv
  <2>4. catFiles[c].parts \in UNION {[D -> Nat] : D \in SUBSET Hours}
    BY <2>1 DEF CatManifests
  <2> QED
    BY <2>2, <2>3, <2>4
<1> QED
  BY <1>0, <1>1, <1>2

(* A partition manifest on disk.                                           *)
LEMMA ManifestFacts ==
  ASSUME FilesInv, NEW p \in Hours, NEW i \in 1..Len(partFiles[p])
  PROVE  /\ partFiles[p][i] \in PartManifests
         /\ partFiles[p][i].refs \in RefMaps
         /\ DOMAIN partFiles[p][i].refs \subseteq BlockHeights
         /\ \A h \in DOMAIN partFiles[p][i].refs :
              /\ partFiles[p][i].refs[h] \in BlockRefs
              /\ RefFits(p, h, partFiles[p][i].refs[h], StoredBundles)
<1>1. partFiles[p][i] \in PartManifests
  BY FileFacts, ElementOfSeq
<1>2. partFiles[p][i].refs \in RefMaps
  BY <1>1 DEF PartManifests
<1>3. PICK D \in SUBSET BlockHeights : partFiles[p][i].refs \in [D -> BlockRefs]
  BY <1>2 DEF RefMaps
<1>4. \A h \in DOMAIN partFiles[p][i].refs : RefFits(p, h, partFiles[p][i].refs[h], StoredBundles)
  BY DEF FilesInv, PartFilesInv, Follows
<1> QED
  BY <1>1, <1>2, <1>3, <1>4

(* The references at a partition head.                                     *)
LEMMA HeadFacts ==
  ASSUME FilesInv, NEW p \in Hours
  PROVE  /\ HeadRefs(p) \in RefMaps /\ DOMAIN HeadRefs(p) \subseteq BlockHeights
         /\ DOMAIN HeadRefs(p) # {} => partCurrent[p] \in 1..Len(partFiles[p])
         /\ partCurrent[p] # 0 => HeadRefs(p) = partFiles[p][partCurrent[p]].refs
         /\ \A h \in DOMAIN HeadRefs(p) :
              HeadRefs(p)[h] \in BlockRefs /\ RefFits(p, h, HeadRefs(p)[h], StoredBundles)
<1>0. partCurrent[p] \in 0..Len(partFiles[p]) /\ Len(partFiles[p]) \in Nat
  BY FileFacts
<1>1. CASE partCurrent[p] = 0
  <2>1. HeadRefs(p) = NoRefs /\ DOMAIN NoRefs = {}
    BY <1>1 DEF HeadRefs, NoRefs
  <2>2. NoRefs \in [{} -> BlockRefs]
    BY DEF NoRefs
  <2> QED
    BY <1>1, <2>1, <2>2 DEF RefMaps
<1>2. CASE partCurrent[p] \in 1..Len(partFiles[p])
  <2>1. HeadRefs(p) = partFiles[p][partCurrent[p]].refs
    BY <1>0, <1>2 DEF HeadRefs
  <2> QED
    BY <1>2, <2>1, ManifestFacts
<1> QED
  BY <1>0, <1>1, <1>2

(* A map from heights to references.                                       *)
LEMMA RefMapIs ==
  ASSUME NEW D \in SUBSET BlockHeights, NEW g \in [D -> BlockRefs]
  PROVE  g \in RefMaps
BY DEF RefMaps

(* Steps that write no file.                                               *)
LEMMA FilesUnchanged ==
  ASSUME FilesInv, UNCHANGED <<objects, manifests, partFiles, partCurrent, catFiles, catCurrent>>,
         receipts' \subseteq ArchiveBlocks, \A b \in receipts' : InCatalog(b)
  PROVE  FilesInv'
<1>1. PartFilesInv'
  BY DEF FilesInv, PartFilesInv, Follows, StoredBundles
<1>2. CatFilesInv'
  <2>1. ASSUME NEW j \in 1..Len(catFiles'), catFiles'[j].prev # 0
        PROVE  CatalogTransition(catFiles[catFiles[j].prev].parts, catFiles[j].parts)'
    <3>1. CatFilesInv /\ j \in 1..Len(catFiles) /\ catFiles[j].prev # 0
      BY <2>1 DEF FilesInv
    <3>2. CatalogTransition(catFiles[catFiles[j].prev].parts, catFiles[j].parts)
      BY <3>1, Zenon DEF CatFilesInv
    <3> QED
      BY <3>2 DEF CatalogTransition
  <2>2. CatalogParts(catCurrent)' = CatalogParts(catCurrent)
    BY DEF CatalogParts
  <2>3. CatFilesInv
    BY DEF FilesInv
  <2>4. \A j \in 1..Len(catFiles') :
          /\ catFiles'[j].prev \in 0..j - 1
          /\ \A p \in DOMAIN catFiles'[j].parts : catFiles'[j].parts[p] \in 1..Len(partFiles'[p])
    BY <2>3 DEF CatFilesInv
  <2>5. \A p \in DOMAIN CatalogParts(catCurrent)' :
          CatalogParts(catCurrent)'[p] \in Ancestors(partFiles'[p], partCurrent'[p])
    BY <2>2, <2>3 DEF CatFilesInv
  <2>6. catFiles' \in Seq(CatManifests) /\ catCurrent' \in 0..Len(catFiles')
    <3>1. catFiles \in Seq(CatManifests) /\ catCurrent \in 0..Len(catFiles)
      BY <2>3, Zenon DEF CatFilesInv
    <3> QED
      BY <3>1
  <2> QED
    BY <2>1, <2>4, <2>5, <2>6, Zenon DEF CatFilesInv
<1>3. \A b \in receipts' : InCatalog(b)'
  BY DEF InCatalog, CatalogParts
<1> QED
  BY <1>1, <1>2, <1>3 DEF FilesInv

-----------------------------------------------------------------------------
(* An operation begins that writes a bundle and a partition manifest that  *)
(* may follow the head.                                                    *)
LEMMA BeginKeeps ==
  ASSUME FilesInv,
         UNCHANGED <<objects, manifests, partFiles, partCurrent, catFiles, catCurrent, receipts>>,
         DOMAIN writing' = OperationFields,
         writing'.op \in {"append", "compact"}, writing'.todo = NewBundle,
         writing'.hour \in Hours, writing'.bundle \subseteq ArchiveBlocks,
         writing'.cat = catCurrent,
         writing'.part \in PartManifests, writing'.part.prev = partCurrent[writing'.hour],
         Follows(writing'.hour, writing'.part, StoredBundles \cup {writing'.bundle}),
         writing'.op = "append" =>
           /\ writing'.block \in ArchiveBlocks /\ writing'.block.hour = writing'.hour
           /\ writing'.block.height \in DOMAIN writing'.part.refs
           /\ writing'.part.refs[writing'.block.height].block = writing'.block
  PROVE  ArchiveInv'
<1>1. FilesInv'
  BY FilesUnchanged DEF FilesInv
<1>2. Len(NewBundle) = 6 /\ NewBundle \in Todos /\ NewBundle # <<>>
  BY DEF NewBundle, Todos
<1>3. Follows(writing.hour, writing.part, StoredBundles \cup {writing.bundle})'
  BY DEF Follows, StoredBundles
<1>l. Left' = 6
  BY <1>2 DEF Left
<1>4. PartitionAhead'
  BY <1>l, <1>3 DEF PartitionAhead
<1>5. WritingInv'
  BY <1>l, <1>2, <1>4 DEF WritingInv
<1> QED
  BY <1>1, <1>5 DEF ArchiveInv

(* append_block of a new height ...                                        *)
LEMMA AppendNewKeeps ==
  ASSUME ArchiveInv, NEW b \in ArchiveBlocks, AppendNew(b)
  PROVE  ArchiveInv'
<1> DEFINE p == b.hour
           old == HeadRefs(p)
           D == DOMAIN old \cup {b.height}
           refs == [h \in D |-> IF h = b.height THEN Ref(b, {b}) ELSE old[h]]
           m == [prev |-> partCurrent[p], kind |-> "append", refs |-> refs]
           bundles == StoredBundles \cup {{b}}
<1>0. /\ FilesInv /\ p \in Hours /\ b.height \in BlockHeights /\ b.height \notin DOMAIN old
      /\ UNCHANGED <<objects, manifests, partFiles, partCurrent, catFiles, catCurrent, receipts>>
  BY DEF ArchiveInv, AppendNew, ArchiveBlocks
<1>1. writing' = [op |-> "append", todo |-> NewBundle, block |-> b, bundle |-> {b}, hour |-> p,
                  part |-> m, cat |-> catCurrent]
  BY DEF AppendNew, NextPartition
<1>2. /\ writing'.op = "append" /\ writing'.todo = NewBundle /\ writing'.block = b
      /\ writing'.bundle = {b} /\ writing'.hour = p /\ writing'.part = m /\ writing'.cat = catCurrent
      /\ DOMAIN writing' = OperationFields
  BY <1>1 DEF OperationFields
<1>3. /\ old \in RefMaps /\ DOMAIN old \subseteq BlockHeights
      /\ \A h \in DOMAIN old : old[h] \in BlockRefs /\ RefFits(p, h, old[h], StoredBundles)
      /\ partCurrent[p] \in Nat
      /\ partCurrent[p] # 0 => partCurrent[p] \in 1..Len(partFiles[p]) /\ old = partFiles[p][partCurrent[p]].refs
  BY <1>0, HeadFacts, FileFacts
<1> HIDE DEF old
<1>4. m \in PartManifests
  <2>1. Ref(b, {b}) \in BlockRefs
    BY DEF Ref, BlockRefs
  <2>2. refs \in [D -> BlockRefs] /\ D \in SUBSET BlockHeights
    BY <1>0, <1>3, <2>1
  <2>3. refs \in RefMaps
    BY <2>2 DEF RefMaps
  <2> QED
    BY <1>3, <2>3 DEF PartManifests
<1>5. /\ m.prev = partCurrent[p] /\ m.kind = "append" /\ m.refs = refs
      /\ DOMAIN refs = D /\ refs[b.height].block = b
      /\ \A h \in DOMAIN old : h \in D /\ refs[h] = old[h]
      /\ \A h \in D : RefFits(p, h, refs[h], bundles)
  BY <1>0, <1>3 DEF RefFits, Ref
<1>6. Cardinality(D) = Cardinality(DOMAIN old) + 1
  <2>1. IsFiniteSet(BlockHeights)
    BY ArchiveConstants, FS_Interval DEF BlockHeights
  <2>2. IsFiniteSet(DOMAIN old)
    BY <1>3, <2>1, FS_Subset
  <2> QED
    BY <1>0, <2>2, FS_AddElement
<1> HIDE DEF m, refs, D
<1>7. Follows(p, m, bundles)
  <2>1. ASSUME partCurrent[p] # 0
        PROVE  PartitionTransition(partFiles[p][partCurrent[p]], m) /\ Keeps(partFiles[p][partCurrent[p]], m)
    BY <1>3, <1>5, <1>6, <2>1 DEF PartitionTransition, Keeps
  <2> QED
    BY <1>5, <2>1 DEF Follows
<1>8. b.height \in DOMAIN m.refs /\ m.refs[b.height].block = b
  BY <1>5 DEF D
<1> QED
  BY <1>0, <1>2, <1>4, <1>5, <1>7, <1>8, BeginKeeps

(* ... or of one the partition has ...                                     *)
LEMMA AppendExistingKeeps ==
  ASSUME ArchiveInv, NEW b \in ArchiveBlocks, AppendExisting(b)
  PROVE  ArchiveInv'
<1> DEFINE p == b.hour
           refs == HeadRefs(p)
<1>0. /\ FilesInv /\ p \in Hours /\ writing.op = "idle"
      /\ b.height \in DOMAIN refs /\ refs[b.height].block = b
      /\ refs[b.height].bundle \in manifests /\ refs[b.height].bundle \in objects
      /\ UNCHANGED <<objects, manifests, partFiles, partCurrent, catFiles, catCurrent>>
  BY DEF ArchiveInv, AppendExisting, ArchiveBlocks, BundleVerifies, ArchiveUnlocked
<1>1. partCurrent[p] \in 1..Len(partFiles[p]) /\ refs = partFiles[p][partCurrent[p]].refs
  BY <1>0, HeadFacts
<1>2. CASE CatalogReferences(p) /\ receipts' = receipts \cup {b} /\ UNCHANGED writing
  <2>1. InCatalog(b)
    BY <1>0, <1>1, <1>2 DEF CatalogReferences, InCatalog
  <2>2. FilesInv'
    BY <1>0, <1>2, <2>1, FilesUnchanged DEF FilesInv
  <2>3. writing = Idle
    BY <1>0 DEF ArchiveInv, WritingInv
  <2> QED
    BY <1>2, <2>2, <2>3 DEF ArchiveInv, WritingInv, Idle
<1>3. CASE /\ ~CatalogReferences(p) /\ UNCHANGED receipts
           /\ writing' = [op |-> "append", todo |-> CatalogOnly, block |-> b,
                          bundle |-> refs[b.height].bundle, hour |-> p, part |-> {}, cat |-> catCurrent]
  <2>0. /\ writing'.op = "append" /\ writing'.todo = CatalogOnly /\ writing'.block = b
        /\ writing'.bundle = refs[b.height].bundle /\ writing'.hour = p /\ writing'.cat = catCurrent
        /\ DOMAIN writing' = OperationFields
    BY <1>3 DEF OperationFields
  <2>1. FilesInv'
    BY <1>0, <1>3, FilesUnchanged DEF FilesInv
  <2>2. Len(CatalogOnly) = 2 /\ CatalogOnly \in Todos /\ CatalogOnly # <<>>
    BY DEF CatalogOnly, Todos
  <2>3. refs[b.height].bundle \subseteq ArchiveBlocks
    BY <1>0 DEF FilesInv
  <2>4. CatalogReferences(p)' = CatalogReferences(p) /\ HeadRefs(p)' = HeadRefs(p)
    BY <1>0 DEF CatalogReferences, CatalogParts, HeadRefs
  <2>l. Left' = 2
    BY <2>0, <2>2 DEF Left
  <2>5. CatalogAhead'
    BY <1>0, <1>1, <1>3, <2>0, <2>l, <2>4 DEF CatalogAhead
  <2>6. WritingInv'
    BY <1>0, <2>0, <2>l, <2>2, <2>3, <2>5 DEF WritingInv
  <2> QED
    BY <2>1, <2>6 DEF ArchiveInv
<1> QED
  BY <1>2, <1>3 DEF AppendExisting

(* What a catalog refers to: manifests on disk and blocks under their own  *)
(* height and hour.                                                        *)
LEMMA ReferenceFacts ==
  ASSUME FilesInv, NEW c \in 0..Len(catFiles), NEW lo \in Nat, NEW hi \in Nat,
         NEW r \in References(c, lo, hi)
  PROVE  /\ r[1] \in Hours /\ r[1] \in DOMAIN CatalogParts(c) /\ r[2] \in lo..hi
         /\ CatalogParts(c)[r[1]] \in 1..Len(partFiles[r[1]])
         /\ r[2] \in DOMAIN partFiles[r[1]][CatalogParts(c)[r[1]]].refs
         /\ ReferencedBy(c, r) = partFiles[r[1]][CatalogParts(c)[r[1]]].refs[r[2]]
         /\ ReferencedBy(c, r) \in BlockRefs
         /\ RefFits(r[1], r[2], ReferencedBy(c, r), StoredBundles)
<1>1. r[1] \in DOMAIN CatalogParts(c) /\ r[2] \in lo..hi
      /\ r[2] \in DOMAIN partFiles[r[1]][CatalogParts(c)[r[1]]].refs
  BY DEF References
<1>2. r[1] \in Hours /\ CatalogParts(c)[r[1]] \in 1..Len(partFiles[r[1]])
  BY <1>1, CatalogFacts
<1>3. ReferencedBy(c, r) = partFiles[r[1]][CatalogParts(c)[r[1]]].refs[r[2]]
  BY DEF ReferencedBy
<1> QED
  BY <1>1, <1>2, <1>3, ManifestFacts

(* compact_range rewrites, for the range, exactly the blocks the partition *)
(* head refers to, although it reads them through the catalog, which may   *)
(* be behind.                                                              *)
LEMMA CompactedBlocks ==
  ASSUME FilesInv, NEW lo \in Nat, NEW hi \in Nat, NEW p \in Hours,
         Readable(catCurrent, lo, hi), \A b \in ReadRange(catCurrent, lo, hi) : b.hour = p,
         NEW h \in lo..hi
  PROVE  /\ ReadRange(catCurrent, lo, hi) \subseteq ArchiveBlocks
         /\ h \in DOMAIN HeadRefs(p) /\ HeadRefs(p)[h].block \in ReadRange(catCurrent, lo, hi)
<1> DEFINE c == catCurrent
<1>0. c \in 0..Len(catFiles) /\ Len(catFiles) \in Nat
  BY FileFacts
<1>1. ReadRange(c, lo, hi) \subseteq ArchiveBlocks
  BY <1>0, ReferenceFacts DEF ReadRange, BlockRefs
<1>2. PICK r \in References(c, lo, hi) : r[2] = h
  <2>1. Cardinality({r \in References(c, lo, hi) : r[2] = h}) = 1
    BY DEF Readable
  <2>2. Cardinality({}) = 0
    BY FS_EmptySet
  <2> DEFINE T == {r \in References(c, lo, hi) : r[2] = h}
  <2>3. Cardinality(T) = 1
    BY <2>1
  <2> HIDE DEF T
  <2>4. T # {}
    <3> SUFFICES ASSUME T = {} PROVE FALSE
      OBVIOUS
    <3> QED
      BY <2>2, <2>3
  <2> QED
    BY <2>4 DEF T
<1>3. /\ r[1] \in DOMAIN CatalogParts(c) /\ CatalogParts(c)[r[1]] \in 1..Len(partFiles[r[1]])
      /\ h \in DOMAIN partFiles[r[1]][CatalogParts(c)[r[1]]].refs
      /\ ReferencedBy(c, r) = partFiles[r[1]][CatalogParts(c)[r[1]]].refs[h]
      /\ ReferencedBy(c, r).block.hour = r[1]
  BY <1>0, <1>2, ReferenceFacts DEF RefFits
<1>4. ReferencedBy(c, r).block \in ReadRange(c, lo, hi)
  BY <1>2 DEF ReadRange
<1>5. r[1] = p
  BY <1>3, <1>4
<1>6. CatalogParts(c)[p] \in Ancestors(partFiles[p], partCurrent[p])
  BY <1>3, <1>5 DEF FilesInv, CatFilesInv
<1>7. partCurrent[p] \in 1..Len(partFiles[p])
  <2>1. partCurrent[p] \in 0..Len(partFiles[p]) /\ partFiles[p] \in Seq(PartManifests)
        /\ NamesEarlier(partFiles[p]) /\ Len(partFiles[p]) \in Nat
    BY FileFacts
  <2>2. Ancestors(partFiles[p], 0) = {}
    BY <2>1, AncestorsBasic
  <2> QED
    BY <1>6, <2>1, <2>2
<1>8. Keeps(partFiles[p][CatalogParts(c)[p]], partFiles[p][partCurrent[p]])
  BY <1>6, <1>7 DEF FilesInv, PartFilesInv
<1>9. HeadRefs(p) = partFiles[p][partCurrent[p]].refs
  BY <1>7 DEF HeadRefs
<1> QED
  BY <1>1, <1>3, <1>4, <1>5, <1>8, <1>9 DEF Keeps

(* ... or compact_range.                                                   *)
LEMMA CompactKeeps ==
  ASSUME ArchiveInv, NEW lo \in BlockHeights, NEW hi \in BlockHeights, NEW p \in Hours,
         Compact(lo, hi, p)
  PROVE  ArchiveInv'
<1> DEFINE blocks == ReadRange(catCurrent, lo, hi)
           old == HeadRefs(p)
           refs == [h \in DOMAIN old |-> IF h \in lo..hi THEN Ref(old[h].block, blocks) ELSE old[h]]
           m == [prev |-> partCurrent[p], kind |-> "compaction", refs |-> refs]
           bundles == StoredBundles \cup {blocks}
<1>0. /\ FilesInv /\ lo < hi /\ lo \in Nat /\ hi \in Nat
      /\ Readable(catCurrent, lo, hi) /\ \A b \in blocks : b.hour = p
      /\ lo..hi \subseteq DOMAIN old
      /\ Cardinality({old[h].bundle : h \in lo..hi}) >= 2
      /\ UNCHANGED <<objects, manifests, partFiles, partCurrent, catFiles, catCurrent, receipts>>
  BY DEF ArchiveInv, Compact, BlockHeights
<1>1. writing' = [op |-> "compact", todo |-> NewBundle, block |-> {}, bundle |-> blocks, hour |-> p,
                  part |-> m, cat |-> catCurrent]
  BY DEF Compact, NextPartition
<1>2. /\ writing'.op = "compact" /\ writing'.todo = NewBundle
      /\ writing'.bundle = blocks /\ writing'.hour = p /\ writing'.part = m /\ writing'.cat = catCurrent
      /\ DOMAIN writing' = OperationFields
  BY <1>1 DEF OperationFields
<1>3. blocks \subseteq ArchiveBlocks /\ \A h \in lo..hi : old[h].block \in blocks
  <2>1. lo \in lo..hi
    BY <1>0
  <2> QED
    BY <1>0, <2>1, CompactedBlocks
<1>4. /\ old \in RefMaps /\ DOMAIN old \subseteq BlockHeights
      /\ \A h \in DOMAIN old : old[h] \in BlockRefs /\ RefFits(p, h, old[h], StoredBundles)
      /\ partCurrent[p] \in 1..Len(partFiles[p]) /\ partCurrent[p] \in Nat \ {0}
      /\ old = partFiles[p][partCurrent[p]].refs
  <2>1. lo \in DOMAIN old
    BY <1>0
  <2> QED
    BY <1>0, <2>1, HeadFacts, FileFacts
<1> HIDE DEF old, blocks
<1>5. m \in PartManifests
  <2>1. \A h \in lo..hi : Ref(old[h].block, blocks) \in BlockRefs
    BY <1>0, <1>3, <1>4 DEF Ref, BlockRefs
  <2>2. refs \in [DOMAIN old -> BlockRefs]
    BY <1>4, <2>1
  <2>3. refs \in RefMaps
    <3>1. PICK D : D = DOMAIN old
      OBVIOUS
    <3>2. PICK g : g = refs
      OBVIOUS
    <3>3. D \in SUBSET BlockHeights
      BY <1>4, <3>1
    <3>4. g \in [D -> BlockRefs]
      BY <2>2, <3>1, <3>2, Zenon
    <3>5. g \in RefMaps
      BY <3>3, <3>4, RefMapIs, Zenon
    <3> QED
      BY <3>2, <3>5, Zenon
  <2> QED
    BY <1>4, <2>3 DEF PartManifests
<1>6. /\ m.prev = partCurrent[p] /\ m.kind = "compaction" /\ m.refs = refs
      /\ DOMAIN refs = DOMAIN old
      /\ \A h \in DOMAIN old : refs[h].block = old[h].block
      /\ \A h \in DOMAIN old : RefFits(p, h, refs[h], bundles)
  BY <1>3, <1>4 DEF RefFits, Ref
<1>7. refs # old
  <2> SUFFICES ASSUME refs = old PROVE FALSE
    OBVIOUS
  <2>1. \A h \in lo..hi : old[h].bundle = blocks
    <3> SUFFICES ASSUME NEW h \in lo..hi PROVE old[h].bundle = blocks
      OBVIOUS
    <3>1. h \in DOMAIN old
      BY <1>0
    <3>2. refs[h] = Ref(old[h].block, blocks)
      BY <3>1
    <3> QED
      BY <3>2 DEF Ref
  <2>2. {old[h].bundle : h \in lo..hi} = {blocks}
    <3>1. lo \in lo..hi
      BY <1>0
    <3> QED
      BY <2>1, <3>1
  <2>3. Cardinality({blocks}) = 1
    BY FS_Singleton, Zenon
  <2> QED
    BY <1>0, <2>2, <2>3
<1> HIDE DEF m, refs
<1>8. Follows(p, m, bundles)
  BY <1>4, <1>6, <1>7 DEF Follows, PartitionTransition, Keeps
<1> QED
  BY <1>0, <1>2, <1>3, <1>5, <1>6, <1>8, BeginKeeps

(* The process ends inside an operation: the files stay.                   *)
LEMMA ArchiveCrashKeeps ==
  ASSUME ArchiveInv, ArchiveCrash
  PROVE  ArchiveInv'
<1>1. FilesInv'
  BY FilesUnchanged DEF ArchiveInv, ArchiveCrash, FilesInv
<1> QED
  BY <1>1 DEF ArchiveInv, ArchiveCrash, WritingInv, Idle

(* An operation is done: an append's block is in the catalog.              *)
LEMMA FinishKeeps ==
  ASSUME ArchiveInv, Finish
  PROVE  ArchiveInv'
<1>0. /\ FilesInv /\ writing # Idle /\ writing.todo = <<>> /\ writing' = Idle
      /\ receipts' = IF writing.op = "append" /\ BundleVerifies(writing.bundle)
                     THEN receipts \cup {writing.block} ELSE receipts
      /\ UNCHANGED <<objects, manifests, partFiles, partCurrent, catFiles, catCurrent>>
  BY DEF ArchiveInv, Finish, ArchiveUnlocked, Idle
<1>1. writing.op = "append" => writing.block \in ArchiveBlocks /\ InCatalog(writing.block)
  BY <1>0 DEF ArchiveInv, WritingInv
<1>2. FilesInv'
  BY <1>0, <1>1, FilesUnchanged DEF FilesInv
<1> QED
  BY <1>0, <1>2 DEF ArchiveInv, WritingInv, Idle

-----------------------------------------------------------------------------
(* The file operations.  Manifests on disk stay where they are, with the   *)
(* chains that lead to them.                                               *)
PartsKept ==
  \A q \in Hours :
    /\ Len(partFiles'[q]) \in Nat /\ Len(partFiles[q]) <= Len(partFiles'[q])
    /\ \A i \in 1..Len(partFiles[q]) : partFiles'[q][i] = partFiles[q][i]
    /\ \A i \in 0..Len(partFiles[q]) : Ancestors(partFiles'[q], i) = Ancestors(partFiles[q], i)

(* A partition manifest is written after the ones that are there.          *)
LEMMA PartAppended ==
  ASSUME FilesInv, NEW p \in Hours, NEW m \in PartManifests, m.prev \in 0..Len(partFiles[p]),
         partFiles' = [partFiles EXCEPT ![p] = Append(@, m)]
  PROVE  /\ partFiles' \in [Hours -> Seq(PartManifests)] /\ PartsKept
         /\ Len(partFiles'[p]) = Len(partFiles[p]) + 1
         /\ partFiles'[p][Len(partFiles[p]) + 1] = m
         /\ \A q \in Hours : NamesEarlier(partFiles'[q])
         /\ \A q \in Hours \ {p} : partFiles'[q] = partFiles[q]
<1>1. partFiles \in [Hours -> Seq(PartManifests)]
  BY DEF FilesInv, PartFilesInv
<1>2. /\ partFiles[p] \in Seq(PartManifests) /\ NamesEarlier(partFiles[p])
      /\ Len(partFiles[p]) \in Nat
  BY FileFacts
<1>3. partFiles'[p] = Append(partFiles[p], m) /\ \A q \in Hours \ {p} : partFiles'[q] = partFiles[q]
  BY <1>1
<1>4. /\ Append(partFiles[p], m) \in Seq(PartManifests)
      /\ Len(Append(partFiles[p], m)) = Len(partFiles[p]) + 1
      /\ Append(partFiles[p], m)[Len(partFiles[p]) + 1] = m
      /\ \A i \in 1..Len(partFiles[p]) : Append(partFiles[p], m)[i] = partFiles[p][i]
  BY <1>2, AppendProperties
<1>5. /\ NamesEarlier(Append(partFiles[p], m))
      /\ \A i \in 0..Len(partFiles[p]) :
           Ancestors(Append(partFiles[p], m), i) = Ancestors(partFiles[p], i)
  BY <1>2, AncestorsGrow
<1>6. partFiles' \in [Hours -> Seq(PartManifests)]
  BY <1>1, <1>4
<1>7. ASSUME NEW q \in Hours
      PROVE  /\ NamesEarlier(partFiles'[q])
             /\ Len(partFiles'[q]) \in Nat /\ Len(partFiles[q]) <= Len(partFiles'[q])
             /\ \A i \in 1..Len(partFiles[q]) : partFiles'[q][i] = partFiles[q][i]
             /\ \A i \in 0..Len(partFiles[q]) : Ancestors(partFiles'[q], i) = Ancestors(partFiles[q], i)
  <2>1. CASE q = p
    BY <1>2, <1>3, <1>4, <1>5, <2>1
  <2>2. CASE q # p
    <3>1. partFiles'[q] = partFiles[q] /\ Len(partFiles[q]) \in Nat /\ NamesEarlier(partFiles[q])
      BY <1>3, <2>2, FileFacts
    <3> QED
      BY <3>1
  <2> QED
    BY <2>1, <2>2
<1> QED
  BY <1>3, <1>4, <1>6, <1>7 DEF PartsKept

(* A manifest that may follow still may when files are added.              *)
LEMMA FollowsStable ==
  ASSUME FilesInv, PartsKept, NEW p \in Hours, NEW m, m.prev \in 0..Len(partFiles[p]),
         NEW bundles, NEW more, bundles \subseteq more, Follows(p, m, bundles)
  PROVE  /\ IF m.prev = 0 THEN m.kind = "append" ELSE PartitionTransition(partFiles'[p][m.prev], m)
         /\ \A h \in DOMAIN m.refs : RefFits(p, h, m.refs[h], more)
         /\ m.prev # 0 => Keeps(partFiles'[p][m.prev], m)
<1>0. Len(partFiles[p]) \in Nat
  BY FileFacts
<1>1. m.prev # 0 => partFiles'[p][m.prev] = partFiles[p][m.prev]
  BY <1>0 DEF PartsKept
<1>2. \A h \in DOMAIN m.refs : RefFits(p, h, m.refs[h], more)
  BY DEF Follows, RefFits
<1> QED
  BY <1>1, <1>2 DEF Follows

(* The catalogs, and what they name, when partition manifests are added.   *)
LEMMA CatalogsStable ==
  ASSUME FilesInv, PartsKept, UNCHANGED <<partCurrent, catFiles, catCurrent>>
  PROVE  /\ CatFilesInv'
         /\ CatalogParts(catCurrent)' = CatalogParts(catCurrent)
         /\ \A p \in Hours : HeadRefs(p)' = HeadRefs(p)
         /\ \A b \in ArchiveBlocks : InCatalog(b) => InCatalog(b)'
<1>0. /\ CatFilesInv /\ Len(catFiles) \in Nat /\ catCurrent \in 0..Len(catFiles)
      /\ \A j \in 1..Len(catFiles) : catFiles[j].prev \in 0..j - 1
  BY FileFacts DEF FilesInv, NamesEarlier
<1>1. ASSUME NEW j \in 1..Len(catFiles), NEW p \in DOMAIN catFiles[j].parts
      PROVE  p \in Hours /\ catFiles[j].parts[p] \in 1..Len(partFiles[p])
  <2>1. CatalogParts(j) = catFiles[j].parts
    BY <1>0 DEF CatalogParts
  <2> QED
    BY <1>0, <2>1, CatalogFacts
<1>2. ASSUME NEW j \in 1..Len(catFiles), NEW p \in DOMAIN catFiles[j].parts
      PROVE  catFiles[j].parts[p] \in 1..Len(partFiles'[p])
  <2>1. p \in Hours /\ catFiles[j].parts[p] \in 1..Len(partFiles[p])
    BY <1>1
  <2>2. Len(partFiles[p]) \in Nat /\ Len(partFiles'[p]) \in Nat /\ Len(partFiles[p]) <= Len(partFiles'[p])
    BY <2>1, FileFacts DEF PartsKept
  <2> QED
    BY <2>1, <2>2
<1>3. ASSUME NEW j \in 1..Len(catFiles), catFiles[j].prev # 0
      PROVE  CatalogTransition(catFiles[catFiles[j].prev].parts, catFiles[j].parts)'
  <2>0. catFiles' = catFiles
    OBVIOUS
  <2> DEFINE old == catFiles[catFiles[j].prev].parts
             new == catFiles[j].parts
             changed == {p \in DOMAIN old : p \notin DOMAIN new \/ new[p] # old[p]}
  <2>1. CatalogTransition(old, new)
    BY <1>0, <1>3 DEF CatFilesInv
  <2>2. ASSUME NEW p \in changed
        PROVE  old[p] \in Ancestors(partFiles'[p], new[p])
    <3>1. p \in DOMAIN new /\ old[p] \in Ancestors(partFiles[p], new[p])
      BY <2>1 DEF CatalogTransition
    <3>2. p \in Hours /\ new[p] \in 1..Len(partFiles[p])
      BY <1>1, <3>1
    <3>3. Len(partFiles[p]) \in Nat
      BY <3>2, FileFacts
    <3>4. new[p] \in 0..Len(partFiles[p])
      BY <3>2, <3>3
    <3>5. Ancestors(partFiles'[p], new[p]) = Ancestors(partFiles[p], new[p])
      BY <3>2, <3>4 DEF PartsKept
    <3> QED
      BY <3>1, <3>5
  <2> QED
    BY <2>0, <2>1, <2>2 DEF CatalogTransition
<1>4. CatalogParts(catCurrent)' = CatalogParts(catCurrent)
  BY DEF CatalogParts
<1>5. ASSUME NEW p \in DOMAIN CatalogParts(catCurrent)
      PROVE  CatalogParts(catCurrent)[p] \in Ancestors(partFiles'[p], partCurrent[p])
  <2>1. p \in Hours /\ CatalogParts(catCurrent)[p] \in Ancestors(partFiles[p], partCurrent[p])
    BY <1>0, CatalogFacts DEF CatFilesInv
  <2>2. partCurrent[p] \in 0..Len(partFiles[p])
    BY <2>1, FileFacts
  <2> QED
    BY <2>1, <2>2 DEF PartsKept
<1>6. CatFilesInv'
  BY <1>0, <1>2, <1>3, <1>4, <1>5 DEF CatFilesInv
<1>7. ASSUME NEW p \in Hours PROVE HeadRefs(p)' = HeadRefs(p)
  <2>1. partCurrent[p] \in 0..Len(partFiles[p]) /\ Len(partFiles[p]) \in Nat
    BY FileFacts
  <2>2. CASE partCurrent[p] = 0
    BY <2>2 DEF HeadRefs
  <2>3. CASE partCurrent[p] \in 1..Len(partFiles[p])
    BY <2>1, <2>3 DEF HeadRefs, PartsKept
  <2> QED
    BY <2>1, <2>2, <2>3
<1>8. ASSUME NEW b \in ArchiveBlocks, InCatalog(b) PROVE InCatalog(b)'
  <2>1. b.hour \in DOMAIN CatalogParts(catCurrent)
    BY <1>8 DEF InCatalog
  <2>2. b.hour \in Hours /\ CatalogParts(catCurrent)[b.hour] \in 1..Len(partFiles[b.hour])
    BY <1>0, <2>1, CatalogFacts
  <2>3. partFiles'[b.hour][CatalogParts(catCurrent)[b.hour]] = partFiles[b.hour][CatalogParts(catCurrent)[b.hour]]
    BY <2>2 DEF PartsKept
  <2> QED
    BY <1>4, <1>8, <2>3 DEF InCatalog
<1> QED
  BY <1>4, <1>6, <1>7, <1>8

(* The operation in progress before and after a file operation.            *)
LEMMA OperationStep ==
  ASSUME ArchiveInv, FileStep
  PROVE  /\ FilesInv /\ UNCHANGED receipts
         /\ writing.op \in {"append", "compact"} /\ writing.todo \in Todos /\ writing.todo # <<>>
         /\ writing.hour \in Hours /\ writing.bundle \subseteq ArchiveBlocks
         /\ writing.op = "append" => writing.block \in ArchiveBlocks /\ writing.block.hour = writing.hour
         /\ Left <= 5 => writing.bundle \in objects
         /\ Left <= 4 => writing.bundle \in manifests
         /\ Left >= 3 => PartitionAhead
         /\ Left \in {1, 2} => CatalogAhead
         /\ writing.cat = catCurrent
         /\ DOMAIN writing' = OperationFields
         /\ writing'.op = writing.op /\ writing'.hour = writing.hour /\ writing'.block = writing.block
         /\ writing'.bundle = writing.bundle /\ writing'.part = writing.part
         /\ writing'.cat = writing.cat /\ writing'.todo = Tail(writing.todo)
         /\ writing'.todo \in Todos /\ Left \in 1..6 /\ Left' = Left - 1
         /\ Head(writing.todo) = "object" <=> Left = 6
         /\ Head(writing.todo) = "manifest" <=> Left = 5
         /\ Head(writing.todo) = "partFile" <=> Left = 4
         /\ Head(writing.todo) = "partCurrent" <=> Left = 3
         /\ Head(writing.todo) = "catFile" <=> Left = 2
         /\ Head(writing.todo) = "catCurrent" <=> Left = 1
<1>1. writing.todo # <<>> /\ writing' = [writing EXCEPT !.todo = Tail(@)] /\ UNCHANGED receipts
  BY DEF FileStep
<1>2. writing # Idle
  BY <1>1 DEF Idle
<1>3. FilesInv /\ WritingInv
  BY DEF ArchiveInv
<1>4. /\ DOMAIN writing = OperationFields
      /\ writing.op \in {"append", "compact"} /\ writing.todo \in Todos
      /\ writing.hour \in Hours /\ writing.bundle \subseteq ArchiveBlocks
      /\ writing.op = "append" => writing.block \in ArchiveBlocks /\ writing.block.hour = writing.hour
      /\ Left <= 5 => writing.bundle \in objects
      /\ Left <= 4 => writing.bundle \in manifests
      /\ Left >= 3 => PartitionAhead
      /\ Left \in {1, 2} => CatalogAhead
      /\ writing.cat = catCurrent
  BY <1>1, <1>2, <1>3 DEF WritingInv
<1>5. /\ DOMAIN writing' = OperationFields
      /\ writing'.op = writing.op /\ writing'.hour = writing.hour /\ writing'.block = writing.block
      /\ writing'.bundle = writing.bundle /\ writing'.part = writing.part
      /\ writing'.cat = writing.cat /\ writing'.todo = Tail(writing.todo)
  BY <1>1, <1>4 DEF OperationFields
<1>6. /\ Tail(writing.todo) \in Todos /\ Left \in 1..6
      /\ Len(Tail(writing.todo)) = Left - 1
      /\ Head(writing.todo) = "object" <=> Left = 6
      /\ Head(writing.todo) = "manifest" <=> Left = 5
      /\ Head(writing.todo) = "partFile" <=> Left = 4
      /\ Head(writing.todo) = "partCurrent" <=> Left = 3
      /\ Head(writing.todo) = "catFile" <=> Left = 2
      /\ Head(writing.todo) = "catCurrent" <=> Left = 1
  BY <1>1, <1>4, TodoFacts DEF Left
<1>7. Left' = Left - 1
  BY <1>5, <1>6 DEF Left
<1> QED
  BY <1>1, <1>3, <1>4, <1>5, <1>6, <1>7

(* What is left to show of the operation in progress.                      *)
LEMMA WritingStep ==
  ASSUME ArchiveInv, FileStep, FilesInv',
         Left' <= 5 => writing'.bundle \in objects',
         Left' <= 4 => writing'.bundle \in manifests',
         Left' >= 3 => PartitionAhead',
         Left' \in {1, 2} => CatalogAhead',
         Left' # 0 => catCurrent' = catCurrent,
         Left' = 0 /\ writing'.op = "append" => InCatalog(writing.block)'
  PROVE  ArchiveInv'
<1>0. writing'.todo \in Todos
  BY OperationStep
<1>1. writing'.todo # <<>> => Left' # 0
  BY <1>0, TodoFacts DEF Left
<1>2. writing'.todo = <<>> => Left' = 0
  BY <1>0, TodoFacts DEF Left
<1>3. WritingInv'
  BY <1>1, <1>2, OperationStep DEF WritingInv
<1> QED
  BY <1>3 DEF ArchiveInv

(* write_parquet_object and the block manifest.                            *)
LEMMA BundleStepKeeps ==
  ASSUME ArchiveInv, FileStep, Head(writing.todo) \in {"object", "manifest"}
  PROVE  ArchiveInv'
<1> DEFINE p == writing.hour
           m == writing.part
<1>l. Left = 5 \/ Left = 6
  BY OperationStep
<1>1. /\ FilesInv /\ PartitionAhead /\ p \in Hours
      /\ writing.bundle \subseteq ArchiveBlocks
      /\ Left = 5 => writing.bundle \in objects
  BY <1>l, OperationStep
<1>2. UNCHANGED <<partFiles, partCurrent, catFiles, catCurrent, receipts>>
  BY DEF FileStep
<1>3. /\ Left = 6 => objects' = objects \cup {writing.bundle} /\ manifests' = manifests
      /\ Left = 5 => objects' = objects /\ manifests' = manifests \cup {writing.bundle}
  BY OperationStep DEF FileStep
<1>4. /\ objects' \subseteq SUBSET ArchiveBlocks /\ manifests' \subseteq objects'
      /\ StoredBundles \subseteq StoredBundles'
  BY <1>l, <1>1, <1>3 DEF FilesInv, StoredBundles
<1>5. PartsKept
  BY <1>1, <1>2, FileFacts DEF PartsKept
<1>6. PartFilesInv'
  <2>1. ASSUME NEW q \in Hours, NEW i \in 1..Len(partFiles[q])
        PROVE  Follows(q, partFiles[q][i], StoredBundles)'
    <3>1. Follows(q, partFiles[q][i], StoredBundles) /\ partFiles[q][i].prev \in 0..i - 1
      BY <1>1 DEF FilesInv, PartFilesInv
    <3>2. partFiles[q][i].prev \in 0..Len(partFiles[q])
      BY <1>1, <3>1, FileFacts
    <3> QED
      BY <1>1, <1>2, <1>4, <1>5, <3>1, <3>2, FollowsStable DEF Follows
  <2> QED
    BY <1>1, <1>2, <2>1 DEF FilesInv, PartFilesInv
<1>7. CatFilesInv' /\ \A b \in ArchiveBlocks : InCatalog(b) => InCatalog(b)'
  BY <1>1, <1>2, <1>5, CatalogsStable
<1>8. FilesInv'
  BY <1>1, <1>2, <1>4, <1>6, <1>7 DEF FilesInv
<1>9. PartitionAhead'
  <2>1. /\ m \in PartManifests /\ m.prev = partCurrent[p]
        /\ Follows(p, m, StoredBundles \cup {writing.bundle})
        /\ writing.op = "append" => /\ writing.block.height \in DOMAIN m.refs
                                    /\ m.refs[writing.block.height].block = writing.block
    BY <1>1 DEF PartitionAhead
  <2>2. m.prev \in 0..Len(partFiles[p])
    BY <1>1, <2>1, FileFacts
  <2>3. StoredBundles \cup {writing.bundle} \subseteq StoredBundles' \cup {writing.bundle}
    BY <1>4
  <2>4. /\ IF m.prev = 0 THEN m.kind = "append" ELSE PartitionTransition(partFiles'[p][m.prev], m)
        /\ \A h \in DOMAIN m.refs : RefFits(p, h, m.refs[h], StoredBundles' \cup {writing.bundle})
        /\ m.prev # 0 => Keeps(partFiles'[p][m.prev], m)
    BY <1>1, <1>5, <2>1, <2>2, <2>3, FollowsStable
  <2>5. /\ writing'.hour = p /\ writing'.part = m /\ writing'.bundle = writing.bundle
        /\ writing'.op = writing.op /\ writing'.block = writing.block
        /\ Left' = Left - 1
    BY OperationStep
  <2>6. Follows(writing.hour, writing.part, StoredBundles \cup {writing.bundle})'
    BY <2>4, <2>5 DEF Follows
  <2> QED
    BY <1>l, <1>2, <2>1, <2>5, <2>6 DEF PartitionAhead
<1>10. /\ Left' = 4 \/ Left' = 5
       /\ writing'.bundle \in objects'
       /\ Left' <= 4 => writing'.bundle \in manifests'
  BY <1>l, <1>1, <1>3, OperationStep
<1> QED
  BY <1>2, <1>8, <1>9, <1>10, WritingStep

(* A partition manifest is added that may follow what is there.            *)
LEMMA PartFileAdded ==
  ASSUME FilesInv, NEW p \in Hours, NEW m \in PartManifests, m.prev \in 0..Len(partFiles[p]),
         Follows(p, m, StoredBundles),
         partFiles' = [partFiles EXCEPT ![p] = Append(@, m)],
         UNCHANGED <<objects, manifests, partCurrent, catFiles, catCurrent, receipts>>
  PROVE  FilesInv'
<1>1. /\ partFiles' \in [Hours -> Seq(PartManifests)] /\ PartsKept
      /\ Len(partFiles'[p]) = Len(partFiles[p]) + 1
      /\ partFiles'[p][Len(partFiles[p]) + 1] = m
      /\ \A q \in Hours : NamesEarlier(partFiles'[q])
      /\ \A q \in Hours \ {p} : partFiles'[q] = partFiles[q]
  BY PartAppended
<1>2. PartFilesInv /\ StoredBundles' = StoredBundles
  BY DEF FilesInv, StoredBundles
<1>3. ASSUME NEW q \in Hours, NEW i \in 1..Len(partFiles[q])
      PROVE  /\ partFiles'[q][i].prev \in 0..i - 1
             /\ Follows(q, partFiles[q][i], StoredBundles)'
             /\ \A a \in Ancestors(partFiles'[q], i) : Keeps(partFiles'[q][a], partFiles'[q][i])
  <2>0. Len(partFiles[q]) \in Nat
    BY FileFacts
  <2>1. /\ partFiles[q][i].prev \in 0..i - 1 /\ Follows(q, partFiles[q][i], StoredBundles)
        /\ \A a \in Ancestors(partFiles[q], i) : Keeps(partFiles[q][a], partFiles[q][i])
    BY <1>2 DEF PartFilesInv
  <2>2. partFiles'[q][i] = partFiles[q][i] /\ Ancestors(partFiles'[q], i) = Ancestors(partFiles[q], i)
    BY <1>1, <2>0 DEF PartsKept
  <2>3. partFiles[q][i].prev \in 0..Len(partFiles[q])
    BY <2>0, <2>1
  <2>4. Follows(q, partFiles[q][i], StoredBundles)'
    BY <1>1, <1>2, <2>1, <2>2, <2>3, FollowsStable DEF Follows
  <2>5. Ancestors(partFiles[q], i) \subseteq 1..Len(partFiles[q])
    BY DEF Ancestors
  <2>6. \A a \in Ancestors(partFiles[q], i) : partFiles'[q][a] = partFiles[q][a]
    BY <1>1, <2>5 DEF PartsKept
  <2> QED
    BY <2>1, <2>2, <2>4, <2>6
<1>n. PICK n : n = Len(partFiles[p]) + 1
  OBVIOUS
<1>f. PICK new : new = partFiles'[p]
  OBVIOUS
<1>4. /\ new[n].prev \in 0..n - 1
      /\ Follows(p, partFiles[p][n], StoredBundles)'
      /\ \A a \in Ancestors(new, n) : Keeps(new[a], new[n])
  <2>0. /\ Len(partFiles[p]) \in Nat /\ new \in Seq(PartManifests) /\ NamesEarlier(new)
        /\ Len(new) = n /\ n \in 1..Len(new) /\ new[n] = m
    BY <1>n, <1>f, <1>1, FileFacts
  <2>1. /\ IF m.prev = 0 THEN m.kind = "append" ELSE PartitionTransition(new[m.prev], m)
        /\ \A h \in DOMAIN m.refs : RefFits(p, h, m.refs[h], StoredBundles')
        /\ m.prev # 0 => Keeps(new[m.prev], m)
    BY <1>f, <1>1, <1>2, FollowsStable
  <2>f. Follows(p, partFiles[p][n], StoredBundles)'
    BY <1>f, <2>0, <2>1 DEF Follows
  <2>2. Ancestors(new, n) = {n} \cup Ancestors(new, m.prev)
    BY <2>0, AncestorsStep
  <2>3. Keeps(new[n], new[n])
    BY DEF Keeps
  <2>4. ASSUME NEW a \in Ancestors(new, m.prev) PROVE Keeps(new[a], new[n])
    <3>1. m.prev # 0
      <4>1. Ancestors(new, 0) = {}
        BY <2>0, AncestorsBasic
      <4> QED
        BY <4>1
    <3>2. m.prev \in 1..Len(partFiles[p])
      BY <1>n, <2>0, <3>1
    <3>3. Keeps(new[a], new[m.prev])
      BY <1>f, <1>3, <3>2
    <3>4. Keeps(new[m.prev], new[n])
      BY <2>0, <2>1, <3>1
    <3> QED
      BY <3>3, <3>4 DEF Keeps
  <2>5. new[n].prev \in 0..n - 1
    BY <1>n, <2>0
  <2> QED
    BY <2>f, <2>2, <2>3, <2>4, <2>5
<1>5. ASSUME NEW q \in Hours, NEW i \in 1..Len(partFiles'[q])
      PROVE  /\ partFiles'[q][i].prev \in 0..i - 1
             /\ Follows(q, partFiles[q][i], StoredBundles)'
             /\ \A a \in Ancestors(partFiles'[q], i) : Keeps(partFiles'[q][a], partFiles'[q][i])
  <2>0. Len(partFiles[q]) \in Nat
    BY FileFacts
  <2>1. CASE i \in 1..Len(partFiles[q])
    <3>1. partFiles'[q][i] = partFiles[q][i]
      BY <1>1, <2>1 DEF PartsKept
    <3> QED
      BY <1>3, <2>1, <3>1
  <2>2. CASE q = p /\ i = n
    BY <1>f, <1>4, <2>2
  <2>3. i \in 1..Len(partFiles[q]) \/ (q = p /\ i = n)
    BY <1>n, <1>1, <2>0
  <2> QED
    BY <2>1, <2>2, <2>3
<1>6. \A q \in Hours : partCurrent'[q] \in 0..Len(partFiles'[q])
  <2> SUFFICES ASSUME NEW q \in Hours PROVE partCurrent'[q] \in 0..Len(partFiles'[q])
    OBVIOUS
  <2>1. partCurrent[q] \in 0..Len(partFiles[q]) /\ Len(partFiles[q]) \in Nat
    BY FileFacts
  <2>2. Len(partFiles'[q]) \in Nat /\ Len(partFiles[q]) <= Len(partFiles'[q])
    BY <1>1 DEF PartsKept
  <2> QED
    BY <2>1, <2>2
<1>7. PartFilesInv'
  BY <1>1, <1>2, <1>5, <1>6 DEF PartFilesInv
<1>8. CatFilesInv' /\ \A b \in ArchiveBlocks : InCatalog(b) => InCatalog(b)'
  BY <1>1, CatalogsStable
<1> QED
  BY <1>7, <1>8 DEF FilesInv

(* publish_partition writes the manifest: a new file, or one that an       *)
(* interrupted operation left.                                             *)
LEMMA PartFileStepKeeps ==
  ASSUME ArchiveInv, FileStep, Head(writing.todo) = "partFile"
  PROVE  ArchiveInv'
<1> DEFINE p == writing.hour
           m == writing.part
<1>l. Left = 4 /\ Left' = 3
  BY OperationStep
<1>1. /\ FilesInv /\ PartitionAhead /\ p \in Hours
      /\ writing.bundle \in objects /\ writing.bundle \in manifests
  BY <1>l, OperationStep
<1>2. /\ UNCHANGED <<objects, manifests, partCurrent, catFiles, catCurrent, receipts>>
      /\ partFiles' = [partFiles EXCEPT ![p] = Published(@, m)]
  BY DEF FileStep
<1>3. /\ m \in PartManifests /\ m.prev = partCurrent[p]
      /\ Follows(p, m, StoredBundles \cup {writing.bundle})
      /\ writing.op = "append" => /\ writing.block.height \in DOMAIN m.refs
                                  /\ m.refs[writing.block.height].block = writing.block
  BY <1>1 DEF PartitionAhead
<1>4. StoredBundles \cup {writing.bundle} = StoredBundles /\ StoredBundles' = StoredBundles
  BY <1>1, <1>2 DEF StoredBundles
<1>5. m.prev \in 0..Len(partFiles[p]) /\ Len(partFiles[p]) \in Nat
  BY <1>1, <1>3, FileFacts
<1>6. Follows(p, m, StoredBundles)
  BY <1>3, <1>4
<1>7. partFiles \in [Hours -> Seq(PartManifests)]
  BY <1>1 DEF FilesInv, PartFilesInv
<1>8. FilesInv' /\ PartsKept /\ \E i \in 1..Len(partFiles'[p]) : partFiles'[p][i] = m
  <2>1. CASE Contains(partFiles[p], m)
    <3>1. partFiles' = partFiles
      BY <1>2, <1>7, <2>1 DEF Published
    <3>2. \E i \in 1..Len(partFiles[p]) : partFiles[p][i] = m
      BY <2>1 DEF Contains
    <3>3. FilesInv'
      BY <1>1, <1>2, <3>1, FilesUnchanged DEF FilesInv
    <3>4. PartsKept
      BY <1>1, <3>1, FileFacts DEF PartsKept
    <3> QED
      BY <3>1, <3>2, <3>3, <3>4
  <2>2. CASE ~Contains(partFiles[p], m)
    <3>1. partFiles' = [partFiles EXCEPT ![p] = Append(@, m)]
      BY <1>2, <2>2 DEF Published
    <3>2. FilesInv'
      BY <1>1, <1>2, <1>3, <1>5, <1>6, <3>1, PartFileAdded
    <3>3. /\ PartsKept /\ Len(partFiles'[p]) = Len(partFiles[p]) + 1
          /\ partFiles'[p][Len(partFiles[p]) + 1] = m
      BY <1>1, <1>3, <1>5, <3>1, PartAppended
    <3>4. Len(partFiles[p]) + 1 \in 1..Len(partFiles'[p])
      BY <1>5, <3>3
    <3> QED
      BY <3>2, <3>3, <3>4
  <2> QED
    BY <2>1, <2>2
<1>9. PartitionAhead'
  <2>1. /\ IF m.prev = 0 THEN m.kind = "append" ELSE PartitionTransition(partFiles'[p][m.prev], m)
        /\ \A h \in DOMAIN m.refs : RefFits(p, h, m.refs[h], StoredBundles)
        /\ m.prev # 0 => Keeps(partFiles'[p][m.prev], m)
    BY <1>1, <1>5, <1>6, <1>8, FollowsStable
  <2>2. /\ writing'.hour = p /\ writing'.part = m /\ writing'.bundle = writing.bundle
        /\ writing'.op = writing.op /\ writing'.block = writing.block
    BY OperationStep
  <2>3. Follows(writing.hour, writing.part, StoredBundles \cup {writing.bundle})'
    BY <1>4, <2>1, <2>2 DEF Follows
  <2> QED
    BY <1>2, <1>3, <1>8, <2>2, <2>3 DEF PartitionAhead
<1>10. writing'.bundle = writing.bundle
  BY OperationStep
<1> QED
  BY <1>l, <1>1, <1>2, <1>8, <1>9, <1>10, WritingStep

(* publish_partition replaces CURRENT: the new head follows the old one.   *)
LEMMA PartCurrentStepKeeps ==
  ASSUME ArchiveInv, FileStep, Head(writing.todo) = "partCurrent"
  PROVE  ArchiveInv'
<1> DEFINE p == writing.hour
           m == writing.part
           parts == CatalogParts(catCurrent)
<1>l. Left = 3 /\ Left' = 2
  BY OperationStep
<1>1. /\ FilesInv /\ PartitionAhead /\ p \in Hours /\ writing.bundle \in objects /\ writing.bundle \in manifests
      /\ writing.cat = catCurrent /\ catCurrent \in 0..Len(catFiles)
      /\ DOMAIN parts \subseteq Hours
  BY <1>l, OperationStep, FileFacts, CatalogFacts
<1>2. /\ UNCHANGED <<objects, manifests, partFiles, catFiles, catCurrent, receipts>>
      /\ partCurrent' = [partCurrent EXCEPT ![p] = PlaceOf(partFiles[p], m)]
  BY DEF FileStep
<1>3. PICK i : i = PlaceOf(partFiles[p], m)
  OBVIOUS
<1>4. i \in 1..Len(partFiles[p]) /\ partFiles[p][i] = m /\ m.prev = partCurrent[p]
  BY <1>l, <1>1, <1>3 DEF PartitionAhead, PlaceOf
<1>5. partCurrent \in [Hours -> Nat] /\ partFiles[p] \in Seq(PartManifests) /\ NamesEarlier(partFiles[p])
      /\ Len(partFiles[p]) \in Nat /\ partCurrent[p] \in 0..Len(partFiles[p])
  BY <1>1, FileFacts DEF FilesInv, PartFilesInv
<1>6. partCurrent'[p] = i /\ \A q \in Hours \ {p} : partCurrent'[q] = partCurrent[q]
  BY <1>1, <1>2, <1>3, <1>5
<1>7. /\ partCurrent[p] \in 0..i - 1
      /\ Ancestors(partFiles[p], i) = {i} \cup Ancestors(partFiles[p], partCurrent[p])
      /\ Ancestors(partFiles[p], partCurrent[p]) \subseteq 1..i - 1
  <2>1. partCurrent[p] \in 0..i - 1
    BY <1>4, <1>5 DEF NamesEarlier
  <2>2. Ancestors(partFiles[p], i) = {i} \cup Ancestors(partFiles[p], partCurrent[p])
    BY <1>4, <1>5, AncestorsStep
  <2>3. CASE partCurrent[p] = 0
    BY <1>5, <2>1, <2>2, <2>3, AncestorsBasic
  <2>4. CASE partCurrent[p] # 0
    <3>1. partCurrent[p] \in 1..Len(partFiles[p])
      BY <1>5, <2>4
    <3>2. Ancestors(partFiles[p], partCurrent[p]) \subseteq 1..partCurrent[p]
      BY <1>5, <3>1, AncestorsBasic
    <3>3. 1..partCurrent[p] \subseteq 1..i - 1
      BY <1>4, <1>5, <2>1
    <3> QED
      BY <2>1, <2>2, <3>2, <3>3
  <2> QED
    BY <2>3, <2>4
<1>8. PartFilesInv'
  <2>1. partCurrent' \in [Hours -> Nat] /\ \A q \in Hours : partCurrent'[q] \in 0..Len(partFiles[q])
    BY <1>1, <1>2, <1>3, <1>4, <1>5, <1>6, FileFacts
  <2>2. \A q \in Hours : \A j \in 1..Len(partFiles[q]) : Follows(q, partFiles[q][j], StoredBundles)'
    BY <1>1, <1>2 DEF FilesInv, PartFilesInv, Follows, StoredBundles
  <2> QED
    BY <1>1, <1>2, <2>1, <2>2 DEF FilesInv, PartFilesInv
<1>9. CatalogParts(catCurrent)' = parts
  BY <1>2 DEF CatalogParts
<1>10. CatFilesInv'
  <2>1. ASSUME NEW j \in 1..Len(catFiles), catFiles[j].prev # 0
        PROVE  CatalogTransition(catFiles[catFiles[j].prev].parts, catFiles[j].parts)'
    <3>1. CatalogTransition(catFiles[catFiles[j].prev].parts, catFiles[j].parts)
      BY <1>1, <2>1 DEF FilesInv, CatFilesInv
    <3> QED
      BY <1>2, <3>1 DEF CatalogTransition
  <2>2. ASSUME NEW q \in DOMAIN parts PROVE parts[q] \in Ancestors(partFiles[q], partCurrent'[q])
    <3>1. q \in Hours /\ parts[q] \in Ancestors(partFiles[q], partCurrent[q])
      BY <1>1 DEF FilesInv, CatFilesInv
    <3> QED
      BY <1>6, <1>7, <3>1
  <2> QED
    BY <1>1, <1>2, <1>9, <2>1, <2>2 DEF FilesInv, CatFilesInv
<1>11. FilesInv'
  <2>1. \A b \in receipts : InCatalog(b)'
    BY <1>1, <1>2, <1>9 DEF FilesInv, InCatalog
  <2> QED
    BY <1>1, <1>2, <1>8, <1>10, <2>1 DEF FilesInv
<1>12. CatalogAhead'
  <2>1. writing'.hour = p /\ writing'.op = writing.op /\ writing'.block = writing.block
    BY OperationStep
  <2>2. i # 0 /\ HeadRefs(writing.hour)' = m.refs
    BY <1>2, <1>4, <1>6, <2>1 DEF HeadRefs
  <2>3. ~CatalogReferences(writing.hour)'
    <3>1. ASSUME p \in DOMAIN parts, parts[p] = i PROVE FALSE
      <4>1. i \in Ancestors(partFiles[p], partCurrent[p])
        BY <1>1, <3>1 DEF FilesInv, CatFilesInv
      <4> QED
        BY <1>4, <1>5, <1>7, <4>1
    <3> QED
      BY <1>6, <1>9, <2>1, <3>1 DEF CatalogReferences
  <2>4. writing.op = "append" => /\ writing.block.height \in DOMAIN m.refs
                                 /\ m.refs[writing.block.height].block = writing.block
    BY <1>1 DEF PartitionAhead
  <2> QED
    BY <1>l, <1>6, <2>1, <2>2, <2>3, <2>4 DEF CatalogAhead
<1>13. writing'.bundle = writing.bundle
  BY OperationStep
<1> QED
  BY <1>l, <1>1, <1>2, <1>11, <1>12, <1>13, WritingStep

(* The catalog an operation is about to publish: one partition advances to *)
(* its head, or is added.                                                  *)
LEMMA NewCatalogFacts ==
  ASSUME FilesInv, writing.hour \in Hours, writing.cat = catCurrent, CatalogAhead
  PROVE  /\ NewCatalog \in CatManifests /\ NewCatalog.prev = catCurrent
         /\ DOMAIN NewCatalog.parts = DOMAIN CatalogParts(catCurrent) \cup {writing.hour}
         /\ NewCatalog.parts[writing.hour] = partCurrent[writing.hour]
         /\ \A p \in DOMAIN CatalogParts(catCurrent) \ {writing.hour} :
              NewCatalog.parts[p] = CatalogParts(catCurrent)[p]
         /\ \A p \in DOMAIN NewCatalog.parts : NewCatalog.parts[p] \in 1..Len(partFiles[p])
         /\ CatalogTransition(CatalogParts(catCurrent), NewCatalog.parts)
<1> DEFINE p == writing.hour
           old == CatalogParts(catCurrent)
           D == DOMAIN old \cup {p}
           new == [q \in D |-> IF q = p THEN partCurrent[p] ELSE old[q]]
<1>1. NewCatalog = [prev |-> catCurrent, parts |-> new]
  BY DEF NewCatalog
<1>2. /\ catCurrent \in 0..Len(catFiles) /\ Len(catFiles) \in Nat
      /\ DOMAIN old \subseteq Hours /\ \A q \in DOMAIN old : old[q] \in 1..Len(partFiles[q])
      /\ old \in [DOMAIN old -> Nat]
  BY FileFacts, CatalogFacts
<1>3. partCurrent[p] \in 1..Len(partFiles[p]) /\ partCurrent[p] \in Nat
  <2>1. partCurrent[p] \in 0..Len(partFiles[p]) /\ Len(partFiles[p]) \in Nat /\ partCurrent[p] # 0
    BY FileFacts DEF CatalogAhead
  <2> QED
    BY <2>1
<1>4. p \in DOMAIN old => old[p] # partCurrent[p] /\ old[p] \in Ancestors(partFiles[p], partCurrent[p])
  BY DEF CatalogAhead, CatalogReferences, FilesInv, CatFilesInv
<1> HIDE DEF old
<1>5. /\ DOMAIN new = D /\ new[p] = partCurrent[p] /\ \A q \in DOMAIN old \ {p} : new[q] = old[q]
      /\ \A q \in D : new[q] \in 1..Len(partFiles[q])
      /\ new \in [D -> Nat] /\ D \in SUBSET Hours
  BY <1>2, <1>3
<1> HIDE DEF new
<1>6. NewCatalog \in CatManifests
  <2>1. new \in UNION {[E -> Nat] : E \in SUBSET Hours}
    BY <1>5
  <2>2. catCurrent \in Nat
    BY <1>2
  <2> QED
    BY <1>1, <2>1, <2>2 DEF CatManifests
<1>7. CatalogTransition(old, new)
  <2> DEFINE changed == {q \in DOMAIN old : q \notin DOMAIN new \/ new[q] # old[q]}
             added == DOMAIN new \ DOMAIN old
  <2>1. Cardinality({}) = 0 /\ Cardinality({p}) = 1
    BY FS_EmptySet, FS_Singleton, Zenon
  <2>2. CASE p \in DOMAIN old
    <3>1. changed = {p} /\ added = {}
      BY <1>4, <1>5, <2>2
    <3>2. Cardinality(changed) + Cardinality(added) = 1
      BY <2>1, <3>1
    <3>3. \A q \in changed : old[q] \in Ancestors(partFiles[q], new[q])
      BY <1>4, <1>5, <2>2, <3>1
    <3> QED
      BY <1>5, <3>1, <3>2, <3>3 DEF CatalogTransition
  <2>3. CASE p \notin DOMAIN old
    <3>1. changed = {} /\ added = {p}
      BY <1>5, <2>3
    <3>2. Cardinality(changed) + Cardinality(added) = 1
      BY <2>1, <3>1
    <3> QED
      BY <3>1, <3>2 DEF CatalogTransition
  <2> QED
    BY <2>2, <2>3
<1>8. NewCatalog.parts = new /\ NewCatalog.prev = catCurrent
  BY <1>1
<1> QED
  BY <1>5, <1>6, <1>7, <1>8 DEF old

(* The catalogs when a catalog manifest is added.                          *)
LEMMA CatalogPartsKept ==
  ASSUME FilesInv, NEW new \in CatManifests,
         catFiles' = catFiles \/ catFiles' = Append(catFiles, new)
  PROVE  \A c \in 0..Len(catFiles) : CatalogParts(c)' = CatalogParts(c)
<1>1. catFiles \in Seq(CatManifests) /\ Len(catFiles) \in Nat
  BY FileFacts
<1>2. \A j \in 1..Len(catFiles) : Append(catFiles, new)[j] = catFiles[j]
  BY <1>1, AppendProperties
<1> SUFFICES ASSUME NEW c \in 0..Len(catFiles) PROVE CatalogParts(c)' = CatalogParts(c)
  OBVIOUS
<1>3. CASE c = 0
  BY <1>3 DEF CatalogParts
<1>4. CASE c \in 1..Len(catFiles)
  BY <1>1, <1>2, <1>4 DEF CatalogParts
<1> QED
  BY <1>1, <1>3, <1>4

(* publish_catalog writes the catalog manifest ...                         *)
LEMMA CatFileStepKeeps ==
  ASSUME ArchiveInv, FileStep, Head(writing.todo) = "catFile"
  PROVE  ArchiveInv'
<1> DEFINE p == writing.hour
<1>l. Left = 2 /\ Left' = 1
  BY OperationStep
<1>1. /\ FilesInv /\ CatalogAhead /\ p \in Hours /\ writing.cat = catCurrent
      /\ writing.bundle \in objects /\ writing.bundle \in manifests
  BY <1>l, OperationStep
<1>2. /\ UNCHANGED <<objects, manifests, partFiles, partCurrent, catCurrent, receipts>>
      /\ catFiles' = Published(catFiles, NewCatalog)
  BY DEF FileStep
<1>3. PICK new : new = NewCatalog
  OBVIOUS
<1>4. /\ new \in CatManifests /\ new.prev = catCurrent
      /\ \A q \in DOMAIN new.parts : new.parts[q] \in 1..Len(partFiles[q])
      /\ CatalogTransition(CatalogParts(catCurrent), new.parts)
  BY <1>1, <1>3, NewCatalogFacts
<1>5. /\ catFiles \in Seq(CatManifests) /\ Len(catFiles) \in Nat /\ catCurrent \in 0..Len(catFiles)
      /\ NamesEarlier(catFiles)
  BY <1>1, FileFacts
<1>6. catFiles' = catFiles \/ catFiles' = Append(catFiles, new)
  BY <1>2, <1>3 DEF Published
<1>7. /\ catFiles' \in Seq(CatManifests) /\ Len(catFiles') \in Nat /\ Len(catFiles) <= Len(catFiles')
      /\ \A j \in 1..Len(catFiles) : catFiles'[j] = catFiles[j]
      /\ \E j \in 1..Len(catFiles') : catFiles'[j] = new
      /\ \A j \in 1..Len(catFiles') : j \in 1..Len(catFiles) \/ (j = Len(catFiles) + 1 /\ catFiles'[j] = new)
  <2>1. CASE Contains(catFiles, new)
    <3>1. catFiles' = catFiles
      BY <1>2, <1>3, <2>1 DEF Published
    <3>2. \E j \in 1..Len(catFiles) : catFiles[j] = new
      BY <2>1 DEF Contains
    <3> QED
      BY <1>5, <3>1, <3>2
  <2>2. CASE ~Contains(catFiles, new)
    <3>1. catFiles' = Append(catFiles, new)
      BY <1>2, <1>3, <2>2 DEF Published
    <3>2. /\ Append(catFiles, new) \in Seq(CatManifests)
          /\ Len(Append(catFiles, new)) = Len(catFiles) + 1
          /\ Append(catFiles, new)[Len(catFiles) + 1] = new
          /\ \A j \in 1..Len(catFiles) : Append(catFiles, new)[j] = catFiles[j]
      BY <1>4, <1>5, AppendProperties
    <3>3. Len(catFiles) + 1 \in 1..Len(catFiles')
      BY <1>5, <3>1, <3>2
    <3>4. \A j \in 1..Len(catFiles') : j \in 1..Len(catFiles) \/ (j = Len(catFiles) + 1 /\ catFiles'[j] = new)
      BY <1>5, <3>1, <3>2
    <3> QED
      BY <1>5, <3>1, <3>2, <3>3, <3>4
  <2> QED
    BY <2>1, <2>2
<1>8. \A c \in 0..Len(catFiles) : CatalogParts(c)' = CatalogParts(c)
  BY <1>1, <1>4, <1>6, CatalogPartsKept
<1>9. ASSUME NEW j \in 1..Len(catFiles')
      PROVE  /\ catFiles'[j].prev \in 0..j - 1
             /\ \A q \in DOMAIN catFiles'[j].parts : catFiles'[j].parts[q] \in 1..Len(partFiles[q])
             /\ catFiles'[j].prev # 0 =>
                  CatalogTransition(catFiles[catFiles[j].prev].parts, catFiles[j].parts)'
  <2>1. CASE j \in 1..Len(catFiles)
    <3>1. /\ catFiles[j].prev \in 0..j - 1
          /\ \A q \in DOMAIN catFiles[j].parts : catFiles[j].parts[q] \in 1..Len(partFiles[q])
          /\ catFiles[j].prev # 0 =>
               CatalogTransition(catFiles[catFiles[j].prev].parts, catFiles[j].parts)
      BY <1>1, <2>1 DEF FilesInv, CatFilesInv
    <3>2. catFiles'[j] = catFiles[j]
      BY <1>7, <2>1
    <3>3. catFiles[j].prev # 0 => catFiles'[catFiles[j].prev] = catFiles[catFiles[j].prev]
      BY <1>5, <1>7, <2>1, <3>1
    <3> QED
      BY <1>2, <3>1, <3>2, <3>3 DEF CatalogTransition
  <2>2. CASE j = Len(catFiles) + 1 /\ catFiles'[j] = new
    <3>1. catFiles'[j].prev \in 0..j - 1
      BY <1>4, <1>5, <2>2
    <3>2. ASSUME catFiles'[j].prev # 0
          PROVE  CatalogTransition(catFiles[catFiles[j].prev].parts, catFiles[j].parts)'
      <4>1. catCurrent \in 1..Len(catFiles) /\ catFiles'[j].prev = catCurrent
        BY <1>4, <1>5, <2>2, <3>2
      <4>2. CatalogParts(catCurrent) = catFiles[catCurrent].parts /\ catFiles'[catCurrent] = catFiles[catCurrent]
        BY <1>5, <1>7, <4>1 DEF CatalogParts
      <4>3. CatalogTransition(catFiles'[catCurrent].parts, catFiles'[j].parts)
        BY <1>4, <2>2, <4>2
      <4> QED
        BY <1>2, <4>1, <4>3 DEF CatalogTransition
    <3> QED
      BY <1>4, <2>2, <3>1, <3>2
  <2> QED
    BY <1>7, <2>1, <2>2
<1>10. CatalogParts(catCurrent)' = CatalogParts(catCurrent)
  BY <1>2, <1>5, <1>8
<1>11. CatFilesInv'
  <2>1. catCurrent' \in 0..Len(catFiles')
    BY <1>2, <1>5, <1>7
  <2> QED
    BY <1>1, <1>2, <1>7, <1>9, <1>10, <2>1 DEF FilesInv, CatFilesInv
<1>12. PartFilesInv'
  BY <1>1, <1>2 DEF FilesInv, PartFilesInv, Follows, StoredBundles
<1>13. FilesInv'
  BY <1>1, <1>2, <1>10, <1>11, <1>12 DEF FilesInv, InCatalog
<1>14. CatalogAhead'
  <2>1. /\ writing'.hour = p /\ writing'.op = writing.op /\ writing'.block = writing.block
        /\ writing'.cat = catCurrent
    BY <1>1, OperationStep
  <2>2. CatalogParts(writing.cat)' = CatalogParts(catCurrent)
    BY <1>2, <1>10, <2>1
  <2>3. NewCatalog' = new
    BY <1>1, <1>2, <1>3, <2>1, <2>2 DEF NewCatalog
  <2>4. CatalogReferences(writing.hour)' = CatalogReferences(writing.hour)
    BY <1>2, <1>10, <2>1 DEF CatalogReferences
  <2>5. HeadRefs(writing.hour)' = HeadRefs(writing.hour)
    BY <1>2, <2>1 DEF HeadRefs
  <2> QED
    BY <1>1, <1>2, <1>7, <2>1, <2>3, <2>4, <2>5 DEF CatalogAhead
<1>15. writing'.bundle = writing.bundle
  BY OperationStep
<1> QED
  BY <1>l, <1>1, <1>2, <1>13, <1>14, <1>15, WritingStep

(* ... and replaces CURRENT: a block the old catalog had is in the new     *)
(* one, since the partition head keeps what its ancestors have.            *)
LEMMA CatCurrentStepKeeps ==
  ASSUME ArchiveInv, FileStep, Head(writing.todo) = "catCurrent"
  PROVE  ArchiveInv'
<1> DEFINE p == writing.hour
           old == CatalogParts(catCurrent)
<1>l. Left = 1 /\ Left' = 0
  BY OperationStep
<1>1. /\ FilesInv /\ CatalogAhead /\ p \in Hours /\ writing.cat = catCurrent
      /\ writing.bundle \in objects /\ writing.bundle \in manifests
      /\ writing.op = "append" => writing.block \in ArchiveBlocks /\ writing.block.hour = p
  BY <1>l, OperationStep
<1>2. /\ UNCHANGED <<objects, manifests, partFiles, partCurrent, catFiles, receipts>>
      /\ catCurrent' = PlaceOf(catFiles, NewCatalog)
  BY DEF FileStep
<1>3. PICK new : new = NewCatalog
  OBVIOUS
<1>4. catCurrent' \in 1..Len(catFiles) /\ catFiles[catCurrent'] = new
  BY <1>l, <1>1, <1>2, <1>3 DEF CatalogAhead, PlaceOf
<1>5. /\ DOMAIN new.parts = DOMAIN old \cup {p} /\ new.parts[p] = partCurrent[p]
      /\ \A q \in DOMAIN old \ {p} : new.parts[q] = old[q]
  BY <1>1, <1>3, NewCatalogFacts
<1>6. /\ Len(catFiles) \in Nat /\ partFiles[p] \in Seq(PartManifests) /\ NamesEarlier(partFiles[p])
      /\ partCurrent[p] \in 1..Len(partFiles[p])
  BY <1>1, FileFacts DEF CatalogAhead
<1>7. CatalogParts(catCurrent)' = new.parts
  BY <1>2, <1>4, <1>6 DEF CatalogParts
<1>8. HeadRefs(p) = partFiles[p][partCurrent[p]].refs
  BY <1>6 DEF HeadRefs
<1>9. \A q \in DOMAIN old : old[q] \in Ancestors(partFiles[q], partCurrent[q])
  BY <1>1 DEF FilesInv, CatFilesInv
<1>10. CatFilesInv'
  <2>1. ASSUME NEW q \in DOMAIN new.parts PROVE new.parts[q] \in Ancestors(partFiles[q], partCurrent[q])
    <3>1. CASE q = p
      BY <1>5, <1>6, <3>1, AncestorsBasic
    <3>2. CASE q # p
      BY <1>5, <1>9, <3>2
    <3> QED
      BY <3>1, <3>2
  <2>2. ASSUME NEW j \in 1..Len(catFiles), catFiles[j].prev # 0
        PROVE  CatalogTransition(catFiles[catFiles[j].prev].parts, catFiles[j].parts)'
    <3>1. CatalogTransition(catFiles[catFiles[j].prev].parts, catFiles[j].parts)
      BY <1>1, <2>2 DEF FilesInv, CatFilesInv
    <3> QED
      BY <1>2, <3>1 DEF CatalogTransition
  <2>3. catCurrent' \in 0..Len(catFiles)
    BY <1>4, <1>6
  <2> QED
    BY <1>1, <1>2, <1>7, <2>1, <2>2, <2>3 DEF FilesInv, CatFilesInv
<1>11. PartFilesInv'
  BY <1>1, <1>2 DEF FilesInv, PartFilesInv, Follows, StoredBundles
<1>12. ASSUME NEW b \in ArchiveBlocks, InCatalog(b) PROVE InCatalog(b)'
  <2>1. /\ b.hour \in DOMAIN old
        /\ b.height \in DOMAIN partFiles[b.hour][old[b.hour]].refs
        /\ partFiles[b.hour][old[b.hour]].refs[b.height].block = b
    BY <1>12 DEF InCatalog
  <2>2. CASE b.hour # p
    BY <1>2, <1>5, <1>7, <2>1, <2>2 DEF InCatalog
  <2>3. CASE b.hour = p
    <3>1. Keeps(partFiles[p][old[p]], partFiles[p][partCurrent[p]])
      BY <1>1, <1>6, <1>9, <2>1, <2>3 DEF FilesInv, PartFilesInv
    <3>2. /\ b.height \in DOMAIN partFiles[p][partCurrent[p]].refs
          /\ partFiles[p][partCurrent[p]].refs[b.height].block = b
      BY <2>1, <2>3, <3>1 DEF Keeps
    <3> QED
      BY <1>2, <1>5, <1>7, <2>3, <3>2 DEF InCatalog
  <2> QED
    BY <2>2, <2>3
<1>13. FilesInv'
  BY <1>1, <1>2, <1>10, <1>11, <1>12 DEF FilesInv
<1>14. ASSUME writing.op = "append" PROVE InCatalog(writing.block)'
  <2>1. writing'.block = writing.block
    BY OperationStep
  <2>2. /\ writing.block.hour = p /\ writing.block.height \in DOMAIN HeadRefs(p)
        /\ HeadRefs(p)[writing.block.height].block = writing.block
    BY <1>1, <1>14 DEF CatalogAhead
  <2> QED
    BY <1>2, <1>5, <1>7, <1>8, <2>1, <2>2 DEF InCatalog
<1>15. writing'.bundle = writing.bundle /\ writing'.op = writing.op
  BY OperationStep
<1> QED
  BY <1>l, <1>1, <1>2, <1>13, <1>14, <1>15, WritingStep

(* Every file an operation writes keeps the invariant.                     *)
LEMMA FileStepKeeps ==
  ASSUME ArchiveInv, FileStep
  PROVE  ArchiveInv'
<1>1. Head(writing.todo) \in {"object", "manifest", "partFile", "partCurrent", "catFile", "catCurrent"}
  <2>1. \/ Left = 1 \/ Left = 2 \/ Left = 3 \/ Left = 4 \/ Left = 5 \/ Left = 6
    BY OperationStep
  <2> QED
    BY <2>1, OperationStep
<1> QED
  BY <1>1, BundleStepKeeps, PartFileStepKeeps, PartCurrentStepKeeps, CatFileStepKeeps,
     CatCurrentStepKeeps

-----------------------------------------------------------------------------
(* What holds of every file, whatever was interrupted, and of the          *)
(* operation in progress: append_block, compact_range and the steps of     *)
(* publish_partition and publish_catalog keep it.                          *)
THEOREM ArchiveInvariant == ArchiveSpec => []ArchiveInv
<1>1. ArchiveInit => ArchiveInv
  <2> SUFFICES ASSUME ArchiveInit PROVE ArchiveInv
    OBVIOUS
  <2>1. \A p \in Hours : partFiles[p] = <<>> /\ partCurrent[p] = 0
    BY DEF ArchiveInit
  <2>2. Len(<<>>) = 0 /\ catFiles = <<>> /\ catCurrent = 0
    BY DEF ArchiveInit
  <2>3. PartFilesInv
    <3>1. partFiles \in [Hours -> Seq(PartManifests)] /\ partCurrent \in [Hours -> Nat]
      BY DEF ArchiveInit
    <3> QED
      BY <2>1, <2>2, <3>1 DEF PartFilesInv
  <2>4. CatFilesInv
    BY <2>2 DEF CatFilesInv, CatalogParts
  <2> QED
    BY <2>3, <2>4 DEF ArchiveInit, ArchiveInv, FilesInv, WritingInv
<1>2. ArchiveInv /\ [ArchiveNext]_archiveVars => ArchiveInv'
  <2> SUFFICES ASSUME ArchiveInv, [ArchiveNext]_archiveVars PROVE ArchiveInv'
    OBVIOUS
  <2>1. CASE UNCHANGED archiveVars
    <3>1. FilesInv'
      BY <2>1, FilesUnchanged DEF archiveVars, ArchiveInv, FilesInv
    <3>2. Left' = Left /\ (\A c : CatalogParts(c)' = CatalogParts(c)) /\ writing' = writing
          /\ UNCHANGED <<objects, manifests, catCurrent>>
      BY <2>1 DEF archiveVars, Left, CatalogParts
    <3>3. PartitionAhead' = PartitionAhead
      BY <2>1, <3>2 DEF archiveVars, PartitionAhead, Follows, StoredBundles
    <3>4. CatalogAhead' = CatalogAhead
      <4>1. NewCatalog' = NewCatalog /\ \A p : HeadRefs(p)' = HeadRefs(p)
        BY <2>1, <3>2 DEF archiveVars, NewCatalog, HeadRefs
      <4>2. CatalogReferences(writing.hour)' = CatalogReferences(writing.hour)
        BY <2>1, <3>2 DEF archiveVars, CatalogReferences
      <4>3. HeadRefs(writing.hour)' = HeadRefs(writing.hour)
        BY <2>1 DEF archiveVars, HeadRefs
      <4> QED
        BY <2>1, <3>2, <4>1, <4>2, <4>3 DEF archiveVars, CatalogAhead
    <3>5. InCatalog(writing.block)' = InCatalog(writing.block)
      BY <2>1 DEF archiveVars, InCatalog, CatalogParts
    <3>6. WritingInv'
      <4>1. WritingInv
        BY DEF ArchiveInv
      <4> QED
        BY <3>2, <3>3, <3>4, <3>5, <4>1 DEF WritingInv
    <3> QED
      BY <3>1, <3>6 DEF ArchiveInv
  <2> QED
    BY <2>1, AppendNewKeeps, AppendExistingKeeps, CompactKeeps, FileStepKeeps, FinishKeeps,
       ArchiveCrashKeeps DEF ArchiveNext
<1> QED
  BY <1>1, <1>2, PTL DEF ArchiveSpec

-----------------------------------------------------------------------------
(* Every chain of manifests on disk verifies.                              *)
LEMMA ChainsVerify ==
  ASSUME FilesInv
  PROVE  /\ \A p \in Hours : \A i : PartitionVerifies(p, i)
         /\ \A c : CatalogVerifies(c)
<1>1. ASSUME NEW p \in Hours, NEW i, NEW j \in Ancestors(partFiles[p], i)
      PROVE  LET new == partFiles[p][j]
             IN  IF new.prev = 0 THEN new.kind = "append"
                 ELSE PartitionTransition(partFiles[p][new.prev], new)
  <2>1. j \in 1..Len(partFiles[p])
    BY DEF Ancestors
  <2>2. Follows(p, partFiles[p][j], StoredBundles)
    BY <2>1 DEF FilesInv, PartFilesInv
  <2> QED
    BY <2>2 DEF Follows
<1>2. ASSUME NEW c, NEW j \in Ancestors(catFiles, c)
      PROVE  catFiles[j].prev # 0 =>
               CatalogTransition(catFiles[catFiles[j].prev].parts, catFiles[j].parts)
  <2>1. j \in 1..Len(catFiles)
    BY DEF Ancestors
  <2> QED
    BY <2>1 DEF FilesInv, CatFilesInv
<1> QED
  BY <1>1, <1>2 DEF PartitionVerifies, CatalogVerifies

(* load_current_catalog and load_current_partition succeed.                *)
LEMMA ChainsLoad ==
  ASSUME FilesInv
  PROVE  AlwaysLoads
<1>1. \A p \in DOMAIN CatalogParts(catCurrent) :
        CatalogParts(catCurrent)[p] \in Ancestors(partFiles[p], partCurrent[p])
  BY DEF FilesInv, CatFilesInv
<1> QED
  BY <1>1, ChainsVerify DEF AlwaysLoads, LoadsFor

(* A height that any catalog refers to once is readable through it.        *)
LEMMA OnceIsReadable ==
  ASSUME FilesInv, NEW c \in 1..Len(catFiles), NEW h \in Nat,
         Cardinality(References(c, h, h)) = 1
  PROVE  Readable(c, h, h)
<1>0. c \in 0..Len(catFiles) /\ c # 0
  BY FileFacts
<1>1. CatalogVerifies(c) /\ \A p \in DOMAIN CatalogParts(c) : PartitionVerifies(p, CatalogParts(c)[p])
  BY <1>0, ChainsVerify, CatalogFacts
<1>2. ASSUME NEW k \in h..h PROVE {r \in References(c, h, h) : r[2] = k} = References(c, h, h)
  <2>1. \A r \in References(c, h, h) : r[2] \in h..h
    BY <1>0, ReferenceFacts
  <2>2. k = h /\ \A n \in h..h : n = h
    OBVIOUS
  <2> QED
    BY <2>1, <2>2
<1>3. ASSUME NEW r \in References(c, h, h)
      PROVE  BundleVerifies(ReferencedBy(c, r).bundle) /\ ReferencedBy(c, r).block \in ReferencedBy(c, r).bundle
  <2>1. RefFits(r[1], r[2], ReferencedBy(c, r), StoredBundles)
    BY <1>0, ReferenceFacts
  <2> QED
    BY <2>1 DEF RefFits, StoredBundles, BundleVerifies
<1>4. \A k \in h..h : Cardinality({r \in References(c, h, h) : r[2] = k}) = 1
  BY <1>2
<1> QED
  BY <1>0, <1>1, <1>3, <1>4 DEF Readable

(* A partition that the current catalog refers a height to has it at its   *)
(* head.                                                                   *)
LEMMA AtHead ==
  ASSUME FilesInv, NEW q \in DOMAIN CatalogParts(catCurrent), NEW h,
         h \in DOMAIN partFiles[q][CatalogParts(catCurrent)[q]].refs
  PROVE  q \in Hours /\ h \in DOMAIN HeadRefs(q)
<1> DEFINE i == CatalogParts(catCurrent)[q]
<1>1. q \in Hours
  BY FileFacts, CatalogFacts
<1>2. i \in Ancestors(partFiles[q], partCurrent[q])
  BY DEF FilesInv, CatFilesInv
<1>3. /\ partFiles[q] \in Seq(PartManifests) /\ NamesEarlier(partFiles[q])
      /\ Len(partFiles[q]) \in Nat /\ partCurrent[q] \in 0..Len(partFiles[q])
  BY <1>1, FileFacts
<1>4. partCurrent[q] # 0
  <2>1. Ancestors(partFiles[q], 0) = {}
    BY <1>3, AncestorsBasic
  <2> QED
    BY <1>2, <2>1
<1>5. Keeps(partFiles[q][i], partFiles[q][partCurrent[q]])
  BY <1>1, <1>2, <1>3, <1>4 DEF FilesInv, PartFilesInv
<1> QED
  BY <1>1, <1>4, <1>5 DEF Keeps, HeadRefs

(* A block with a receipt is what the current catalog gives for its        *)
(* height, unless the height was filed under two hours.                    *)
LEMMA ReceiptIsReadable ==
  ASSUME FilesInv, NEW b \in receipts, ~FiledTwice(b.height)
  PROVE  /\ Readable(catCurrent, b.height, b.height)
         /\ ReadRange(catCurrent, b.height, b.height) = {b}
<1> DEFINE c == catCurrent
           parts == CatalogParts(c)
           h == b.height
           p == b.hour
<1>1. /\ b \in ArchiveBlocks /\ p \in DOMAIN parts
      /\ h \in DOMAIN partFiles[p][parts[p]].refs /\ partFiles[p][parts[p]].refs[h].block = b
  BY DEF FilesInv, InCatalog
<1>2. h \in Nat /\ p \in Hours
  BY <1>1 DEF ArchiveBlocks, BlockHeights
<1>3. c \in 1..Len(catFiles)
  <2>1. c \in 0..Len(catFiles) /\ Len(catFiles) \in Nat
    BY FileFacts
  <2>2. c # 0
    BY <1>1 DEF CatalogParts
  <2> QED
    BY <2>1, <2>2
<1>4. ASSUME NEW q \in DOMAIN parts, h \in DOMAIN partFiles[q][parts[q]].refs
      PROVE  q = p
  <2> SUFFICES ASSUME q # p PROVE FALSE
    OBVIOUS
  <2> DEFINE S == {x \in Hours : h \in DOMAIN HeadRefs(x)}
  <2>1. q \in S /\ p \in S
    BY <1>1, <1>4, AtHead
  <2>2. IsFiniteSet(S)
    BY ArchiveConstants, FS_Subset
  <2>3. ~(Cardinality(S) > 1)
    BY DEF FiledTwice
  <2> HIDE DEF S
  <2>4. IsFiniteSet({q}) /\ Cardinality({q}) = 1
    BY FS_Singleton, Zenon
  <2>5. Cardinality({q} \cup {p}) = 2
    <3>1. Cardinality({q} \cup {p}) = Cardinality({q}) + 1
      BY <2>4, FS_AddElement
    <3> QED
      BY <2>4, <3>1
  <2>6. Cardinality({q} \cup {p}) <= Cardinality(S)
    <3>1. {q} \cup {p} \in SUBSET S
      BY <2>1
    <3> QED
      BY <2>2, <3>1, FS_Subset
  <2>7. Cardinality(S) \in Nat
    BY <2>2, FS_CardinalityType
  <2> QED
    BY <2>3, <2>5, <2>6, <2>7
<1>5. References(c, h, h) = {<<p, h>>}
  <2>1. <<p, h>> \in References(c, h, h)
    BY <1>1, <1>2 DEF References
  <2>2. ASSUME NEW r \in References(c, h, h) PROVE r = <<p, h>>
    <3>1. /\ r \in (DOMAIN parts) \X (h..h)
          /\ r[2] \in DOMAIN partFiles[r[1]][parts[r[1]]].refs
      BY DEF References
    <3>2. r[1] \in DOMAIN parts /\ r[2] = h /\ r = <<r[1], r[2]>>
      BY <1>2, <3>1
    <3>3. r[1] = p
      BY <1>4, <3>1, <3>2
    <3> QED
      BY <3>2, <3>3
  <2> QED
    BY <2>1, <2>2
<1>6. Cardinality(References(c, h, h)) = 1
  <2>1. Cardinality({<<p, h>>}) = 1
    BY FS_Singleton, Zenon
  <2> QED
    BY <1>5, <2>1
<1>7. Readable(c, h, h)
  BY <1>2, <1>3, <1>6, OnceIsReadable
<1>8. ReferencedBy(c, <<p, h>>).block = b
  BY <1>1 DEF ReferencedBy
<1>9. ReadRange(c, h, h) = {b}
  BY <1>5, <1>8 DEF ReadRange
<1> QED
  BY <1>7, <1>9

(* append_block, compact_range and read_range together, for any number of  *)
(* manifests and interruptions: every chain verifies, an interrupted       *)
(* operation never keeps the next one from loading, a catalog that was     *)
(* ever current still reads, and a block with a receipt is given back.     *)
THEOREM ArchiveIsSafe == ArchiveSpec => []ArchiveSafe
<1>1. ArchiveInv => ArchiveSafe
  <2> SUFFICES ASSUME FilesInv PROVE ArchiveSafe
    BY DEF ArchiveInv
  <2>1. ArchiveTypeOK
    BY FileFacts DEF FilesInv, ArchiveTypeOK
  <2>2. ReceiptsReadable
    BY ReceiptIsReadable DEF ReceiptsReadable
  <2>3. OldCatalogsRead
    <3>1. ASSUME NEW c \in Ancestors(catFiles, catCurrent), NEW h \in BlockHeights,
                 Cardinality(References(c, h, h)) = 1
          PROVE  Readable(c, h, h)
      <4>1. c \in 1..Len(catFiles) /\ h \in Nat
        BY DEF Ancestors, BlockHeights
      <4> QED
        BY <3>1, <4>1, OnceIsReadable
    <3> QED
      BY <3>1 DEF OldCatalogsRead
  <2> QED
    BY <2>1, <2>2, <2>3, ChainsLoad DEF ArchiveSafe
<1> QED
  BY <1>1, ArchiveInvariant, PTL
=============================================================================
