------------------------------ MODULE MCStores ------------------------------
(***************************************************************************)
(* The durable stores. They share no state; each has its own instance.     *)
(* The initial state chooses one, and only its actions follow: every       *)
(* behaviour of every component's specification is a behaviour here, so a  *)
(* property of a component that holds here holds of the component.         *)
(***************************************************************************)
EXTENDS CaptureProgress, SourceSpool, CanonicalArchive, RawArchive

CONSTANT MaxAcked   \* bound: records the spool acknowledges

VARIABLE component  \* the component this behaviour is about

(* The middle block of the journal has an event besides its marker.        *)
MCEventCount == [h \in Heights |-> IF h = FirstHeight + 1 THEN 1 ELSE 0]

MCInit ==
    /\ component \in {"progress", "spool", "archive", "raw"}
    /\ ProgressInit /\ SpoolInit /\ ArchiveInit /\ RawInit

MCNext ==
    \/ /\ component = "progress" /\ ProgressNext
       /\ UNCHANGED <<component, spoolVars, archiveVars, rawVars>>
    \/ /\ component = "spool" /\ SpoolNext
       /\ UNCHANGED <<component, progressVars, archiveVars, rawVars>>
    \/ /\ component = "archive" /\ ArchiveNext
       /\ UNCHANGED <<component, progressVars, spoolVars, rawVars>>
    \/ /\ component = "raw" /\ RawNext
       /\ UNCHANGED <<component, progressVars, spoolVars, archiveVars>>

MCSpec == MCInit /\ [][MCNext]_<<component, progressVars, spoolVars, archiveVars, rawVars>>

(* A third raw batch is there to make an append rotate the index: it comes *)
(* to an undisturbed store.  An interruption goes together with readers up *)
(* to the second root, and comes alone up to the third; with four roots,   *)
(* the first that can hold a pack of two batches, it comes alone, once a   *)
(* plan and a checkpoint document are made.  A document goes together with *)
(* readers up to the third root.  It lists the last batch of its root: a   *)
(* longer list asks for more files and changes the same.                   *)
ThirdBatch ==
    \/ \E r \in DOMAIN rawRoots : HeadSequence(Leaves(r)) >= 3
    \/ rawOp.step \notin {"idle", "gc"} /\ rawOp.batch = 3

NobodyReads == \A rd \in Readers : readers[rd] = NoReader

RawBounded ==
    /\ Len(rawRoots) >= 3 => rawEnds = 0 \/ NobodyReads
    /\ Len(rawRoots) >= 4 => rawEnds = 0 \/ (NobodyReads /\ plans # <<>> /\ ckDocs # {})
    /\ Len(rawRoots) >= 4 => ckDocs = {} \/ NobodyReads
    /\ \A d \in ckDocs : d.lo = d.hi /\ d.hi = HeadSequence(Leaves(d.root))
    /\ ThirdBatch => rawEnds = 0 /\ NobodyReads /\ backups = {} /\ ckDocs = {}

(* Bounds the history so that crashes and reopenings may go on.            *)
Bounded == Len(ackedRecs) <= MaxAcked /\ Cardinality(Positions) <= MaxAcked + 1 /\ RawBounded

(* Epochs and bodies of the spool are only compared for equality.          *)
SpoolSymmetry == Permutations(Epochs) \cup Permutations(Bodies)
=============================================================================
