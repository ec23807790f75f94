--------------------------- MODULE CaptureCoordinator ---------------------------
(***************************************************************************)
(* CaptureCoordinator takes a canonical block through archive, journal,    *)
(* JetStream and cursor (process_block, complete_batch), and finishes what *)
(* an earlier attempt left half done (recover_startup).  Two tasks of the  *)
(* service share it: the committed drain and the recovery supervisor.      *)
(* The services under it fail on their own: the Parquet archive with its   *)
(* two CURRENT pointers, the progress journal (CaptureProgress) and the    *)
(* JetStream session with the publication ledger of that session.          *)
(*                                                                         *)
(* The data that matters is who vouched for a block.  The canonical hash   *)
(* leaves the evidence out, so sources agree on the hash of a height; the  *)
(* archived block, the publication plan and every message carry it.  They  *)
(* are represented by the source of their block, a member of Plans.  The   *)
(* archive receipt is a function of the height, since the partition        *)
(* pointer binds a height once.  The blocks share one hourly partition.    *)
(***************************************************************************)
EXTENDS CaptureProgress, FiniteSets

CONSTANTS
  Workers,         \* the tasks that call the coordinator
  Drain,           \* the one that offers new blocks; the others only recover
  LedgerCapacity   \* publisher_ledger_capacity

ASSUME CoordinatorAssumption ==
  /\ Drain \in Workers
  /\ LedgerCapacity \in Nat \ {0}

VARIABLES
  partition,     \* partition[h]: block bound by the partition's CURRENT pointer
  catalog,       \* catalog[h]: block reachable from the catalog's CURRENT pointer
  stream,        \* the messages JetStream has stored
  wire,          \* messages sent whose acknowledgement was lost: may arrive late
  ledger,        \* the PublicationLedger of the current JetStream session
  pc,            \* pc[w]: where the call of w is, "caller" when there is none
  reply,         \* reply[w]: what the last call of w returned
  recovering,    \* recovering[w]: the block in hand belongs to recover_startup
  height,        \* height[w]: height of the block in hand
  evidence,      \* evidence[w]: source of the block in hand
  known,         \* known[w]: ordinals load_acknowledgements returned
  ordinal        \* ordinal[w]: index of the message in hand

archiveVars == <<partition, catalog>>
busVars == <<stream, wire, ledger>>
blockVars == <<recovering, height, evidence, known>>
callVars == <<pc, reply, blockVars, ordinal>>
coordinatorVars == <<progressVars, archiveVars, busVars, callVars>>

Message(h, o, p) == [height |-> h, ordinal |-> o, plan |-> p]
Messages == [height: Heights, ordinal: Nat, plan: Plans]
SameId(m, n) == m.height = n.height /\ m.ordinal = n.ordinal

Steps == {"caller", "recover", "recover_plan", "recover_block", "append",
          "catalog", "journal", "load", "publish", "ack", "advance"}
Replies == {"none", "committed", "recovered", "retryable", "archive", "mismatch"}

CoordinatorTypeOK ==
  /\ ProgressTypeOK
  /\ partition \in [Heights -> Plans \union {NoPlan}]
  /\ catalog \in [Heights -> Plans \union {NoPlan}]
  /\ stream \subseteq Messages
  /\ wire \subseteq Messages
  /\ ledger \subseteq Messages
  /\ pc \in [Workers -> Steps]
  /\ reply \in [Workers -> Replies]
  /\ recovering \in [Workers -> BOOLEAN]
  /\ height \in [Workers -> Heights]
  /\ evidence \in [Workers -> Plans \union {NoPlan}]
  /\ known \in [Workers -> SUBSET Nat]
  /\ ordinal \in [Workers -> Nat]

-----------------------------------------------------------------------------
(* Control.                                                                *)

Goto(w, p) ==
  /\ pc' = [pc EXCEPT ![w] = p]
  /\ UNCHANGED <<reply, blockVars, ordinal>>

(* A call starts on the block of height h that source p vouches for.       *)
Take(w, step, h, p, recovery) ==
  /\ pc' = [pc EXCEPT ![w] = step]
  /\ reply' = [reply EXCEPT ![w] = "none"]
  /\ recovering' = [recovering EXCEPT ![w] = recovery]
  /\ height' = [height EXCEPT ![w] = h]
  /\ evidence' = [evidence EXCEPT ![w] = p]
  /\ known' = [known EXCEPT ![w] = {}]
  /\ ordinal' = [ordinal EXCEPT ![w] = 0]

(* Back in the caller, with nothing left in the coordinator.               *)
Return(w, r) ==
  /\ pc' = [pc EXCEPT ![w] = "caller"]
  /\ reply' = [reply EXCEPT ![w] = r]
  /\ recovering' = [recovering EXCEPT ![w] = FALSE]
  /\ height' = [height EXCEPT ![w] = FirstHeight]
  /\ evidence' = [evidence EXCEPT ![w] = NoPlan]
  /\ known' = [known EXCEPT ![w] = {}]
  /\ ordinal' = [ordinal EXCEPT ![w] = 0]

(* CoordinatorError::Publication and ::Progress: the caller tries again.   *)
GiveUp(w) == Return(w, "retryable") /\ UNCHANGED archiveVars

-----------------------------------------------------------------------------
(* LocalParquetArchive::append_block, under the writer lock.  The          *)
(* immutable objects come first, then the partition pointer, then the      *)
(* catalog pointer.                                                        *)

WriterFree(w) == \A v \in Workers \ {w} : pc[v] # "catalog"

(* Mutant: the catalog is not brought up to date.                          *)
AppendExisting_StaleCatalog(w) ==
  /\ pc[w] = "append"
  /\ WriterFree(w)
  /\ partition[height[w]] # NoPlan
  /\ Goto(w, "journal")
  /\ UNCHANGED <<progressVars, busVars, archiveVars>>

(* A block the partition already has is compared by canonical hash only:   *)
(* what is archived stays, and the catalog is brought up to date.          *)
AppendExisting(w) ==
  /\ pc[w] = "append"
  /\ WriterFree(w)
  /\ partition[height[w]] # NoPlan
  /\ catalog' = partition
  /\ Goto(w, "journal")
  /\ UNCHANGED <<progressVars, busVars, partition>>

PublishPartition(w) ==
  /\ pc[w] = "append"
  /\ WriterFree(w)
  /\ partition[height[w]] = NoPlan
  /\ partition' = [partition EXCEPT ![height[w]] = evidence[w]]
  /\ Goto(w, "catalog")
  /\ UNCHANGED <<progressVars, busVars, catalog>>

PublishCatalog(w) ==
  /\ pc[w] = "catalog"
  /\ catalog' = partition
  /\ Goto(w, "journal")
  /\ UNCHANGED <<progressVars, busVars, partition>>

(* An input/output error at any point of append_block.                     *)
ArchiveFails(w) ==
  /\ pc[w] \in {"append", "catalog"}
  /\ Return(w, "archive")
  /\ UNCHANGED <<progressVars, archiveVars, busVars>>

-----------------------------------------------------------------------------
(* The calls on the journal.                                               *)

(* record_archived with the plan of build_plan: the receipt of the archive *)
(* and the evidence of the block in hand.                                  *)
JournalBlock(w) ==
  /\ pc[w] = "journal"
  /\ \/ Commit(ArchivedTx(height[w], evidence[w]))
     \/ Unlocked /\ journal[height[w]] = evidence[w] /\ UNCHANGED progressVars
  /\ Goto(w, "load")
  /\ UNCHANGED <<archiveVars, busVars>>

(* ConflictingBlock: the height is journaled with other evidence.          *)
JournalConflicts(w) ==
  /\ pc[w] = "journal"
  /\ Unlocked
  /\ journal[height[w]] \notin {NoPlan, evidence[w]}
  /\ GiveUp(w)
  /\ UNCHANGED <<progressVars, busVars>>

LoseJournalReply(w) ==
  /\ pc[w] = "journal"
  /\ LoseReply(ArchivedTx(height[w], evidence[w]))
  /\ GiveUp(w)
  /\ UNCHANGED busVars

(* Mutant: the batch starts after the block marker.                        *)
LoadAcknowledgements_SkipsMarker(w) ==
  /\ pc[w] = "load"
  /\ pc' = [pc EXCEPT ![w] = "publish"]
  /\ known' = [known EXCEPT ![w] = acked[height[w]]]
  /\ ordinal' = [ordinal EXCEPT ![w] = 1]
  /\ UNCHANGED <<progressVars, archiveVars, busVars, reply, recovering, height, evidence>>

(* load_acknowledgements: a plain read, it does not wait for pendingTx.    *)
LoadAcknowledgements(w) ==
  /\ pc[w] = "load"
  /\ pc' = [pc EXCEPT ![w] = "publish"]
  /\ known' = [known EXCEPT ![w] = acked[height[w]]]
  /\ ordinal' = [ordinal EXCEPT ![w] = 0]
  /\ UNCHANGED <<progressVars, archiveVars, busVars, reply, recovering, height, evidence>>

(* Mutant: the row of the chain is not locked.                             *)
RecordAck_Unlocked(w) ==
  /\ pc[w] = "ack"
  /\ RecordAcknowledgement(height[w], ordinal[w])
  /\ pc' = [pc EXCEPT ![w] = "publish"]
  /\ ordinal' = [ordinal EXCEPT ![w] = @ + 1]
  /\ UNCHANGED <<pendingTx, archiveVars, busVars, reply, blockVars>>

(* record_acknowledgement.  The other worker, or a late transaction, may   *)
(* have recorded one since load_acknowledgements: an identical one is      *)
(* accepted, a different one is a ConflictingAcknowledgement.              *)
RecordAck(w) ==
  /\ pc[w] = "ack"
  /\ \/ Commit(AcknowledgementTx(height[w], ordinal[w]))
     \/ Unlocked /\ ordinal[w] \in acked[height[w]] /\ UNCHANGED progressVars
  /\ pc' = [pc EXCEPT ![w] = "publish"]
  /\ ordinal' = [ordinal EXCEPT ![w] = @ + 1]
  /\ UNCHANGED <<archiveVars, busVars, reply, blockVars>>

AckConflicts(w) ==
  /\ pc[w] = "ack"
  /\ Unlocked
  /\ ordinal[w] \in acked[height[w]]
  /\ GiveUp(w)
  /\ UNCHANGED <<progressVars, busVars>>

LoseAckReply(w) ==
  /\ pc[w] = "ack"
  /\ LoseReply(AcknowledgementTx(height[w], ordinal[w]))
  /\ GiveUp(w)
  /\ UNCHANGED busVars

(* advance_cursor; the height the cursor already has is returned as it is. *)
(* recover_startup loops up to its limit, process_block returns.           *)
Advance(w) ==
  /\ pc[w] = "advance"
  /\ \/ Commit(AdvanceTx(height[w]))
     \/ Unlocked /\ cursor = height[w] /\ UNCHANGED progressVars
  /\ \/ recovering[w] /\ Return(w, "recovered")
     \/ recovering[w] /\ Take(w, "recover", FirstHeight, NoPlan, FALSE)
     \/ ~recovering[w] /\ Return(w, "committed")
  /\ UNCHANGED <<archiveVars, busVars>>

(* NonContiguousAdvance: the other worker is past this height.             *)
AdvanceRefused(w) ==
  /\ pc[w] = "advance"
  /\ Unlocked
  /\ cursor # height[w]
  /\ ~CanAdvanceCursor(height[w])
  /\ GiveUp(w)
  /\ UNCHANGED <<progressVars, busVars>>

LoseAdvanceReply(w) ==
  /\ pc[w] = "advance"
  /\ LoseReply(AdvanceTx(height[w]))
  /\ GiveUp(w)
  /\ UNCHANGED busVars

(* A call that fails without effect: no connection, a timeout on the lock  *)
(* of the chain, a serialization failure.                                  *)
ProgressFails(w) ==
  /\ pc[w] \in {"recover", "recover_plan", "journal", "load", "ack", "advance"}
  /\ GiveUp(w)
  /\ UNCHANGED <<progressVars, busVars>>

-----------------------------------------------------------------------------
(* The publisher.                                                          *)

InHand(w) == Message(height[w], ordinal[w], evidence[w])

(* PublicationLedger::record: an id is bound to one content, and a full    *)
(* ledger takes no new id.                                                 *)
LedgerAdmits(m) ==
  \/ m \in ledger
  \/ /\ \A n \in ledger : ~SameId(m, n)
     /\ Cardinality(ledger) < LedgerCapacity

(* JetStream stores a message unless it has that id in its duplicate       *)
(* window, which may have passed.                                          *)
Store(m) ==
  \/ stream' = stream \union {m}
  \/ (\E n \in stream : SameId(m, n)) /\ UNCHANGED stream

(* complete_batch: on to the next message, or to the cursor after the last *)
SkipAcknowledged(w) ==
  /\ pc[w] = "publish"
  /\ ordinal[w] \in known[w]
  /\ ordinal' = [ordinal EXCEPT ![w] = @ + 1]
  /\ UNCHANGED <<progressVars, archiveVars, busVars, pc, reply, blockVars>>

BatchComplete(w) ==
  /\ pc[w] = "publish"
  /\ ordinal[w] \notin known[w] \union Ordinals(height[w])
  /\ Goto(w, "advance")
  /\ UNCHANGED <<progressVars, archiveVars, busVars>>

Unpublished(w) == pc[w] = "publish" /\ ordinal[w] \in Ordinals(height[w]) \ known[w]

(* Mutant: a send counts as an acknowledgement.                            *)
Publish_FireAndForget(w) ==
  /\ Unpublished(w)
  /\ LedgerAdmits(InHand(w))
  /\ ledger' = ledger \union {InHand(w)}
  /\ wire' = wire \union {InHand(w)}
  /\ Goto(w, "ack")
  /\ UNCHANGED <<progressVars, archiveVars, stream>>

Publish(w) ==
  /\ Unpublished(w)
  /\ LedgerAdmits(InHand(w))
  /\ ledger' = ledger \union {InHand(w)}
  /\ Store(InHand(w))
  /\ Goto(w, "ack")
  /\ UNCHANGED <<progressVars, archiveVars, wire>>

(* TransportConnect, TransportPublish, TransportAck: the session goes, its *)
(* ledger with it, and the message may have left for the server.           *)
PublishFails(w) ==
  /\ Unpublished(w)
  /\ LedgerAdmits(InHand(w))
  /\ ledger' = {}
  /\ wire' \in {wire, wire \union {InHand(w)}}
  /\ GiveUp(w)
  /\ UNCHANGED <<progressVars, stream>>

(* LedgerCapacityExceeded, DivergentMessageId: the session stays.          *)
LedgerRefuses(w) ==
  /\ Unpublished(w)
  /\ ~LedgerAdmits(InHand(w))
  /\ GiveUp(w)
  /\ UNCHANGED <<progressVars, busVars>>

(* A message on the wire reaches the server after all.                     *)
LateArrival ==
  /\ \E m \in wire : Store(m) /\ wire' = wire \ {m}
  /\ UNCHANGED <<progressVars, archiveVars, ledger, callVars>>

-----------------------------------------------------------------------------
(* recover_startup: an iteration reads the height, then the plan, then the *)
(* block, and the other worker goes on between the reads.  The plan that   *)
(* was read, or NoPlan, is the evidence in hand until the block is there.  *)

(* Mutant: one height too far.                                             *)
RecoverNextExpected_OffByOne(w) ==
  /\ pc[w] = "recover"
  /\ next_expected_height \in Heights
  /\ Take(w, "recover_plan", next_expected_height + 1, NoPlan, TRUE)
  /\ UNCHANGED <<progressVars, archiveVars, busVars>>

RecoverNextExpected(w) ==
  /\ pc[w] = "recover"
  /\ next_expected_height \in Heights
  /\ Take(w, "recover_plan", next_expected_height, NoPlan, TRUE)
  /\ UNCHANGED <<progressVars, archiveVars, busVars>>

(* Nothing is archived beyond the bound of the model.                      *)
RecoverPastLastHeight(w) ==
  /\ pc[w] = "recover"
  /\ next_expected_height \notin Heights
  /\ Return(w, "recovered")
  /\ UNCHANGED <<progressVars, archiveVars, busVars>>

(* load_archived_block.                                                    *)
RecoverLoadPlan(w) ==
  /\ pc[w] = "recover_plan"
  /\ Take(w, "recover_block", height[w], journal[height[w]], TRUE)
  /\ UNCHANGED <<progressVars, archiveVars, busVars>>

(* Mutant: the plan is not compared with the archived block.               *)
RecoverJournaled_Unverified(w) ==
  /\ pc[w] = "recover_block"
  /\ evidence[w] # NoPlan
  /\ catalog[height[w]] # NoPlan
  /\ Take(w, "load", height[w], catalog[height[w]], TRUE)
  /\ UNCHANGED <<progressVars, archiveVars, busVars>>

(* load_block for a journaled plan: it must be the one the archived block  *)
(* gives (verify_plan_matches_batch).                                      *)
RecoverJournaled(w) ==
  /\ pc[w] = "recover_block"
  /\ evidence[w] # NoPlan
  /\ catalog[height[w]] = evidence[w]
  /\ Goto(w, "load")
  /\ UNCHANGED <<progressVars, archiveVars, busVars>>

RecoverMismatch(w) ==
  /\ pc[w] = "recover_block"
  /\ evidence[w] # NoPlan
  /\ catalog[height[w]] # evidence[w]
  /\ Return(w, IF catalog[height[w]] = NoPlan THEN "archive" ELSE "mismatch")
  /\ UNCHANGED <<progressVars, archiveVars, busVars>>

(* Mutant: the block is read again from a source, not from the archive.    *)
RecoverArchived_FromSource(w) ==
  /\ pc[w] = "recover_block"
  /\ evidence[w] = NoPlan
  /\ catalog[height[w]] # NoPlan
  /\ \E p \in Plans : Take(w, "append", height[w], p, TRUE)
  /\ UNCHANGED <<progressVars, archiveVars, busVars>>

(* An archived block without a plan goes through process_block again.      *)
RecoverArchived(w) ==
  /\ pc[w] = "recover_block"
  /\ evidence[w] = NoPlan
  /\ catalog[height[w]] # NoPlan
  /\ Take(w, "append", height[w], catalog[height[w]], TRUE)
  /\ UNCHANGED <<progressVars, archiveVars, busVars>>

(* RangeUnavailable: recovered up to here.                                 *)
RecoverNothing(w) ==
  /\ pc[w] = "recover_block"
  /\ evidence[w] = NoPlan
  /\ catalog[height[w]] = NoPlan
  /\ Return(w, "recovered")
  /\ UNCHANGED <<progressVars, archiveVars, busVars>>

(* Any other error of load_block.                                          *)
RecoverReadFails(w) ==
  /\ pc[w] = "recover_block"
  /\ Return(w, "archive")
  /\ UNCHANGED <<progressVars, archiveVars, busVars>>

-----------------------------------------------------------------------------
(* What the coordinator does, what its services do to it, and what ends    *)
(* the process.                                                            *)

CoordinatorStep(w) ==
  \/ AppendExisting(w) \/ PublishPartition(w) \/ PublishCatalog(w)
  \/ JournalBlock(w) \/ JournalConflicts(w) \/ LoadAcknowledgements(w)
  \/ RecordAck(w) \/ AckConflicts(w) \/ Advance(w) \/ AdvanceRefused(w)
  \/ SkipAcknowledged(w) \/ BatchComplete(w) \/ Publish(w) \/ LedgerRefuses(w)
  \/ RecoverNextExpected(w) \/ RecoverPastLastHeight(w) \/ RecoverLoadPlan(w)
  \/ RecoverJournaled(w) \/ RecoverMismatch(w) \/ RecoverArchived(w) \/ RecoverNothing(w)

CoordinatorFault(w) ==
  \/ ArchiveFails(w) \/ ProgressFails(w) \/ PublishFails(w)
  \/ LoseJournalReply(w) \/ LoseAckReply(w) \/ LoseAdvanceReply(w) \/ RecoverReadFails(w)

SettleTransaction ==
  /\ SettleCommitted \/ SettleRolledBack
  /\ UNCHANGED <<archiveVars, busVars, callVars>>

(* The process ends, with it both calls and the JetStream session; what    *)
(* is on its way to PostgreSQL and JetStream stays on its way.             *)
CoordinatorCrash ==
  /\ pc' = [w \in Workers |-> "caller"]
  /\ reply' = [w \in Workers |-> "none"]
  /\ recovering' = [w \in Workers |-> FALSE]
  /\ height' = [w \in Workers |-> FirstHeight]
  /\ evidence' = [w \in Workers |-> NoPlan]
  /\ known' = [w \in Workers |-> {}]
  /\ ordinal' = [w \in Workers |-> 0]
  /\ ledger' = {}
  /\ UNCHANGED <<progressVars, archiveVars, stream, wire>>

-----------------------------------------------------------------------------
(* The coordinator under callers that keep to what the tasks of the        *)
(* service do: initialise the chain, then recover; the drain also offers   *)
(* the next height, with the evidence under which that height is archived  *)
(* if it is already.                                                       *)

CallInitialize(w) ==
  /\ pc[w] = "caller"
  /\ InitializeChain
  /\ UNCHANGED <<archiveVars, busVars, callVars>>

CallRecover(w) ==
  /\ pc[w] = "caller"
  /\ initialized
  /\ Take(w, "recover", FirstHeight, NoPlan, FALSE)
  /\ UNCHANGED <<progressVars, archiveVars, busVars>>

CallProcess(h, p) ==
  /\ pc[Drain] = "caller"
  /\ initialized
  /\ h = next_expected_height
  /\ Take(Drain, "append", h, p, FALSE)
  /\ UNCHANGED <<progressVars, archiveVars, busVars>>

EvidenceStable(h, p) == partition[h] \in {NoPlan, p}

(* The caller has taken note of the reply.                                 *)
TakeReply(w) ==
  /\ pc[w] = "caller"
  /\ Return(w, "none")
  /\ UNCHANGED <<progressVars, archiveVars, busVars>>

CoordinatorInit ==
  /\ ProgressInit
  /\ partition = [h \in Heights |-> NoPlan]
  /\ catalog = [h \in Heights |-> NoPlan]
  /\ stream = {}
  /\ wire = {}
  /\ ledger = {}
  /\ pc = [w \in Workers |-> "caller"]
  /\ reply = [w \in Workers |-> "none"]
  /\ recovering = [w \in Workers |-> FALSE]
  /\ height = [w \in Workers |-> FirstHeight]
  /\ evidence = [w \in Workers |-> NoPlan]
  /\ known = [w \in Workers |-> {}]
  /\ ordinal = [w \in Workers |-> 0]

(* Everything but the offer of a new block.                                *)
CoordinatorActivity ==
  \/ \E w \in Workers :
       \/ CallInitialize(w) \/ CallRecover(w) \/ TakeReply(w)
       \/ CoordinatorStep(w) \/ CoordinatorFault(w)
  \/ SettleTransaction
  \/ LateArrival
  \/ CoordinatorCrash

CoordinatorNext ==
  \/ CoordinatorActivity
  \/ \E h \in Heights, p \in Plans : EvidenceStable(h, p) /\ CallProcess(h, p)

CoordinatorSpec == CoordinatorInit /\ [][CoordinatorNext]_coordinatorVars

(* The same under a drain that may offer a height with other evidence than *)
(* it is archived under, as it can after a power loss (CommittedDrain).    *)
AnyEvidenceNext ==
  \/ CoordinatorActivity
  \/ \E h \in Heights, p \in Plans : CallProcess(h, p)

AnyEvidenceSpec == CoordinatorInit /\ [][AnyEvidenceNext]_coordinatorVars

-----------------------------------------------------------------------------
(* Properties.                                                             *)

(* Durability goes down the chain in one order.  Nothing is published that *)
(* is not journaled with the same evidence, nothing is journaled that the  *)
(* catalog does not bind to that evidence, and no publication is recorded  *)
(* as acknowledged that JetStream does not hold: whichever reply was lost, *)
(* wherever a call was cut off and whatever the other worker does.         *)
DurableBeforeVisible ==
  /\ \A m \in stream \union wire : journal[m.height] = m.plan
  /\ \A h \in Heights :
       /\ journal[h] # NoPlan => catalog[h] = journal[h]
       /\ \A o \in acked[h] : Message(h, o, journal[h]) \in stream

(* Recovery reproduces the journaled plan from the archived block: the     *)
(* RecoveryMismatch of verify_plan_matches_batch does not happen.          *)
NoRecoveryMismatch == \A w \in Workers : reply[w] # "mismatch"

(* What comes before message m in the committed stream.                    *)
Precedes(g, q, m) == g < m.height \/ (g = m.height /\ q < m.ordinal)

(* The first copies of the messages enter the stream in the order of the   *)
(* blocks, each marker before its events: a message is never sent, not     *)
(* even one that arrives late, while an earlier one is not stored.         *)
StreamInOrder ==
  \A m \in stream \union wire : \A g \in Heights : \A q \in Ordinals(g) :
    Precedes(g, q, m) => \E n \in stream : n.height = g /\ n.ordinal = q

(* A message id names one content for good, whatever evidence the drain    *)
(* offers: JetStream compares ids only and forgets them after its          *)
(* duplicate window, so it would keep or store whichever content comes.    *)
OneContentPerId ==
  \A m, n \in stream \union wire : SameId(m, n) => m = n

(* Every committed height can be read back from the archive and is         *)
(* completely in the stream with the evidence that is archived.            *)
CommittedIsArchivedAndPublished ==
  \A h \in Heights : h <= cursor =>
    /\ catalog[h] # NoPlan
    /\ \A o \in Ordinals(h) : Message(h, o, catalog[h]) \in stream

(* The coordinator uses the journal as any caller may.                     *)
UsesJournal == ProgressSpec
=============================================================================
