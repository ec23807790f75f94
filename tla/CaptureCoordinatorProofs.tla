------------------------ MODULE CaptureCoordinatorProofs ------------------------
(***************************************************************************)
(* Proofs about the progress journal, for every range of heights, set of   *)
(* plans and number of events per block, and about the coordinator that    *)
(* uses it, for every number of workers, set of sources and ledger         *)
(* capacity.                                                               *)
(*                                                                         *)
(* The journal.  CursorBacked is not inductive: advance_cursor looks at    *)
(* the state column and at the acknowledgements, and a transaction that    *)
(* was admitted before its reply was lost is applied later.  JournalInv    *)
(* adds that every acknowledgement belongs to a planned publication of a   *)
(* journaled block and that the outstanding transaction is still           *)
(* admissible, which holds because it keeps the row of the chain locked.   *)
(*                                                                         *)
(* The coordinator.  The first part holds whatever evidence the drain      *)
(* offers: PublicationInv ties every call and every message to the         *)
(* journal, and is inductive with the invariant of the journal.  The       *)
(* second part adds ArchiveInv, which ties the journal to the archive and  *)
(* needs EvidenceStable.                                                   *)
(***************************************************************************)
EXTENDS CaptureCoordinator, TLAPS

(* Acknowledgements belong to planned publications of journaled blocks.    *)
AcksPlanned ==
  \A h \in Heights :
    /\ acked[h] \subseteq Ordinals(h)
    /\ acked[h] # {} => journal[h] # NoPlan

(* What was admitted under the lock is still admissible when it settles.   *)
PendingAdmitted == Unlocked \/ Admits(pendingTx)

CursorInRange == cursor \in FirstHeight - 1..LastHeight

JournalInv ==
  /\ ProgressTypeOK
  /\ CursorInRange
  /\ AcksPlanned
  /\ PendingAdmitted
  /\ CursorBacked
  /\ VersionCountsBlocks
  /\ StateColumnAgrees

-----------------------------------------------------------------------------
(* What the assumptions say of heights and ordinals.                       *)
LEMMA HeightsFacts ==
  /\ Heights \subseteq Int
  /\ FirstHeight \in Heights
  /\ FirstHeight \in Int /\ LastHeight \in Int
  /\ \A h \in Heights : EventCount[h] \in Nat /\ 0 \in Ordinals(h) /\ Ordinals(h) \subseteq Nat
  BY ProgressAssumption DEF Heights, Ordinals

(* The transactions of the three calls have the type of a transaction.     *)
LEMMA TransactionTypes ==
  /\ NoTx \in Transactions
  /\ \A h \in Heights, p \in Plans : ArchivedTx(h, p) \in Transactions
  /\ \A h \in Heights : \A o \in Ordinals(h) : AcknowledgementTx(h, o) \in Transactions
  /\ \A h \in Heights : AdvanceTx(h) \in Transactions
  BY HeightsFacts DEF Transactions, NoTx, ArchivedTx, AcknowledgementTx, AdvanceTx

(* A step of the store initialises the chain, applies an admitted          *)
(* transaction, leaves one outstanding or rolls the outstanding one back.  *)
LEMMA StepShape ==
  ASSUME JournalInv, [ProgressNext]_progressVars
  PROVE  \/ UNCHANGED progressVars
         \/ InitializeChain
         \/ \E tx \in Transactions :
              /\ Admits(tx) /\ Apply(tx)
              /\ pendingTx' = NoTx
         \/ \E tx \in Transactions : LoseReply(tx)
         \/ SettleRolledBack
<1> USE TransactionTypes
<1>1. CASE UNCHANGED progressVars
  BY <1>1
<1>2. CASE InitializeChain
  BY <1>2
<1>3. ASSUME NEW tx \in Transactions, Commit(tx) \/ LoseReply(tx)
      PROVE  \/ Admits(tx) /\ Apply(tx) /\ pendingTx' = NoTx
             \/ LoseReply(tx)
  BY <1>3 DEF Commit, Unlocked
<1>4. CASE \E h \in Heights, p \in Plans :
             Commit(ArchivedTx(h, p)) \/ LoseReply(ArchivedTx(h, p))
  BY <1>3, <1>4
<1>5. CASE \E h \in Heights : \E o \in Ordinals(h) :
             Commit(AcknowledgementTx(h, o)) \/ LoseReply(AcknowledgementTx(h, o))
  BY <1>3, <1>5
<1>6. CASE \E h \in Heights : Commit(AdvanceTx(h)) \/ LoseReply(AdvanceTx(h))
  BY <1>3, <1>6
<1>7. CASE SettleCommitted
  BY <1>7 DEF SettleCommitted, JournalInv, PendingAdmitted, ProgressTypeOK
<1>8. CASE SettleRolledBack
  BY <1>8
<1>9. QED
  BY <1>1, <1>2, <1>4, <1>5, <1>6, <1>7, <1>8 DEF ProgressNext

(* The empty tables satisfy the invariant.                                 *)
LEMMA JournalInvInit == ProgressInit => JournalInv
<1> SUFFICES ASSUME ProgressInit PROVE JournalInv
  OBVIOUS
<1> USE ProgressAssumption, HeightsFacts, TransactionTypes DEF ProgressInit
<1>1. ProgressTypeOK
  <2>0. initialized \in BOOLEAN
    BY Zenon
  <2>1. cursor \in Int /\ version \in Nat /\ pendingTx \in Transactions
    OBVIOUS
  <2>2. /\ journal \in [Heights -> Plans \union {NoPlan}]
        /\ blockState \in [Heights -> States]
    BY DEF States
  <2>3. acked \in [Heights -> SUBSET Nat]
    OBVIOUS
  <2> QED
    BY <2>0, <2>1, <2>2, <2>3 DEF ProgressTypeOK
<1>2. CursorInRange /\ CursorBacked /\ VersionCountsBlocks
  BY DEF CursorInRange, CursorBacked, VersionCountsBlocks, Heights
<1>3. AcksPlanned /\ PendingAdmitted /\ StateColumnAgrees
  BY DEF AcksPlanned, PendingAdmitted, Unlocked, StateColumnAgrees
<1> QED
  BY <1>1, <1>2, <1>3 DEF JournalInv

(* record_archived of an admitted plan preserves the invariant.            *)
LEMMA ArchivedPreserves ==
  ASSUME JournalInv, NEW h \in Heights, NEW p \in Plans,
         CanRecordArchived(h), RecordArchived(h, p), pendingTx' = NoTx
  PROVE  JournalInv'
<1> USE ProgressAssumption, HeightsFacts, TransactionTypes
<1> USE DEF JournalInv, ProgressTypeOK, CanRecordArchived, RecordArchived
<1>1. /\ ProgressTypeOK'
      /\ CursorInRange'
      /\ VersionCountsBlocks'
      /\ PendingAdmitted'
  BY DEF States, CursorInRange, VersionCountsBlocks, PendingAdmitted, Unlocked
<1>2. AcksPlanned' /\ CursorBacked'
  BY DEF AcksPlanned, CursorBacked
<1>3. acked[h] = {} /\ p # NoPlan
  BY DEF AcksPlanned
<1>4. StateColumnAgrees'
  BY <1>3 DEF StateColumnAgrees
<1> QED
  BY <1>1, <1>2, <1>4

(* So does record_acknowledgement of an ordinal that has none yet.         *)
LEMMA AcknowledgementPreserves ==
  ASSUME JournalInv, NEW h \in Heights, NEW o \in Nat,
         CanRecordAcknowledgement(h, o), RecordAcknowledgement(h, o), pendingTx' = NoTx
  PROVE  JournalInv'
<1> USE ProgressAssumption, HeightsFacts, TransactionTypes
<1> USE DEF JournalInv, ProgressTypeOK, CanRecordAcknowledgement, RecordAcknowledgement
<1>1. /\ ProgressTypeOK'
      /\ CursorInRange'
      /\ VersionCountsBlocks'
      /\ PendingAdmitted'
  BY DEF States, CursorInRange, VersionCountsBlocks, PendingAdmitted, Unlocked
<1>2. acked[h] # Ordinals(h)
  OBVIOUS
<1>3. AcksPlanned' /\ CursorBacked'
  BY <1>2 DEF AcksPlanned, CursorBacked
<1>4. StateColumnAgrees'
  <2> SUFFICES ASSUME NEW g \in Heights
               PROVE  /\ (blockState'[g] = "absent") <=> (journal'[g] = NoPlan)
                      /\ (blockState'[g] = "acknowledged") <=>
                           (journal'[g] # NoPlan /\ acked'[g] = Ordinals(g))
                      /\ (blockState'[g] = "publishing") => acked'[g] # {}
    BY DEF StateColumnAgrees
  <2>1. CASE g = h
    BY <2>1, <1>3 DEF StateColumnAgrees, AcksPlanned
  <2>2. CASE g # h
    BY <2>2 DEF StateColumnAgrees
  <2> QED
    BY <2>1, <2>2
<1> QED
  BY <1>1, <1>3, <1>4

(* And so does advance_cursor to the next height.                          *)
LEMMA AdvancePreserves ==
  ASSUME JournalInv, NEW h \in Heights,
         CanAdvanceCursor(h), AdvanceCursor(h), pendingTx' = NoTx
  PROVE  JournalInv'
<1> USE ProgressAssumption, HeightsFacts, TransactionTypes
<1> USE DEF JournalInv, ProgressTypeOK, CanAdvanceCursor, AdvanceCursor
<1>1. /\ ProgressTypeOK'
      /\ CursorInRange'
      /\ VersionCountsBlocks'
      /\ PendingAdmitted'
  BY DEF CursorInRange, VersionCountsBlocks, PendingAdmitted, Unlocked, Heights
<1>2. AcksPlanned' /\ StateColumnAgrees'
  BY DEF AcksPlanned, StateColumnAgrees
<1>3. acked[h] = Ordinals(h)
  BY DEF AcksPlanned
<1>4. CursorBacked'
  BY <1>3 DEF CursorBacked
<1> QED
  BY <1>1, <1>2, <1>4

(* Every admitted transaction preserves the invariant, at once or late.    *)
LEMMA ApplyPreserves ==
  ASSUME JournalInv, NEW tx \in Transactions, Admits(tx), Apply(tx), pendingTx' = NoTx
  PROVE  JournalInv'
<1> USE DEF Transactions
<1>1. CASE tx.op = "archived"
  BY <1>1, ArchivedPreserves DEF Admits, Apply
<1>2. CASE tx.op = "acknowledgement"
  BY <1>2, AcknowledgementPreserves DEF Admits, Apply
<1>3. CASE tx.op = "advance"
  BY <1>3, AdvancePreserves DEF Admits, Apply
<1> QED
  BY <1>1, <1>2, <1>3 DEF Admits

(* The invariant is inductive.                                             *)
LEMMA JournalInvStep == JournalInv /\ [ProgressNext]_progressVars => JournalInv'
<1> SUFFICES ASSUME JournalInv, [ProgressNext]_progressVars
             PROVE  JournalInv'
  OBVIOUS
<1> USE DEF JournalInv, ProgressTypeOK, CursorInRange, AcksPlanned, PendingAdmitted,
            CursorBacked, VersionCountsBlocks, StateColumnAgrees, Unlocked, Admits,
            CanRecordArchived, CanRecordAcknowledgement, CanAdvanceCursor
<1>1. CASE UNCHANGED progressVars
  BY <1>1 DEF progressVars
<1>2. CASE InitializeChain
  BY <1>2 DEF InitializeChain
<1>3. CASE \E tx \in Transactions : Admits(tx) /\ Apply(tx) /\ pendingTx' = NoTx
  BY <1>3, ApplyPreserves
<1>4. CASE \E tx \in Transactions : LoseReply(tx)
  BY <1>4 DEF LoseReply, tableVars
<1>5. CASE SettleRolledBack
  BY <1>5, TransactionTypes DEF SettleRolledBack, tableVars
<1> QED
  BY <1>1, <1>2, <1>3, <1>4, <1>5, StepShape

(* The invariant holds in every reachable state.                           *)
THEOREM JournalInvariant == ProgressSpec => []JournalInv
  BY JournalInvInit, JournalInvStep, PTL DEF ProgressSpec

(* Type correctness of the journal: in particular a lost COMMIT that lands *)
(* late writes no state the column does not have.                          *)
THEOREM ProgressTypeCorrect == ProgressSpec => []ProgressTypeOK
<1>1. JournalInv => ProgressTypeOK
  BY DEF JournalInv
<1> QED
  BY <1>1, JournalInvariant, PTL

(* advance_cursor never passes a height that is not journaled or not       *)
(* acknowledged, however many commits are lost and settle late.            *)
THEOREM CursorAlwaysBacked == ProgressSpec => []CursorBacked
<1>1. JournalInv => CursorBacked
  BY DEF JournalInv
<1> QED
  BY <1>1, JournalInvariant, PTL

(* cursor_version is the number of committed blocks.                       *)
THEOREM VersionExact == ProgressSpec => []VersionCountsBlocks
<1>1. JournalInv => VersionCountsBlocks
  BY DEF JournalInv
<1> QED
  BY <1>1, JournalInvariant, PTL

(* The state column that record_acknowledgement computes always agrees     *)
(* with the acknowledgements of the block.                                 *)
THEOREM StateColumnAlwaysAgrees == ProgressSpec => []StateColumnAgrees
<1>1. JournalInv => StateColumnAgrees
  BY DEF JournalInv
<1> QED
  BY <1>1, JournalInvariant, PTL

-----------------------------------------------------------------------------
(* What an admitted transaction leaves as it is: a plan and an             *)
(* acknowledgement that are there, and the cursor up to one height.        *)
LEMMA ApplyRewritesNothing ==
  ASSUME JournalInv, NEW tx \in Transactions, Admits(tx), Apply(tx)
  PROVE  RewritesNothing
<1> USE DEF Transactions, JournalInv, ProgressTypeOK, RewritesNothing
<1>1. CASE tx.op = "archived"
  BY <1>1 DEF Admits, Apply, CanRecordArchived, RecordArchived
<1>2. CASE tx.op = "acknowledgement"
  BY <1>2 DEF Admits, Apply, CanRecordAcknowledgement, RecordAcknowledgement
<1>3. CASE tx.op = "advance"
  BY <1>3 DEF Admits, Apply, CanAdvanceCursor, AdvanceCursor
<1> QED
  BY <1>1, <1>2, <1>3 DEF Admits

(* Nor does any other step of the store.                                   *)
LEMMA StepRewritesNothing ==
  ASSUME JournalInv, [ProgressNext]_progressVars
  PROVE  RewritesNothing
<1>1. CASE UNCHANGED <<journal, acked, cursor>>
  BY <1>1 DEF RewritesNothing
<1>2. CASE \E tx \in Transactions : Admits(tx) /\ Apply(tx) /\ pendingTx' = NoTx
  BY <1>2, ApplyRewritesNothing
<1> QED
  BY <1>1, <1>2, StepShape
     DEF progressVars, tableVars, InitializeChain, LoseReply, SettleRolledBack

(* No transaction rewrites what an earlier one has made durable, and the   *)
(* cursor moves by one height at a time.                                   *)
THEOREM NothingIsRewritten == ProgressSpec => NothingRewritten
<1>1. JournalInv /\ [ProgressNext]_progressVars => [RewritesNothing]_progressVars
  BY StepRewritesNothing
<1> QED
  BY <1>1, JournalInvariant, PTL DEF ProgressSpec, NothingRewritten

-----------------------------------------------------------------------------
(* An admitted transaction is a step of the committed log or leaves it.    *)
LEMMA ApplyRefinesLog ==
  ASSUME JournalInv, NEW tx \in Transactions, Admits(tx), Apply(tx)
  PROVE  Log!LogNext \/ UNCHANGED Log!logVars
<1> USE DEF Transactions, JournalInv, ProgressTypeOK
<1>1. CASE tx.op = "archived"
  <2>1. ~(tx.height <= cursor)
    BY <1>1 DEF Admits, CanRecordArchived, CursorBacked
  <2> QED
    BY <1>1, <2>1 DEF Apply, RecordArchived, Log!logVars, LogContent
<1>2. CASE tx.op = "acknowledgement"
  BY <1>2 DEF Apply, RecordAcknowledgement, Log!logVars, LogContent
<1>3. CASE tx.op = "advance"
  <2>1. /\ cursor + 1 \in Heights
        /\ cursor' = cursor + 1
        /\ journal' = journal
        /\ journal[cursor + 1] \in Plans
    BY <1>3 DEF Admits, Apply, CanAdvanceCursor, AdvanceCursor
  <2>2. LogContent' = [LogContent EXCEPT ![cursor + 1] = journal[cursor + 1]]
    <3>1. LogContent' = [h \in Heights |-> IF h <= cursor + 1 THEN journal[h] ELSE NoPlan]
      BY <2>1 DEF LogContent
    <3>2. \A h \in Heights : h <= cursor + 1 <=> h <= cursor \/ h = cursor + 1
      BY HeightsFacts
    <3> QED
      BY <3>1, <3>2, <2>1 DEF LogContent
  <2>3. Log!Append(journal[cursor + 1])
    BY <2>1, <2>2 DEF Log!Append, Log!LogHeights, Heights
  <2> QED
    BY <2>1, <2>3 DEF Log!LogNext
<1> QED
  BY <1>1, <1>2, <1>3 DEF Admits

(* The journal implements the committed log: under any callers and any     *)
(* lost replies the committed part only grows at its end.                  *)
THEOREM JournalRefinesLog == ProgressSpec => ImplementsCommittedLog
<1>1. ProgressInit => Log!LogInit
  BY HeightsFacts DEF ProgressInit, Log!LogInit, LogContent, Log!LogHeights, Heights
<1>2. JournalInv /\ [ProgressNext]_progressVars => [Log!LogNext]_(Log!logVars)
  <2> SUFFICES ASSUME JournalInv, [ProgressNext]_progressVars
               PROVE  Log!LogNext \/ UNCHANGED Log!logVars
    OBVIOUS
  <2>1. CASE UNCHANGED <<journal, cursor>>
    BY <2>1 DEF Log!logVars, LogContent
  <2>2. CASE \E tx \in Transactions : Admits(tx) /\ Apply(tx) /\ pendingTx' = NoTx
    BY <2>2, ApplyRefinesLog
  <2> QED
    BY <2>1, <2>2, StepShape
       DEF progressVars, tableVars, InitializeChain, LoseReply, SettleRolledBack
<1> QED
  BY <1>1, <1>2, JournalInvariant, PTL DEF ProgressSpec, ImplementsCommittedLog, Log!LogSpec

-----------------------------------------------------------------------------
(* What a worker does, as a caller or inside the coordinator.              *)
WorkerAction(w) ==
  \/ CallInitialize(w) \/ CallRecover(w) \/ TakeReply(w)
  \/ CoordinatorStep(w) \/ CoordinatorFault(w)

(* The type of the state of the calls.                                     *)
CallTypeOK ==
  /\ pc \in [Workers -> Steps]
  /\ reply \in [Workers -> Replies]
  /\ recovering \in [Workers -> BOOLEAN]
  /\ height \in [Workers -> Heights]
  /\ evidence \in [Workers -> Plans \union {NoPlan}]
  /\ known \in [Workers -> SUBSET Nat]
  /\ ordinal \in [Workers -> Nat]

(* The type of what the services hold.                                     *)
ServiceTypeOK ==
  /\ partition \in [Heights -> Plans \union {NoPlan}]
  /\ catalog \in [Heights -> Plans \union {NoPlan}]
  /\ stream \subseteq Messages
  /\ wire \subseteq Messages
  /\ ledger \subseteq Messages

(* The steps at which a call has a block, and those at which it has a plan *)
(* that is journaled.                                                      *)
BlockSteps == {"append", "catalog", "journal", "load", "publish", "ack", "advance"}
PlanSteps == {"load", "publish", "ack", "advance"}

-----------------------------------------------------------------------------
(* Moving a call from step to step keeps the types.                        *)
LEMMA GotoType ==
  ASSUME CallTypeOK, NEW w \in Workers, NEW p \in Steps, Goto(w, p)
  PROVE  CallTypeOK'
  BY DEF CallTypeOK, Goto, blockVars

(* So does starting on a block ...                                         *)
LEMMA TakeType ==
  ASSUME CallTypeOK, NEW w \in Workers, NEW step \in Steps, NEW h \in Heights,
         NEW p \in Plans \union {NoPlan}, NEW recovery \in BOOLEAN,
         Take(w, step, h, p, recovery)
  PROVE  CallTypeOK'
<1>1. recovering' \in [Workers -> BOOLEAN]
  BY DEF CallTypeOK, Take
<1>2. known' \in [Workers -> SUBSET Nat]
  BY DEF CallTypeOK, Take
<1>3. /\ pc' \in [Workers -> Steps] /\ reply' \in [Workers -> Replies]
      /\ height' \in [Workers -> Heights] /\ evidence' \in [Workers -> Plans \union {NoPlan}]
      /\ ordinal' \in [Workers -> Nat]
  BY DEF CallTypeOK, Take, Replies
<1> QED
  BY <1>1, <1>2, <1>3 DEF CallTypeOK

(* ... and returning to the caller.                                        *)
LEMMA ReturnType ==
  ASSUME CallTypeOK, NEW w \in Workers, NEW r \in Replies, Return(w, r)
  PROVE  CallTypeOK'
<1>1. recovering' \in [Workers -> BOOLEAN]
  BY DEF CallTypeOK, Return
<1>2. known' \in [Workers -> SUBSET Nat]
  BY DEF CallTypeOK, Return
<1>3. /\ pc' \in [Workers -> Steps] /\ reply' \in [Workers -> Replies]
      /\ height' \in [Workers -> Heights] /\ evidence' \in [Workers -> Plans \union {NoPlan}]
      /\ ordinal' \in [Workers -> Nat]
  BY HeightsFacts DEF CallTypeOK, Return, Steps
<1> QED
  BY <1>1, <1>2, <1>3 DEF CallTypeOK

-----------------------------------------------------------------------------
(* The actions of a worker that write to the journal ...                   *)
JournalWrites(w) ==
  \/ CallInitialize(w)
  \/ JournalBlock(w) \/ LoseJournalReply(w)
  \/ RecordAck(w) \/ LoseAckReply(w)
  \/ Advance(w) \/ LoseAdvanceReply(w)

(* ... all others leave it alone.                                          *)
LEMMA JournalUntouched ==
  ASSUME NEW w \in Workers, WorkerAction(w), ~JournalWrites(w)
  PROVE  UNCHANGED progressVars
<1>1. CASE CoordinatorStep(w)
  BY <1>1 DEF JournalWrites, CoordinatorStep, AppendExisting, PublishPartition,
       PublishCatalog, JournalConflicts, LoadAcknowledgements, AckConflicts,
       AdvanceRefused, SkipAcknowledged, BatchComplete, Publish, LedgerRefuses,
       RecoverNextExpected, RecoverPastLastHeight, RecoverLoadPlan, RecoverJournaled,
       RecoverMismatch, RecoverArchived, RecoverNothing
<1>2. CASE CoordinatorFault(w)
  BY <1>2 DEF JournalWrites, CoordinatorFault, ArchiveFails, ProgressFails,
       PublishFails, RecoverReadFails
<1>3. CASE CallRecover(w) \/ TakeReply(w)
  BY <1>3 DEF CallRecover, TakeReply
<1> QED
  BY <1>1, <1>2, <1>3 DEF WorkerAction, JournalWrites

(* Every action of a worker is a step of the journal, or leaves it alone.  *)
LEMMA JournalStep ==
  ASSUME CallTypeOK, NEW w \in Workers, WorkerAction(w)
  PROVE  [ProgressNext]_progressVars
<1> USE DEF CallTypeOK
<1>1. CASE CallInitialize(w)
  BY <1>1 DEF CallInitialize, ProgressNext
<1>2. ASSUME Commit(ArchivedTx(height[w], evidence[w])) \/ LoseReply(ArchivedTx(height[w], evidence[w]))
      PROVE  ProgressNext
  <2>1. evidence[w] \in Plans
    BY <1>2 DEF Commit, LoseReply, Admits, ArchivedTx
  <2> QED
    BY <1>2, <2>1 DEF ProgressNext
<1>3. ASSUME \/ Commit(AcknowledgementTx(height[w], ordinal[w]))
             \/ LoseReply(AcknowledgementTx(height[w], ordinal[w]))
      PROVE  ProgressNext
  <2>1. ordinal[w] \in Ordinals(height[w])
    BY <1>3 DEF Commit, LoseReply, Admits, AcknowledgementTx, CanRecordAcknowledgement
  <2> QED
    BY <1>3, <2>1 DEF ProgressNext
<1>4. ASSUME Commit(AdvanceTx(height[w])) \/ LoseReply(AdvanceTx(height[w]))
      PROVE  ProgressNext
  BY <1>4 DEF ProgressNext
<1>5. CASE JournalBlock(w) \/ LoseJournalReply(w)
  BY <1>5, <1>2 DEF JournalBlock, LoseJournalReply
<1>6. CASE RecordAck(w) \/ LoseAckReply(w)
  BY <1>6, <1>3 DEF RecordAck, LoseAckReply
<1>7. CASE Advance(w) \/ LoseAdvanceReply(w)
  BY <1>7, <1>4 DEF Advance, LoseAdvanceReply
<1>8. CASE ~JournalWrites(w)
  BY <1>8, JournalUntouched
<1> QED
  BY <1>1, <1>5, <1>6, <1>7, <1>8 DEF JournalWrites

(* So is every step of the whole specification.                            *)
LEMMA NextJournalStep ==
  ASSUME CallTypeOK, [AnyEvidenceNext]_coordinatorVars
  PROVE  [ProgressNext]_progressVars
<1>1. CASE \E w \in Workers : WorkerAction(w)
  BY <1>1, JournalStep
<1>2. CASE \E h \in Heights, p \in Plans : CallProcess(h, p)
  BY <1>2 DEF CallProcess
<1>3. CASE SettleTransaction
  BY <1>3 DEF SettleTransaction, ProgressNext
<1>4. CASE LateArrival \/ CoordinatorCrash
  BY <1>4 DEF LateArrival, CoordinatorCrash
<1>5. CASE UNCHANGED coordinatorVars
  BY <1>5 DEF coordinatorVars
<1> QED
  BY <1>1, <1>2, <1>3, <1>4, <1>5 DEF AnyEvidenceNext, CoordinatorActivity, WorkerAction

-----------------------------------------------------------------------------
(* The call of v is where it was.                                          *)
Keeps(v) ==
  /\ pc'[v] = pc[v] /\ reply'[v] = reply[v]
  /\ recovering'[v] = recovering[v]
  /\ height'[v] = height[v] /\ evidence'[v] = evidence[v]
  /\ known'[v] = known[v] /\ ordinal'[v] = ordinal[v]

(* How an action of w changes the calls: in one of six ways.               *)
Moves(w) ==
  \/ UNCHANGED callVars
  \/ \E p \in Steps : Goto(w, p)
  \/ \E r \in Replies : Return(w, r)
  \/ \E step \in Steps, h \in Heights, p \in Plans \union {NoPlan}, recovery \in BOOLEAN :
       Take(w, step, h, p, recovery)
  \/ /\ pc' = [pc EXCEPT ![w] = "publish"]
     /\ \E k \in SUBSET Nat : known' = [known EXCEPT ![w] = k]
     /\ ordinal' = [ordinal EXCEPT ![w] = 0]
     /\ UNCHANGED <<reply, recovering, height, evidence>>
  \/ /\ pc' = [pc EXCEPT ![w] = "publish"]
     /\ ordinal' = [ordinal EXCEPT ![w] = @ + 1]
     /\ UNCHANGED <<reply, blockVars>>

(* An action of a worker moves the call of that worker.                    *)
LEMMA WorkerMoves ==
  ASSUME CoordinatorTypeOK, NEW w \in Workers, WorkerAction(w)
  PROVE  Moves(w)
<1> USE DEF CoordinatorTypeOK, Moves
<1>1. CASE CallInitialize(w)
  BY <1>1 DEF CallInitialize
<1>2. CASE CallRecover(w) \/ TakeReply(w)
  BY <1>2, HeightsFacts DEF CallRecover, TakeReply, Steps, Replies
<1>3. CASE AppendExisting(w) \/ PublishPartition(w) \/ PublishCatalog(w) \/ JournalBlock(w)
           \/ BatchComplete(w) \/ Publish(w) \/ RecoverJournaled(w)
  BY <1>3 DEF AppendExisting, PublishPartition, PublishCatalog, JournalBlock,
       BatchComplete, Publish, RecoverJournaled, Steps
<1>4. CASE JournalConflicts(w) \/ AckConflicts(w) \/ AdvanceRefused(w) \/ LedgerRefuses(w)
  BY <1>4 DEF JournalConflicts, AckConflicts, AdvanceRefused, LedgerRefuses, GiveUp, Replies
<1>5. CASE LoadAcknowledgements(w)
  BY <1>5 DEF LoadAcknowledgements, ProgressTypeOK
<1>6. CASE RecordAck(w)
  BY <1>6 DEF RecordAck
<1>7. CASE SkipAcknowledged(w)
  <2>1. pc' = [pc EXCEPT ![w] = "publish"]
    BY <1>7 DEF SkipAcknowledged
  <2> QED
    BY <1>7, <2>1 DEF SkipAcknowledged
<1>8. CASE Advance(w)
  BY <1>8, HeightsFacts DEF Advance, Steps, Replies
<1>9. CASE RecoverNextExpected(w) \/ RecoverLoadPlan(w) \/ RecoverArchived(w)
  BY <1>9 DEF RecoverNextExpected, RecoverLoadPlan, RecoverArchived, Steps, ProgressTypeOK
<1>10. CASE RecoverPastLastHeight(w) \/ RecoverMismatch(w) \/ RecoverNothing(w)
  BY <1>10 DEF RecoverPastLastHeight, RecoverMismatch, RecoverNothing, Replies
<1>11. CASE CoordinatorFault(w)
  BY <1>11 DEF CoordinatorFault, ArchiveFails, ProgressFails, PublishFails, LoseJournalReply,
       LoseAckReply, LoseAdvanceReply, RecoverReadFails, GiveUp, Replies
<1> QED
  BY <1>1, <1>2, <1>3, <1>4, <1>5, <1>6, <1>7, <1>8, <1>9, <1>10, <1>11
     DEF WorkerAction, CoordinatorStep

(* The types of the calls are kept, and the calls of the others.           *)
LEMMA MovesKeep ==
  ASSUME CallTypeOK, NEW w \in Workers, Moves(w)
  PROVE  CallTypeOK' /\ \A v \in Workers \ {w} : Keeps(v)
<1>1. CASE UNCHANGED callVars
  BY <1>1 DEF callVars, blockVars, CallTypeOK, Keeps
<1>2. CASE \E p \in Steps : Goto(w, p)
  BY <1>2, GotoType DEF Goto, blockVars, CallTypeOK, Keeps
<1>3. CASE \E r \in Replies : Return(w, r)
  <2>1. PICK r \in Replies : Return(w, r)
    BY <1>3
  <2>2. \A v \in Workers \ {w} : recovering'[v] = recovering[v] /\ known'[v] = known[v]
    BY <2>1 DEF Return, CallTypeOK
  <2>3. \A v \in Workers \ {w} :
          /\ pc'[v] = pc[v] /\ reply'[v] = reply[v] /\ height'[v] = height[v]
          /\ evidence'[v] = evidence[v] /\ ordinal'[v] = ordinal[v]
    BY <2>1 DEF Return, CallTypeOK
  <2> QED
    BY <2>1, <2>2, <2>3, ReturnType DEF Keeps
<1>4. CASE \E step \in Steps, h \in Heights, p \in Plans \union {NoPlan}, recovery \in BOOLEAN :
             Take(w, step, h, p, recovery)
  <2>1. PICK step \in Steps, h \in Heights, p \in Plans \union {NoPlan}, recovery \in BOOLEAN :
          Take(w, step, h, p, recovery)
    BY <1>4
  <2>2. \A v \in Workers \ {w} : recovering'[v] = recovering[v] /\ known'[v] = known[v]
    BY <2>1 DEF Take, CallTypeOK
  <2>3. \A v \in Workers \ {w} :
          /\ pc'[v] = pc[v] /\ reply'[v] = reply[v] /\ height'[v] = height[v]
          /\ evidence'[v] = evidence[v] /\ ordinal'[v] = ordinal[v]
    BY <2>1 DEF Take, CallTypeOK
  <2> QED
    BY <2>1, <2>2, <2>3, TakeType DEF Keeps
<1>5. CASE /\ pc' = [pc EXCEPT ![w] = "publish"]
           /\ \E k \in SUBSET Nat : known' = [known EXCEPT ![w] = k]
           /\ ordinal' = [ordinal EXCEPT ![w] = 0]
           /\ UNCHANGED <<reply, recovering, height, evidence>>
  BY <1>5 DEF CallTypeOK, Keeps, Steps
<1>6. CASE /\ pc' = [pc EXCEPT ![w] = "publish"]
           /\ ordinal' = [ordinal EXCEPT ![w] = @ + 1]
           /\ UNCHANGED <<reply, blockVars>>
  BY <1>6 DEF CallTypeOK, Keeps, Steps, blockVars
<1> QED
  BY <1>1, <1>2, <1>3, <1>4, <1>5, <1>6 DEF Moves

-----------------------------------------------------------------------------
(* The invariant of the coordinator under a drain that offers any evidence *)
(* for the next height.                                                    *)

(* A block in hand has evidence; once it is past the journal, the plan in  *)
(* hand is the journaled one; a message about to be recorded as            *)
(* acknowledged is stored.                                                 *)
PlanInHand(w) ==
  /\ pc[w] \in BlockSteps => evidence[w] # NoPlan
  /\ pc[w] \in PlanSteps => journal[height[w]] = evidence[w]
  /\ pc[w] = "recover_block" => evidence[w] \in {NoPlan, journal[height[w]]}
  /\ pc[w] = "ack" => InHand(w) \in stream

(* No call is ahead of the next height, and what comes before the message  *)
(* in hand is stored.                                                      *)
SentBefore(w) ==
  /\ height[w] <= cursor + 1
  /\ known[w] \subseteq acked[height[w]]
  /\ pc[w] \in {"publish", "ack"} =>
       \A q \in Ordinals(height[w]) :
         q < ordinal[w] => Message(height[w], q, evidence[w]) \in stream

(* What is sent is journaled; what is acknowledged, or about to be, is     *)
(* stored.                                                                 *)
MessagesJournaled == \A m \in stream \union wire : journal[m.height] = m.plan

AcksStored ==
  /\ \A h \in Heights : \A o \in acked[h] : Message(h, o, journal[h]) \in stream
  /\ pendingTx.op = "acknowledgement" =>
       Message(pendingTx.height, pendingTx.ordinal, journal[pendingTx.height]) \in stream

PublicationInv ==
  /\ CoordinatorTypeOK
  /\ JournalInv
  /\ \A w \in Workers : PlanInHand(w) /\ SentBefore(w)
  /\ MessagesJournaled
  /\ AcksStored
  /\ StreamInOrder

(* The parts of the type invariant.                                        *)
LEMMA TypeParts ==
  CoordinatorTypeOK <=> ProgressTypeOK /\ ServiceTypeOK /\ CallTypeOK
  BY DEF CoordinatorTypeOK, ServiceTypeOK, CallTypeOK

(* Nothing is in progress, nothing is sent.                                *)
LEMMA PublicationInvInit == CoordinatorInit => PublicationInv
<1> SUFFICES ASSUME CoordinatorInit PROVE PublicationInv
  OBVIOUS
<1> USE HeightsFacts, ProgressAssumption DEF CoordinatorInit
<1>1. JournalInv
  BY JournalInvInit
<1>2. CallTypeOK
  <2>1. recovering \in [Workers -> BOOLEAN]
    OBVIOUS
  <2>2. known \in [Workers -> SUBSET Nat]
    OBVIOUS
  <2>3. /\ pc \in [Workers -> Steps] /\ reply \in [Workers -> Replies]
        /\ height \in [Workers -> Heights] /\ evidence \in [Workers -> Plans \union {NoPlan}]
        /\ ordinal \in [Workers -> Nat]
    BY DEF Steps, Replies
  <2> QED
    BY <2>1, <2>2, <2>3 DEF CallTypeOK
<1>3. ServiceTypeOK
  BY DEF ServiceTypeOK
<1>4. CoordinatorTypeOK
  BY <1>1, <1>2, <1>3, TypeParts DEF JournalInv
<1>5. \A w \in Workers : PlanInHand(w) /\ SentBefore(w)
  BY DEF PlanInHand, SentBefore, BlockSteps, PlanSteps, ProgressInit
<1>6. MessagesJournaled /\ AcksStored /\ StreamInOrder
  BY DEF MessagesJournaled, AcksStored, StreamInOrder, ProgressInit, NoTx
<1> QED
  BY <1>1, <1>4, <1>5, <1>6 DEF PublicationInv

(* A call that does not move keeps its part of the invariant: the journal  *)
(* and the stream only grow under it.                                      *)
LEMMA KeptCall ==
  ASSUME PublicationInv, NEW v \in Workers, Keeps(v), RewritesNothing, stream \subseteq stream'
  PROVE  PlanInHand(v)' /\ SentBefore(v)'
<1>1. PlanInHand(v) /\ SentBefore(v)
  BY DEF PublicationInv
<1>2. height[v] \in Heights /\ height[v] \in Int /\ cursor \in Int /\ cursor' \in {cursor, cursor + 1}
  BY HeightsFacts DEF PublicationInv, CoordinatorTypeOK, ProgressTypeOK, RewritesNothing
<1>3. /\ journal[height[v]] # NoPlan => journal'[height[v]] = journal[height[v]]
      /\ acked[height[v]] \subseteq acked'[height[v]]
  BY <1>2 DEF RewritesNothing
<1>4. PlanInHand(v)'
  BY <1>1, <1>3 DEF PlanInHand, InHand, Message, BlockSteps, PlanSteps, Keeps
<1>5. SentBefore(v)'
  BY <1>1, <1>2, <1>3 DEF SentBefore, Message, Ordinals, Keeps
<1> QED
  BY <1>4, <1>5

(* A call that returns has nothing in hand.                                *)
LEMMA ReturnedCall ==
  ASSUME PublicationInv, RewritesNothing, NEW w \in Workers,
         NEW r \in Replies, Return(w, r)
  PROVE  PlanInHand(w)' /\ SentBefore(w)'
<1>1. /\ pc'[w] = "caller" /\ height'[w] = FirstHeight /\ known'[w] = {}
  BY DEF PublicationInv, CoordinatorTypeOK, Return
<1>2. PlanInHand(w)'
  BY <1>1 DEF PlanInHand, BlockSteps, PlanSteps
<1>3. cursor \in Int /\ FirstHeight <= cursor + 1 /\ cursor' \in {cursor, cursor + 1}
  BY HeightsFacts DEF PublicationInv, JournalInv, CursorInRange, RewritesNothing
<1>4. height'[w] <= cursor' + 1
  <2>1. CASE cursor' = cursor
    BY <2>1, <1>1, <1>3
  <2>2. CASE cursor' = cursor + 1
    BY <2>2, <1>1, <1>3, HeightsFacts
  <2> QED
    BY <2>1, <2>2, <1>3
<1>5. SentBefore(w)'
  BY <1>1, <1>4 DEF SentBefore
<1> QED
  BY <1>2, <1>5

(* What an action of w does to the bus: nothing, or it sends the message   *)
(* in hand.                                                                *)
LEMMA WorkerSends ==
  ASSUME NEW w \in Workers, WorkerAction(w)
  PROVE  \/ UNCHANGED <<stream, wire, ledger>>
         \/ /\ Unpublished(w)
            /\ stream \subseteq stream'
            /\ stream' \subseteq stream \union {InHand(w)}
            /\ wire' \subseteq wire \union {InHand(w)}
            /\ ledger' \subseteq ledger \union {InHand(w)}
<1>1. CASE Publish(w)
  BY <1>1 DEF Publish, Store
<1>2. CASE PublishFails(w)
  BY <1>2 DEF PublishFails
<1>3. CASE CoordinatorStep(w) /\ ~Publish(w)
  BY <1>3 DEF busVars, CoordinatorStep, AppendExisting, PublishPartition, PublishCatalog,
       JournalBlock, JournalConflicts, LoadAcknowledgements, RecordAck, AckConflicts,
       Advance, AdvanceRefused, SkipAcknowledged, BatchComplete, LedgerRefuses,
       RecoverNextExpected, RecoverPastLastHeight, RecoverLoadPlan, RecoverJournaled,
       RecoverMismatch, RecoverArchived, RecoverNothing
<1>4. CASE CoordinatorFault(w) /\ ~PublishFails(w)
  BY <1>4 DEF busVars, CoordinatorFault, ArchiveFails, ProgressFails, LoseJournalReply,
       LoseAckReply, LoseAdvanceReply, RecoverReadFails
<1>5. CASE CallInitialize(w) \/ CallRecover(w) \/ TakeReply(w)
  BY <1>5 DEF busVars, CallInitialize, CallRecover, TakeReply
<1> QED
  BY <1>1, <1>2, <1>3, <1>4, <1>5 DEF WorkerAction

(* The cursor never moves back behind a call.                              *)
LEMMA BoundKept ==
  ASSUME PublicationInv, RewritesNothing, NEW h \in Int, h <= cursor + 1
  PROVE  h <= cursor' + 1
<1>1. cursor \in Int /\ cursor' \in {cursor, cursor + 1}
  BY DEF PublicationInv, CoordinatorTypeOK, ProgressTypeOK, RewritesNothing
<1>2. CASE cursor' = cursor
  BY <1>2
<1>3. CASE cursor' = cursor + 1
  BY <1>1, <1>3
<1> QED
  BY <1>1, <1>2, <1>3

(* What is left to show of a call that moves, if not to publish or record. *)
LEMMA MovedCall ==
  ASSUME PublicationInv, RewritesNothing, NEW w \in Workers,
         height'[w] \in Heights, height'[w] <= cursor + 1,
         known'[w] \subseteq acked[height'[w]],
         pc'[w] \notin {"publish", "ack"},
         pc'[w] \in BlockSteps => evidence'[w] # NoPlan,
         pc'[w] \in PlanSteps => journal'[height'[w]] = evidence'[w],
         pc'[w] = "recover_block" => evidence'[w] \in {NoPlan, journal'[height'[w]]}
  PROVE  PlanInHand(w)' /\ SentBefore(w)'
<1>1. PlanInHand(w)'
  BY DEF PlanInHand
<1>2. height'[w] <= cursor' + 1
  BY BoundKept, HeightsFacts
<1>3. known'[w] \subseteq acked'[height'[w]]
  BY DEF RewritesNothing
<1> QED
  BY <1>1, <1>2, <1>3 DEF SentBefore

(* What the invariant says of the call of w.                               *)
LEMMA CallFacts ==
  ASSUME PublicationInv, NEW w \in Workers
  PROVE  /\ height[w] \in Heights /\ height[w] <= cursor + 1
         /\ known[w] \subseteq acked[height[w]]
         /\ pc[w] \in BlockSteps => evidence[w] \in Plans /\ evidence[w] # NoPlan
         /\ pc[w] \in PlanSteps => journal[height[w]] = evidence[w]
         /\ pc[w] = "recover_block" => evidence[w] \in {NoPlan, journal[height[w]]}
         /\ ordinal[w] \in Nat /\ evidence[w] \in Plans \union {NoPlan}
<1>1. PlanInHand(w) /\ SentBefore(w)
  BY DEF PublicationInv
<1>2. height[w] \in Heights /\ evidence[w] \in Plans \union {NoPlan} /\ ordinal[w] \in Nat
  BY DEF PublicationInv, CoordinatorTypeOK
<1> QED
  BY <1>1, <1>2 DEF PlanInHand, SentBefore

(* Storing a message that is journaled really stores it: a copy that makes *)
(* it a duplicate has the same content.                                    *)
LEMMA StoredIsStored ==
  ASSUME PublicationInv, NEW m \in Messages, journal[m.height] = m.plan, Store(m)
  PROVE  m \in stream'
<1>1. CASE \E n \in stream : SameId(m, n) /\ UNCHANGED stream
  <2>1. PICK n \in stream : SameId(m, n)
    BY <1>1
  <2>2. n \in Messages /\ journal[n.height] = n.plan
    BY DEF PublicationInv, CoordinatorTypeOK, MessagesJournaled
  <2>3. n = m
    BY <2>1, <2>2 DEF SameId, Messages
  <2> QED
    BY <1>1, <2>3
<1> QED
  BY <1>1 DEF Store

(* A call that moves to the next step with what it has in hand.            *)
LEMMA GotoValues ==
  ASSUME CallTypeOK, NEW w \in Workers, NEW p, Goto(w, p)
  PROVE  /\ pc'[w] = p
         /\ UNCHANGED <<recovering, height, evidence, known, ordinal>>
  BY DEF CallTypeOK, Goto, blockVars

(* A call that starts on a block.                                          *)
LEMMA TakeValues ==
  ASSUME CallTypeOK, NEW w \in Workers, NEW step, NEW h, NEW p, NEW recovery,
         Take(w, step, h, p, recovery)
  PROVE  /\ pc'[w] = step /\ height'[w] = h /\ evidence'[w] = p
         /\ known'[w] = {} /\ ordinal'[w] = 0
  BY DEF CallTypeOK, Take

(* The call of w keeps its part of the invariant under its own actions.    *)
LEMMA OwnCall ==
  ASSUME PublicationInv, NEW w \in Workers, WorkerAction(w), RewritesNothing,
         stream \subseteq stream'
  PROVE  PlanInHand(w)' /\ SentBefore(w)'
<1>0. CallTypeOK /\ CursorInRange /\ cursor \in Int
  BY TypeParts DEF PublicationInv, JournalInv, ProgressTypeOK
<1>1. CASE CallInitialize(w)
  <2>1. Keeps(w)
    BY <1>1 DEF CallInitialize, callVars, blockVars, Keeps
  <2> QED
    BY <2>1, KeptCall
<1>2. CASE CallRecover(w) \/ (Advance(w) /\ Take(w, "recover", FirstHeight, NoPlan, FALSE))
  <2>1. Take(w, "recover", FirstHeight, NoPlan, FALSE)
    BY <1>2 DEF CallRecover
  <2>2. FirstHeight <= cursor + 1
    BY <1>0, HeightsFacts DEF CursorInRange
  <2>3. pc'[w] = "recover" /\ height'[w] = FirstHeight /\ known'[w] = {}
    BY <1>0, <2>1, TakeValues
  <2> QED
    BY <2>2, <2>3, MovedCall, HeightsFacts DEF BlockSteps, PlanSteps
<1>3. CASE \E r \in Replies : Return(w, r)
  BY <1>3, ReturnedCall
<1>4. CASE AppendExisting(w) \/ PublishPartition(w) \/ PublishCatalog(w)
  <2>1. pc[w] \in BlockSteps /\ \E p \in {"catalog", "journal"} : Goto(w, p)
    BY <1>4 DEF AppendExisting, PublishPartition, PublishCatalog, BlockSteps
  <2>2. pc'[w] \in {"catalog", "journal"} /\ UNCHANGED <<height, evidence, known>>
    BY <1>0, <2>1, GotoValues
  <2> QED
    BY <2>1, <2>2, CallFacts, MovedCall DEF BlockSteps, PlanSteps
<1>5. CASE JournalBlock(w)
  <2>1. pc[w] = "journal" /\ Goto(w, "load")
    BY <1>5 DEF JournalBlock
  <2>2. pc'[w] = "load" /\ UNCHANGED <<height, evidence, known>>
    BY <1>0, <2>1, GotoValues
  <2>3. journal'[height[w]] = evidence[w]
    <3>1. CASE Commit(ArchivedTx(height[w], evidence[w]))
      <4>1. RecordArchived(height[w], evidence[w])
        BY <3>1 DEF Commit, Apply, ArchivedTx
      <4> QED
        BY <4>1, CallFacts DEF RecordArchived, PublicationInv, CoordinatorTypeOK, ProgressTypeOK
    <3>2. CASE journal[height[w]] = evidence[w] /\ UNCHANGED progressVars
      BY <3>2 DEF progressVars
    <3> QED
      BY <1>5, <3>1, <3>2 DEF JournalBlock
  <2> QED
    BY <2>1, <2>2, <2>3, CallFacts, MovedCall DEF BlockSteps, PlanSteps
<1>6. CASE LoadAcknowledgements(w)
  <2>1. /\ pc[w] = "load" /\ pc'[w] = "publish"
        /\ known'[w] = acked[height[w]] /\ ordinal'[w] = 0
        /\ UNCHANGED <<height, evidence, journal, acked>>
    BY <1>0, <1>6 DEF LoadAcknowledgements, CallTypeOK, progressVars
  <2>2. PlanInHand(w)'
    BY <2>1, CallFacts DEF PlanInHand, BlockSteps, PlanSteps
  <2>3. height'[w] <= cursor' + 1
    BY <2>1, CallFacts, BoundKept, HeightsFacts
  <2>4. \A q \in Ordinals(height[w]) : ~(q < 0)
    BY CallFacts, HeightsFacts
  <2> QED
    BY <2>1, <2>2, <2>3, <2>4 DEF SentBefore
<1>7. CASE RecordAck(w) \/ SkipAcknowledged(w)
  <2>1. /\ pc'[w] = "publish" /\ ordinal'[w] = ordinal[w] + 1
        /\ UNCHANGED <<height, evidence, known>>
        /\ pc[w] \in {"publish", "ack"}
    BY <1>0, <1>7 DEF RecordAck, SkipAcknowledged, CallTypeOK, blockVars
  <2>2. Message(height[w], ordinal[w], evidence[w]) \in stream
    <3>1. CASE RecordAck(w)
      BY <3>1 DEF RecordAck, PublicationInv, PlanInHand, InHand
    <3>2. CASE SkipAcknowledged(w)
      <4>1. ordinal[w] \in acked[height[w]] /\ journal[height[w]] = evidence[w]
        BY <3>2, CallFacts DEF SkipAcknowledged, PlanSteps
      <4> QED
        BY <4>1, CallFacts DEF PublicationInv, AcksStored
    <3> QED
      BY <1>7, <3>1, <3>2
  <2>3. evidence[w] # NoPlan /\ journal[height[w]] = evidence[w] /\ height[w] \in Heights
    BY <2>1, CallFacts DEF BlockSteps, PlanSteps
  <2>4. PlanInHand(w)'
    BY <2>1, <2>3 DEF PlanInHand, RewritesNothing
  <2>5. height'[w] <= cursor' + 1 /\ known'[w] \subseteq acked'[height'[w]]
    BY <2>1, CallFacts, BoundKept, HeightsFacts DEF RewritesNothing
  <2>6. ASSUME NEW q \in Ordinals(height[w]), q < ordinal[w] + 1
        PROVE  Message(height[w], q, evidence[w]) \in stream
    <3>0. q \in Nat /\ ordinal[w] \in Nat
      BY <2>3, CallFacts, HeightsFacts
    <3>1. q = ordinal[w] \/ q < ordinal[w]
      BY <2>6, <3>0
    <3>2. CASE q < ordinal[w]
      BY <3>2, <2>1 DEF PublicationInv, SentBefore
    <3> QED
      BY <3>1, <3>2, <2>2
  <2> QED
    BY <2>1, <2>4, <2>5, <2>6 DEF SentBefore
<1>8. CASE BatchComplete(w) \/ RecoverJournaled(w)
  <2>1. /\ evidence[w] # NoPlan /\ journal[height[w]] = evidence[w]
        /\ \E p \in {"load", "advance"} : Goto(w, p)
    BY <1>8, CallFacts DEF BatchComplete, RecoverJournaled, BlockSteps, PlanSteps
  <2>2. pc'[w] \in {"load", "advance"} /\ UNCHANGED <<height, evidence, known>>
    BY <1>0, <2>1, GotoValues
  <2>3. journal'[height[w]] = evidence[w]
    BY <2>1, CallFacts DEF RewritesNothing
  <2> QED
    BY <2>1, <2>2, <2>3, CallFacts, MovedCall DEF BlockSteps, PlanSteps
<1>9. CASE Publish(w)
  <2>1. pc[w] = "publish" /\ pc'[w] = "ack" /\ UNCHANGED <<height, evidence, known, ordinal>>
    BY <1>0, <1>9, GotoValues DEF Publish, Unpublished
  <2>2. evidence[w] \in Plans /\ evidence[w] # NoPlan /\ journal[height[w]] = evidence[w]
    BY <2>1, CallFacts DEF BlockSteps, PlanSteps
  <2>3. InHand(w) \in Messages
    BY <2>2, CallFacts DEF InHand, Message, Messages
  <2>4. InHand(w) \in stream'
    BY <1>9, <2>2, <2>3, StoredIsStored DEF Publish, InHand, Message
  <2>5. PlanInHand(w)'
    BY <2>1, <2>2, <2>4, CallFacts DEF PlanInHand, InHand, RewritesNothing
  <2>6. height'[w] <= cursor' + 1 /\ known'[w] \subseteq acked'[height'[w]]
    BY <2>1, CallFacts, BoundKept, HeightsFacts DEF RewritesNothing
  <2>7. \A q \in Ordinals(height[w]) :
          q < ordinal[w] => Message(height[w], q, evidence[w]) \in stream
    BY <2>1 DEF PublicationInv, SentBefore
  <2> QED
    BY <2>1, <2>5, <2>6, <2>7 DEF SentBefore
<1>10. CASE RecoverNextExpected(w)
  <2>1. pc'[w] = "recover_plan" /\ height'[w] = cursor + 1 /\ known'[w] = {} /\ cursor + 1 \in Heights
    BY <1>0, <1>10, TakeValues DEF RecoverNextExpected, next_expected_height
  <2>2. height'[w] <= cursor + 1
    BY <2>1, <1>0
  <2> QED
    BY <2>1, <2>2, MovedCall DEF BlockSteps, PlanSteps
<1>11. CASE RecoverLoadPlan(w)
  <2>0. Take(w, "recover_block", height[w], journal[height[w]], TRUE) /\ journal' = journal
    BY <1>11 DEF RecoverLoadPlan, progressVars
  <2>1. /\ pc'[w] = "recover_block" /\ height'[w] = height[w] /\ known'[w] = {}
        /\ evidence'[w] = journal'[height[w]]
    BY <1>0, <2>0 DEF Take, CallTypeOK
  <2> QED
    BY <2>1, CallFacts, MovedCall DEF BlockSteps, PlanSteps
<1>12. CASE RecoverArchived(w)
  <2>0. Take(w, "append", height[w], catalog[height[w]], TRUE) /\ catalog[height[w]] # NoPlan
    BY <1>12 DEF RecoverArchived
  <2>1. /\ pc'[w] = "append" /\ height'[w] = height[w] /\ known'[w] = {}
        /\ evidence'[w] # NoPlan
    BY <1>0, <2>0 DEF Take, CallTypeOK
  <2> QED
    BY <2>1, CallFacts, MovedCall DEF BlockSteps, PlanSteps
<1>13. CASE JournalConflicts(w) \/ AckConflicts(w) \/ AdvanceRefused(w) \/ LedgerRefuses(w)
            \/ RecoverPastLastHeight(w) \/ RecoverMismatch(w) \/ RecoverNothing(w)
            \/ CoordinatorFault(w) \/ TakeReply(w)
  <2>1. \E r \in Replies : Return(w, r)
    BY <1>13 DEF JournalConflicts, AckConflicts, AdvanceRefused, LedgerRefuses, GiveUp,
         RecoverPastLastHeight, RecoverMismatch, RecoverNothing, CoordinatorFault,
         ArchiveFails, ProgressFails, PublishFails, LoseJournalReply, LoseAckReply,
         LoseAdvanceReply, RecoverReadFails, TakeReply, Replies
  <2> QED
    BY <2>1, <1>3
<1>14. CASE Advance(w)
  <2>1. \/ Take(w, "recover", FirstHeight, NoPlan, FALSE)
        \/ \E r \in Replies : Return(w, r)
    BY <1>14 DEF Advance, Replies
  <2> QED
    BY <2>1, <1>2, <1>3, <1>14
<1> QED
  BY <1>1, <1>2, <1>4, <1>5, <1>6, <1>7, <1>8, <1>9, <1>10, <1>11, <1>12, <1>13, <1>14
     DEF WorkerAction, CoordinatorStep

-----------------------------------------------------------------------------
(* The rest of the invariant: what is in the stream and on the wire.       *)

(* What comes before m is stored.                                          *)
EarlierStored(m) ==
  \A g \in Heights : \A q \in Ordinals(g) :
    Precedes(g, q, m) => \E n \in stream : n.height = g /\ n.ordinal = q

(* Messages are added whose plan is journaled and whose predecessors are   *)
(* stored.                                                                 *)
LEMMA GrowingBus ==
  ASSUME PublicationInv, RewritesNothing, stream \subseteq stream',
         NEW S \in SUBSET Messages, stream' \union wire' \subseteq stream \union wire \union S,
         \A m \in S : journal[m.height] = m.plan /\ EarlierStored(m)
  PROVE  MessagesJournaled' /\ StreamInOrder'
<1>1. ASSUME NEW m \in stream' \union wire'
      PROVE  journal'[m.height] = m.plan /\ EarlierStored(m)
  <2>1. m \in Messages /\ journal[m.height] = m.plan
    BY DEF PublicationInv, CoordinatorTypeOK, MessagesJournaled
  <2>2. m.height \in Heights /\ m.plan # NoPlan
    BY <2>1, ProgressAssumption DEF Messages
  <2>3. EarlierStored(m)
    BY DEF PublicationInv, StreamInOrder, EarlierStored
  <2> QED
    BY <2>1, <2>2, <2>3 DEF RewritesNothing
<1>2. MessagesJournaled'
  BY <1>1 DEF MessagesJournaled
<1>3. StreamInOrder'
  BY <1>1 DEF StreamInOrder, EarlierStored, Precedes
<1> QED
  BY <1>2, <1>3

(* The message in hand of a call that is about to publish qualifies.       *)
LEMMA InHandQualifies ==
  ASSUME PublicationInv, NEW w \in Workers, Unpublished(w)
  PROVE  /\ InHand(w) \in Messages
         /\ journal[InHand(w).height] = InHand(w).plan
         /\ EarlierStored(InHand(w))
<1>1. pc[w] = "publish" /\ evidence[w] \in Plans /\ journal[height[w]] = evidence[w]
  BY CallFacts DEF Unpublished, BlockSteps, PlanSteps
<1>2. InHand(w) \in Messages
  BY <1>1, CallFacts DEF InHand, Message, Messages
<1>3. journal[InHand(w).height] = InHand(w).plan
  BY <1>1 DEF InHand, Message
<1>4. ASSUME NEW g \in Heights, NEW q \in Ordinals(g), Precedes(g, q, InHand(w))
      PROVE  \E n \in stream : n.height = g /\ n.ordinal = q
  <2>1. g < height[w] \/ (g = height[w] /\ q < ordinal[w])
    BY <1>4 DEF Precedes, InHand, Message
  <2>2. CASE g < height[w]
    <3>0. g \in Int /\ height[w] \in Int /\ cursor \in Int /\ height[w] <= cursor + 1
      BY CallFacts, HeightsFacts DEF PublicationInv, CoordinatorTypeOK, ProgressTypeOK
    <3>1. g <= cursor
      BY <2>2, <3>0
    <3>2. q \in acked[g]
      BY <3>1 DEF PublicationInv, JournalInv, CursorBacked
    <3>3. Message(g, q, journal[g]) \in stream
      BY <3>2 DEF PublicationInv, AcksStored
    <3> QED
      BY <3>3 DEF Message
  <2>3. CASE g = height[w] /\ q < ordinal[w]
    <3>1. Message(g, q, evidence[w]) \in stream
      BY <2>3, <1>1 DEF PublicationInv, SentBefore
    <3> QED
      BY <3>1 DEF Message
  <2> QED
    BY <2>1, <2>2, <2>3
<1> QED
  BY <1>2, <1>3, <1>4 DEF EarlierStored

(* An action of a worker keeps the bus as it should be.                    *)
LEMMA WorkerKeepsBus ==
  ASSUME PublicationInv, NEW w \in Workers, WorkerAction(w), RewritesNothing
  PROVE  /\ stream \subseteq stream' /\ stream' \subseteq Messages
         /\ wire' \subseteq Messages /\ ledger' \subseteq Messages
         /\ MessagesJournaled' /\ StreamInOrder'
<1>0. stream \subseteq Messages /\ wire \subseteq Messages /\ ledger \subseteq Messages
  BY DEF PublicationInv, CoordinatorTypeOK
<1>1. CASE UNCHANGED <<stream, wire, ledger>>
  <2>1. {} \in SUBSET Messages /\ stream' \union wire' \subseteq stream \union wire \union {}
    BY <1>1
  <2>2. \A m \in {} : journal[m.height] = m.plan /\ EarlierStored(m)
    OBVIOUS
  <2>3. MessagesJournaled' /\ StreamInOrder'
    BY <1>1, <2>1, <2>2, GrowingBus
  <2> QED
    BY <1>0, <1>1, <2>3
<1>2. CASE /\ Unpublished(w)
           /\ stream \subseteq stream'
           /\ stream' \subseteq stream \union {InHand(w)}
           /\ wire' \subseteq wire \union {InHand(w)}
           /\ ledger' \subseteq ledger \union {InHand(w)}
  <2>1. /\ InHand(w) \in Messages /\ journal[InHand(w).height] = InHand(w).plan
        /\ EarlierStored(InHand(w))
    BY <1>2, InHandQualifies
  <2>2. {InHand(w)} \in SUBSET Messages
    BY <2>1
  <2>3. stream' \union wire' \subseteq stream \union wire \union {InHand(w)}
    BY <1>2
  <2>4. \A m \in {InHand(w)} : journal[m.height] = m.plan /\ EarlierStored(m)
    BY <2>1
  <2>5. MessagesJournaled' /\ StreamInOrder'
    BY <1>2, <2>2, <2>3, <2>4, GrowingBus
  <2> QED
    BY <1>0, <1>2, <2>1, <2>5
<1> QED
  BY <1>1, <1>2, WorkerSends

(* Acknowledgements are recorded for stored messages only: those of steps  *)
(* that write neither a plan nor an acknowledgement stay as they are.      *)
LEMMA AcksKept ==
  ASSUME PublicationInv, RewritesNothing, stream \subseteq stream',
         UNCHANGED <<acked>>,
         pendingTx'.op = "acknowledgement" => pendingTx' = pendingTx
  PROVE  AcksStored'
<1>1. ASSUME NEW h \in Heights, NEW o \in acked[h]
      PROVE  Message(h, o, journal'[h]) \in stream
  <2>1. journal[h] # NoPlan
    BY DEF PublicationInv, JournalInv, AcksPlanned
  <2> QED
    BY <2>1 DEF RewritesNothing, PublicationInv, AcksStored
<1>2. ASSUME pendingTx.op = "acknowledgement"
      PROVE  Message(pendingTx.height, pendingTx.ordinal, journal'[pendingTx.height]) \in stream
  <2>1. pendingTx.height \in Heights
    BY DEF PublicationInv, JournalInv, ProgressTypeOK, Transactions
  <2>2. Admits(pendingTx)
    BY <1>2 DEF PublicationInv, JournalInv, PendingAdmitted, Unlocked, NoTx
  <2>3. journal[pendingTx.height] # NoPlan
    BY <1>2, <2>2 DEF Admits, CanRecordAcknowledgement
  <2> QED
    BY <1>2, <2>1, <2>3 DEF RewritesNothing, PublicationInv, AcksStored
<1> QED
  BY <1>1, <1>2 DEF AcksStored, Message

(* One more acknowledgement, of a message that is stored.                  *)
LEMMA AckRecorded ==
  ASSUME PublicationInv, NEW h \in Heights, NEW o \in Nat, RecordAcknowledgement(h, o),
         Message(h, o, journal[h]) \in stream, stream \subseteq stream', pendingTx' = NoTx
  PROVE  AcksStored'
<1>1. journal' = journal /\ acked' = [acked EXCEPT ![h] = @ \union {o}]
  BY DEF RecordAcknowledgement
<1>2. \A g \in Heights : acked'[g] \subseteq IF g = h THEN acked[g] \union {o} ELSE acked[g]
  BY <1>1 DEF PublicationInv, CoordinatorTypeOK, ProgressTypeOK
<1>3. \A g \in Heights : \A q \in acked'[g] : Message(g, q, journal[g]) \in stream
  BY <1>2 DEF PublicationInv, AcksStored
<1> QED
  BY <1>1, <1>3 DEF AcksStored, NoTx, Message

(* The actions of a worker record acknowledgements of stored messages.     *)
LEMMA WorkerKeepsAcks ==
  ASSUME PublicationInv, NEW w \in Workers, WorkerAction(w), RewritesNothing,
         stream \subseteq stream'
  PROVE  AcksStored'
<1>1. CASE UNCHANGED <<acked, pendingTx>>
  BY <1>1, AcksKept
<1>2. CASE LoseJournalReply(w) \/ LoseAdvanceReply(w)
  <2>1. acked' = acked /\ pendingTx'.op # "acknowledgement"
    BY <1>2 DEF LoseJournalReply, LoseAdvanceReply, LoseReply, tableVars, ArchivedTx, AdvanceTx
  <2> QED
    BY <2>1, AcksKept
<1>3. ASSUME pc[w] = "ack"
      PROVE  /\ height[w] \in Heights /\ ordinal[w] \in Nat
             /\ Message(height[w], ordinal[w], journal[height[w]]) \in stream
  <2>1. journal[height[w]] = evidence[w] /\ height[w] \in Heights /\ ordinal[w] \in Nat
    BY <1>3, CallFacts DEF PlanSteps
  <2>2. InHand(w) \in stream
    BY <1>3 DEF PublicationInv, PlanInHand
  <2> QED
    BY <2>1, <2>2 DEF InHand
<1>4. CASE RecordAck(w) /\ Commit(AcknowledgementTx(height[w], ordinal[w]))
  <2>1. RecordAcknowledgement(height[w], ordinal[w]) /\ pendingTx' = NoTx
    BY <1>4 DEF Commit, Apply, AcknowledgementTx, Unlocked
  <2> QED
    BY <2>1, <1>3, <1>4, AckRecorded DEF RecordAck
<1>5. CASE LoseAckReply(w)
  <2>1. /\ pendingTx' = AcknowledgementTx(height[w], ordinal[w])
        /\ acked' = acked /\ journal' = journal
    BY <1>5 DEF LoseAckReply, LoseReply, tableVars
  <2>2. Message(height[w], ordinal[w], journal[height[w]]) \in stream
    BY <1>3, <1>5 DEF LoseAckReply
  <2>3. \A h \in Heights : \A o \in acked[h] : Message(h, o, journal[h]) \in stream
    BY DEF PublicationInv, AcksStored
  <2> QED
    BY <2>1, <2>2, <2>3 DEF AcksStored, AcknowledgementTx, Message
<1>6. CASE JournalBlock(w) \/ Advance(w) \/ CallInitialize(w)
  <2>1. UNCHANGED <<acked, pendingTx>>
    BY <1>6 DEF JournalBlock, Advance, CallInitialize, InitializeChain, Commit, Apply,
         ArchivedTx, AdvanceTx, RecordArchived, AdvanceCursor, progressVars
  <2> QED
    BY <2>1, <1>1
<1>7. CASE RecordAck(w) /\ UNCHANGED progressVars
  BY <1>7, <1>1 DEF progressVars
<1>8. CASE ~JournalWrites(w)
  BY <1>8, <1>1, JournalUntouched DEF progressVars
<1> QED
  BY <1>2, <1>4, <1>5, <1>6, <1>7, <1>8 DEF JournalWrites, RecordAck

(* What an action of w does to the archive: nothing, it binds the height   *)
(* in hand, or it brings the catalog up to date.                           *)
LEMMA WorkerArchives ==
  ASSUME NEW w \in Workers, WorkerAction(w)
  PROVE  \/ UNCHANGED archiveVars
         \/ PublishPartition(w)
         \/ catalog' = partition /\ partition' = partition
<1>1. CASE AppendExisting(w) \/ PublishCatalog(w) \/ PublishPartition(w)
  BY <1>1 DEF AppendExisting, PublishCatalog
<1>2. CASE CoordinatorStep(w)
  BY <1>1, <1>2 DEF CoordinatorStep, GiveUp, JournalBlock,
       JournalConflicts, LoadAcknowledgements, RecordAck, AckConflicts, Advance,
       AdvanceRefused, SkipAcknowledged, BatchComplete, Publish, LedgerRefuses,
       RecoverNextExpected, RecoverPastLastHeight, RecoverLoadPlan, RecoverJournaled,
       RecoverMismatch, RecoverArchived, RecoverNothing
<1>3. CASE CoordinatorFault(w)
  BY <1>3 DEF CoordinatorFault, GiveUp, ArchiveFails, ProgressFails, PublishFails,
       LoseJournalReply, LoseAckReply, LoseAdvanceReply, RecoverReadFails
<1>4. CASE CallInitialize(w) \/ CallRecover(w) \/ TakeReply(w)
  BY <1>4 DEF CallInitialize, CallRecover, TakeReply
<1> QED
  BY <1>2, <1>3, <1>4 DEF WorkerAction

(* The invariant is kept by the actions of the workers ...                 *)
LEMMA WorkerKeepsInv ==
  ASSUME PublicationInv, NEW w \in Workers, WorkerAction(w)
  PROVE  PublicationInv'
<1>1. CallTypeOK /\ ServiceTypeOK /\ JournalInv
  BY TypeParts DEF PublicationInv
<1>2. JournalInv' /\ RewritesNothing
  BY <1>1, JournalStep, JournalInvStep, StepRewritesNothing
<1>3. CallTypeOK' /\ \A v \in Workers \ {w} : Keeps(v)
  BY <1>1, WorkerMoves, MovesKeep DEF PublicationInv
<1>4. /\ stream \subseteq stream' /\ stream' \subseteq Messages
      /\ wire' \subseteq Messages /\ ledger' \subseteq Messages
      /\ MessagesJournaled' /\ StreamInOrder'
  BY <1>2, WorkerKeepsBus
<1>5. /\ partition' \in [Heights -> Plans \union {NoPlan}]
      /\ catalog' \in [Heights -> Plans \union {NoPlan}]
  <2>1. CASE PublishPartition(w)
    BY <2>1, <1>1, CallFacts DEF PublishPartition, ServiceTypeOK
  <2>2. CASE UNCHANGED archiveVars \/ (catalog' = partition /\ partition' = partition)
    BY <2>2, <1>1 DEF archiveVars, ServiceTypeOK
  <2> QED
    BY <2>1, <2>2, WorkerArchives
<1>6. CoordinatorTypeOK'
  BY <1>2, <1>3, <1>4, <1>5 DEF JournalInv, CoordinatorTypeOK, CallTypeOK
<1>7. \A v \in Workers : PlanInHand(v)' /\ SentBefore(v)'
  <2>1. PlanInHand(w)' /\ SentBefore(w)'
    BY <1>2, <1>4, OwnCall
  <2>2. ASSUME NEW v \in Workers \ {w} PROVE PlanInHand(v)' /\ SentBefore(v)'
    BY <1>2, <1>3, <1>4, KeptCall
  <2> QED
    BY <2>1, <2>2
<1>8. AcksStored'
  BY <1>2, <1>4, WorkerKeepsAcks
<1> QED
  BY <1>2, <1>4, <1>6, <1>7, <1>8 DEF PublicationInv

(* ... by a block that is offered, whatever its evidence ...               *)
LEMMA OfferKeepsInv ==
  ASSUME PublicationInv, NEW h \in Heights, NEW p \in Plans, CallProcess(h, p)
  PROVE  PublicationInv'
<1>1. CallTypeOK /\ ServiceTypeOK /\ JournalInv /\ Drain \in Workers
  BY TypeParts, CoordinatorAssumption DEF PublicationInv
<1>2. UNCHANGED progressVars /\ UNCHANGED archiveVars /\ UNCHANGED busVars
  BY DEF CallProcess
<1>3. Take(Drain, "append", h, p, FALSE) /\ h = cursor + 1
  BY DEF CallProcess, next_expected_height
<1>4. JournalInv' /\ RewritesNothing
  BY <1>1, <1>2, JournalInvStep, StepRewritesNothing
<1>5. Moves(Drain)
  BY <1>3 DEF Moves, Steps
<1>6. CallTypeOK' /\ \A v \in Workers \ {Drain} : Keeps(v)
  BY <1>1, <1>5, MovesKeep
<1>7. /\ pc'[Drain] = "append" /\ height'[Drain] = h /\ evidence'[Drain] = p
      /\ known'[Drain] = {}
  BY <1>1, <1>3 DEF Take, CallTypeOK
<1>8. h \in Int /\ h <= cursor + 1
  BY <1>3, HeightsFacts
<1>9. PlanInHand(Drain)' /\ SentBefore(Drain)'
  BY <1>1, <1>4, <1>7, <1>8, MovedCall, ProgressAssumption DEF BlockSteps, PlanSteps
<1>10. \A v \in Workers : PlanInHand(v)' /\ SentBefore(v)'
  BY <1>2, <1>4, <1>6, <1>9, KeptCall DEF busVars
<1>11. MessagesJournaled' /\ AcksStored' /\ StreamInOrder'
  BY <1>2 DEF progressVars, busVars, PublicationInv, MessagesJournaled, AcksStored, StreamInOrder
<1>12. CoordinatorTypeOK'
  BY <1>1, <1>2, <1>4, <1>6
     DEF archiveVars, busVars, JournalInv, CoordinatorTypeOK, CallTypeOK, ServiceTypeOK
<1> QED
  BY <1>4, <1>10, <1>11, <1>12 DEF PublicationInv

(* ... by steps that move no call: a transaction that settles and a        *)
(* message that arrives late ...                                           *)
LEMMA LateKeepsInv ==
  ASSUME PublicationInv, SettleTransaction \/ LateArrival
  PROVE  PublicationInv'
<1>1. CallTypeOK /\ ServiceTypeOK /\ JournalInv
  BY TypeParts DEF PublicationInv
<1>2. [ProgressNext]_progressVars /\ UNCHANGED callVars /\ UNCHANGED archiveVars
  BY DEF SettleTransaction, LateArrival, ProgressNext
<1>3. JournalInv' /\ RewritesNothing
  BY <1>1, <1>2, JournalInvStep, StepRewritesNothing
<1>4. /\ stream \subseteq stream' /\ ledger' = ledger
      /\ stream' \union wire' \subseteq stream \union wire
  BY DEF SettleTransaction, LateArrival, busVars, Store
<1>5. MessagesJournaled' /\ StreamInOrder'
  <2>1. {} \in SUBSET Messages /\ stream' \union wire' \subseteq stream \union wire \union {}
    BY <1>4
  <2>2. \A m \in {} : journal[m.height] = m.plan /\ EarlierStored(m)
    OBVIOUS
  <2> QED
    BY <1>3, <1>4, <2>1, <2>2, GrowingBus
<1>6. \A v \in Workers : PlanInHand(v)' /\ SentBefore(v)'
  BY <1>2, <1>3, <1>4, KeptCall DEF callVars, blockVars, Keeps
<1>7. AcksStored'
  <2>1. CASE LateArrival \/ SettleRolledBack
    <3>1. acked' = acked /\ (pendingTx' = pendingTx \/ pendingTx' = NoTx)
      BY <2>1 DEF LateArrival, SettleRolledBack, progressVars, tableVars
    <3> QED
      BY <3>1, <1>3, <1>4, AcksKept DEF NoTx
  <2>2. CASE SettleCommitted /\ pendingTx.op = "acknowledgement"
    <3>1. /\ pendingTx.height \in Heights /\ pendingTx.ordinal \in Nat
          /\ Message(pendingTx.height, pendingTx.ordinal, journal[pendingTx.height]) \in stream
      BY <2>2 DEF PublicationInv, AcksStored, JournalInv, ProgressTypeOK, Transactions
    <3>2. RecordAcknowledgement(pendingTx.height, pendingTx.ordinal) /\ pendingTx' = NoTx
      BY <2>2 DEF SettleCommitted, Apply
    <3> QED
      BY <3>1, <3>2, <1>4, AckRecorded
  <2>3. CASE SettleCommitted /\ pendingTx.op # "acknowledgement"
    <3>1. acked' = acked /\ pendingTx' = NoTx
      BY <2>3 DEF SettleCommitted, Apply, RecordArchived, AdvanceCursor
    <3> QED
      BY <3>1, <1>3, <1>4, AcksKept DEF NoTx
  <2> QED
    BY <2>1, <2>2, <2>3 DEF SettleTransaction
<1>8. CoordinatorTypeOK'
  BY <1>1, <1>2, <1>3, <1>4
     DEF archiveVars, callVars, blockVars, JournalInv, CoordinatorTypeOK, CallTypeOK, ServiceTypeOK
<1> QED
  BY <1>3, <1>5, <1>6, <1>7, <1>8 DEF PublicationInv

(* ... and by the end of the process, wherever the calls are.              *)
LEMMA CrashKeepsInv ==
  ASSUME PublicationInv, CoordinatorCrash
  PROVE  PublicationInv'
<1>1. ServiceTypeOK /\ JournalInv /\ cursor \in Int /\ FirstHeight <= cursor + 1
  BY TypeParts, HeightsFacts DEF PublicationInv, JournalInv, CursorInRange
<1>2. UNCHANGED progressVars /\ UNCHANGED archiveVars /\ UNCHANGED <<stream, wire>> /\ ledger' = {}
  BY DEF CoordinatorCrash
<1>3. CallTypeOK'
  <2>1. recovering' \in [Workers -> BOOLEAN]
    BY DEF CoordinatorCrash
  <2>2. known' \in [Workers -> SUBSET Nat]
    BY DEF CoordinatorCrash
  <2>3. /\ pc' \in [Workers -> Steps] /\ reply' \in [Workers -> Replies]
        /\ height' \in [Workers -> Heights] /\ evidence' \in [Workers -> Plans \union {NoPlan}]
        /\ ordinal' \in [Workers -> Nat]
    BY HeightsFacts DEF CoordinatorCrash, Steps, Replies
  <2> QED
    BY <2>1, <2>2, <2>3 DEF CallTypeOK
<1>4. JournalInv'
  BY <1>1, <1>2, JournalInvStep
<1>5. \A v \in Workers : pc'[v] = "caller" /\ height'[v] = FirstHeight /\ known'[v] = {}
  BY DEF CoordinatorCrash
<1>6. \A v \in Workers : PlanInHand(v)' /\ SentBefore(v)'
  BY <1>1, <1>2, <1>5 DEF PlanInHand, SentBefore, BlockSteps, PlanSteps, progressVars
<1>7. MessagesJournaled' /\ AcksStored' /\ StreamInOrder'
  BY <1>2 DEF progressVars, PublicationInv, MessagesJournaled, AcksStored, StreamInOrder
<1>8. CoordinatorTypeOK'
  BY <1>1, <1>2, <1>3, <1>4
     DEF archiveVars, JournalInv, CoordinatorTypeOK, CallTypeOK, ServiceTypeOK
<1> QED
  BY <1>4, <1>6, <1>7, <1>8 DEF PublicationInv

(* The invariant is inductive, whatever evidence the drain offers.         *)
LEMMA PublicationInvStep ==
  PublicationInv /\ [AnyEvidenceNext]_coordinatorVars => PublicationInv'
<1> SUFFICES ASSUME PublicationInv, [AnyEvidenceNext]_coordinatorVars
             PROVE  PublicationInv'
  OBVIOUS
<1>1. CASE \E w \in Workers : WorkerAction(w)
  BY <1>1, WorkerKeepsInv
<1>2. CASE \E h \in Heights, p \in Plans : CallProcess(h, p)
  BY <1>2, OfferKeepsInv
<1>3. CASE SettleTransaction \/ LateArrival
  BY <1>3, LateKeepsInv
<1>4. CASE CoordinatorCrash
  BY <1>4, CrashKeepsInv
<1>5. CASE UNCHANGED coordinatorVars
  <2>1. UNCHANGED <<progressVars, archiveVars, busVars, callVars>>
    BY <1>5 DEF coordinatorVars
  <2>2. JournalInv' /\ RewritesNothing
    BY <2>1, JournalInvStep, StepRewritesNothing DEF PublicationInv
  <2>3. \A v \in Workers : PlanInHand(v)' /\ SentBefore(v)'
    BY <2>1, <2>2, KeptCall DEF callVars, blockVars, Keeps, busVars
  <2>4. MessagesJournaled' /\ AcksStored' /\ StreamInOrder' /\ CoordinatorTypeOK'
    BY <2>1, <2>2 DEF progressVars, busVars, archiveVars, callVars, blockVars, PublicationInv,
         MessagesJournaled, AcksStored, StreamInOrder, JournalInv, CoordinatorTypeOK
  <2> QED
    BY <2>2, <2>3, <2>4 DEF PublicationInv
<1> QED
  BY <1>1, <1>2, <1>3, <1>4, <1>5 DEF AnyEvidenceNext, CoordinatorActivity, WorkerAction

(* The invariant holds in every reachable state.                           *)
THEOREM PublicationInvariant == AnyEvidenceSpec => []PublicationInv
  BY PublicationInvInit, PublicationInvStep, PTL DEF AnyEvidenceSpec

(* Type correctness of the coordinator and its services: among others no   *)
(* call gets a height beyond the journal's next one in its hands.          *)
THEOREM CoordinatorTypeCorrect == AnyEvidenceSpec => []CoordinatorTypeOK
<1>1. PublicationInv => CoordinatorTypeOK
  BY DEF PublicationInv
<1> QED
  BY <1>1, PublicationInvariant, PTL

(* A message id of CommittedPublicationBatch names one content for good,   *)
(* although JetStream only compares ids.                                   *)
THEOREM OneContentAlways == AnyEvidenceSpec => []OneContentPerId
<1>1. PublicationInv => OneContentPerId
  <2> SUFFICES ASSUME PublicationInv, NEW m \in stream \union wire, NEW n \in stream \union wire,
                      SameId(m, n)
               PROVE  m = n
    BY DEF OneContentPerId
  <2>1. /\ m \in Messages /\ journal[m.height] = m.plan
        /\ n \in Messages /\ journal[n.height] = n.plan
    BY DEF PublicationInv, CoordinatorTypeOK, MessagesJournaled
  <2> QED
    BY <2>1 DEF SameId, Messages
<1> QED
  BY <1>1, PublicationInvariant, PTL

(* The first copies of the messages enter the stream in block order and,   *)
(* within a block, in the order of complete_batch.                         *)
THEOREM StreamAlwaysInOrder == AnyEvidenceSpec => []StreamInOrder
<1>1. PublicationInv => StreamInOrder
  BY DEF PublicationInv
<1> QED
  BY <1>1, PublicationInvariant, PTL

(* The coordinator is one of the callers the journal was proved for.       *)
THEOREM CoordinatorUsesJournal == AnyEvidenceSpec => UsesJournal
<1>1. CoordinatorInit => ProgressInit
  BY DEF CoordinatorInit
<1>2. PublicationInv /\ [AnyEvidenceNext]_coordinatorVars => [ProgressNext]_progressVars
  BY NextJournalStep, TypeParts DEF PublicationInv
<1> QED
  BY <1>1, <1>2, PublicationInvariant, PTL DEF AnyEvidenceSpec, UsesJournal, ProgressSpec

(* So the coordinator, whatever fails under it, implements the log that    *)
(* everything downstream relies on.                                        *)
THEOREM CoordinatorRefinesLog == AnyEvidenceSpec => ImplementsCommittedLog
  BY CoordinatorUsesJournal, JournalRefinesLog, PTL DEF UsesJournal

-----------------------------------------------------------------------------
(* The rest holds under a drain that offers a height with the evidence it  *)
(* is archived under.                                                      *)

(* The evidence in hand is the one of the archive; only the drain can be   *)
(* the first to archive a height.                                          *)
ArchiveInHand(w) ==
  /\ pc[w] = "append" /\ recovering[w] => catalog[height[w]] = evidence[w]
  /\ pc[w] = "append" /\ ~recovering[w] =>
       w = Drain /\ partition[height[w]] \in {NoPlan, evidence[w]}
  /\ pc[w] = "catalog" => partition[height[w]] = evidence[w]
  /\ pc[w] = "journal" => catalog[height[w]] = evidence[w]
  /\ reply[w] # "mismatch"

CatalogFollows == \A h \in Heights : catalog[h] \in {NoPlan, partition[h]}

JournalArchived ==
  /\ \A h \in Heights : journal[h] # NoPlan => catalog[h] = journal[h]
  /\ pendingTx.op = "archived" => catalog[pendingTx.height] = pendingTx.plan

ArchiveInv ==
  /\ CatalogFollows
  /\ JournalArchived
  /\ \A w \in Workers : ArchiveInHand(w)

(* What the archive binds stays bound.                                     *)
ArchiveGrows ==
  /\ \A h \in Heights : partition[h] # NoPlan => partition'[h] = partition[h]
  /\ \A h \in Heights : catalog[h] # NoPlan => catalog'[h] = catalog[h]

(* What the invariant says of a call that has a block in hand.             *)
LEMMA ArchiveFacts ==
  ASSUME PublicationInv, ArchiveInv, NEW w \in Workers
  PROVE  /\ height[w] \in Heights /\ evidence[w] \in Plans \union {NoPlan}
         /\ pc[w] \in BlockSteps => evidence[w] # NoPlan
         /\ catalog[height[w]] \in {NoPlan, partition[height[w]]}
         /\ pc[w] = "append" => w = Drain \/ catalog[height[w]] = evidence[w]
         /\ pc[w] = "append" => partition[height[w]] \in {NoPlan, evidence[w]}
         /\ pc[w] = "catalog" => partition[height[w]] = evidence[w]
         /\ pc[w] = "journal" => catalog[height[w]] = evidence[w]
         /\ reply[w] # "mismatch"
<1>1. ArchiveInHand(w)
  BY DEF ArchiveInv
<1>2. /\ height[w] \in Heights /\ evidence[w] \in Plans \union {NoPlan}
      /\ pc[w] \in BlockSteps => evidence[w] # NoPlan
  BY CallFacts
<1>3. catalog[height[w]] \in {NoPlan, partition[height[w]]}
  BY <1>2 DEF ArchiveInv, CatalogFollows
<1>4. pc[w] = "append" => \/ w = Drain /\ partition[height[w]] \in {NoPlan, evidence[w]}
                         \/ catalog[height[w]] = evidence[w]
  BY <1>1 DEF ArchiveInHand
<1>5. /\ pc[w] = "catalog" => partition[height[w]] = evidence[w]
      /\ pc[w] = "journal" => catalog[height[w]] = evidence[w]
      /\ reply[w] # "mismatch"
  BY <1>1 DEF ArchiveInHand
<1> QED
  BY <1>2, <1>3, <1>4, <1>5 DEF BlockSteps

(* The pointers bind a height once, the partition before the catalog.      *)
LEMMA ArchiveStep ==
  ASSUME PublicationInv, ArchiveInv, NEW w \in Workers, WorkerAction(w)
  PROVE  ArchiveGrows /\ CatalogFollows'
<1>0. CatalogFollows /\ ServiceTypeOK
  BY TypeParts DEF ArchiveInv, PublicationInv
<1>1. CASE UNCHANGED archiveVars
  BY <1>0, <1>1 DEF archiveVars, ArchiveGrows, CatalogFollows
<1>2. CASE PublishPartition(w)
  <2>1. /\ height[w] \in Heights /\ partition[height[w]] = NoPlan /\ catalog' = catalog
        /\ partition' = [partition EXCEPT ![height[w]] = evidence[w]]
    BY <1>2, CallFacts DEF PublishPartition
  <2> QED
    BY <1>0, <2>1 DEF ArchiveGrows, CatalogFollows, ServiceTypeOK
<1>3. CASE catalog' = partition /\ partition' = partition
  BY <1>0, <1>3 DEF ArchiveGrows, CatalogFollows
<1> QED
  BY <1>1, <1>2, <1>3, WorkerArchives

(* A call that does not move keeps its part.  Only the drain can hold a    *)
(* height that is not archived, so nobody else binds it under the drain.   *)
LEMMA KeptArchive ==
  ASSUME PublicationInv, ArchiveInv, ArchiveGrows, NEW v \in Workers, Keeps(v),
         \/ partition' = partition
         \/ \E w \in Workers \ {v} : PublishPartition(w)
  PROVE  ArchiveInHand(v)'
<1>1. ArchiveInHand(v) /\ height[v] \in Heights
  BY CallFacts DEF ArchiveInv
<1>2. pc[v] \in {"append", "catalog", "journal"} => evidence[v] # NoPlan
  BY CallFacts DEF BlockSteps
<1>3. /\ catalog[height[v]] # NoPlan => catalog'[height[v]] = catalog[height[v]]
      /\ partition[height[v]] # NoPlan => partition'[height[v]] = partition[height[v]]
  BY <1>1 DEF ArchiveGrows
<1>4. pc[v] = "append" /\ v = Drain => partition'[height[v]] = partition[height[v]]
  <2>1. CASE partition' = partition
    BY <2>1
  <2>2. ASSUME NEW w \in Workers \ {v}, PublishPartition(w), v = Drain
        PROVE  partition'[height[v]] = partition[height[v]]
    <3>1. /\ pc[w] = "append" /\ partition[height[w]] = NoPlan
          /\ partition' = [partition EXCEPT ![height[w]] = evidence[w]]
      BY <2>2 DEF PublishPartition
    <3>2. evidence[w] # NoPlan /\ catalog[height[w]] = evidence[w]
      BY <2>2, <3>1, ArchiveFacts DEF BlockSteps
    <3>3. catalog[height[w]] \in {NoPlan, partition[height[w]]}
      BY ArchiveFacts
    <3> QED
      BY <3>1, <3>2, <3>3
  <2> QED
    BY <2>1, <2>2
<1>5. pc[v] = "append" /\ recovering[v] => catalog'[height[v]] = evidence[v]
  BY <1>1, <1>2, <1>3 DEF ArchiveInHand
<1>6. pc[v] = "append" /\ ~recovering[v] =>
        v = Drain /\ partition'[height[v]] \in {NoPlan, evidence[v]}
  BY <1>1, <1>4 DEF ArchiveInHand
<1>7. /\ pc[v] = "catalog" => partition'[height[v]] = evidence[v]
      /\ pc[v] = "journal" => catalog'[height[v]] = evidence[v]
      /\ reply[v] # "mismatch"
  BY <1>1, <1>2, <1>3 DEF ArchiveInHand
<1> QED
  BY <1>5, <1>6, <1>7 DEF ArchiveInHand, Keeps

(* The call of w under its own actions.                                    *)
LEMMA OwnArchive ==
  ASSUME PublicationInv, ArchiveInv, ArchiveGrows, NEW w \in Workers, WorkerAction(w)
  PROVE  ArchiveInHand(w)'
<1>0. CallTypeOK /\ ServiceTypeOK
  BY TypeParts DEF PublicationInv
<1>1. ASSUME pc'[w] \notin {"append", "catalog", "journal"}, reply'[w] # "mismatch"
      PROVE  ArchiveInHand(w)'
  BY <1>1 DEF ArchiveInHand
<1>2. CASE AppendExisting(w)
  <2>1. /\ pc[w] = "append" /\ partition[height[w]] # NoPlan /\ catalog' = partition
        /\ Goto(w, "journal")
    BY <1>2 DEF AppendExisting
  <2>2. pc'[w] = "journal" /\ UNCHANGED <<height, evidence, reply>>
    BY <1>0, <2>1 DEF Goto, blockVars, CallTypeOK
  <2>3. partition[height[w]] = evidence[w] /\ reply[w] # "mismatch"
    BY <2>1, ArchiveFacts
  <2> QED
    BY <2>1, <2>2, <2>3 DEF ArchiveInHand
<1>3. CASE PublishPartition(w)
  <2>1. /\ partition' = [partition EXCEPT ![height[w]] = evidence[w]] /\ Goto(w, "catalog")
    BY <1>3 DEF PublishPartition
  <2>2. pc'[w] = "catalog" /\ UNCHANGED <<height, evidence, reply>>
    BY <1>0, <2>1 DEF Goto, blockVars, CallTypeOK
  <2>3. partition'[height[w]] = evidence[w] /\ reply[w] # "mismatch"
    BY <1>0, <2>1, ArchiveFacts DEF ServiceTypeOK
  <2> QED
    BY <2>2, <2>3 DEF ArchiveInHand
<1>4. CASE PublishCatalog(w)
  <2>1. pc[w] = "catalog" /\ catalog' = partition /\ Goto(w, "journal")
    BY <1>4 DEF PublishCatalog
  <2>2. pc'[w] = "journal" /\ UNCHANGED <<height, evidence, reply>>
    BY <1>0, <2>1 DEF Goto, blockVars, CallTypeOK
  <2>3. partition[height[w]] = evidence[w] /\ reply[w] # "mismatch"
    BY <2>1, ArchiveFacts
  <2> QED
    BY <2>1, <2>2, <2>3 DEF ArchiveInHand
<1>5. CASE RecoverArchived(w)
  <2>1. Take(w, "append", height[w], catalog[height[w]], TRUE) /\ catalog' = catalog
    BY <1>5 DEF RecoverArchived, archiveVars
  <2>2. /\ pc'[w] = "append" /\ height'[w] = height[w] /\ evidence'[w] = catalog[height[w]]
        /\ reply'[w] = "none"
    BY <1>0, <2>1 DEF Take, CallTypeOK
  <2>3. recovering'[w]
    BY <1>0, <2>1 DEF Take, CallTypeOK
  <2> QED
    BY <2>1, <2>2, <2>3 DEF ArchiveInHand
<1>6. ~RecoverMismatch(w)
  <2>1. ASSUME RecoverMismatch(w) PROVE FALSE
    <3>1. pc[w] = "recover_block" /\ evidence[w] # NoPlan /\ catalog[height[w]] # evidence[w]
      BY <2>1 DEF RecoverMismatch
    <3>2. journal[height[w]] = evidence[w] /\ height[w] \in Heights
      BY <3>1, CallFacts
    <3> QED
      BY <3>1, <3>2 DEF ArchiveInv, JournalArchived
  <2> QED
    BY <2>1
<1>7. CASE CallInitialize(w)
  BY <1>7, KeptArchive DEF CallInitialize, callVars, blockVars, Keeps, archiveVars
<1>8. CASE \E p \in {"load", "advance", "ack"} : Goto(w, p)
  <2>1. pc'[w] \in {"load", "advance", "ack"} /\ reply' = reply
    BY <1>0, <1>8 DEF Goto, CallTypeOK
  <2> QED
    BY <2>1, <1>1, ArchiveFacts
<1>9. CASE LoadAcknowledgements(w) \/ RecordAck(w) \/ SkipAcknowledged(w)
  <2>1. pc'[w] = "publish" /\ reply' = reply
    BY <1>0, <1>9 DEF LoadAcknowledgements, RecordAck, SkipAcknowledged, CallTypeOK
  <2> QED
    BY <2>1, <1>1, ArchiveFacts
<1>10. CASE \E r \in Replies \ {"mismatch"} : Return(w, r)
  <2>1. pc'[w] = "caller" /\ reply'[w] # "mismatch"
    BY <1>0, <1>10 DEF Return, CallTypeOK
  <2> QED
    BY <2>1, <1>1
<1>11. CASE \E step \in {"recover", "recover_plan", "recover_block"}, h \in Heights,
               p \in Plans \union {NoPlan}, recovery \in BOOLEAN : Take(w, step, h, p, recovery)
  <2>1. pc'[w] \in {"recover", "recover_plan", "recover_block"} /\ reply'[w] = "none"
    BY <1>0, <1>11 DEF Take, CallTypeOK
  <2> QED
    BY <2>1, <1>1
<1>12. CASE CoordinatorFault(w)
  BY <1>10, <1>12 DEF CoordinatorFault, ArchiveFails, ProgressFails, PublishFails,
       LoseJournalReply, LoseAckReply, LoseAdvanceReply, RecoverReadFails, GiveUp, Replies
<1>13. CASE CallRecover(w) \/ TakeReply(w)
  BY <1>10, <1>11, <1>13, HeightsFacts DEF CallRecover, TakeReply, Replies
<1>14. CASE JournalBlock(w) \/ BatchComplete(w) \/ Publish(w) \/ RecoverJournaled(w)
  BY <1>8, <1>14 DEF JournalBlock, BatchComplete, Publish, RecoverJournaled
<1>15. CASE JournalConflicts(w) \/ AckConflicts(w) \/ AdvanceRefused(w) \/ LedgerRefuses(w)
            \/ RecoverPastLastHeight(w) \/ RecoverNothing(w)
  BY <1>10, <1>15 DEF JournalConflicts, AckConflicts, AdvanceRefused, LedgerRefuses,
       RecoverPastLastHeight, RecoverNothing, GiveUp, Replies
<1>16. CASE Advance(w)
  BY <1>10, <1>11, <1>16, HeightsFacts DEF Advance, Replies
<1>17. CASE RecoverNextExpected(w) \/ RecoverLoadPlan(w)
  BY <1>0, <1>11, <1>17
     DEF RecoverNextExpected, RecoverLoadPlan, PublicationInv, CoordinatorTypeOK, ProgressTypeOK
<1> QED
  BY <1>2, <1>3, <1>4, <1>5, <1>6, <1>7, <1>9, <1>12, <1>13, <1>14, <1>15, <1>16, <1>17
     DEF WorkerAction, CoordinatorStep

(* What is journaled stays archived while no plan is written ...           *)
LEMMA JournalArchivedKept ==
  ASSUME PublicationInv, ArchiveInv, ArchiveGrows, journal' = journal,
         pendingTx'.op = "archived" => pendingTx' = pendingTx
  PROVE  JournalArchived'
<1>1. JournalArchived
  BY DEF ArchiveInv
<1>2. \A h \in Heights : journal[h] # NoPlan => catalog'[h] = journal[h]
  BY <1>1 DEF JournalArchived, ArchiveGrows
<1>3. pendingTx.op = "archived" => catalog'[pendingTx.height] = pendingTx.plan
  <2> SUFFICES ASSUME pendingTx.op = "archived" PROVE catalog'[pendingTx.height] = pendingTx.plan
    OBVIOUS
  <2>1. pendingTx.height \in Heights
    BY DEF PublicationInv, JournalInv, ProgressTypeOK, Transactions
  <2>2. Admits(pendingTx)
    BY DEF PublicationInv, JournalInv, PendingAdmitted, Unlocked, NoTx
  <2>3. pendingTx.plan # NoPlan
    BY <2>2 DEF Admits
  <2> QED
    BY <1>1, <2>1, <2>3 DEF JournalArchived, ArchiveGrows
<1> QED
  BY <1>2, <1>3 DEF JournalArchived

(* ... and a plan is written for a block that is archived.                 *)
LEMMA PlanRecorded ==
  ASSUME PublicationInv, ArchiveInv, NEW h \in Heights, NEW p, RecordArchived(h, p),
         catalog[h] = p, catalog' = catalog, pendingTx' = NoTx
  PROVE  JournalArchived'
<1>1. journal' = [journal EXCEPT ![h] = p] /\ journal \in [Heights -> Plans \union {NoPlan}]
  BY DEF RecordArchived, PublicationInv, CoordinatorTypeOK, ProgressTypeOK
<1>2. \A g \in Heights : journal'[g] # NoPlan => catalog[g] = journal'[g]
  BY <1>1 DEF ArchiveInv, JournalArchived
<1> QED
  BY <1>2 DEF JournalArchived, NoTx

(* The actions of a worker journal archived blocks only.                   *)
LEMMA WorkerJournalsArchived ==
  ASSUME PublicationInv, ArchiveInv, ArchiveGrows, NEW w \in Workers, WorkerAction(w)
  PROVE  JournalArchived'
<1>1. CASE UNCHANGED <<journal, pendingTx>>
  BY <1>1, JournalArchivedKept
<1>2. CASE LoseAckReply(w) \/ LoseAdvanceReply(w)
  <2>1. journal' = journal /\ pendingTx'.op # "archived"
    BY <1>2 DEF LoseAckReply, LoseAdvanceReply, LoseReply, tableVars, AcknowledgementTx, AdvanceTx
  <2> QED
    BY <2>1, JournalArchivedKept
<1>3. CASE JournalBlock(w) /\ Commit(ArchivedTx(height[w], evidence[w]))
  <2>1. RecordArchived(height[w], evidence[w]) /\ pendingTx' = NoTx
    BY <1>3 DEF Commit, Apply, ArchivedTx, Unlocked
  <2>2. height[w] \in Heights /\ catalog[height[w]] = evidence[w] /\ catalog' = catalog
    BY <1>3, ArchiveFacts DEF JournalBlock, archiveVars
  <2> QED
    BY <2>1, <2>2, PlanRecorded
<1>4. CASE LoseJournalReply(w)
  <2>1. pendingTx' = ArchivedTx(height[w], evidence[w]) /\ journal' = journal
    BY <1>4 DEF LoseJournalReply, LoseReply, tableVars
  <2>2. catalog[height[w]] = evidence[w] /\ catalog' = catalog
    BY <1>4, ArchiveFacts DEF LoseJournalReply, GiveUp, archiveVars
  <2> QED
    BY <2>1, <2>2 DEF ArchiveInv, JournalArchived, ArchivedTx
<1>5. CASE RecordAck(w) \/ Advance(w) \/ CallInitialize(w)
  <2>1. UNCHANGED <<journal, pendingTx>>
    BY <1>5 DEF RecordAck, Advance, CallInitialize, InitializeChain, Commit, Apply,
         AcknowledgementTx, AdvanceTx, RecordAcknowledgement, AdvanceCursor, progressVars
  <2> QED
    BY <2>1, <1>1
<1>6. CASE JournalBlock(w) /\ UNCHANGED progressVars
  BY <1>6, <1>1 DEF progressVars
<1>7. CASE ~JournalWrites(w)
  BY <1>7, <1>1, JournalUntouched DEF progressVars
<1> QED
  BY <1>2, <1>3, <1>4, <1>5, <1>6, <1>7 DEF JournalWrites, JournalBlock

(* Nothing is in hand, nothing is archived.                                *)
LEMMA ArchiveInvInit == CoordinatorInit => ArchiveInv
<1> SUFFICES ASSUME CoordinatorInit PROVE ArchiveInv
  OBVIOUS
<1>1. \A w \in Workers : ArchiveInHand(w)
  BY DEF CoordinatorInit, ArchiveInHand
<1>2. CatalogFollows /\ JournalArchived
  BY DEF CoordinatorInit, ProgressInit, CatalogFollows, JournalArchived, NoTx
<1> QED
  BY <1>1, <1>2 DEF ArchiveInv

(* The invariant is kept by the actions of the workers ...                 *)
LEMMA WorkerKeepsArchive ==
  ASSUME PublicationInv, ArchiveInv, NEW w \in Workers, WorkerAction(w)
  PROVE  ArchiveInv'
<1>1. ArchiveGrows /\ CatalogFollows'
  BY ArchiveStep
<1>2. JournalArchived'
  BY <1>1, WorkerJournalsArchived
<1>3. ArchiveInHand(w)'
  BY <1>1, OwnArchive
<1>4. ASSUME NEW v \in Workers \ {w} PROVE ArchiveInHand(v)'
  <2>1. Keeps(v)
    BY TypeParts, WorkerMoves, MovesKeep DEF PublicationInv
  <2>2. partition' = partition \/ PublishPartition(w)
    BY WorkerArchives DEF archiveVars
  <2> QED
    BY <1>1, <2>1, <2>2, KeptArchive
<1> QED
  BY <1>1, <1>2, <1>3, <1>4 DEF ArchiveInv

(* ... by a block that is offered with the evidence it is archived under   *)
LEMMA OfferKeepsArchive ==
  ASSUME PublicationInv, ArchiveInv, NEW h \in Heights, NEW p \in Plans,
         EvidenceStable(h, p), CallProcess(h, p)
  PROVE  ArchiveInv'
<1>1. CallTypeOK /\ Drain \in Workers
  BY TypeParts, CoordinatorAssumption DEF PublicationInv
<1>2. UNCHANGED progressVars /\ UNCHANGED archiveVars /\ Take(Drain, "append", h, p, FALSE)
  BY DEF CallProcess
<1>3. ArchiveGrows /\ CatalogFollows'
  BY <1>2 DEF archiveVars, ArchiveGrows, ArchiveInv, CatalogFollows
<1>4. JournalArchived'
  BY <1>2, <1>3, JournalArchivedKept DEF progressVars
<1>5. /\ pc'[Drain] = "append" /\ height'[Drain] = h /\ evidence'[Drain] = p
      /\ reply'[Drain] = "none"
  BY <1>1, <1>2 DEF Take, CallTypeOK
<1>6. ~recovering'[Drain]
  BY <1>1, <1>2 DEF Take, CallTypeOK
<1>7. partition'[h] \in {NoPlan, p}
  BY <1>2 DEF archiveVars, EvidenceStable
<1>8. ArchiveInHand(Drain)'
  BY <1>5, <1>6, <1>7 DEF ArchiveInHand
<1>9. ASSUME NEW v \in Workers \ {Drain} PROVE ArchiveInHand(v)'
  <2>1. Moves(Drain)
    BY <1>2 DEF Moves, Steps
  <2>2. Keeps(v)
    BY <1>1, <2>1, MovesKeep
  <2> QED
    BY <1>2, <1>3, <2>2, KeptArchive DEF archiveVars
<1> QED
  BY <1>3, <1>4, <1>8, <1>9 DEF ArchiveInv

(* ... by steps that move no call ...                                      *)
LEMMA LateKeepsArchive ==
  ASSUME PublicationInv, ArchiveInv,
         SettleTransaction \/ LateArrival \/ UNCHANGED coordinatorVars
  PROVE  ArchiveInv'
<1>1. UNCHANGED callVars /\ UNCHANGED archiveVars
  BY DEF SettleTransaction, LateArrival, coordinatorVars
<1>2. ArchiveGrows /\ CatalogFollows'
  BY <1>1 DEF archiveVars, ArchiveGrows, ArchiveInv, CatalogFollows
<1>3. \A v \in Workers : ArchiveInHand(v)'
  BY <1>1, <1>2, KeptArchive DEF archiveVars, callVars, blockVars, Keeps
<1>4. JournalArchived'
  <2>1. CASE LateArrival \/ SettleRolledBack \/ UNCHANGED coordinatorVars
    <3>1. journal' = journal /\ (pendingTx' = pendingTx \/ pendingTx' = NoTx)
      BY <2>1 DEF LateArrival, SettleRolledBack, coordinatorVars, progressVars, tableVars
    <3> QED
      BY <3>1, <1>2, JournalArchivedKept DEF NoTx
  <2>2. CASE SettleCommitted /\ pendingTx.op = "archived"
    <3>1. RecordArchived(pendingTx.height, pendingTx.plan) /\ pendingTx' = NoTx
      BY <2>2 DEF SettleCommitted, Apply
    <3>2. pendingTx.height \in Heights /\ catalog[pendingTx.height] = pendingTx.plan
      BY <2>2 DEF PublicationInv, JournalInv, ProgressTypeOK, Transactions, ArchiveInv, JournalArchived
    <3> QED
      BY <1>1, <3>1, <3>2, PlanRecorded DEF archiveVars
  <2>3. CASE SettleCommitted /\ pendingTx.op # "archived"
    <3>1. journal' = journal /\ pendingTx' = NoTx
      BY <2>3 DEF SettleCommitted, Apply, RecordAcknowledgement, AdvanceCursor
    <3> QED
      BY <3>1, <1>2, JournalArchivedKept DEF NoTx
  <2> QED
    BY <2>1, <2>2, <2>3 DEF SettleTransaction
<1> QED
  BY <1>2, <1>3, <1>4 DEF ArchiveInv

(* ... and by the end of the process.                                      *)
LEMMA CrashKeepsArchive ==
  ASSUME PublicationInv, ArchiveInv, CoordinatorCrash
  PROVE  ArchiveInv'
<1>1. UNCHANGED progressVars /\ UNCHANGED archiveVars
  BY DEF CoordinatorCrash
<1>2. \A v \in Workers : ArchiveInHand(v)'
  BY DEF CoordinatorCrash, ArchiveInHand
<1>3. CatalogFollows' /\ JournalArchived'
  BY <1>1 DEF progressVars, archiveVars, ArchiveInv, CatalogFollows, JournalArchived
<1> QED
  BY <1>2, <1>3 DEF ArchiveInv

(* The invariant is inductive as long as the evidence offered is stable.   *)
LEMMA ArchiveInvStep ==
  PublicationInv /\ ArchiveInv /\ [CoordinatorNext]_coordinatorVars => ArchiveInv'
<1> SUFFICES ASSUME PublicationInv, ArchiveInv, [CoordinatorNext]_coordinatorVars
             PROVE  ArchiveInv'
  OBVIOUS
<1>1. CASE \E w \in Workers : WorkerAction(w)
  BY <1>1, WorkerKeepsArchive
<1>2. CASE \E h \in Heights, p \in Plans : EvidenceStable(h, p) /\ CallProcess(h, p)
  BY <1>2, OfferKeepsArchive
<1>3. CASE SettleTransaction \/ LateArrival \/ UNCHANGED coordinatorVars
  BY <1>3, LateKeepsArchive
<1>4. CASE CoordinatorCrash
  BY <1>4, CrashKeepsArchive
<1> QED
  BY <1>1, <1>2, <1>3, <1>4 DEF CoordinatorNext, CoordinatorActivity, WorkerAction

(* Offering the archived evidence is offering some evidence: all that was  *)
(* proved above holds here too.                                            *)
THEOREM StableIsAny == CoordinatorSpec => AnyEvidenceSpec
<1>1. [CoordinatorNext]_coordinatorVars => [AnyEvidenceNext]_coordinatorVars
  BY DEF CoordinatorNext, AnyEvidenceNext
<1> QED
  BY <1>1, PTL DEF CoordinatorSpec, AnyEvidenceSpec

(* Both invariants hold in every reachable state.                          *)
THEOREM ArchiveInvariant == CoordinatorSpec => [](PublicationInv /\ ArchiveInv)
<1>1. CoordinatorSpec => []PublicationInv
  BY StableIsAny, PublicationInvariant, PTL
<1> QED
  BY <1>1, ArchiveInvInit, ArchiveInvStep, PTL DEF CoordinatorSpec

(* Archive, journal, stream, acknowledgement: durability goes down the     *)
(* chain in that order and the evidence is the same at every stage.        *)
THEOREM AlwaysDurableBeforeVisible == CoordinatorSpec => []DurableBeforeVisible
<1>1. PublicationInv /\ ArchiveInv => DurableBeforeVisible
  BY DEF PublicationInv, ArchiveInv, MessagesJournaled, AcksStored, JournalArchived,
       DurableBeforeVisible
<1> QED
  BY <1>1, ArchiveInvariant, PTL

(* verify_plan_matches_batch never refuses what it recovers.               *)
THEOREM NeverRecoveryMismatch == CoordinatorSpec => []NoRecoveryMismatch
<1>1. ArchiveInv => NoRecoveryMismatch
  BY DEF ArchiveInv, ArchiveInHand, NoRecoveryMismatch
<1> QED
  BY <1>1, ArchiveInvariant, PTL

(* What the cursor has passed is archived and completely published.        *)
THEOREM CommittedAlwaysPublished == CoordinatorSpec => []CommittedIsArchivedAndPublished
<1>1. PublicationInv /\ ArchiveInv => CommittedIsArchivedAndPublished
  <2> SUFFICES ASSUME PublicationInv, ArchiveInv, NEW h \in Heights, h <= cursor
               PROVE  /\ catalog[h] # NoPlan
                      /\ \A o \in Ordinals(h) : Message(h, o, catalog[h]) \in stream
    BY DEF CommittedIsArchivedAndPublished
  <2>1. journal[h] # NoPlan /\ acked[h] = Ordinals(h)
    BY DEF PublicationInv, JournalInv, CursorBacked
  <2>2. catalog[h] = journal[h]
    BY <2>1 DEF ArchiveInv, JournalArchived
  <2> QED
    BY <2>1, <2>2 DEF PublicationInv, AcksStored
<1> QED
  BY <1>1, ArchiveInvariant, PTL
=============================================================================
