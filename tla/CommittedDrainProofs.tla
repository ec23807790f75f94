-------------------------- MODULE CommittedDrainProofs --------------------------
(***************************************************************************)
(* Proofs about the committed lane, for every range of heights, whatever   *)
(* the nodes miss and the mapper refuses, and any number of faults.        *)
(*                                                                         *)
(* That the drain is a caller as the coordinator expects it is not plain   *)
(* from its code: it opens the backlog at the height the journal expects   *)
(* and then counts on its own, while the recovery supervisor and a late    *)
(* COMMIT may move the cursor.  HeightInv says how far the archive is      *)
(* ahead of the cursor; it holds of the coordinator under any caller.      *)
(* LaneInv adds where the drain is: from the moment its recovery returns,  *)
(* nothing beyond the cursor is in the catalog, so nobody else can move    *)
(* the cursor.  SplitInv adds which source vouches for which height; it    *)
(* needs spools that lose nothing.                                         *)
(***************************************************************************)
EXTENDS CommittedDrain, CaptureCoordinatorProofs

-----------------------------------------------------------------------------
(* The coordinator, whoever calls it: the archive and the cursor.          *)

(* At most the next height is archived.                                    *)
ArchiveBehind == \A h \in Heights : partition[h] # NoPlan => h <= cursor + 1

(* A plan is journaled for a block the catalog has.                        *)
JournalCataloged ==
  /\ \A h \in Heights : journal[h] # NoPlan => catalog[h] # NoPlan
  /\ pendingTx.op = "archived" => catalog[pendingTx.height] # NoPlan

(* Only the drain has a block in hand that the catalog does not have.      *)
BlockCataloged(w) ==
  /\ pc[w] = "append" /\ (w # Drain \/ recovering[w]) => catalog[height[w]] # NoPlan
  /\ pc[w] = "catalog" => w = Drain /\ partition[height[w]] # NoPlan
  /\ pc[w] \in {"journal"} \union PlanSteps => catalog[height[w]] # NoPlan

(* Nothing is archived beyond the block the drain has in hand.             *)
InHandIsLast ==
  pc[Drain] \notin {"caller", "recover"} =>
    \A h \in Heights : partition[h] # NoPlan => h <= height[Drain]

HeightInv ==
  /\ CatalogFollows
  /\ ArchiveBehind
  /\ JournalCataloged
  /\ \A w \in Workers : BlockCataloged(w)
  /\ InHandIsLast

(* What is bound stays bound.                                              *)
StaysBound ==
  \A h \in Heights :
    /\ partition[h] # NoPlan => partition'[h] = partition[h]
    /\ catalog[h] # NoPlan => catalog'[h] = catalog[h]

-----------------------------------------------------------------------------
(* The cursor only moves to a height that is journaled, and the row of the *)
(* chain stays.                                                            *)
LEMMA CursorMoves ==
  ASSUME JournalInv, [ProgressNext]_progressVars
  PROVE  /\ \/ cursor' = cursor
            \/ cursor' = cursor + 1 /\ cursor + 1 \in Heights /\ journal[cursor + 1] # NoPlan
         /\ initialized => initialized'
<1>1. CASE UNCHANGED progressVars \/ InitializeChain
  BY <1>1 DEF progressVars, InitializeChain
<1>2. ASSUME NEW tx \in Transactions, Admits(tx), Apply(tx)
      PROVE  /\ \/ cursor' = cursor
                \/ cursor' = cursor + 1 /\ cursor + 1 \in Heights /\ journal[cursor + 1] # NoPlan
             /\ initialized => initialized'
  <2>1. CASE tx.op = "advance"
    BY <1>2, <2>1 DEF Admits, Apply, CanAdvanceCursor, AdvanceCursor, Transactions
  <2>2. CASE tx.op # "advance"
    BY <1>2, <2>2 DEF Apply, RecordArchived, RecordAcknowledgement
  <2> QED
    BY <2>1, <2>2
<1>3. CASE UNCHANGED tableVars
  BY <1>3 DEF tableVars
<1> QED
  BY <1>1, <1>2, <1>3, StepShape DEF LoseReply, SettleRolledBack

(* The height in hand and whether it is in the archive.                    *)
LEMMA HeightFacts ==
  ASSUME PublicationInv, HeightInv, NEW w \in Workers
  PROVE  /\ height[w] \in Heights /\ height[w] \in Int /\ cursor \in Int
         /\ height[w] <= cursor + 1
         /\ catalog[height[w]] \in {NoPlan, partition[height[w]]}
         /\ pc[w] = "append" /\ w # Drain => catalog[height[w]] # NoPlan
         /\ pc[w] = "catalog" => w = Drain /\ partition[height[w]] # NoPlan
         /\ pc[w] \in {"journal"} \union PlanSteps => catalog[height[w]] # NoPlan
<1>1. BlockCataloged(w) /\ CatalogFollows
  BY DEF HeightInv
<1>2. height[w] \in Heights /\ height[w] <= cursor + 1
  BY CallFacts
<1>3. cursor \in Int
  BY DEF PublicationInv, JournalInv, ProgressTypeOK
<1> QED
  BY <1>1, <1>2, <1>3, HeightsFacts DEF BlockCataloged, CatalogFollows

(* Only the drain binds a height.                                          *)
LEMMA OnlyDrainBinds ==
  ASSUME PublicationInv, HeightInv, NEW w \in Workers, PublishPartition(w)
  PROVE  w = Drain /\ pc[Drain] = "append" /\ partition[height[Drain]] = NoPlan
<1>1. pc[w] = "append" /\ partition[height[w]] = NoPlan
  BY DEF PublishPartition
<1> QED
  BY <1>1, HeightFacts

(* An action of a worker leaves bound what is bound.                       *)
LEMMA WorkerBinds ==
  ASSUME PublicationInv, HeightInv, NEW w \in Workers, WorkerAction(w)
  PROVE  StaysBound /\ CatalogFollows'
<1>0. CatalogFollows /\ ServiceTypeOK
  BY TypeParts DEF HeightInv, PublicationInv
<1>1. CASE UNCHANGED archiveVars
  BY <1>0, <1>1 DEF archiveVars, StaysBound, CatalogFollows
<1>2. CASE PublishPartition(w)
  <2>1. /\ height[w] \in Heights /\ partition[height[w]] = NoPlan /\ catalog' = catalog
        /\ partition' = [partition EXCEPT ![height[w]] = evidence[w]]
    BY <1>2, CallFacts DEF PublishPartition
  <2> QED
    BY <1>0, <2>1 DEF StaysBound, CatalogFollows, ServiceTypeOK
<1>3. CASE catalog' = partition /\ partition' = partition
  BY <1>0, <1>3 DEF StaysBound, CatalogFollows
<1> QED
  BY <1>1, <1>2, <1>3, WorkerArchives

(* A call that does not move keeps its block in the catalog.               *)
LEMMA KeptCataloged ==
  ASSUME PublicationInv, HeightInv, StaysBound, NEW v \in Workers, Keeps(v)
  PROVE  BlockCataloged(v)'
<1>1. BlockCataloged(v) /\ height[v] \in Heights
  BY CallFacts DEF HeightInv
<1>2. /\ catalog[height[v]] # NoPlan => catalog'[height[v]] # NoPlan
      /\ partition[height[v]] # NoPlan => partition'[height[v]] # NoPlan
  BY <1>1 DEF StaysBound
<1>3. pc[v] = "append" /\ (v # Drain \/ recovering[v]) => catalog'[height[v]] # NoPlan
  BY <1>1, <1>2 DEF BlockCataloged
<1>4. /\ pc[v] = "catalog" => v = Drain /\ partition'[height[v]] # NoPlan
      /\ pc[v] \in {"journal"} \union PlanSteps => catalog'[height[v]] # NoPlan
  BY <1>1, <1>2 DEF BlockCataloged
<1> QED
  BY <1>3, <1>4 DEF BlockCataloged, Keeps

(* The call of w under its own actions.                                    *)
LEMMA OwnCataloged ==
  ASSUME PublicationInv, HeightInv, StaysBound, NEW w \in Workers, WorkerAction(w)
  PROVE  BlockCataloged(w)'
<1>0. CallTypeOK /\ ServiceTypeOK
  BY TypeParts DEF PublicationInv
<1>1. ASSUME pc'[w] \in {"caller", "recover", "recover_plan", "recover_block"}
      PROVE  BlockCataloged(w)'
  BY <1>1 DEF BlockCataloged, PlanSteps
<1>2. ASSUME pc'[w] \in {"journal"} \union PlanSteps, height'[w] = height[w],
             catalog'[height[w]] # NoPlan
      PROVE  BlockCataloged(w)'
  BY <1>2 DEF BlockCataloged, PlanSteps
<1>3. CASE AppendExisting(w) \/ PublishCatalog(w)
  <2>1. catalog' = partition /\ Goto(w, "journal") /\ partition[height[w]] # NoPlan
    BY <1>3, HeightFacts DEF AppendExisting, PublishCatalog
  <2>2. pc'[w] = "journal" /\ height' = height
    BY <1>0, <2>1, GotoValues
  <2> QED
    BY <1>2, <2>1, <2>2
<1>4. CASE PublishPartition(w)
  <2>1. w = Drain /\ partition'[height[w]] # NoPlan
    <3>1. /\ partition' = [partition EXCEPT ![height[w]] = evidence[w]]
          /\ evidence[w] # NoPlan /\ height[w] \in Heights
      BY <1>4, CallFacts DEF PublishPartition, BlockSteps
    <3> QED
      BY <1>0, <1>4, <3>1, OnlyDrainBinds DEF ServiceTypeOK
  <2>2. pc'[w] = "catalog" /\ height' = height
    BY <1>0, <1>4, GotoValues DEF PublishPartition
  <2> QED
    BY <2>1, <2>2 DEF BlockCataloged, PlanSteps
<1>5. CASE RecoverArchived(w)
  <2>1. Take(w, "append", height[w], catalog[height[w]], TRUE) /\ catalog' = catalog
        /\ catalog[height[w]] # NoPlan
    BY <1>5 DEF RecoverArchived, archiveVars
  <2>2. pc'[w] = "append" /\ height'[w] = height[w]
    BY <1>0, <2>1, TakeValues
  <2> QED
    BY <2>1, <2>2 DEF BlockCataloged, PlanSteps
<1>6. CASE CallInitialize(w)
  BY <1>6, KeptCataloged DEF CallInitialize, callVars, blockVars, Keeps
<1>7. CASE JournalBlock(w) \/ BatchComplete(w) \/ Publish(w) \/ LoadAcknowledgements(w)
           \/ RecordAck(w) \/ SkipAcknowledged(w)
  <2>1. pc[w] \in {"journal"} \union PlanSteps
    BY <1>7 DEF JournalBlock, BatchComplete, Publish, Unpublished, LoadAcknowledgements,
         RecordAck, SkipAcknowledged, PlanSteps
  <2>2. catalog[height[w]] # NoPlan /\ height[w] \in Heights
    BY <2>1, HeightFacts
  <2>3. pc'[w] \in PlanSteps /\ height' = height
    BY <1>0, <1>7 DEF JournalBlock, BatchComplete, Publish, LoadAcknowledgements,
         RecordAck, SkipAcknowledged, Goto, blockVars, PlanSteps, CallTypeOK
  <2> QED
    BY <1>2, <2>2, <2>3 DEF StaysBound
<1>8. CASE RecoverJournaled(w)
  <2>1. Goto(w, "load") /\ catalog[height[w]] # NoPlan /\ catalog' = catalog
    BY <1>8 DEF RecoverJournaled, archiveVars
  <2>2. pc'[w] = "load" /\ height' = height
    BY <1>0, <2>1, GotoValues
  <2> QED
    BY <1>2, <2>1, <2>2 DEF PlanSteps
<1>9. CASE \E r \in Replies : Return(w, r)
  BY <1>0, <1>1, <1>9 DEF Return, CallTypeOK
<1>10. CASE \E step \in {"recover", "recover_plan", "recover_block"}, h \in Heights,
               p \in Plans \union {NoPlan}, recovery \in BOOLEAN : Take(w, step, h, p, recovery)
  BY <1>0, <1>1, <1>10, TakeValues
<1>11. CASE CoordinatorFault(w)
  BY <1>9, <1>11 DEF CoordinatorFault, ArchiveFails, ProgressFails, PublishFails,
       LoseJournalReply, LoseAckReply, LoseAdvanceReply, RecoverReadFails, GiveUp, Replies
<1>12. CASE CallRecover(w) \/ TakeReply(w)
  BY <1>9, <1>10, <1>12, HeightsFacts DEF CallRecover, TakeReply, Replies
<1>13. CASE JournalConflicts(w) \/ AckConflicts(w) \/ AdvanceRefused(w) \/ LedgerRefuses(w)
            \/ RecoverPastLastHeight(w) \/ RecoverNothing(w) \/ RecoverMismatch(w)
  BY <1>9, <1>13 DEF JournalConflicts, AckConflicts, AdvanceRefused, LedgerRefuses,
       RecoverPastLastHeight, RecoverNothing, RecoverMismatch, GiveUp, Replies
<1>14. CASE Advance(w)
  BY <1>9, <1>10, <1>14, HeightsFacts DEF Advance, Replies
<1>15. CASE RecoverNextExpected(w) \/ RecoverLoadPlan(w)
  BY <1>0, <1>10, <1>15
     DEF RecoverNextExpected, RecoverLoadPlan, PublicationInv, CoordinatorTypeOK, ProgressTypeOK
<1> QED
  BY <1>3, <1>4, <1>5, <1>6, <1>7, <1>8, <1>11, <1>12, <1>13, <1>14, <1>15
     DEF WorkerAction, CoordinatorStep

(* A plan is journaled, or on its way to the journal, from the catalog.    *)
LEMMA WorkerJournalsCataloged ==
  ASSUME PublicationInv, HeightInv, StaysBound, NEW w \in Workers, WorkerAction(w)
  PROVE  JournalCataloged'
<1>0. JournalCataloged /\ JournalInv /\ journal \in [Heights -> Plans \union {NoPlan}]
  BY DEF HeightInv, PublicationInv, JournalInv, ProgressTypeOK
<1>1. ASSUME journal' = journal, pendingTx'.op = "archived" => pendingTx' = pendingTx
      PROVE  JournalCataloged'
  <2>1. pendingTx.height \in Heights
    BY <1>0 DEF JournalInv, ProgressTypeOK, Transactions
  <2> QED
    BY <1>0, <1>1, <2>1 DEF JournalCataloged, StaysBound
<1>2. CASE LoseAckReply(w) \/ LoseAdvanceReply(w)
  <2>1. journal' = journal /\ pendingTx'.op # "archived"
    BY <1>2 DEF LoseAckReply, LoseAdvanceReply, LoseReply, tableVars, AcknowledgementTx, AdvanceTx
  <2> QED
    BY <2>1, <1>1
<1>3. CASE JournalBlock(w) /\ Commit(ArchivedTx(height[w], evidence[w]))
  <2>1. journal' = [journal EXCEPT ![height[w]] = evidence[w]] /\ pendingTx' = NoTx
    BY <1>3 DEF Commit, Apply, ArchivedTx, Unlocked, RecordArchived
  <2>2. height[w] \in Heights /\ catalog[height[w]] # NoPlan /\ catalog' = catalog
    BY <1>3, HeightFacts DEF JournalBlock, archiveVars
  <2> QED
    BY <1>0, <2>1, <2>2 DEF JournalCataloged, NoTx
<1>4. CASE LoseJournalReply(w)
  <2>1. pendingTx' = ArchivedTx(height[w], evidence[w]) /\ journal' = journal
    BY <1>4 DEF LoseJournalReply, LoseReply, tableVars
  <2>2. catalog[height[w]] # NoPlan /\ catalog' = catalog
    BY <1>4, HeightFacts DEF LoseJournalReply, GiveUp, archiveVars
  <2> QED
    BY <1>0, <2>1, <2>2 DEF JournalCataloged, ArchivedTx
<1>5. CASE RecordAck(w) \/ Advance(w) \/ CallInitialize(w)
  <2>1. UNCHANGED <<journal, pendingTx>>
    BY <1>5 DEF RecordAck, Advance, CallInitialize, InitializeChain, Commit, Apply,
         AcknowledgementTx, AdvanceTx, RecordAcknowledgement, AdvanceCursor, progressVars
  <2> QED
    BY <2>1, <1>1
<1>6. CASE JournalBlock(w) /\ UNCHANGED progressVars
  BY <1>6, <1>1 DEF progressVars
<1>7. CASE ~JournalWrites(w)
  BY <1>7, <1>1, JournalUntouched DEF progressVars
<1> QED
  BY <1>2, <1>3, <1>4, <1>5, <1>6, <1>7 DEF JournalWrites, JournalBlock

(* Where the block in hand of w comes from: it is the one in hand already, *)
(* or the next one of the journal.                                         *)
LEMMA OwnHeight ==
  ASSUME PublicationInv, NEW w \in Workers, WorkerAction(w),
         pc'[w] \notin {"caller", "recover"}
  PROVE  \/ height'[w] = height[w] /\ pc[w] \notin {"caller", "recover"}
         \/ height'[w] = cursor + 1 /\ UNCHANGED archiveVars
<1>0. CallTypeOK
  BY TypeParts DEF PublicationInv
<1>1. ~CallInitialize(w) /\ ~(\E r \in Replies : Return(w, r))
      /\ ~(\E h \in Heights, p \in Plans \union {NoPlan}, recovery \in BOOLEAN :
             Take(w, "recover", h, p, recovery))
  <2>1. ~CallInitialize(w)
    BY DEF CallInitialize, callVars
  <2>2. ~(\E r \in Replies : Return(w, r))
    BY <1>0 DEF Return, CallTypeOK
  <2>3. ASSUME NEW h, NEW p, NEW recovery PROVE ~Take(w, "recover", h, p, recovery)
    BY <1>0, TakeValues
  <2> QED
    BY <2>1, <2>2, <2>3
<1>2. CASE RecoverNextExpected(w)
  BY <1>0, <1>2, TakeValues DEF RecoverNextExpected, next_expected_height
<1>3. CASE RecoverLoadPlan(w) \/ RecoverArchived(w)
  <2>1. CASE RecoverLoadPlan(w)
    BY <1>0, <2>1, TakeValues DEF RecoverLoadPlan
  <2>2. CASE RecoverArchived(w)
    BY <1>0, <2>2, TakeValues DEF RecoverArchived
  <2> QED
    BY <1>3, <2>1, <2>2
<1>4. CASE \/ AppendExisting(w) \/ PublishPartition(w) \/ PublishCatalog(w) \/ JournalBlock(w)
           \/ BatchComplete(w) \/ Publish(w) \/ RecoverJournaled(w)
  <2>1. pc[w] \notin {"caller", "recover"}
    BY <1>4 DEF AppendExisting, PublishPartition, PublishCatalog, JournalBlock, BatchComplete,
         Publish, Unpublished, RecoverJournaled
  <2>2. height' = height
    BY <1>4 DEF AppendExisting, PublishPartition, PublishCatalog, JournalBlock, BatchComplete,
         Publish, RecoverJournaled, Goto, blockVars
  <2> QED
    BY <2>1, <2>2
<1>5. CASE LoadAcknowledgements(w) \/ RecordAck(w) \/ SkipAcknowledged(w)
  BY <1>5 DEF LoadAcknowledgements, RecordAck, SkipAcknowledged, blockVars
<1>6. ~CoordinatorFault(w)
  BY <1>1 DEF CoordinatorFault, ArchiveFails, ProgressFails, PublishFails,
       LoseJournalReply, LoseAckReply, LoseAdvanceReply, RecoverReadFails, GiveUp, Replies
<1>7. ~CallRecover(w) /\ ~TakeReply(w) /\ ~Advance(w)
  BY <1>1, HeightsFacts DEF CallRecover, TakeReply, Advance, Replies
<1>8. ~(JournalConflicts(w) \/ AckConflicts(w) \/ AdvanceRefused(w) \/ LedgerRefuses(w)
        \/ RecoverPastLastHeight(w) \/ RecoverNothing(w) \/ RecoverMismatch(w))
  BY <1>1 DEF JournalConflicts, AckConflicts, AdvanceRefused, LedgerRefuses,
       RecoverPastLastHeight, RecoverNothing, RecoverMismatch, GiveUp, Replies
<1> QED
  BY <1>1, <1>2, <1>3, <1>4, <1>5, <1>6, <1>7, <1>8 DEF WorkerAction, CoordinatorStep

-----------------------------------------------------------------------------
(* HeightInv is inductive: the actions of the workers ...                  *)
LEMMA WorkerKeepsHeights ==
  ASSUME PublicationInv, HeightInv, NEW w \in Workers, WorkerAction(w)
  PROVE  HeightInv' /\ StaysBound
<1>1. StaysBound /\ CatalogFollows'
  BY WorkerBinds
<1>2. CallTypeOK /\ ServiceTypeOK /\ JournalInv /\ cursor \in Int /\ Drain \in Workers
  BY TypeParts, CoordinatorAssumption DEF PublicationInv, JournalInv, ProgressTypeOK
<1>3. RewritesNothing
  BY <1>2, JournalStep, StepRewritesNothing
<1>4. \A v \in Workers \ {w} : Keeps(v)
  BY <1>2, WorkerMoves, MovesKeep DEF PublicationInv
<1>5. \A v \in Workers : BlockCataloged(v)'
  BY <1>1, <1>4, OwnCataloged, KeptCataloged
<1>6. JournalCataloged'
  BY <1>1, WorkerJournalsCataloged
<1>7. \/ partition' = partition
      \/ /\ w = Drain /\ PublishPartition(Drain) /\ pc[Drain] = "append"
         /\ \A h \in Heights : h # height[Drain] => partition'[h] = partition[h]
  <2>1. CASE PublishPartition(w)
    BY <1>2, <2>1, OnlyDrainBinds DEF PublishPartition, ServiceTypeOK
  <2> QED
    BY <2>1, WorkerArchives DEF archiveVars
<1>8. ArchiveBehind'
  <2>1. \A h \in Heights : partition'[h] # NoPlan => h <= cursor + 1
    BY <1>7, HeightFacts DEF HeightInv, ArchiveBehind
  <2> QED
    BY <1>3, <2>1, BoundKept, HeightsFacts DEF ArchiveBehind
<1>9. InHandIsLast'
  <2> SUFFICES ASSUME pc'[Drain] \notin {"caller", "recover"}, NEW h \in Heights,
                      partition'[h] # NoPlan
               PROVE  h <= height'[Drain]
    BY DEF InHandIsLast
  <2>1. height[Drain] \in Int /\ h \in Int
    BY <1>2, HeightFacts, HeightsFacts
  <2>2. CASE pc[Drain] \notin {"caller", "recover"} /\ height'[Drain] = height[Drain]
    BY <1>7, <2>1, <2>2 DEF HeightInv, InHandIsLast
  <2>3. CASE height'[Drain] = cursor + 1 /\ UNCHANGED archiveVars
    BY <2>3 DEF HeightInv, ArchiveBehind, archiveVars
  <2>4. CASE w # Drain
    BY <1>2, <1>4, <2>2, <2>4 DEF Keeps
  <2> QED
    BY <2>2, <2>3, <2>4, OwnHeight
<1> QED
  BY <1>1, <1>5, <1>6, <1>8, <1>9 DEF HeightInv

(* ... a block that is offered ...                                         *)
LEMMA OfferKeepsHeights ==
  ASSUME PublicationInv, HeightInv, NEW h \in Heights, NEW p \in Plans, CallProcess(h, p)
  PROVE  HeightInv'
<1>1. CallTypeOK /\ Drain \in Workers
  BY TypeParts, CoordinatorAssumption DEF PublicationInv
<1>2. /\ UNCHANGED progressVars /\ UNCHANGED archiveVars
      /\ Take(Drain, "append", h, p, FALSE) /\ h = cursor + 1
  BY DEF CallProcess, next_expected_height
<1>3. StaysBound
  BY <1>2 DEF archiveVars, StaysBound
<1>4. pc'[Drain] = "append" /\ height'[Drain] = h
  BY <1>1, <1>2, TakeValues
<1>5. ~recovering'[Drain]
  BY <1>1, <1>2 DEF Take, CallTypeOK
<1>6. BlockCataloged(Drain)'
  BY <1>4, <1>5 DEF BlockCataloged, PlanSteps
<1>7. Moves(Drain)
  BY <1>2 DEF Moves, Steps
<1>8. \A v \in Workers : BlockCataloged(v)'
  BY <1>1, <1>3, <1>6, <1>7, MovesKeep, KeptCataloged
<1>9. CatalogFollows' /\ ArchiveBehind' /\ JournalCataloged'
  BY <1>2 DEF archiveVars, progressVars, HeightInv, CatalogFollows, ArchiveBehind, JournalCataloged
<1>10. InHandIsLast'
  BY <1>2, <1>4 DEF InHandIsLast, HeightInv, ArchiveBehind, archiveVars
<1> QED
  BY <1>8, <1>9, <1>10 DEF HeightInv

(* ... steps that move no call ...                                         *)
LEMMA LateKeepsHeights ==
  ASSUME PublicationInv, HeightInv,
         SettleTransaction \/ LateArrival \/ UNCHANGED coordinatorVars
  PROVE  HeightInv'
<1>1. UNCHANGED callVars /\ UNCHANGED archiveVars
  BY DEF SettleTransaction, LateArrival, coordinatorVars
<1>2. JournalInv /\ [ProgressNext]_progressVars /\ RewritesNothing
  <2>1. JournalInv /\ [ProgressNext]_progressVars
    BY DEF PublicationInv, SettleTransaction, LateArrival, coordinatorVars, ProgressNext
  <2> QED
    BY <2>1, StepRewritesNothing
<1>3. StaysBound
  BY <1>1 DEF archiveVars, StaysBound
<1>4. \A v \in Workers : BlockCataloged(v)'
  BY <1>1, <1>3, KeptCataloged DEF callVars, blockVars, Keeps
<1>5. CatalogFollows' /\ InHandIsLast'
  BY <1>1 DEF archiveVars, callVars, blockVars, HeightInv, CatalogFollows, InHandIsLast
<1>6. ArchiveBehind'
  BY <1>1, <1>2, BoundKept, HeightsFacts DEF archiveVars, HeightInv, ArchiveBehind
<1>7. JournalCataloged'
  <2>0. JournalCataloged /\ journal \in [Heights -> Plans \union {NoPlan}] /\ catalog' = catalog
    BY <1>1, <1>2 DEF HeightInv, JournalInv, ProgressTypeOK, archiveVars
  <2>1. CASE journal' = journal /\ (pendingTx' = pendingTx \/ pendingTx' = NoTx)
    BY <2>0, <2>1 DEF JournalCataloged, NoTx
  <2>2. CASE SettleCommitted /\ pendingTx.op = "archived"
    <3>1. /\ journal' = [journal EXCEPT ![pendingTx.height] = pendingTx.plan]
          /\ pendingTx' = NoTx
      BY <2>2 DEF SettleCommitted, Apply, RecordArchived
    <3> QED
      BY <2>0, <2>2, <3>1 DEF JournalCataloged, NoTx
  <2>3. CASE SettleCommitted /\ pendingTx.op # "archived"
    BY <2>1, <2>3 DEF SettleCommitted, Apply, RecordAcknowledgement, AdvanceCursor
  <2> QED
    BY <2>1, <2>2, <2>3
       DEF SettleTransaction, SettleRolledBack, LateArrival, coordinatorVars, progressVars, tableVars
<1> QED
  BY <1>4, <1>5, <1>6, <1>7 DEF HeightInv

(* ... and the end of the process keep it.                                 *)
LEMMA CrashKeepsHeights ==
  ASSUME PublicationInv, HeightInv, CoordinatorCrash
  PROVE  HeightInv'
<1>1. UNCHANGED progressVars /\ UNCHANGED archiveVars
  BY DEF CoordinatorCrash
<1>2. \A v \in Workers : BlockCataloged(v)'
  BY DEF CoordinatorCrash, BlockCataloged, PlanSteps
<1>3. InHandIsLast'
  BY CoordinatorAssumption DEF CoordinatorCrash, InHandIsLast
<1>4. CatalogFollows' /\ ArchiveBehind' /\ JournalCataloged'
  BY <1>1 DEF archiveVars, progressVars, HeightInv, CatalogFollows, ArchiveBehind, JournalCataloged
<1> QED
  BY <1>2, <1>3, <1>4 DEF HeightInv

(* HeightInv is inductive under a caller that offers any evidence.         *)
LEMMA HeightInvStep ==
  PublicationInv /\ HeightInv /\ [AnyEvidenceNext]_coordinatorVars => HeightInv'
<1> SUFFICES ASSUME PublicationInv, HeightInv, [AnyEvidenceNext]_coordinatorVars
             PROVE  HeightInv'
  OBVIOUS
<1>1. CASE \E w \in Workers : WorkerAction(w)
  BY <1>1, WorkerKeepsHeights
<1>2. CASE \E h \in Heights, p \in Plans : CallProcess(h, p)
  BY <1>2, OfferKeepsHeights
<1>3. CASE SettleTransaction \/ LateArrival \/ UNCHANGED coordinatorVars
  BY <1>3, LateKeepsHeights
<1>4. CASE CoordinatorCrash
  BY <1>4, CrashKeepsHeights
<1> QED
  BY <1>1, <1>2, <1>3, <1>4 DEF AnyEvidenceNext, CoordinatorActivity, WorkerAction

(* Nothing is archived and nothing is in hand.                             *)
LEMMA HeightInvInit == CoordinatorInit => HeightInv
<1> SUFFICES ASSUME CoordinatorInit PROVE HeightInv
  OBVIOUS
<1>1. \A v \in Workers : BlockCataloged(v)
  BY DEF CoordinatorInit, BlockCataloged, PlanSteps
<1>2. CatalogFollows /\ ArchiveBehind /\ JournalCataloged /\ InHandIsLast
  BY CoordinatorAssumption
     DEF CoordinatorInit, ProgressInit, CatalogFollows, ArchiveBehind, JournalCataloged,
         InHandIsLast, NoTx
<1> QED
  BY <1>1, <1>2 DEF HeightInv

(* The archive is at most one height ahead of the cursor, and the journal  *)
(* never ahead of the catalog, whatever evidence the drain offers.         *)
THEOREM HeightInvariant == AnyEvidenceSpec => []HeightInv
  BY PublicationInvariant, HeightInvInit, HeightInvStep, PTL DEF AnyEvidenceSpec

-----------------------------------------------------------------------------
(* The lane: where the drain is and what it may rely on.                   *)

(* The types of the tasks around the coordinator.                          *)
RuntimeTypeOK ==
  /\ written \in [Plans -> SpoolHeights]
  /\ durable \in [Plans -> SpoolHeights]
  /\ parked \in [Plans -> BOOLEAN]
  /\ lost \subseteq Heights
  /\ gapNotice \in SpoolHeights
  /\ primary_gap \in SpoolHeights
  /\ failover \in SpoolHeights
  /\ active_role \in Plans
  /\ expected \in SpoolHeights \union {LastHeight + 1}
  /\ phase \in Phases
  /\ supervision \in {"init", "recover", "done"}
  /\ faults \in 0..MaxFaults

(* The call of the drain in recover_startup, and in process_block.         *)
InRecovery ==
  \/ pc[Drain] # "caller" /\ (pc[Drain] = "recover" \/ recovering[Drain])
  \/ pc[Drain] = "caller" /\ reply[Drain] # "committed"

InCommit ==
  \/ pc[Drain] \in BlockSteps /\ ~recovering[Drain] /\ height[Drain] = expected
  \/ /\ pc[Drain] = "caller" /\ reply[Drain] # "recovered"
     /\ reply[Drain] = "committed" => expected = cursor

DrainCalls ==
  /\ phase \notin {"recover", "commit", "stopped"} => pc[Drain] = "caller" /\ reply[Drain] = "none"
  /\ phase \notin {"init", "stopped"} => initialized
  /\ pc[Drain] # "caller" => reply[Drain] = "none"
  /\ phase = "recover" => InRecovery
  /\ phase = "commit" => InCommit

(* The backlog is open at the very height the journal expects.             *)
DrainPosition ==
  /\ phase = "read" => expected = cursor + 1
  /\ phase = "probe" => primary_gap # NoHeight /\ cursor + 1 = primary_gap

(* The catalog has nothing beyond the cursor.                              *)
Settled == \A h \in Heights : catalog[h] # NoPlan => h <= cursor

(* From the moment a call of the drain has done its work and until it      *)
(* makes the next one.                                                     *)
BetweenBlocks ==
  \/ phase \in {"open", "read", "caught_up", "probe", "switch", "wait"}
  \/ phase \in {"recover", "commit"} /\ reply[Drain] \in {"recovered", "committed"}

DrainSettled == BetweenBlocks => Settled

(* The partition pointer was moved and the catalog pointer was not.        *)
Torn == \E h \in Heights : partition[h] # NoPlan /\ catalog[h] = NoPlan

(* A worker that holds nothing but, perhaps, the next height, unread.      *)
HoldsNothing(w) ==
  \/ pc[w] \in {"caller", "recover"}
  \/ pc[w] \in {"recover_plan", "recover_block"} /\ height[w] = cursor + 1

(* append_block was cut off between its two pointers before this process   *)
(* began, so no other worker can be about to bring the catalog up to date. *)
TornBefore ==
  Torn /\ phase # "stopped" /\ pc[Drain] # "catalog" /\ reply[Drain] # "archive"

NobodyRepairs == TornBefore => \A w \in Workers \ {Drain} : HoldsNothing(w)

(* The role and the failover record.                                       *)
Roles ==
  /\ active_role = Independent => failover # NoHeight
  /\ failover # NoHeight /\ active_role = Primary =>
       phase \in {"switch", "stopped"} /\ pc[Drain] = "caller"
  /\ phase \in {"probe", "switch"} => active_role = Primary
  /\ phase = "switch" => failover # NoHeight

(* A gap is the height after the last one of the spool, which stays so: a  *)
(* parked source writes no more.                                           *)
Gaps ==
  /\ gapNotice \in {NoHeight, written[Primary] + 1}
  /\ primary_gap \in {NoHeight, written[Primary] + 1}
  /\ gapNotice # NoHeight \/ primary_gap # NoHeight => parked[Primary]
  /\ parked[Primary] => written[Primary] = durable[Primary]

LaneInv ==
  /\ RuntimeTypeOK
  /\ DrainCalls
  /\ DrainPosition
  /\ DrainSettled
  /\ NobodyRepairs
  /\ Roles
  /\ Gaps

-----------------------------------------------------------------------------
(* A step of the coordinator for w, its services included.                 *)
StepOf(w) == CoordinatorStep(w) \/ CoordinatorFault(w)

(* It takes a call.                                                        *)
LEMMA StepInCall ==
  ASSUME NEW w \in Workers, StepOf(w)
  PROVE  pc[w] # "caller"
<1>1. CASE CoordinatorStep(w)
  BY <1>1 DEF CoordinatorStep, AppendExisting, PublishPartition, PublishCatalog, JournalBlock,
       JournalConflicts, LoadAcknowledgements, RecordAck, AckConflicts, Advance, AdvanceRefused,
       SkipAcknowledged, BatchComplete, Publish, LedgerRefuses, Unpublished, RecoverNextExpected,
       RecoverPastLastHeight, RecoverLoadPlan, RecoverJournaled, RecoverMismatch,
       RecoverArchived, RecoverNothing
<1>2. CASE CoordinatorFault(w)
  BY <1>2 DEF CoordinatorFault, ArchiveFails, ProgressFails, PublishFails, Unpublished,
       LoseJournalReply, LoseAckReply, LoseAdvanceReply, RecoverReadFails
<1> QED
  BY <1>1, <1>2 DEF StepOf

(* Outside append_block nothing happens to the archive.                    *)
LEMMA ArchiveIdle ==
  ASSUME NEW w \in Workers, WorkerAction(w), pc[w] \notin {"append", "catalog"}
  PROVE  UNCHANGED archiveVars
<1>1. ~(AppendExisting(w) \/ PublishCatalog(w) \/ PublishPartition(w))
  BY DEF AppendExisting, PublishCatalog, PublishPartition
<1>2. CASE CoordinatorStep(w)
  BY <1>1, <1>2 DEF CoordinatorStep, GiveUp, JournalBlock,
       JournalConflicts, LoadAcknowledgements, RecordAck, AckConflicts, Advance,
       AdvanceRefused, SkipAcknowledged, BatchComplete, Publish, LedgerRefuses,
       RecoverNextExpected, RecoverPastLastHeight, RecoverLoadPlan, RecoverJournaled,
       RecoverMismatch, RecoverArchived, RecoverNothing
<1>3. CASE CoordinatorFault(w)
  BY <1>3 DEF CoordinatorFault, GiveUp, ArchiveFails, ProgressFails, PublishFails,
       LoseJournalReply, LoseAckReply, LoseAdvanceReply, RecoverReadFails
<1>4. CASE CallInitialize(w) \/ CallRecover(w) \/ TakeReply(w)
  BY <1>4 DEF CallInitialize, CallRecover, TakeReply
<1> QED
  BY <1>2, <1>3, <1>4 DEF WorkerAction

(* Between the two pointers a call finishes append_block or fails.         *)
LEMMA CatalogNext ==
  ASSUME NEW w \in Workers, StepOf(w), pc[w] = "catalog"
  PROVE  PublishCatalog(w) \/ ArchiveFails(w)
<1>1. CASE CoordinatorStep(w)
  BY <1>1 DEF CoordinatorStep, AppendExisting, PublishPartition, JournalBlock,
       JournalConflicts, LoadAcknowledgements, RecordAck, AckConflicts, Advance, AdvanceRefused,
       SkipAcknowledged, BatchComplete, Publish, LedgerRefuses, Unpublished, RecoverNextExpected,
       RecoverPastLastHeight, RecoverLoadPlan, RecoverJournaled, RecoverMismatch,
       RecoverArchived, RecoverNothing
<1>2. CASE CoordinatorFault(w)
  BY <1>2 DEF CoordinatorFault, ProgressFails, PublishFails, Unpublished,
       LoseJournalReply, LoseAckReply, LoseAdvanceReply, RecoverReadFails
<1> QED
  BY <1>1, <1>2 DEF StepOf

(* A height that only the partition has is the next one.                   *)
LEMMA TornIsNext ==
  ASSUME PublicationInv, HeightInv, NEW h \in Heights,
         partition[h] # NoPlan, catalog[h] = NoPlan
  PROVE  h = cursor + 1
<1>1. h \in Int /\ cursor \in Int /\ h <= cursor + 1
  BY HeightsFacts DEF PublicationInv, JournalInv, ProgressTypeOK, HeightInv, ArchiveBehind
<1>2. ~(h <= cursor)
  BY DEF PublicationInv, JournalInv, CursorBacked, HeightInv, JournalCataloged
<1> QED
  BY <1>1, <1>2

(* The cursor stays while the catalog does not have the next height.       *)
LEMMA CursorStays ==
  ASSUME PublicationInv, HeightInv, [ProgressNext]_progressVars,
         Settled \/ Torn
  PROVE  cursor' = cursor
<1>1. cursor + 1 \in Heights => catalog[cursor + 1] = NoPlan
  <2>1. cursor \in Int
    BY DEF PublicationInv, JournalInv, ProgressTypeOK
  <2> QED
    BY <2>1, TornIsNext DEF Settled, Torn
<1>2. cursor + 1 \in Heights => journal[cursor + 1] = NoPlan
  BY <1>1 DEF HeightInv, JournalCataloged
<1> QED
  BY <1>2, CursorMoves DEF PublicationInv

-----------------------------------------------------------------------------
(* Another worker than the drain cannot take the next height from it.      *)
LEMMA OthersLeave ==
  ASSUME PublicationInv, HeightInv, NEW w \in Workers \ {Drain}, WorkerAction(w),
         Torn => HoldsNothing(w)
  PROVE  /\ partition' = partition
         /\ Settled => Settled' /\ cursor' = cursor
         /\ Torn' => Torn /\ cursor' = cursor /\ HoldsNothing(w)'
<1>0. /\ cursor \in Int /\ CallTypeOK /\ [ProgressNext]_progressVars
      /\ HeightInv' /\ StaysBound /\ PublicationInv'
  BY TypeParts, JournalStep, WorkerKeepsHeights, WorkerKeepsInv
     DEF PublicationInv, JournalInv, ProgressTypeOK
<1>1. partition' = partition /\ (catalog' = catalog \/ (catalog' = partition /\ ~Torn))
  <2>1. ~PublishPartition(w)
    BY OnlyDrainBinds
  <2>2. CASE Torn
    BY <2>2, ArchiveIdle DEF HoldsNothing, archiveVars
  <2>3. CASE ~Torn
    BY <2>1, <2>3, WorkerArchives DEF archiveVars
  <2> QED
    BY <2>2, <2>3
<1>2. ASSUME Settled PROVE Settled' /\ cursor' = cursor
  <2>1. cursor' = cursor
    BY <1>0, <1>2, CursorStays
  <2> QED
    BY <1>1, <1>2, <2>1 DEF Settled, Torn
<1>3. ASSUME Torn' PROVE Torn /\ cursor' = cursor /\ HoldsNothing(w)'
  <2>1. catalog' = catalog /\ Torn
    BY <1>1, <1>3 DEF Torn
  <2>2. cursor' = cursor
    BY <1>0, <2>1, CursorStays
  <2>3. cursor + 1 \in Heights /\ catalog[cursor + 1] = NoPlan
    BY <2>1, TornIsNext DEF Torn
  <2>4. CASE pc'[w] \in {"caller", "recover"}
    BY <2>1, <2>2, <2>4 DEF HoldsNothing
  <2>5. CASE pc'[w] \notin {"caller", "recover"}
    <3>1. height'[w] = cursor + 1
      BY <2>1, <2>5, OwnHeight DEF HoldsNothing
    <3>2. pc'[w] \in Steps /\ BlockCataloged(w)' /\ w # Drain
      BY <1>0 DEF HeightInv, PublicationInv, CoordinatorTypeOK
    <3>3. pc'[w] \in {"recover_plan", "recover_block"}
      BY <2>1, <2>3, <2>5, <3>1, <3>2 DEF BlockCataloged, PlanSteps, Steps
    <3> QED
      BY <2>1, <2>2, <3>1, <3>3 DEF HoldsNothing
  <2> QED
    BY <2>4, <2>5
<1> QED
  BY <1>1, <1>2, <1>3

(* The call of w in process_block: it goes on with its block, or returns.  *)
LEMMA CommitCall ==
  ASSUME CallTypeOK, NEW w \in Workers, StepOf(w), pc[w] \in BlockSteps, ~recovering[w]
  PROVE  \/ /\ pc'[w] \in BlockSteps /\ ~recovering'[w]
            /\ height'[w] = height[w] /\ reply'[w] = reply[w]
         \/ pc'[w] = "caller" /\ reply'[w] \in {"retryable", "archive"}
         \/ pc'[w] = "caller" /\ reply'[w] = "committed" /\ Advance(w)
<1>1. CASE \E p \in BlockSteps : Goto(w, p)
  <2>1. UNCHANGED <<recovering, height, reply>>
    BY <1>1 DEF Goto, blockVars
  <2>2. pc'[w] \in BlockSteps
    BY <1>1 DEF Goto, CallTypeOK
  <2> QED
    BY <2>1, <2>2
<1>2. CASE LoadAcknowledgements(w) \/ RecordAck(w) \/ SkipAcknowledged(w)
  <2>1. UNCHANGED <<recovering, height, reply>>
    BY <1>2 DEF LoadAcknowledgements, RecordAck, SkipAcknowledged, blockVars
  <2>2. pc'[w] \in BlockSteps
    BY <1>2 DEF LoadAcknowledgements, RecordAck, SkipAcknowledged, CallTypeOK, BlockSteps
  <2> QED
    BY <2>1, <2>2
<1>3. CASE Return(w, "retryable") \/ Return(w, "archive")
  BY <1>3 DEF Return, CallTypeOK
<1>4. CASE Advance(w)
  <2>1. Return(w, "committed")
    BY <1>4 DEF Advance
  <2> QED
    BY <1>4, <2>1 DEF Return, CallTypeOK
<1>5. CASE AppendExisting(w) \/ PublishPartition(w) \/ PublishCatalog(w) \/ JournalBlock(w)
           \/ BatchComplete(w) \/ Publish(w)
  BY <1>1, <1>5 DEF AppendExisting, PublishPartition, PublishCatalog, JournalBlock,
       BatchComplete, Publish, BlockSteps
<1>6. CASE JournalConflicts(w) \/ AckConflicts(w) \/ AdvanceRefused(w) \/ LedgerRefuses(w)
           \/ CoordinatorFault(w)
  BY <1>3, <1>6 DEF JournalConflicts, AckConflicts, AdvanceRefused, LedgerRefuses, GiveUp,
       CoordinatorFault, ArchiveFails, ProgressFails, PublishFails,
       LoseJournalReply, LoseAckReply, LoseAdvanceReply, RecoverReadFails
<1>7. ~(RecoverNextExpected(w) \/ RecoverPastLastHeight(w) \/ RecoverLoadPlan(w)
        \/ RecoverJournaled(w) \/ RecoverMismatch(w) \/ RecoverArchived(w) \/ RecoverNothing(w))
  BY DEF BlockSteps, RecoverNextExpected, RecoverPastLastHeight, RecoverLoadPlan,
       RecoverJournaled, RecoverMismatch, RecoverArchived, RecoverNothing
<1> QED
  BY <1>2, <1>4, <1>5, <1>6, <1>7 DEF StepOf, CoordinatorStep

(* The call of w in recover_startup.                                       *)
LEMMA RecoveryCall ==
  ASSUME CallTypeOK, NEW w \in Workers, StepOf(w), pc[w] = "recover" \/ recovering[w]
  PROVE  \/ /\ pc'[w] # "caller" /\ (pc'[w] = "recover" \/ recovering'[w])
            /\ reply'[w] \in {"none", reply[w]}
         \/ pc'[w] = "caller" /\ reply'[w] \in {"retryable", "archive", "mismatch"}
         \/ /\ pc'[w] = "caller" /\ reply'[w] = "recovered"
            /\ Advance(w) \/ RecoverNothing(w) \/ RecoverPastLastHeight(w)
<1>1. CASE \E step \in Steps \ {"caller"} : \E h, p : Take(w, step, h, p, TRUE)
  <2>1. PICK step \in Steps \ {"caller"} : \E h, p : Take(w, step, h, p, TRUE)
    BY <1>1
  <2>2. recovering'[w]
    BY <2>1 DEF Take, CallTypeOK
  <2>3. pc'[w] # "caller" /\ reply'[w] = "none"
    BY <2>1 DEF Take, CallTypeOK
  <2> QED
    BY <2>2, <2>3
<1>2. CASE \E p \in Steps \ {"caller"} : Goto(w, p) /\ pc[w] # "recover"
  <2>1. UNCHANGED <<recovering, reply>> /\ pc[w] # "recover"
    BY <1>2 DEF Goto, blockVars
  <2>2. pc'[w] # "caller"
    BY <1>2 DEF Goto, CallTypeOK
  <2> QED
    BY <2>1, <2>2
<1>3. CASE LoadAcknowledgements(w) \/ RecordAck(w) \/ SkipAcknowledged(w)
  <2>1. UNCHANGED <<recovering, reply>> /\ pc[w] # "recover"
    BY <1>3 DEF LoadAcknowledgements, RecordAck, SkipAcknowledged, blockVars
  <2>2. pc'[w] # "caller"
    BY <1>3 DEF LoadAcknowledgements, RecordAck, SkipAcknowledged, CallTypeOK
  <2> QED
    BY <2>1, <2>2
<1>4. ASSUME NEW r \in {"retryable", "archive", "mismatch"}, Return(w, r)
      PROVE  pc'[w] = "caller" /\ reply'[w] \in {"retryable", "archive", "mismatch"}
  BY <1>4 DEF Return, CallTypeOK
<1>5. CASE Advance(w)
  <2>1. Return(w, "recovered") \/ Take(w, "recover", FirstHeight, NoPlan, FALSE)
    BY <1>5 DEF Advance
  <2>2. CASE Return(w, "recovered")
    BY <1>5, <2>2 DEF Return, CallTypeOK
  <2>3. CASE Take(w, "recover", FirstHeight, NoPlan, FALSE)
    BY <2>3 DEF Take, CallTypeOK
  <2> QED
    BY <2>1, <2>2, <2>3
<1>6. CASE RecoverNothing(w) \/ RecoverPastLastHeight(w)
  <2>1. Return(w, "recovered")
    BY <1>6 DEF RecoverNothing, RecoverPastLastHeight
  <2> QED
    BY <1>6, <2>1 DEF Return, CallTypeOK
<1>7. CASE AppendExisting(w) \/ PublishPartition(w) \/ PublishCatalog(w) \/ JournalBlock(w)
           \/ BatchComplete(w) \/ Publish(w) \/ RecoverJournaled(w)
  BY <1>2, <1>7 DEF AppendExisting, PublishPartition, PublishCatalog, JournalBlock,
       BatchComplete, Publish, Unpublished, RecoverJournaled, Steps
<1>8. CASE JournalConflicts(w) \/ AckConflicts(w) \/ AdvanceRefused(w) \/ LedgerRefuses(w)
           \/ CoordinatorFault(w) \/ RecoverMismatch(w)
  BY <1>4, <1>8 DEF JournalConflicts, AckConflicts, AdvanceRefused, LedgerRefuses, GiveUp,
       CoordinatorFault, ArchiveFails, ProgressFails, PublishFails,
       LoseJournalReply, LoseAckReply, LoseAdvanceReply, RecoverReadFails, RecoverMismatch
<1>9. CASE RecoverNextExpected(w) \/ RecoverLoadPlan(w) \/ RecoverArchived(w)
  BY <1>1, <1>9 DEF RecoverNextExpected, RecoverLoadPlan, RecoverArchived, Steps
<1> QED
  BY <1>3, <1>5, <1>6, <1>7, <1>8, <1>9 DEF StepOf, CoordinatorStep

(* When a call of the drain has done its work, the catalog is settled.     *)
LEMMA DoneIsSettled ==
  ASSUME PublicationInv, HeightInv,
         Advance(Drain) \/ RecoverNothing(Drain) \/ RecoverPastLastHeight(Drain)
  PROVE  Settled' /\ (Advance(Drain) => cursor' = height[Drain])
<1>0. Drain \in Workers /\ cursor \in Int /\ CursorInRange /\ CatalogFollows
  BY CoordinatorAssumption DEF PublicationInv, JournalInv, ProgressTypeOK, HeightInv
<1>1. pc[Drain] \notin {"caller", "recover"} =>
        \A h \in Heights : catalog[h] # NoPlan => h <= height[Drain]
  BY <1>0 DEF HeightInv, InHandIsLast, CatalogFollows
<1>2. catalog' = catalog
  BY DEF Advance, RecoverNothing, RecoverPastLastHeight, archiveVars
<1>3. CASE Advance(Drain)
  <2>1. pc[Drain] = "advance" /\ cursor' = height[Drain]
    BY <1>3 DEF Advance, Commit, Apply, AdvanceTx, AdvanceCursor, progressVars
  <2> QED
    BY <1>1, <1>2, <2>1 DEF Settled
<1>4. CASE RecoverNothing(Drain)
  <2>1. /\ pc[Drain] = "recover_block" /\ catalog[height[Drain]] = NoPlan /\ cursor' = cursor
    BY <1>4 DEF RecoverNothing, progressVars
  <2>2. height[Drain] \in Int /\ height[Drain] <= cursor + 1
    BY <1>0, HeightFacts
  <2>3. \A h \in Heights : catalog[h] # NoPlan => h <= cursor
    <3> SUFFICES ASSUME NEW h \in Heights, catalog[h] # NoPlan PROVE h <= cursor
      OBVIOUS
    <3>1. h \in Int /\ h <= height[Drain] /\ h # height[Drain]
      BY <1>1, <2>1, HeightsFacts
    <3> QED
      BY <1>0, <2>2, <3>1
  <2> QED
    BY <1>2, <2>1, <2>3 DEF Settled, RecoverNothing, Advance
<1>5. CASE RecoverPastLastHeight(Drain)
  <2>1. cursor + 1 \notin Heights /\ cursor' = cursor /\ pc[Drain] = "recover"
    BY <1>5 DEF RecoverPastLastHeight, progressVars, next_expected_height
  <2>2. \A h \in Heights : h <= cursor
    BY <1>0, <2>1, ProgressAssumption DEF CursorInRange, Heights
  <2> QED
    BY <1>2, <2>1, <2>2 DEF Settled, Advance
<1> QED
  BY <1>3, <1>4, <1>5

-----------------------------------------------------------------------------
(* LaneInv is kept: by steps in which the call of the drain does not move. *)

(* At most the phase changes, and only to the end of the process.          *)
LaneKept ==
  /\ UNCHANGED <<sourceVars, gapNotice, primary_gap, failover, active_role, expected>>
  /\ phase' \in {phase, "stopped"}
  /\ supervision' \in {"init", "recover", "done"}
  /\ faults' \in 0..MaxFaults

(* Between two blocks the drain is in no call and the catalog ends at the  *)
(* cursor.                                                                 *)
LEMMA BetweenBlocksFacts ==
  ASSUME LaneInv, BetweenBlocks
  PROVE  /\ phase # "stopped" /\ pc[Drain] = "caller" /\ reply[Drain] # "archive"
         /\ initialized /\ Settled
<1>1. phase # "stopped" /\ pc[Drain] = "caller" /\ reply[Drain] # "archive" /\ initialized
  BY DEF LaneInv, DrainCalls, BetweenBlocks
<1> QED
  BY <1>1 DEF LaneInv, DrainSettled

(* LaneInv survives a step that leaves the call of the drain alone.        *)
LEMMA DrainUndisturbed ==
  ASSUME PublicationInv, HeightInv, LaneInv, Keeps(Drain), [ProgressNext]_progressVars,
         LaneKept, BetweenBlocks => Settled', NobodyRepairs'
  PROVE  LaneInv'
<1>0. /\ initialized => initialized'
      /\ UNCHANGED <<written, durable, parked, lost, gapNotice, primary_gap, failover,
                     active_role, expected>>
      /\ phase' \in {phase, "stopped"}
  BY CursorMoves DEF LaneKept, sourceVars, PublicationInv
<1>1. RuntimeTypeOK'
  BY <1>0 DEF LaneInv, RuntimeTypeOK, LaneKept, Phases
<1>2. BetweenBlocks => cursor' = cursor
  BY BetweenBlocksFacts, CursorStays
<1>3. BetweenBlocks' => BetweenBlocks
  BY <1>0 DEF BetweenBlocks, Keeps
<1>4. DrainSettled'
  BY <1>3 DEF DrainSettled
<1>5. DrainPosition'
  BY <1>0, <1>2 DEF LaneInv, DrainPosition, BetweenBlocks
<1>6. phase' = "recover" => InRecovery'
  BY <1>0 DEF LaneInv, DrainCalls, InRecovery, Keeps
<1>7. phase' = "commit" => InCommit'
  <2> SUFFICES ASSUME phase' = "commit" PROVE InCommit'
    OBVIOUS
  <2>1. phase = "commit" /\ InCommit
    BY <1>0 DEF LaneInv, DrainCalls
  <2>2. reply[Drain] = "committed" => cursor' = cursor
    BY <1>2, <2>1 DEF BetweenBlocks
  <2> QED
    BY <1>0, <2>1, <2>2 DEF InCommit, Keeps
<1>8. DrainCalls'
  BY <1>0, <1>6, <1>7 DEF LaneInv, DrainCalls, Keeps
<1>9. Roles' /\ Gaps'
  BY <1>0 DEF LaneInv, Roles, Gaps, Keeps
<1> QED
  BY <1>1, <1>4, <1>5, <1>8, <1>9 DEF LaneInv

(* ... by the actions of the other workers ...                             *)
LEMMA OthersKeepLane ==
  ASSUME PublicationInv, HeightInv, LaneInv, NEW w \in Workers \ {Drain}, WorkerAction(w),
         LaneKept
  PROVE  LaneInv'
<1>0. CallTypeOK /\ Drain \in Workers
  BY TypeParts, CoordinatorAssumption DEF PublicationInv
<1>1. [ProgressNext]_progressVars /\ \A v \in Workers \ {w} : Keeps(v)
  BY <1>0, JournalStep, WorkerMoves, MovesKeep DEF PublicationInv
<1>2. Keeps(Drain)
  BY <1>0, <1>1
<1>3. CASE Torn /\ ~TornBefore
  <2>1. ~BetweenBlocks
    BY <1>3, BetweenBlocksFacts DEF TornBefore
  <2>2. NobodyRepairs'
    BY <1>2, <1>3 DEF NobodyRepairs, TornBefore, Keeps, LaneKept
  <2> QED
    BY <1>1, <1>2, <2>1, <2>2, DrainUndisturbed
<1>4. CASE ~Torn \/ TornBefore
  <2>1. Torn => HoldsNothing(w)
    BY <1>4 DEF LaneInv, NobodyRepairs
  <2>2. /\ Settled => Settled'
        /\ Torn' => Torn /\ cursor' = cursor /\ HoldsNothing(w)'
    BY <2>1, OthersLeave
  <2>3. BetweenBlocks => Settled'
    BY <2>2, BetweenBlocksFacts
  <2>4. NobodyRepairs'
    <3> SUFFICES ASSUME TornBefore', NEW v \in Workers \ {Drain} PROVE HoldsNothing(v)'
      BY DEF NobodyRepairs
    <3>1. Torn /\ cursor' = cursor /\ HoldsNothing(w)'
      BY <2>2 DEF TornBefore
    <3>2. HoldsNothing(v)
      BY <1>4, <3>1 DEF LaneInv, NobodyRepairs
    <3> QED
      BY <1>1, <3>1, <3>2 DEF HoldsNothing, Keeps
  <2> QED
    BY <1>1, <1>2, <2>3, <2>4, DrainUndisturbed
<1> QED
  BY <1>3, <1>4

(* ... and by what PostgreSQL and JetStream do late.                       *)
LEMMA LateKeepsLane ==
  ASSUME PublicationInv, HeightInv, LaneInv, SettleTransaction \/ LateArrival, LaneKept
  PROVE  LaneInv'
<1>1. /\ [ProgressNext]_progressVars /\ UNCHANGED <<partition, catalog>>
      /\ \A v \in Workers : Keeps(v)
  BY DEF SettleTransaction, LateArrival, ProgressNext, archiveVars, callVars, blockVars, Keeps
<1>2. Keeps(Drain)
  BY <1>1, CoordinatorAssumption
<1>3. BetweenBlocks => Settled'
  BY <1>1, BetweenBlocksFacts, CursorStays DEF Settled
<1>4. NobodyRepairs'
  <2> SUFFICES ASSUME TornBefore', NEW v \in Workers \ {Drain} PROVE HoldsNothing(v)'
    BY DEF NobodyRepairs
  <2>1. TornBefore
    BY <1>1, <1>2 DEF TornBefore, Torn, LaneKept, Keeps
  <2>2. cursor' = cursor /\ HoldsNothing(v)
    BY <1>1, <2>1, CursorStays DEF TornBefore, LaneInv, NobodyRepairs
  <2> QED
    BY <1>1, <2>2 DEF HoldsNothing, Keeps
<1> QED
  BY <1>1, <1>2, <1>3, <1>4, DrainUndisturbed

(* By the steps of the coordinator for the drain.                          *)
LEMMA DrainCallKeepsLane ==
  ASSUME PublicationInv, HeightInv, LaneInv, StepOf(Drain), LaneKept, phase' = phase
  PROVE  LaneInv'
<1>0. /\ CallTypeOK /\ Drain \in Workers /\ WorkerAction(Drain)
      /\ pc[Drain] # "caller" /\ reply[Drain] = "none" /\ phase \in {"recover", "commit", "stopped"}
  BY TypeParts, CoordinatorAssumption, StepInCall
     DEF PublicationInv, StepOf, WorkerAction, LaneInv, DrainCalls
<1>1. [ProgressNext]_progressVars /\ \A v \in Workers \ {Drain} : Keeps(v)
  BY <1>0, JournalStep, WorkerMoves, MovesKeep DEF PublicationInv
<1>2. /\ initialized => initialized'
      /\ UNCHANGED <<written, durable, parked, lost, gapNotice, primary_gap, failover,
                     active_role, expected, phase>>
  BY <1>1, CursorMoves DEF LaneKept, sourceVars, PublicationInv
<1>3. RuntimeTypeOK'
  BY <1>2 DEF LaneInv, RuntimeTypeOK, LaneKept
<1>4. DrainPosition' /\ Roles' /\ Gaps'
  BY <1>0, <1>2 DEF LaneInv, DrainPosition, Roles, Gaps
<1>5. NobodyRepairs'
  <2> SUFFICES ASSUME TornBefore', NEW v \in Workers \ {Drain} PROVE HoldsNothing(v)'
    BY DEF NobodyRepairs
  <2>1. ~PublishPartition(Drain)
    BY <1>0, GotoValues DEF PublishPartition, TornBefore
  <2>2. UNCHANGED archiveVars
    BY <1>0, <2>1, WorkerArchives DEF TornBefore, Torn
  <2>3. Torn /\ cursor' = cursor
    BY <1>1, <2>2, CursorStays DEF TornBefore, Torn, archiveVars
  <2>4. pc[Drain] # "catalog"
    <3>1. ~ArchiveFails(Drain)
      BY <1>0 DEF ArchiveFails, Return, CallTypeOK, TornBefore
    <3>2. ~PublishCatalog(Drain)
      BY <2>2, <2>3 DEF PublishCatalog, Torn, archiveVars
    <3> QED
      BY <1>0, <3>1, <3>2, CatalogNext
  <2>5. HoldsNothing(v)
    BY <1>0, <1>2, <2>3, <2>4 DEF LaneInv, NobodyRepairs, TornBefore
  <2> QED
    BY <1>1, <2>3, <2>5 DEF HoldsNothing, Keeps
<1>6. CASE phase = "stopped"
  <2>1. pc'[Drain] # "caller" => reply'[Drain] = "none"
    <3>1. Moves(Drain)
      BY <1>0, WorkerMoves DEF PublicationInv
    <3> QED
      BY <1>0, <3>1 DEF Moves, Goto, Return, Take, callVars, CallTypeOK
  <2>2. DrainCalls' /\ DrainSettled'
    BY <1>2, <1>6, <2>1 DEF DrainCalls, DrainSettled, BetweenBlocks
  <2> QED
    BY <1>3, <1>4, <1>5, <2>2 DEF LaneInv
<1>7. CASE phase = "recover"
  <2>1. pc[Drain] = "recover" \/ recovering[Drain]
    BY <1>0, <1>7 DEF LaneInv, DrainCalls, InRecovery
  <2>2. CASE /\ pc'[Drain] # "caller" /\ (pc'[Drain] = "recover" \/ recovering'[Drain])
             /\ reply'[Drain] \in {"none", reply[Drain]}
    <3>1. DrainCalls' /\ DrainSettled'
      BY <1>0, <1>2, <1>7, <2>2
         DEF LaneInv, DrainCalls, InRecovery, DrainSettled, BetweenBlocks
    <3> QED
      BY <1>3, <1>4, <1>5, <3>1 DEF LaneInv
  <2>3. CASE pc'[Drain] = "caller" /\ reply'[Drain] \in {"retryable", "archive", "mismatch"}
    <3>1. DrainCalls' /\ DrainSettled'
      BY <1>2, <1>7, <2>3 DEF LaneInv, DrainCalls, InRecovery, DrainSettled, BetweenBlocks
    <3> QED
      BY <1>3, <1>4, <1>5, <3>1 DEF LaneInv
  <2>4. CASE /\ pc'[Drain] = "caller" /\ reply'[Drain] = "recovered"
             /\ Advance(Drain) \/ RecoverNothing(Drain) \/ RecoverPastLastHeight(Drain)
    <3>1. DrainCalls'
      BY <1>2, <1>7, <2>4 DEF LaneInv, DrainCalls, InRecovery
    <3>2. DrainSettled'
      BY <2>4, DoneIsSettled DEF DrainSettled
    <3> QED
      BY <1>3, <1>4, <1>5, <3>1, <3>2 DEF LaneInv
  <2> QED
    BY <1>0, <2>1, <2>2, <2>3, <2>4, RecoveryCall
<1>8. CASE phase = "commit"
  <2>1. pc[Drain] \in BlockSteps /\ ~recovering[Drain] /\ height[Drain] = expected
    BY <1>0, <1>8 DEF LaneInv, DrainCalls, InCommit
  <2>2. CASE /\ pc'[Drain] \in BlockSteps /\ ~recovering'[Drain]
             /\ height'[Drain] = height[Drain] /\ reply'[Drain] = reply[Drain]
    <3>1. pc'[Drain] # "caller"
      BY <2>2 DEF BlockSteps
    <3>2. DrainCalls' /\ DrainSettled'
      BY <1>0, <1>2, <1>8, <2>1, <2>2, <3>1
         DEF LaneInv, DrainCalls, InCommit, DrainSettled, BetweenBlocks
    <3> QED
      BY <1>3, <1>4, <1>5, <3>2 DEF LaneInv
  <2>3. CASE pc'[Drain] = "caller" /\ reply'[Drain] \in {"retryable", "archive"}
    <3>1. DrainCalls' /\ DrainSettled'
      BY <1>2, <1>8, <2>3 DEF LaneInv, DrainCalls, InCommit, DrainSettled, BetweenBlocks
    <3> QED
      BY <1>3, <1>4, <1>5, <3>1 DEF LaneInv
  <2>4. CASE pc'[Drain] = "caller" /\ reply'[Drain] = "committed" /\ Advance(Drain)
    <3>1. Settled' /\ cursor' = height[Drain]
      BY <2>4, DoneIsSettled
    <3>2. DrainCalls' /\ DrainSettled'
      BY <1>2, <1>8, <2>1, <2>4, <3>1 DEF LaneInv, DrainCalls, InCommit, DrainSettled
    <3> QED
      BY <1>3, <1>4, <1>5, <3>2 DEF LaneInv
  <2> QED
    BY <1>0, <2>1, <2>2, <2>3, <2>4, CommitCall
<1> QED
  BY <1>0, <1>6, <1>7, <1>8

-----------------------------------------------------------------------------
(* By the steps the drain takes between two blocks.                        *)

DrainMove ==
  \/ DrainOpen \/ DrainLatches \/ DrainCaughtUp \/ FailoverCheck \/ FailoverRecord
  \/ FailoverUnavailable \/ FailoverSwitch \/ FailoverFatal \/ DrainWaits \/ Poll \/ ReceiveGap

(* The heights of the spools and the two sources.                          *)
LEMMA SpoolFacts ==
  /\ NoHeight \in SpoolHeights /\ FirstHeight \in SpoolHeights
  /\ SpoolHeights \subseteq Int /\ Heights \subseteq SpoolHeights
  /\ Primary \in Plans /\ Independent \in Plans /\ Primary # Independent
  /\ Plans = {Primary, Independent}
  BY ProgressAssumption, DrainAssumption DEF NoHeight, SpoolHeights, Heights

(* A step that is none of the coordinator's, variable by variable.         *)
LEMMA CoordinatorIdle ==
  ASSUME UNCHANGED coordinatorVars
  PROVE  UNCHANGED <<initialized, journal, acked, blockState, cursor, version, pendingTx,
                     partition, catalog, stream, wire, ledger, pc, reply, recovering, height,
                     evidence, known, ordinal>>
  BY DEF coordinatorVars, progressVars, archiveVars, busVars, callVars, blockVars

(* LaneInv is kept by the moves between two blocks: the coordinator stands *)
(* still.                                                                  *)
LEMMA DrainMoveKeepsLane ==
  ASSUME PublicationInv, LaneInv, DrainMove
  PROVE  LaneInv'
<1>0. /\ phase \in {"open", "read", "caught_up", "probe", "switch", "wait"}
      /\ BetweenBlocks
  BY DEF DrainMove, DrainOpen, DrainLatches, DrainCaughtUp, FailoverCheck, FailoverRecord,
       FailoverUnavailable, FailoverSwitch, FailoverFatal, FailoverDue, DrainWaits, Poll,
       ReceiveGap, BetweenBlocks
<1>1. /\ UNCHANGED coordinatorVars /\ UNCHANGED sourceVars /\ UNCHANGED <<supervision, faults>>
      /\ phase' \in {"read", "latched", "caught_up", "probe", "switch", "wait", "init", "stopped"}
  BY DEF DrainMove, DrainOpen, DrainLatches, DrainCaughtUp, FailoverCheck, FailoverRecord,
       FailoverUnavailable, FailoverSwitch, FailoverFatal, DrainWaits, Poll, ReceiveGap, Phase
<1>2. UNCHANGED <<initialized, cursor, partition, catalog, pc, reply, recovering, height>>
  BY <1>1, CoordinatorIdle
<1>3. /\ pc[Drain] = "caller" /\ reply[Drain] = "none" /\ initialized /\ Settled
  BY <1>0, BetweenBlocksFacts DEF LaneInv, DrainCalls
<1>4. UNCHANGED <<written, durable, parked, lost>>
  BY <1>1 DEF sourceVars
<1>5. cursor \in Int /\ cursor + 1 \in SpoolHeights \union {LastHeight + 1}
  BY ProgressAssumption DEF PublicationInv, JournalInv, ProgressTypeOK, CursorInRange, SpoolHeights
<1>6. RuntimeTypeOK'
  BY <1>1, <1>4, <1>5, SpoolFacts
     DEF LaneInv, RuntimeTypeOK, DrainMove, DrainOpen, DrainLatches, DrainCaughtUp,
         FailoverCheck, FailoverRecord, FailoverUnavailable, FailoverSwitch, FailoverFatal,
         DrainWaits, Poll, ReceiveGap, Phase, Phases, next_expected_height
<1>7. DrainCalls' /\ DrainSettled'
  BY <1>1, <1>2, <1>3 DEF DrainCalls, DrainSettled, Settled
<1>8. DrainPosition'
  BY <1>2
     DEF LaneInv, DrainPosition, DrainMove, DrainOpen, DrainLatches, DrainCaughtUp,
         FailoverCheck, FailoverRecord, FailoverUnavailable, FailoverSwitch, FailoverFatal,
         FailoverDue, DrainWaits, Poll, ReceiveGap, Phase, next_expected_height
<1>9. NobodyRepairs'
  BY <1>0, <1>2, <1>3 DEF LaneInv, NobodyRepairs, TornBefore, Torn, HoldsNothing
<1>10. Roles'
  BY <1>2, <1>3, SpoolFacts
     DEF LaneInv, Roles, DrainPosition, DrainMove, DrainOpen, DrainLatches, DrainCaughtUp,
         FailoverCheck, FailoverRecord, FailoverUnavailable, FailoverSwitch, FailoverFatal,
         FailoverDue, DrainWaits, Poll, ReceiveGap, Phase
<1>11. Gaps'
  BY <1>4
     DEF LaneInv, Gaps, DrainMove, DrainOpen, DrainLatches, DrainCaughtUp,
         FailoverCheck, FailoverRecord, FailoverUnavailable, FailoverSwitch, FailoverFatal,
         DrainWaits, Poll, ReceiveGap, Phase
<1> QED
  BY <1>6, <1>7, <1>8, <1>9, <1>10, <1>11 DEF LaneInv

(* By the calls of the drain and the answers to them.                      *)
LEMMA OtherCallsKept ==
  ASSUME CallTypeOK, NEW step \in Steps, NEW h \in Heights, NEW p \in Plans \union {NoPlan},
         Take(Drain, step, h, p, FALSE)
  PROVE  /\ \A v \in Workers \ {Drain} : Keeps(v)
         /\ pc'[Drain] = step /\ height'[Drain] = h /\ reply'[Drain] = "none"
         /\ ~recovering'[Drain] /\ evidence'[Drain] = p
<1>1. Drain \in Workers
  BY CoordinatorAssumption
<1>2. Moves(Drain)
  BY DEF Moves
<1>3. ~recovering'[Drain]
  BY <1>1 DEF Take, CallTypeOK
<1>4. pc'[Drain] = step /\ height'[Drain] = h /\ reply'[Drain] = "none" /\ evidence'[Drain] = p
  BY <1>1 DEF Take, CallTypeOK
<1> QED
  BY <1>1, <1>2, <1>3, <1>4, MovesKeep

(* LaneInv is kept when the drain starts its recovery ...                  *)
LEMMA DrainRecoverKeepsLane ==
  ASSUME PublicationInv, LaneInv, DrainRecover
  PROVE  LaneInv'
<1>1. /\ phase = "init" /\ phase' = "recover" /\ initialized
      /\ UNCHANGED <<progressVars, archiveVars>>
      /\ Take(Drain, "recover", FirstHeight, NoPlan, FALSE)
      /\ UNCHANGED <<sourceVars, gapNotice, primary_gap, failover, active_role, expected,
                     supervision, faults>>
  BY DEF DrainRecover, CallRecover, Phase
<1>2. UNCHANGED <<initialized, cursor, partition, catalog, written, durable, parked, lost>>
  BY <1>1 DEF progressVars, archiveVars, sourceVars
<1>3. /\ \A v \in Workers \ {Drain} : Keeps(v)
      /\ pc'[Drain] = "recover" /\ reply'[Drain] = "none"
  BY <1>1, OtherCallsKept, HeightsFacts, TypeParts DEF PublicationInv, Steps
<1>4. pc[Drain] = "caller" /\ reply[Drain] = "none"
  BY <1>1 DEF LaneInv, DrainCalls
<1>5. RuntimeTypeOK' /\ DrainPosition' /\ Gaps'
  BY <1>1, <1>2 DEF LaneInv, RuntimeTypeOK, DrainPosition, Gaps, Phases
<1>6. DrainCalls' /\ DrainSettled'
  BY <1>1, <1>2, <1>3 DEF DrainCalls, InRecovery, DrainSettled, BetweenBlocks
<1>7. NobodyRepairs'
  BY <1>1, <1>2, <1>3, <1>4 DEF LaneInv, NobodyRepairs, TornBefore, Torn, HoldsNothing, Keeps
<1>8. Roles'
  BY <1>1 DEF LaneInv, Roles
<1> QED
  BY <1>5, <1>6, <1>7, <1>8 DEF LaneInv

(* The block the drain reads is the one the journal expects.               *)
LEMMA ObservationIsOffer ==
  ASSUME PublicationInv, LaneInv, DrainObservation
  PROVE  expected \in Heights /\ active_role \in Plans /\ CallProcess(expected, active_role)
<1>1. phase = "read" /\ expected <= written[active_role]
  BY DEF DrainObservation
<1>2. pc[Drain] = "caller" /\ initialized /\ expected = cursor + 1
  BY <1>1 DEF LaneInv, DrainCalls, DrainPosition
<1>3. active_role \in Plans /\ written[active_role] \in SpoolHeights
  BY DEF LaneInv, RuntimeTypeOK
<1>4. expected \in Heights
  BY <1>1, <1>2, <1>3, ProgressAssumption
     DEF PublicationInv, JournalInv, CursorInRange, SpoolHeights, Heights
<1> QED
  BY <1>2, <1>3, <1>4 DEF DrainObservation, CallProcess, next_expected_height

(* ... when it offers the record it has read ...                           *)
LEMMA ObservationKeepsLane ==
  ASSUME PublicationInv, LaneInv, DrainObservation
  PROVE  LaneInv'
<1>1. /\ phase = "read" /\ phase' = "commit" /\ initialized
      /\ UNCHANGED <<progressVars, archiveVars>>
      /\ Take(Drain, "append", expected, active_role, FALSE)
      /\ UNCHANGED <<sourceVars, gapNotice, primary_gap, failover, active_role, expected,
                     supervision, faults>>
  BY ObservationIsOffer DEF DrainObservation, CallProcess, Phase
<1>2. UNCHANGED <<initialized, cursor, partition, catalog, written, durable, parked, lost>>
  BY <1>1 DEF progressVars, archiveVars, sourceVars
<1>3. /\ \A v \in Workers \ {Drain} : Keeps(v)
      /\ pc'[Drain] = "append" /\ reply'[Drain] = "none" /\ height'[Drain] = expected
      /\ ~recovering'[Drain]
  BY <1>1, ObservationIsOffer, OtherCallsKept, TypeParts DEF PublicationInv, Steps
<1>4. pc[Drain] = "caller" /\ reply[Drain] = "none"
  BY <1>1 DEF LaneInv, DrainCalls
<1>5. RuntimeTypeOK' /\ DrainPosition' /\ Gaps'
  BY <1>1, <1>2 DEF LaneInv, RuntimeTypeOK, DrainPosition, Gaps, Phases
<1>6. DrainCalls' /\ DrainSettled'
  BY <1>1, <1>2, <1>3 DEF DrainCalls, InCommit, BlockSteps, DrainSettled, BetweenBlocks
<1>7. NobodyRepairs'
  BY <1>1, <1>2, <1>3, <1>4 DEF LaneInv, NobodyRepairs, TornBefore, Torn, HoldsNothing, Keeps
<1>8. Roles'
  BY <1>1 DEF LaneInv, Roles
<1> QED
  BY <1>5, <1>6, <1>7, <1>8 DEF LaneInv

(* ... and when it takes the answer.                                       *)
LEMMA ReplyKeepsLane ==
  ASSUME PublicationInv, LaneInv, DrainReply
  PROVE  LaneInv'
<1>0. CallTypeOK /\ Drain \in Workers /\ cursor \in Int /\ CursorInRange
  BY TypeParts, CoordinatorAssumption DEF PublicationInv, JournalInv, ProgressTypeOK
<1>1. /\ phase \in {"recover", "commit"} /\ pc[Drain] = "caller" /\ initialized
      /\ Return(Drain, "none") /\ UNCHANGED <<progressVars, archiveVars>>
      /\ UNCHANGED <<sourceVars, gapNotice, primary_gap, failover, active_role,
                     supervision, faults>>
  BY DEF DrainReply, TakeReply, Phase, LaneInv, DrainCalls
<1>2. UNCHANGED <<initialized, cursor, partition, catalog, written, durable, parked, lost>>
  BY <1>1 DEF progressVars, archiveVars, sourceVars
<1>3. /\ \A v \in Workers \ {Drain} : Keeps(v)
      /\ pc'[Drain] = "caller" /\ reply'[Drain] = "none"
  <2>1. Moves(Drain)
    BY <1>1 DEF Moves, Replies
  <2>2. pc'[Drain] = "caller" /\ reply'[Drain] = "none"
    BY <1>0, <1>1 DEF Return, CallTypeOK
  <2> QED
    BY <1>0, <2>1, <2>2, MovesKeep
<1>4. phase = "recover" => reply[Drain] # "committed"
  BY <1>1 DEF LaneInv, DrainCalls, InRecovery
<1>5. phase = "commit" => reply[Drain] # "recovered" /\ (reply[Drain] = "committed" => expected = cursor)
  BY <1>1 DEF LaneInv, DrainCalls, InCommit, BlockSteps
<1>6. \/ reply[Drain] = "recovered" /\ phase' = "open" /\ expected' = expected
      \/ /\ reply[Drain] = "committed" /\ phase' = "read"
         /\ expected = cursor /\ expected' = cursor + 1
      \/ reply[Drain] = "retryable" /\ phase' = "init" /\ expected' = expected
      \/ phase' = "stopped" /\ expected' = expected
  BY <1>1, <1>4, <1>5 DEF DrainReply, Phase
<1>7. cursor + 1 \in SpoolHeights \union {LastHeight + 1}
  BY <1>0, ProgressAssumption DEF CursorInRange, SpoolHeights
<1>8. RuntimeTypeOK'
  BY <1>1, <1>2, <1>6, <1>7 DEF LaneInv, RuntimeTypeOK, Phases
<1>9. DrainCalls' /\ DrainPosition'
  BY <1>1, <1>2, <1>3, <1>6 DEF DrainCalls, DrainPosition
<1>10. DrainSettled'
  BY <1>1, <1>2, <1>3, <1>6 DEF LaneInv, DrainSettled, BetweenBlocks, Settled
<1>11. NobodyRepairs'
  <2> SUFFICES ASSUME TornBefore', NEW v \in Workers \ {Drain} PROVE HoldsNothing(v)'
    BY DEF NobodyRepairs
  <2>1. TornBefore
    BY <1>1, <1>2, <1>6 DEF TornBefore, Torn
  <2> QED
    BY <1>2, <1>3, <2>1 DEF LaneInv, NobodyRepairs, HoldsNothing, Keeps
<1>12. Roles' /\ Gaps'
  BY <1>1, <1>2, <1>3, <1>6 DEF LaneInv, Roles, Gaps
<1> QED
  BY <1>8, <1>9, <1>10, <1>11, <1>12 DEF LaneInv

-----------------------------------------------------------------------------
(* By the sources ...                                                      *)
LEMMA SourceKeepsLane ==
  ASSUME LaneInv, NEW s \in Plans, SpoolWrite(s) \/ SpoolSync(s) \/ VisibleGap(s)
  PROVE  LaneInv'
<1>0. /\ RuntimeTypeOK /\ Gaps /\ durable[s] \in Int /\ written[s] \in Int
      /\ written[Primary] \in SpoolHeights /\ durable[s] \in SpoolHeights
  BY SpoolFacts DEF LaneInv, RuntimeTypeOK
<1>1. /\ UNCHANGED coordinatorVars
      /\ UNCHANGED <<lost, primary_gap, failover, active_role, expected, phase, supervision, faults>>
  BY DEF SpoolWrite, SpoolSync, VisibleGap, drainVars
<1>2. UNCHANGED <<initialized, cursor, partition, catalog, pc, reply, recovering, height>>
  BY <1>1, CoordinatorIdle
<1>3. DrainCalls' /\ DrainPosition' /\ DrainSettled' /\ NobodyRepairs' /\ Roles'
  <2>1. DrainCalls'
    BY <1>1, <1>2 DEF LaneInv, DrainCalls, InRecovery, InCommit
  <2>2. DrainPosition' /\ DrainSettled' /\ NobodyRepairs' /\ Roles'
    BY <1>1, <1>2 DEF LaneInv, DrainPosition, DrainSettled, BetweenBlocks, Settled,
         NobodyRepairs, TornBefore, Torn, HoldsNothing, Roles
  <2> QED
    BY <2>1, <2>2
<1>4. CASE SpoolWrite(s)
  <2>1. /\ written' = [written EXCEPT ![s] = @ + 1] /\ UNCHANGED <<durable, parked, gapNotice>>
        /\ written[s] = durable[s] /\ durable[s] + 1 \in Heights
    BY <1>4 DEF SpoolWrite, Acquiring, Visible, drainVars
  <2>2. ~parked[s]
    BY <1>4 DEF SpoolWrite, Acquiring
  <2>3. RuntimeTypeOK'
    BY <1>0, <1>1, <2>1, SpoolFacts DEF RuntimeTypeOK
  <2>4. Gaps'
    <3>1. CASE s = Primary
      <4>1. ~parked[Primary] /\ parked' = parked
        BY <2>1, <2>2, <3>1
      <4>2. gapNotice' = NoHeight /\ primary_gap' = NoHeight
        BY <1>0, <1>1, <2>1, <4>1 DEF Gaps
      <4> QED
        BY <4>1, <4>2 DEF Gaps
    <3>2. CASE s # Primary
      <4>1. written'[Primary] = written[Primary]
        BY <1>0, <2>1, <3>2, SpoolFacts DEF RuntimeTypeOK
      <4> QED
        BY <1>0, <1>1, <2>1, <4>1 DEF Gaps
    <3> QED
      BY <3>1, <3>2
  <2> QED
    BY <1>3, <2>3, <2>4 DEF LaneInv
<1>5. CASE SpoolSync(s)
  <2>1. /\ durable' = [durable EXCEPT ![s] = written[s]]
        /\ UNCHANGED <<written, parked, gapNotice>>
    BY <1>5 DEF SpoolSync, drainVars
  <2>2. RuntimeTypeOK'
    BY <1>0, <1>1, <2>1 DEF RuntimeTypeOK
  <2>3. Gaps'
    BY <1>0, <1>1, <2>1, SpoolFacts DEF Gaps, RuntimeTypeOK
  <2> QED
    BY <1>3, <2>2, <2>3 DEF LaneInv
<1>6. CASE VisibleGap(s)
  <2>1. /\ UNCHANGED <<written, durable>> /\ written[s] = durable[s]
        /\ gapNotice' = IF s = Primary THEN durable[s] + 1 ELSE gapNotice
    BY <1>6 DEF VisibleGap, Acquiring
  <2>2. parked' = [parked EXCEPT ![s] = TRUE] /\ parked \in [Plans -> BOOLEAN]
    BY <1>0, <1>6 DEF VisibleGap, RuntimeTypeOK
  <2>3. durable[s] + 1 \in SpoolHeights
    <3>1. PICK delta \in 1..GapProbeHeights : durable[s] + 1 + delta \in Heights
      BY <1>6 DEF VisibleGap, Visible
    <3>2. delta \in Nat /\ delta >= 1
      BY <3>1, DrainAssumption
    <3> QED
      BY <1>0, <3>1, <3>2, ProgressAssumption DEF Heights, SpoolHeights
  <2>4. parked' \in [Plans -> BOOLEAN]
    BY <2>2
  <2>5. RuntimeTypeOK'
    BY <1>0, <1>1, <2>1, <2>3, <2>4 DEF RuntimeTypeOK
  <2>6. parked'[Primary] <=> (s = Primary \/ parked[Primary])
    BY <2>2, SpoolFacts
  <2>7. Gaps'
    BY <1>0, <1>1, <2>1, <2>6 DEF Gaps
  <2> QED
    BY <1>3, <2>5, <2>7 DEF LaneInv
<1> QED
  BY <1>4, <1>5, <1>6

(* ... and by the end of the process, whatever it leaves of the spools.    *)
LEMMA RestartKeepsLane ==
  ASSUME PublicationInv, LaneInv, Restart \/ Crash \/ HostCrash
  PROVE  LaneInv'
<1>0. RuntimeTypeOK /\ Drain \in Workers
  BY CoordinatorAssumption DEF LaneInv
<1>1. /\ CoordinatorCrash
      /\ gapNotice' = NoHeight /\ primary_gap' = NoHeight
      /\ active_role' = IF failover # NoHeight THEN Independent ELSE Primary
      /\ expected' = FirstHeight /\ phase' = "init" /\ supervision' = "init"
      /\ failover' = failover
  BY DEF Restart, Crash, HostCrash, Restarted
<1>2. parked' = [s \in Plans |-> FALSE]
  BY DEF Restart, Crash, HostCrash, Restarted
<1>3. /\ written' \in {written, durable} /\ durable' \in {written, durable}
      /\ lost' \subseteq Heights /\ faults' \in 0..MaxFaults
  BY <1>0, DrainAssumption DEF Restart, Crash, HostCrash, Fault, RuntimeTypeOK
<1>4. parked' \in [Plans -> BOOLEAN] /\ ~parked'[Primary]
  BY <1>2, SpoolFacts
<1>5. RuntimeTypeOK'
  BY <1>0, <1>1, <1>3, <1>4, SpoolFacts DEF RuntimeTypeOK, Phases
<1>6. \A v \in Workers : pc'[v] = "caller" /\ reply'[v] = "none"
  BY <1>1 DEF CoordinatorCrash
<1>7. DrainCalls' /\ DrainPosition' /\ DrainSettled' /\ NobodyRepairs'
  BY <1>0, <1>1, <1>6
     DEF DrainCalls, DrainPosition, DrainSettled, BetweenBlocks, NobodyRepairs, HoldsNothing
<1>8. Roles' /\ Gaps'
  BY <1>1, <1>4, SpoolFacts DEF Roles, Gaps
<1> QED
  BY <1>5, <1>7, <1>8 DEF LaneInv

-----------------------------------------------------------------------------
(* The lane as a whole.                                                    *)

(* What a step of the lane is to the coordinator.                          *)
LEMMA StepIsCall ==
  ASSUME PublicationInv, LaneInv, [DrainNext]_vars
  PROVE  \/ /\ UNCHANGED coordinatorVars
            /\ DrainMove \/ UNCHANGED vars
               \/ \E s \in Plans : SpoolWrite(s) \/ SpoolSync(s) \/ VisibleGap(s)
         \/ DrainInitialize \/ DrainRecover \/ DrainObservation \/ DrainReply
         \/ \E w \in Workers : StepOf(w) /\ LaneKept /\ phase' = phase
         \/ WorkerAction(Supervisor) /\ LaneKept
         \/ (SettleTransaction \/ LateArrival) /\ LaneKept
         \/ Restart \/ Crash \/ HostCrash
<1>0. RuntimeTypeOK
  BY DEF LaneInv
<1>1. ASSUME UNCHANGED <<drainRuntimeVars, faults>> PROVE LaneKept /\ phase' = phase
  BY <1>0, <1>1 DEF drainRuntimeVars, sourceVars, drainVars, LaneKept, RuntimeTypeOK
<1>2. ASSUME NEW s \in Plans, SpoolWrite(s) \/ SpoolSync(s) \/ VisibleGap(s)
      PROVE  UNCHANGED coordinatorVars
  BY <1>2 DEF SpoolWrite, SpoolSync, VisibleGap
<1>3. ASSUME DrainMove PROVE UNCHANGED coordinatorVars
  BY <1>3 DEF DrainMove, DrainOpen, DrainLatches, DrainCaughtUp, FailoverCheck, FailoverRecord,
       FailoverUnavailable, FailoverSwitch, FailoverFatal, DrainWaits, Poll, ReceiveGap
<1>4. ASSUME NEW w \in Workers, WorkerStep(w) PROVE StepOf(w) /\ LaneKept /\ phase' = phase
  BY <1>1, <1>4 DEF WorkerStep, StepOf
<1>5. ASSUME NEW w \in Workers, ServiceFails(w) PROVE StepOf(w) /\ LaneKept /\ phase' = phase
  <2>1. faults' \in 0..MaxFaults /\ UNCHANGED drainRuntimeVars /\ StepOf(w)
    BY <1>0, <1>5, DrainAssumption DEF ServiceFails, Fault, RuntimeTypeOK, StepOf
  <2> QED
    BY <1>0, <2>1 DEF drainRuntimeVars, sourceVars, drainVars, LaneKept, RuntimeTypeOK
<1>6. ASSUME SupervisorInitialize \/ SupervisorRecover \/ SupervisorReply
      PROVE  WorkerAction(Supervisor) /\ LaneKept
  <2>1. CASE SupervisorInitialize
    BY <1>1, <2>1 DEF SupervisorInitialize, WorkerAction
  <2>2. CASE SupervisorRecover
    BY <1>0, <2>2 DEF SupervisorRecover, WorkerAction, LaneKept, drainVars, RuntimeTypeOK
  <2>3. CASE SupervisorReply
    BY <1>0, <2>3 DEF SupervisorReply, WorkerAction, LaneKept, drainVars, Phase, RuntimeTypeOK
  <2> QED
    BY <1>6, <2>1, <2>2, <2>3
<1>7. ASSUME Settle \/ Arrive PROVE (SettleTransaction \/ LateArrival) /\ LaneKept
  BY <1>1, <1>7 DEF Settle, Arrive
<1>8. UNCHANGED vars => UNCHANGED coordinatorVars
  BY DEF vars
<1>9. Drain \in Workers /\ Supervisor \in Workers
  BY DrainAssumption
<1> QED
  BY <1>2, <1>3, <1>4, <1>5, <1>6, <1>7, <1>8, <1>9
     DEF DrainNext, DrainStep, SupervisorStep, DrainMove

(* Offers apart, the steps of the lane are steps the coordinator takes or  *)
(* expects of any caller.                                                  *)
LEMMA StepIsActivity ==
  ASSUME PublicationInv, LaneInv, [DrainNext]_vars, ~DrainObservation
  PROVE  [CoordinatorActivity]_coordinatorVars
<1>1. Drain \in Workers /\ Supervisor \in Workers
  BY DrainAssumption
<1>2. CASE DrainInitialize \/ DrainRecover \/ DrainReply
  BY <1>1, <1>2 DEF DrainInitialize, DrainRecover, DrainReply, CoordinatorActivity
<1>3. CASE Restart \/ Crash \/ HostCrash
  BY <1>3 DEF Restart, Crash, HostCrash, Restarted, CoordinatorActivity
<1>4. CASE \E w \in Workers : StepOf(w)
  BY <1>4 DEF StepOf, CoordinatorActivity
<1>5. CASE WorkerAction(Supervisor) \/ SettleTransaction \/ LateArrival
  BY <1>1, <1>5 DEF WorkerAction, CoordinatorActivity
<1> QED
  BY <1>2, <1>3, <1>4, <1>5, StepIsCall

(* Every step of the lane is a step of the coordinator under a caller that *)
(* offers the next height.                                                 *)
LEMMA StepKeepsToHeights ==
  ASSUME PublicationInv, LaneInv, [DrainNext]_vars
  PROVE  [AnyEvidenceNext]_coordinatorVars
<1>1. CASE DrainObservation
  BY <1>1, ObservationIsOffer DEF AnyEvidenceNext
<1>2. CASE ~DrainObservation
  BY <1>2, StepIsActivity DEF AnyEvidenceNext
<1> QED
  BY <1>1, <1>2

(* The invariant of the lane is inductive.                                 *)
LEMMA LaneInvStep ==
  ASSUME PublicationInv, HeightInv, LaneInv, [DrainNext]_vars
  PROVE  LaneInv'
<1>0. Drain \in Workers /\ Supervisor \in Workers \ {Drain}
  BY DrainAssumption
<1>1. CASE UNCHANGED vars
  <2>1. /\ UNCHANGED <<written, durable, parked, lost, gapNotice, primary_gap, failover,
                       active_role, expected, phase, supervision, faults>>
        /\ UNCHANGED <<initialized, cursor, partition, catalog, pc, reply, recovering, height>>
    BY <1>1, CoordinatorIdle DEF vars, drainRuntimeVars, sourceVars, drainVars
  <2>2. DrainCalls'
    BY <2>1 DEF LaneInv, DrainCalls, InRecovery, InCommit
  <2>3. RuntimeTypeOK' /\ Gaps'
    BY <2>1 DEF LaneInv, RuntimeTypeOK, Gaps
  <2>4. DrainPosition' /\ DrainSettled' /\ NobodyRepairs' /\ Roles'
    BY <2>1 DEF LaneInv, DrainPosition, DrainSettled, BetweenBlocks, Settled,
         NobodyRepairs, TornBefore, Torn, HoldsNothing, Roles
  <2> QED
    BY <2>2, <2>3, <2>4 DEF LaneInv
<1>2. CASE DrainMove
  BY <1>2, DrainMoveKeepsLane
<1>3. CASE \E s \in Plans : SpoolWrite(s) \/ SpoolSync(s) \/ VisibleGap(s)
  BY <1>3, SourceKeepsLane
<1>4. CASE DrainInitialize
  <2>1. /\ phase = "init" /\ CallInitialize(Drain) /\ UNCHANGED <<drainRuntimeVars, faults>>
    BY <1>4 DEF DrainInitialize
  <2>2. /\ [ProgressNext]_progressVars /\ UNCHANGED <<cursor, partition, catalog>>
        /\ \A v \in Workers : Keeps(v)
    BY <2>1 DEF CallInitialize, InitializeChain, ProgressNext, archiveVars, callVars, blockVars, Keeps
  <2>3. LaneKept /\ phase' = phase
    BY <2>1 DEF drainRuntimeVars, sourceVars, drainVars, LaneKept, LaneInv, RuntimeTypeOK
  <2>4. ~BetweenBlocks
    BY <2>1 DEF BetweenBlocks
  <2>5. NobodyRepairs'
    BY <1>0, <2>2, <2>3 DEF LaneInv, NobodyRepairs, TornBefore, Torn, HoldsNothing, Keeps
  <2> QED
    BY <1>0, <2>2, <2>3, <2>4, <2>5, DrainUndisturbed
<1>5. CASE DrainRecover \/ DrainObservation \/ DrainReply
  BY <1>5, DrainRecoverKeepsLane, ObservationKeepsLane, ReplyKeepsLane
<1>6. ASSUME NEW w \in Workers, StepOf(w), LaneKept, phase' = phase PROVE LaneInv'
  <2>1. CASE w = Drain
    BY <1>6, <2>1, DrainCallKeepsLane
  <2>2. CASE w # Drain
    BY <1>6, <2>2, OthersKeepLane DEF StepOf, WorkerAction
  <2> QED
    BY <2>1, <2>2
<1>7. CASE WorkerAction(Supervisor) /\ LaneKept
  BY <1>0, <1>7, OthersKeepLane
<1>8. CASE (SettleTransaction \/ LateArrival) /\ LaneKept
  BY <1>8, LateKeepsLane
<1>9. CASE Restart \/ Crash \/ HostCrash
  BY <1>9, RestartKeepsLane
<1> QED
  BY <1>1, <1>2, <1>3, <1>4, <1>5, <1>6, <1>7, <1>8, <1>9, StepIsCall

(* The process starts outside of any call, with empty spools and no record.*)
LEMMA LaneInvInit == DrainInit => LaneInv
<1> SUFFICES ASSUME DrainInit PROVE LaneInv
  OBVIOUS
<1>0. Drain \in Workers /\ MaxFaults \in Nat
  BY DrainAssumption
<1>1. parked \in [Plans -> BOOLEAN] /\ ~parked[Primary]
  BY SpoolFacts DEF DrainInit
<1>2. RuntimeTypeOK
  BY <1>0, <1>1, SpoolFacts DEF DrainInit, RuntimeTypeOK, Phases
<1>3. \A v \in Workers : pc[v] = "caller" /\ reply[v] = "none"
  BY DEF DrainInit, CoordinatorInit
<1>4. DrainCalls /\ DrainPosition /\ DrainSettled /\ NobodyRepairs
  BY <1>0, <1>3
     DEF DrainInit, DrainCalls, DrainPosition, DrainSettled, BetweenBlocks, NobodyRepairs, HoldsNothing
<1>5. Roles /\ Gaps
  BY <1>1, SpoolFacts DEF DrainInit, Roles, Gaps
<1> QED
  BY <1>2, <1>4, <1>5 DEF LaneInv

(* The invariants hold in every reachable state.                           *)
THEOREM LaneInvariant == DrainSpec => [](PublicationInv /\ HeightInv /\ LaneInv)
<1>1. DrainInit => PublicationInv /\ HeightInv /\ LaneInv
  BY PublicationInvInit, HeightInvInit, LaneInvInit DEF DrainInit
<1>2. PublicationInv /\ HeightInv /\ LaneInv /\ [DrainNext]_vars
        => (PublicationInv /\ HeightInv /\ LaneInv)'
  BY LaneInvStep, StepKeepsToHeights, PublicationInvStep, HeightInvStep
<1> QED
  BY <1>1, <1>2, PTL DEF DrainSpec

(* Type correctness of the lane: among others, the drain never leaves the  *)
(* heights of its spools by more than one.                                 *)
THEOREM DrainTypeCorrect == DrainSpec => []DrainTypeOK
<1>1. PublicationInv /\ LaneInv => DrainTypeOK
  BY DEF PublicationInv, LaneInv, RuntimeTypeOK, DrainTypeOK
<1> QED
  BY <1>1, LaneInvariant, PTL

(* Whatever a power loss takes, the drain offers the coordinator the next  *)
(* height and no other: neither the recovery supervisor nor a COMMIT that  *)
(* lands late moves the cursor between the open of the backlog and the     *)
(* acknowledgement of its last record.                                     *)
THEOREM DrainKeepsToHeights == DrainSpec => KeepsToHeights
<1>1. DrainInit => CoordinatorInit
  BY DEF DrainInit
<1>2. PublicationInv /\ LaneInv /\ [DrainNext]_vars => [AnyEvidenceNext]_coordinatorVars
  BY StepKeepsToHeights
<1> QED
  BY <1>1, <1>2, LaneInvariant, PTL DEF DrainSpec, KeepsToHeights, AnyEvidenceSpec

(* So the lane, power losses included, implements the committed log.       *)
THEOREM DrainRefinesLog == DrainSpec => ImplementsCommittedLog
  BY DrainKeepsToHeights, CoordinatorRefinesLog, PTL DEF KeepsToHeights

-----------------------------------------------------------------------------
(* The failover record: written once, and never taken back.                *)

(* Where the record and the role change.                                   *)
LEMMA FailoverMoves ==
  ASSUME PublicationInv, LaneInv, [DrainNext]_vars
  PROVE  \/ UNCHANGED <<failover, active_role>>
         \/ FailoverRecord
         \/ FailoverSwitch
         \/ Restart \/ Crash \/ HostCrash
<1>1. CASE DrainMove
  BY <1>1 DEF DrainMove, DrainOpen, DrainLatches, DrainCaughtUp, FailoverCheck,
       FailoverUnavailable, FailoverFatal, DrainWaits, Poll, ReceiveGap, Phase
<1>2. CASE \E s \in Plans : SpoolWrite(s) \/ SpoolSync(s) \/ VisibleGap(s)
  BY <1>2 DEF SpoolWrite, SpoolSync, VisibleGap, drainVars
<1>3. CASE DrainInitialize \/ DrainRecover \/ DrainObservation \/ DrainReply
  BY <1>3 DEF DrainInitialize, DrainRecover, DrainObservation, DrainReply, Phase,
       drainRuntimeVars, drainVars
<1>4. CASE LaneKept
  BY <1>4 DEF LaneKept
<1>5. CASE UNCHANGED vars
  BY <1>5 DEF vars, drainRuntimeVars, drainVars
<1> QED
  BY <1>1, <1>2, <1>3, <1>4, <1>5, StepIsCall

(* The decision to fail over is final, through every restart and every     *)
(* power loss: the record is written while there is none, and the role is  *)
(* that of the record or about to become so.                               *)
THEOREM FailoverIsFinal == DrainSpec => NoFailback
<1>1. ASSUME PublicationInv, LaneInv, [DrainNext]_vars
      PROVE  /\ failover # NoHeight => failover' = failover
             /\ active_role = Independent => active_role' = Independent
  <2>1. CASE FailoverRecord
    <3>1. phase = "probe" /\ active_role' = active_role
      BY <2>1 DEF FailoverRecord
    <3>2. active_role = Primary /\ failover = NoHeight
      BY <1>1, <3>1 DEF LaneInv, Roles
    <3> QED
      BY <3>1, <3>2, SpoolFacts
  <2>2. CASE FailoverSwitch
    BY <2>2 DEF FailoverSwitch
  <2>3. CASE Restart \/ Crash \/ HostCrash
    BY <1>1, <2>3 DEF Restart, Crash, HostCrash, Restarted, LaneInv, Roles
  <2> QED
    BY <1>1, <2>1, <2>2, <2>3, FailoverMoves
<1>2. PublicationInv /\ LaneInv /\ [DrainNext]_vars =>
        [/\ failover # NoHeight => failover' = failover
         /\ active_role = Independent => active_role' = Independent]_vars
  BY <1>1
<1> QED
  BY <1>2, LaneInvariant, PTL DEF DrainSpec, NoFailback

-----------------------------------------------------------------------------
(* Which source vouches for which height, as long as no power is lost.     *)

AfterFailover(h) == failover # NoHeight /\ h >= failover

(* The archive has a height from the source the record says, and from the  *)
(* primary only what its spool has.                                        *)
ArchiveSplit ==
  \A h \in Heights : partition[h] # NoPlan =>
    /\ partition[h] = Independent <=> AfterFailover(h)
    /\ partition[h] = Primary => h <= written[Primary]

(* So does the drain offer it.                                             *)
OfferSplit ==
  pc[Drain] = "append" /\ ~recovering[Drain] =>
    /\ evidence[Drain] = Independent <=> AfterFailover(height[Drain])
    /\ evidence[Drain] = Primary => height[Drain] <= written[Primary]

SplitInv ==
  /\ ArchiveSplit
  /\ OfferSplit
  /\ failover # NoHeight => failover <= cursor + 1
  /\ active_role = Primary => \A h \in Heights : partition[h] # Independent

(* Only a recovery brings a call back to append_block.                     *)
LEMMA AppendIsRecovery ==
  ASSUME CallTypeOK, NEW w \in Workers, StepOf(w), pc'[w] = "append"
  PROVE  recovering'[w]
<1>1. CASE \E step \in Steps \ {"append"} : Goto(w, step)
  BY <1>1 DEF Goto, CallTypeOK
<1>2. CASE \E r \in Replies : Return(w, r)
  BY <1>2 DEF Return, CallTypeOK
<1>3. CASE \E step \in Steps \ {"append"} : \E h, p, recovery : Take(w, step, h, p, recovery)
  BY <1>3, TakeValues
<1>4. CASE LoadAcknowledgements(w) \/ RecordAck(w) \/ SkipAcknowledged(w)
  BY <1>4 DEF LoadAcknowledgements, RecordAck, SkipAcknowledged, CallTypeOK
<1>5. CASE RecoverArchived(w)
  BY <1>5 DEF RecoverArchived, Take, CallTypeOK
<1>6. CASE AppendExisting(w) \/ PublishPartition(w) \/ PublishCatalog(w) \/ JournalBlock(w)
           \/ BatchComplete(w) \/ Publish(w) \/ RecoverJournaled(w)
  BY <1>1, <1>6 DEF AppendExisting, PublishPartition, PublishCatalog, JournalBlock,
       BatchComplete, Publish, RecoverJournaled, Steps
<1>7. CASE JournalConflicts(w) \/ AckConflicts(w) \/ AdvanceRefused(w) \/ LedgerRefuses(w)
           \/ RecoverPastLastHeight(w) \/ RecoverNothing(w) \/ RecoverMismatch(w)
  BY <1>2, <1>7 DEF JournalConflicts, AckConflicts, AdvanceRefused, LedgerRefuses,
       RecoverPastLastHeight, RecoverNothing, RecoverMismatch, GiveUp, Replies
<1>8. CASE CoordinatorFault(w)
  BY <1>2, <1>8 DEF CoordinatorFault, ArchiveFails, ProgressFails, PublishFails,
       LoseJournalReply, LoseAckReply, LoseAdvanceReply, RecoverReadFails, GiveUp, Replies
<1>9. CASE Advance(w) \/ RecoverNextExpected(w) \/ RecoverLoadPlan(w)
  BY <1>2, <1>3, <1>9 DEF Advance, RecoverNextExpected, RecoverLoadPlan, Replies, Steps
<1> QED
  BY <1>4, <1>5, <1>6, <1>7, <1>8, <1>9 DEF StepOf, CoordinatorStep

(* What keeps the split: the record and the archive as they were, the      *)
(* cursor and the spool of the primary no further back, no new offer.      *)
LEMMA SplitKept ==
  ASSUME LaneInv, SplitInv, cursor \in Int, cursor' \in Int, cursor <= cursor',
         UNCHANGED <<failover, active_role, partition>>,
         written'[Primary] \in Int, written[Primary] <= written'[Primary],
         pc'[Drain] = "append" /\ ~recovering'[Drain] => Keeps(Drain),
         height[Drain] \in Int
  PROVE  SplitInv'
<1>1. failover \in Int /\ written[Primary] \in Int
  BY SpoolFacts DEF LaneInv, RuntimeTypeOK
<1>2. ArchiveSplit'
  <2> SUFFICES ASSUME NEW h \in Heights, partition[h] # NoPlan
               PROVE  /\ partition[h] = Independent <=> AfterFailover(h)
                      /\ partition[h] = Primary => h <= written'[Primary]
    BY DEF ArchiveSplit, AfterFailover, NoHeight
  <2>1. /\ partition[h] = Independent <=> AfterFailover(h)
        /\ partition[h] = Primary => h <= written[Primary]
    BY DEF SplitInv, ArchiveSplit
  <2>2. h \in Int
    BY HeightsFacts
  <2> QED
    BY <1>1, <2>1, <2>2
<1>3. OfferSplit'
  <2> SUFFICES ASSUME pc'[Drain] = "append", ~recovering'[Drain]
               PROVE  /\ evidence'[Drain] = Independent <=> AfterFailover(height[Drain])
                      /\ evidence'[Drain] = Primary => height[Drain] <= written'[Primary]
                      /\ height'[Drain] = height[Drain]
    BY DEF OfferSplit, AfterFailover, NoHeight
  <2>1. pc[Drain] = "append" /\ evidence'[Drain] = evidence[Drain] /\ height'[Drain] = height[Drain]
    BY DEF Keeps
  <2>2. ~recovering[Drain]
    BY DEF Keeps
  <2>3. /\ evidence[Drain] = Independent <=> AfterFailover(height[Drain])
        /\ evidence[Drain] = Primary => height[Drain] <= written[Primary]
    BY <2>1, <2>2 DEF SplitInv, OfferSplit
  <2> QED
    BY <1>1, <2>1, <2>3
<1>4. failover' # NoHeight => failover' <= cursor' + 1
  BY <1>1 DEF SplitInv
<1> QED
  BY <1>2, <1>3, <1>4 DEF SplitInv, NoHeight

(* The steps that change the archive, the record or the offer: a height is *)
(* archived as it was offered ...                                          *)
LEMMA BindingKeepsSplit ==
  ASSUME PublicationInv, HeightInv, LaneInv, SplitInv, PublishPartition(Drain), LaneKept
  PROVE  SplitInv'
<1>0. /\ Drain \in Workers /\ CallTypeOK /\ ServiceTypeOK
      /\ failover \in Int /\ height[Drain] \in Heights
  BY TypeParts, CallFacts, CoordinatorAssumption, SpoolFacts
     DEF PublicationInv, LaneInv, RuntimeTypeOK
<1>1. /\ pc[Drain] = "append" /\ partition[height[Drain]] = NoPlan
      /\ partition' = [partition EXCEPT ![height[Drain]] = evidence[Drain]]
      /\ UNCHANGED progressVars /\ Goto(Drain, "catalog")
  BY DEF PublishPartition
<1>2. UNCHANGED <<failover, active_role, written>>
  BY DEF LaneKept, sourceVars
<1>3. ~recovering[Drain]
  <2>1. pc[Drain] = "append" /\ recovering[Drain] => catalog[height[Drain]] # NoPlan
    BY <1>0 DEF HeightInv, BlockCataloged
  <2>2. catalog[height[Drain]] = NoPlan
    BY <1>0, <1>1 DEF HeightInv, CatalogFollows
  <2> QED
    BY <1>1, <2>1, <2>2
<1>4. /\ evidence[Drain] = Independent <=> AfterFailover(height[Drain])
      /\ evidence[Drain] = Primary => height[Drain] <= written[Primary]
  BY <1>1, <1>3 DEF SplitInv, OfferSplit
<1>5. pc'[Drain] = "catalog"
  BY <1>0, <1>1, GotoValues
<1>6. \A h \in Heights : partition'[h] = IF h = height[Drain] THEN evidence[Drain] ELSE partition[h]
  BY <1>0, <1>1 DEF ServiceTypeOK
<1>7. ArchiveSplit'
  <2> SUFFICES ASSUME NEW h \in Heights, partition'[h] # NoPlan
               PROVE  /\ partition'[h] = Independent <=> AfterFailover(h)
                      /\ partition'[h] = Primary => h <= written[Primary]
    BY <1>2 DEF ArchiveSplit, AfterFailover, NoHeight
  <2> QED
    BY <1>4, <1>6 DEF SplitInv, ArchiveSplit
<1>8. OfferSplit'
  BY <1>5 DEF OfferSplit
<1>9. failover' # NoHeight => failover' <= cursor' + 1
  BY <1>1, <1>2 DEF SplitInv, progressVars
<1>10. ASSUME active_role' = Primary, NEW h \in Heights PROVE partition'[h] # Independent
  <2>1. failover = NoHeight
    BY <1>1, <1>2, <1>10 DEF LaneInv, Roles
  <2> QED
    BY <1>2, <1>4, <1>6, <1>10, <2>1 DEF SplitInv, AfterFailover
<1> QED
  BY <1>7, <1>8, <1>9, <1>10 DEF SplitInv, NoHeight

(* ... the record is written at the gap, when all of the archive is below  *)
(* it ...                                                                  *)
LEMMA RecordKeepsSplit ==
  ASSUME PublicationInv, LaneInv, SplitInv, FailoverRecord
  PROVE  SplitInv'
<1>1. /\ phase = "probe" /\ failover' = primary_gap /\ active_role' = active_role
      /\ UNCHANGED coordinatorVars /\ written' = written
  BY DEF FailoverRecord, sourceVars
<1>2. UNCHANGED <<cursor, partition, pc, recovering, height, evidence>>
  BY <1>1, CoordinatorIdle
<1>3. /\ active_role = Primary /\ failover = NoHeight /\ pc[Drain] = "caller"
      /\ primary_gap # NoHeight /\ cursor + 1 = primary_gap
      /\ primary_gap = written[Primary] + 1 /\ written[Primary] \in Int
  BY <1>1, SpoolFacts DEF LaneInv, Roles, DrainCalls, DrainPosition, Gaps, RuntimeTypeOK
<1>4. ASSUME NEW h \in Heights, partition[h] # NoPlan
      PROVE  /\ partition[h] # Independent /\ h \in Int /\ h < primary_gap
             /\ partition[h] = Primary => h <= written[Primary]
  <2>1. /\ partition[h] # Independent
        /\ partition[h] = Primary => h <= written[Primary]
    BY <1>3, <1>4 DEF SplitInv, ArchiveSplit, AfterFailover
  <2>2. partition[h] = Primary
    BY <1>4, <2>1, TypeParts, SpoolFacts DEF PublicationInv, ServiceTypeOK
  <2> QED
    BY <1>3, <2>1, <2>2, HeightsFacts
<1>5. ArchiveSplit'
  <2> SUFFICES ASSUME NEW h \in Heights, partition[h] # NoPlan
               PROVE  /\ partition[h] = Independent <=> (primary_gap # NoHeight /\ h >= primary_gap)
                      /\ partition[h] = Primary => h <= written[Primary]
    BY <1>1, <1>2 DEF ArchiveSplit, AfterFailover, NoHeight
  <2> QED
    BY <1>3, <1>4
<1>6. OfferSplit'
  BY <1>2, <1>3 DEF OfferSplit
<1>7. failover' # NoHeight => failover' <= cursor' + 1
  BY <1>1, <1>2, <1>3
<1>8. active_role' = Primary => \A h \in Heights : partition'[h] # Independent
  BY <1>1, <1>2 DEF SplitInv
<1> QED
  BY <1>5, <1>6, <1>7, <1>8 DEF SplitInv, NoHeight

(* ... and a height is read from the source the record says.               *)
LEMMA ObservationKeepsSplit ==
  ASSUME PublicationInv, LaneInv, SplitInv, DrainObservation
  PROVE  SplitInv' /\ EvidenceStable(expected, active_role)
<1>0. CallTypeOK /\ ServiceTypeOK /\ failover \in Int /\ written[Primary] \in Int
  BY TypeParts, SpoolFacts DEF PublicationInv, LaneInv, RuntimeTypeOK
<1>1. /\ phase = "read" /\ expected = cursor + 1 /\ expected \in Heights
      /\ active_role \in Plans /\ expected <= written[active_role]
      /\ Take(Drain, "append", expected, active_role, FALSE)
  BY ObservationIsOffer DEF DrainObservation, LaneInv, DrainPosition
<1>2. UNCHANGED <<cursor, partition, written, failover, active_role>>
  BY DEF DrainObservation, progressVars, archiveVars, sourceVars, Phase
<1>3. pc'[Drain] = "append" /\ height'[Drain] = expected /\ evidence'[Drain] = active_role
  BY <1>0, <1>1, OtherCallsKept DEF Steps
<1>4. active_role = Independent <=> AfterFailover(expected)
  <2>1. active_role = Primary => failover = NoHeight
    BY <1>1 DEF LaneInv, Roles
  <2>2. active_role = Independent => failover # NoHeight /\ failover <= cursor + 1
    BY DEF LaneInv, Roles, SplitInv
  <2>3. cursor + 1 \in Int
    BY <1>1, HeightsFacts
  <2> QED
    BY <1>0, <1>1, <2>1, <2>2, <2>3, SpoolFacts DEF AfterFailover
<1>5. OfferSplit'
  <2> SUFFICES /\ active_role = Independent <=> AfterFailover(expected)
               /\ active_role = Primary => expected <= written[Primary]
    BY <1>2, <1>3 DEF OfferSplit, AfterFailover, NoHeight
  <2> QED
    BY <1>1, <1>4
<1>6. ArchiveSplit'
  BY <1>2 DEF SplitInv, ArchiveSplit, AfterFailover, NoHeight
<1>7. EvidenceStable(expected, active_role)
  <2>1. partition[expected] # NoPlan => (partition[expected] = Independent <=> AfterFailover(expected))
    BY <1>1 DEF SplitInv, ArchiveSplit
  <2>2. partition[expected] \in {Primary, Independent, NoPlan} /\ active_role \in {Primary, Independent}
    BY <1>0, <1>1, SpoolFacts DEF ServiceTypeOK
  <2> QED
    BY <1>4, <2>1, <2>2 DEF EvidenceStable
<1> QED
  BY <1>2, <1>5, <1>6, <1>7 DEF SplitInv, NoHeight

(* The split is kept by every step that does not lose power.               *)
LEMMA SplitInvStep ==
  ASSUME ~PowerLoss, PublicationInv, HeightInv, LaneInv, SplitInv, [DrainNext]_vars
  PROVE  SplitInv'
<1>0. /\ Drain \in Workers /\ Supervisor \in Workers \ {Drain} /\ CallTypeOK
      /\ height[Drain] \in Int /\ written[Primary] \in Int /\ cursor \in Int
      /\ RuntimeTypeOK
  BY DrainAssumption, TypeParts, HeightFacts, SpoolFacts DEF PublicationInv, LaneInv, RuntimeTypeOK
<1>1. cursor' \in Int /\ cursor <= cursor'
  BY <1>0, CursorMoves, StepKeepsToHeights, NextJournalStep DEF PublicationInv
<1>2. LaneInv'
  BY LaneInvStep
<1>3. written'[Primary] \in Int
  BY <1>2, SpoolFacts DEF LaneInv, RuntimeTypeOK
<1>4. ASSUME UNCHANGED coordinatorVars, UNCHANGED <<failover, active_role>>,
             written[Primary] <= written'[Primary]
      PROVE  SplitInv'
  <2>1. partition' = partition /\ Keeps(Drain)
    BY <1>4, CoordinatorIdle DEF Keeps
  <2> QED
    BY <1>0, <1>1, <1>3, <1>4, <2>1, SplitKept
<1>5. CASE UNCHANGED vars
  <2>1. UNCHANGED coordinatorVars /\ UNCHANGED <<failover, active_role, written>>
    BY <1>5 DEF vars, drainRuntimeVars, drainVars, sourceVars
  <2> QED
    BY <1>0, <1>4, <2>1
<1>6. CASE DrainMove /\ UNCHANGED coordinatorVars
  <2>1. written' = written
    BY <1>6 DEF DrainMove, DrainOpen, DrainLatches, DrainCaughtUp, FailoverCheck, FailoverRecord,
         FailoverUnavailable, FailoverSwitch, FailoverFatal, DrainWaits, Poll, ReceiveGap, sourceVars
  <2>2. CASE FailoverSwitch
    <3>1. active_role' = Independent /\ failover' = failover
      BY <2>2 DEF FailoverSwitch
    <3>2. UNCHANGED <<cursor, partition, pc, recovering, height, evidence>>
      BY <1>6, CoordinatorIdle
    <3>3. ArchiveSplit'
      BY <2>1, <3>1, <3>2 DEF SplitInv, ArchiveSplit, AfterFailover, NoHeight
    <3>4. pc[Drain] = "caller"
      BY <2>2 DEF FailoverSwitch, LaneInv, DrainCalls
    <3>5. OfferSplit'
      BY <3>2, <3>4 DEF OfferSplit
    <3> QED
      BY <3>1, <3>2, <3>3, <3>5, SpoolFacts DEF SplitInv, NoHeight
  <2>3. CASE DrainMove /\ ~FailoverRecord /\ ~FailoverSwitch
    <3>1. UNCHANGED <<failover, active_role>>
      BY <2>3 DEF DrainMove, DrainOpen, DrainLatches, DrainCaughtUp, FailoverCheck,
           FailoverUnavailable, FailoverFatal, DrainWaits, Poll, ReceiveGap, Phase
    <3> QED
      BY <1>0, <1>4, <1>6, <2>1, <3>1
  <2> QED
    BY <1>6, <2>2, <2>3, RecordKeepsSplit
<1>7. ASSUME NEW s \in Plans, SpoolWrite(s) \/ SpoolSync(s) \/ VisibleGap(s)
      PROVE  SplitInv'
  <2>1. UNCHANGED coordinatorVars /\ UNCHANGED <<failover, active_role>>
    BY <1>7 DEF SpoolWrite, SpoolSync, VisibleGap, drainVars
  <2>2. written' = written \/ written' = [written EXCEPT ![s] = @ + 1]
    BY <1>7 DEF SpoolWrite, SpoolSync, VisibleGap
  <2>3. written[Primary] <= written'[Primary]
    BY <1>0, <2>2, SpoolFacts DEF RuntimeTypeOK
  <2> QED
    BY <1>4, <2>1, <2>3
<1>8. CASE DrainInitialize
  <2>1. /\ UNCHANGED <<archiveVars, callVars>>
        /\ UNCHANGED <<failover, active_role, written>>
    BY <1>8 DEF DrainInitialize, CallInitialize, drainRuntimeVars, drainVars, sourceVars
  <2>2. partition' = partition /\ Keeps(Drain)
    BY <2>1 DEF archiveVars, callVars, blockVars, Keeps
  <2> QED
    BY <1>0, <1>1, <1>3, <2>1, <2>2, SplitKept
<1>9. CASE DrainRecover \/ DrainReply
  <2>1. /\ UNCHANGED archiveVars /\ UNCHANGED <<failover, active_role, written>>
        /\ Take(Drain, "recover", FirstHeight, NoPlan, FALSE) \/ Return(Drain, "none")
    BY <1>9 DEF DrainRecover, DrainReply, CallRecover, TakeReply, Phase, sourceVars
  <2>2. pc'[Drain] # "append" /\ partition' = partition
    BY <1>0, <2>1 DEF Take, Return, CallTypeOK, archiveVars
  <2> QED
    BY <1>0, <1>1, <1>3, <2>1, <2>2, SplitKept
<1>10. ASSUME NEW w \in Workers, WorkerAction(w), StepOf(w) \/ w # Drain, LaneKept
       PROVE  SplitInv'
  <2>1. CASE PublishPartition(w)
    BY <1>10, <2>1, OnlyDrainBinds, BindingKeepsSplit
  <2>2. CASE ~PublishPartition(w)
    <3>1. partition' = partition
      BY <1>10, <2>2, WorkerArchives DEF archiveVars
    <3>2. UNCHANGED <<failover, active_role, written>>
      BY <1>10 DEF LaneKept, sourceVars
    <3>3. CASE w # Drain
      <4>1. Keeps(Drain)
        BY <1>0, <1>10, <3>3, WorkerMoves, MovesKeep DEF PublicationInv
      <4> QED
        BY <1>0, <1>1, <1>3, <3>1, <3>2, <4>1, SplitKept
    <3>4. CASE w = Drain
      <4>1. pc'[Drain] = "append" => recovering'[Drain]
        BY <1>0, <1>10, <3>4, AppendIsRecovery
      <4> QED
        BY <1>0, <1>1, <1>3, <3>1, <3>2, <4>1, SplitKept
    <3> QED
      BY <3>3, <3>4
  <2> QED
    BY <2>1, <2>2
<1>11. CASE (SettleTransaction \/ LateArrival) /\ LaneKept
  <2>1. UNCHANGED callVars /\ UNCHANGED archiveVars /\ UNCHANGED <<failover, active_role, written>>
    BY <1>11 DEF SettleTransaction, LateArrival, LaneKept, sourceVars
  <2>2. partition' = partition /\ Keeps(Drain)
    BY <2>1 DEF archiveVars, callVars, blockVars, Keeps
  <2> QED
    BY <1>0, <1>1, <1>3, <2>1, <2>2, SplitKept
<1>12. CASE Restart \/ Crash
  <2>1. /\ CoordinatorCrash /\ UNCHANGED <<failover, written>>
        /\ active_role' = IF failover # NoHeight THEN Independent ELSE Primary
    BY <1>12 DEF Restart, Crash, Restarted
  <2>2. pc'[Drain] # "append" /\ UNCHANGED <<partition, cursor>>
    BY <1>0, <2>1 DEF CoordinatorCrash, archiveVars, progressVars
  <2>3. ArchiveSplit'
    BY <2>1, <2>2 DEF SplitInv, ArchiveSplit, AfterFailover, NoHeight
  <2>4. OfferSplit'
    BY <2>2 DEF OfferSplit
  <2>5. ASSUME active_role' = Primary, NEW h \in Heights PROVE partition[h] # Independent
    <3>1. failover = NoHeight
      BY <2>1, <2>5, SpoolFacts
    <3>2. Independent # NoPlan
      BY ProgressAssumption, SpoolFacts
    <3> QED
      BY <3>1, <3>2 DEF SplitInv, ArchiveSplit, AfterFailover
  <2> QED
    BY <2>1, <2>2, <2>3, <2>4, <2>5 DEF SplitInv, NoHeight
<1>13. ~HostCrash
  BY DEF HostCrash
<1>14. ASSUME NEW w \in Workers, StepOf(w), LaneKept PROVE SplitInv'
  BY <1>10, <1>14 DEF StepOf, WorkerAction
<1> QED
  BY <1>0, <1>5, <1>6, <1>7, <1>8, <1>9, <1>10, <1>11, <1>12, <1>13, <1>14, StepIsCall,
     ObservationKeepsSplit

(* Nothing is archived, offered or recorded.                               *)
LEMMA SplitInvInit == DrainInit => SplitInv
<1>1. Drain \in Workers /\ NoPlan # Independent
  BY CoordinatorAssumption, ProgressAssumption, SpoolFacts
<1> QED
  BY <1>1 DEF DrainInit, CoordinatorInit, SplitInv, ArchiveSplit, OfferSplit

(* So the drain offers a height with the evidence it is archived under.    *)
LEMMA StepKeepsToCoordinator ==
  ASSUME PublicationInv, LaneInv, SplitInv, [DrainNext]_vars
  PROVE  [CoordinatorNext]_coordinatorVars
<1>1. CASE DrainObservation
  BY <1>1, ObservationIsOffer, ObservationKeepsSplit DEF CoordinatorNext
<1>2. CASE ~DrainObservation
  BY <1>2, StepIsActivity DEF CoordinatorNext
<1> QED
  BY <1>1, <1>2

-----------------------------------------------------------------------------
(* Without a power loss the record says of every height where it came      *)
(* from, in the archive and in what the drain offers.                      *)
THEOREM SplitInvariant ==
  ASSUME ~PowerLoss
  PROVE  DrainSpec => [](PublicationInv /\ HeightInv /\ LaneInv /\ SplitInv)
<1>1. PublicationInv /\ HeightInv /\ LaneInv /\ SplitInv /\ [DrainNext]_vars => SplitInv'
  BY SplitInvStep
<1> QED
  BY <1>1, SplitInvInit, LaneInvariant, PTL DEF DrainSpec

(* The drain, with its sources, its roles and its restarts, is a caller as *)
(* the coordinator expects it: what is proved of the coordinator holds of  *)
(* the lane.                                                               *)
THEOREM DrainKeepsToCoordinator ==
  ASSUME ~PowerLoss
  PROVE  DrainSpec => KeepsToCoordinator
<1>1. DrainInit => CoordinatorInit
  BY DEF DrainInit
<1>2. PublicationInv /\ LaneInv /\ SplitInv /\ [DrainNext]_vars => [CoordinatorNext]_coordinatorVars
  BY StepKeepsToCoordinator
<1> QED
  BY <1>1, <1>2, SplitInvariant, PTL DEF DrainSpec, KeepsToCoordinator, CoordinatorSpec

(* The failover record splits the chain: every journaled height below it   *)
(* has the evidence of the primary, every one from it on that of the       *)
(* independent source.  The journal says so because the archive does.      *)
THEOREM FailoverAlwaysSplitsChain ==
  ASSUME ~PowerLoss
  PROVE  DrainSpec => []FailoverSplitsChain
<1>1. ArchiveInv /\ SplitInv => FailoverSplitsChain
  BY DEF ArchiveInv, CatalogFollows, JournalArchived, SplitInv, ArchiveSplit, AfterFailover,
       FailoverSplitsChain
<1>2. DrainSpec => []ArchiveInv
  BY DrainKeepsToCoordinator, ArchiveInvariant, PTL DEF KeepsToCoordinator
<1> QED
  BY <1>1, <1>2, SplitInvariant, PTL

(* attempt_failover never finds the cursor beyond the gap: the heights the *)
(* cursor has passed are the primary's own, and the gap follows them.      *)
THEOREM GapNeverBehindCursor ==
  ASSUME ~PowerLoss
  PROVE  DrainSpec => []GapNotBehindCursor
<1>1. PublicationInv /\ HeightInv /\ LaneInv /\ SplitInv => GapNotBehindCursor
  <2> SUFFICES ASSUME PublicationInv, HeightInv, LaneInv, SplitInv,
                      active_role = Primary, primary_gap # NoHeight
               PROVE  cursor + 1 <= primary_gap
    BY DEF GapNotBehindCursor, next_expected_height
  <2>1. primary_gap = written[Primary] + 1 /\ written[Primary] \in SpoolHeights
    BY SpoolFacts DEF LaneInv, Gaps, RuntimeTypeOK
  <2>2. cursor \in Int /\ CursorInRange
    BY DEF PublicationInv, JournalInv, ProgressTypeOK
  <2>3. CASE cursor \in Heights
    <3>1. journal[cursor] # NoPlan
      BY <2>2, <2>3 DEF PublicationInv, JournalInv, CursorBacked
    <3>2. partition[cursor] # NoPlan
      BY <2>3, <3>1 DEF HeightInv, JournalCataloged, CatalogFollows
    <3>3. partition[cursor] \in Plans /\ partition[cursor] # Independent
      BY <2>3, <3>2, TypeParts DEF PublicationInv, ServiceTypeOK, SplitInv
    <3>4. cursor <= written[Primary]
      BY <2>3, <3>2, <3>3, SpoolFacts DEF SplitInv, ArchiveSplit
    <3>5. written[Primary] \in Int
      BY <2>1, SpoolFacts
    <3> QED
      BY <2>1, <2>2, <3>4, <3>5
  <2>4. CASE cursor \notin Heights
    <3>1. cursor <= FirstHeight - 1
      BY <2>2, <2>4, ProgressAssumption DEF CursorInRange, Heights
    <3> QED
      BY <2>1, <2>2, <3>1, ProgressAssumption DEF SpoolHeights
  <2> QED
    BY <2>3, <2>4
<1> QED
  BY <1>1, SplitInvariant, PTL

(* The guarantees of the coordinator, for the lane that runs it: nothing   *)
(* visible before it is durable ...                                        *)
THEOREM LaneDurableBeforeVisible ==
  ASSUME ~PowerLoss
  PROVE  DrainSpec => []DurableBeforeVisible
  BY DrainKeepsToCoordinator, AlwaysDurableBeforeVisible, PTL DEF KeepsToCoordinator

(* ... recovery, which runs in two tasks, never refuses its own archive ...*)
THEOREM LaneNeverMismatches ==
  ASSUME ~PowerLoss
  PROVE  DrainSpec => []NoRecoveryMismatch
  BY DrainKeepsToCoordinator, NeverRecoveryMismatch, PTL DEF KeepsToCoordinator

(* ... and what the cursor has passed is archived and published.           *)
THEOREM LaneCommittedIsPublished ==
  ASSUME ~PowerLoss
  PROVE  DrainSpec => []CommittedIsArchivedAndPublished
  BY DrainKeepsToCoordinator, CommittedAlwaysPublished, PTL DEF KeepsToCoordinator
=============================================================================
