---------------------------- MODULE CaptureProgress ----------------------------
(***************************************************************************)
(* The capture progress journal: the PostgreSQL tables behind the trait    *)
(* CaptureProgressStore (storage-ports) as implemented by progress/        *)
(* postgres.rs and, without the lost replies, by progress/memory.rs.       *)
(*                                                                         *)
(* Every write is one serializable transaction that first locks the row of *)
(* its chain.  The reconnecting store drops its session when a call times  *)
(* out, so a COMMIT may be on its way to the server when the caller        *)
(* already sees a storage error: that transaction is pendingTx.  It still  *)
(* holds the lock of the chain, so no other write gets past lock_chain     *)
(* before it is settled, but the plain reads see the state without it.     *)
(*                                                                         *)
(* Simplifications: one chain; a publication is its ordinal and an         *)
(* acknowledgement is the fact that the ordinal has one; a write below     *)
(* FirstHeight is refused without effect and is left out; heights stop at  *)
(* LastHeight, far from the end of u64.                                    *)
(***************************************************************************)
EXTENDS Integers

CONSTANTS
  FirstHeight,   \* the first height the chain row is initialised with
  LastHeight,    \* bound: the last height of the model
  Plans,         \* archive-bound publication plans a height can be given
  NoPlan,        \* no row in capture_archived_blocks
  EventCount     \* EventCount[h]: event messages of the block at height h

Heights == FirstHeight..LastHeight

(* Ordinal 0 is the block marker, ordinals 1.. are the events: a plan is   *)
(* never empty and its ordinals are contiguous.                            *)
Ordinals(h) == 0..EventCount[h]

ASSUME ProgressAssumption ==
  /\ FirstHeight \in Nat
  /\ LastHeight \in Nat
  /\ FirstHeight <= LastHeight
  /\ NoPlan \notin Plans
  /\ EventCount \in [Heights -> Nat]

VARIABLES
  initialized,   \* the row of capture_chain_progress exists
  journal,       \* journal[h]: the plan of capture_archived_blocks
  acked,         \* acked[h]: ordinals of capture_block_publications acknowledged
  blockState,    \* blockState[h]: the state column of capture_archived_blocks
  cursor,        \* committed_block_height, FirstHeight - 1 when there is no row
  version,       \* cursor_version, 0 when there is no row
  pendingTx      \* the transaction whose COMMIT is unanswered, or NoTx

tableVars == <<initialized, journal, acked, blockState, cursor, version>>
progressVars == <<initialized, journal, acked, blockState, cursor, version, pendingTx>>

States == {"absent", "archived_pending", "publishing", "acknowledged"}

(* One shape for the three writes, so that one of them can be outstanding. *)
Transactions ==
  [op: {"none", "archived", "acknowledgement", "advance"},
   height: Heights, plan: Plans \union {NoPlan}, ordinal: Nat]

NoTx == [op |-> "none", height |-> FirstHeight, plan |-> NoPlan, ordinal |-> 0]
ArchivedTx(h, p) == [op |-> "archived", height |-> h, plan |-> p, ordinal |-> 0]
AcknowledgementTx(h, o) ==
  [op |-> "acknowledgement", height |-> h, plan |-> NoPlan, ordinal |-> o]
AdvanceTx(h) == [op |-> "advance", height |-> h, plan |-> NoPlan, ordinal |-> 0]

ProgressTypeOK ==
  /\ initialized \in BOOLEAN
  /\ journal \in [Heights -> Plans \union {NoPlan}]
  /\ acked \in [Heights -> SUBSET Nat]
  /\ blockState \in [Heights -> States]
  /\ cursor \in Int
  /\ version \in Nat
  /\ pendingTx \in Transactions

-----------------------------------------------------------------------------
(* Reads.                                                                  *)

next_expected_height == cursor + 1

-----------------------------------------------------------------------------
(* Mutant: an existing plan is not looked up.                              *)
CanRecordArchived_Overwrites(h) == initialized

(* Mutant: a state the column does not have.                               *)
RecordArchived_UnknownState(h, p) ==
  /\ journal' = [journal EXCEPT ![h] = p]
  /\ blockState' = [blockState EXCEPT ![h] = "pending"]
  /\ UNCHANGED <<initialized, acked, cursor, version>>

(* record_archived: a height takes a plan once.  A second call with the    *)
(* same plan is an identical duplicate, with another plan a                *)
(* ConflictingBlock; neither changes anything.                             *)
CanRecordArchived(h) == initialized /\ journal[h] = NoPlan

RecordArchived(h, p) ==
  /\ journal' = [journal EXCEPT ![h] = p]
  /\ blockState' = [blockState EXCEPT ![h] = "archived_pending"]
  /\ UNCHANGED <<initialized, acked, cursor, version>>

(* record_acknowledgement: an ordinal of a journaled plan is acknowledged  *)
(* once; the same transaction recomputes the state column of the block.    *)
CanRecordAcknowledgement(h, o) ==
  /\ initialized
  /\ journal[h] # NoPlan
  /\ o \in Ordinals(h) \ acked[h]

RecordAcknowledgement(h, o) ==
  /\ acked' = [acked EXCEPT ![h] = @ \union {o}]
  /\ blockState' = [blockState EXCEPT
       ![h] = IF Ordinals(h) \subseteq acked[h] \union {o}
              THEN "acknowledged" ELSE "publishing"]
  /\ UNCHANGED <<initialized, journal, cursor, version>>

(* Mutant: the acknowledgements are not checked.                           *)
CanAdvanceCursor_Unacknowledged(h) ==
  initialized /\ h = cursor + 1 /\ journal[h] # NoPlan

(* Mutant: the height is not checked against the cursor.                   *)
CanAdvanceCursor_AnyHeight(h) ==
  initialized /\ journal[h] # NoPlan /\ Ordinals(h) \subseteq acked[h]

(* advance_cursor: only to the next height, and only when every planned    *)
(* publication is acknowledged.  A call for the height the cursor already  *)
(* has returns it unchanged.                                               *)
CanAdvanceCursor(h) ==
  /\ initialized
  /\ h = cursor + 1
  /\ journal[h] # NoPlan
  /\ blockState[h] = "acknowledged"
  /\ Ordinals(h) \subseteq acked[h]

AdvanceCursor(h) ==
  /\ cursor' = h
  /\ version' = version + 1
  /\ UNCHANGED <<initialized, journal, acked, blockState>>

-----------------------------------------------------------------------------
(* The life of a write transaction.                                        *)

Admits(tx) ==
  \/ tx.op = "archived" /\ tx.plan # NoPlan /\ CanRecordArchived(tx.height)
  \/ tx.op = "acknowledgement" /\ CanRecordAcknowledgement(tx.height, tx.ordinal)
  \/ tx.op = "advance" /\ CanAdvanceCursor(tx.height)

Apply(tx) ==
  \/ tx.op = "archived" /\ RecordArchived(tx.height, tx.plan)
  \/ tx.op = "acknowledgement" /\ RecordAcknowledgement(tx.height, tx.ordinal)
  \/ tx.op = "advance" /\ AdvanceCursor(tx.height)

(* lock_chain is granted.                                                  *)
Unlocked == pendingTx = NoTx

(* The call returns after COMMIT.                                          *)
Commit(tx) ==
  /\ Unlocked
  /\ Admits(tx)
  /\ Apply(tx)
  /\ UNCHANGED pendingTx

(* The call times out while the COMMIT is outstanding.                     *)
LoseReply(tx) ==
  /\ Unlocked
  /\ Admits(tx)
  /\ pendingTx' = tx
  /\ UNCHANGED tableVars

(* Mutant: the outstanding transaction is replayed.                        *)
SettleCommitted_Twice ==
  /\ ~Unlocked
  /\ Apply(pendingTx)
  /\ UNCHANGED pendingTx

(* The server gets to the outstanding COMMIT after all ...                 *)
SettleCommitted ==
  /\ ~Unlocked
  /\ Apply(pendingTx)
  /\ pendingTx' = NoTx

(* ... or notices that the session is gone and rolls back.                 *)
SettleRolledBack ==
  /\ ~Unlocked
  /\ pendingTx' = NoTx
  /\ UNCHANGED tableVars

(* initialize_chain: INSERT ... ON CONFLICT DO NOTHING, not behind the     *)
(* lock.  A different first height would be a ConflictingInitialization.   *)
InitializeChain ==
  /\ initialized' = TRUE
  /\ UNCHANGED <<journal, acked, blockState, cursor, version, pendingTx>>

-----------------------------------------------------------------------------
ProgressInit ==
  /\ initialized = FALSE
  /\ journal = [h \in Heights |-> NoPlan]
  /\ acked = [h \in Heights |-> {}]
  /\ blockState = [h \in Heights |-> "absent"]
  /\ cursor = FirstHeight - 1
  /\ version = 0
  /\ pendingTx = NoTx

(* The store under arbitrary callers: any write, in any order.             *)
ProgressNext ==
  \/ InitializeChain
  \/ \E h \in Heights, p \in Plans :
       Commit(ArchivedTx(h, p)) \/ LoseReply(ArchivedTx(h, p))
  \/ \E h \in Heights : \E o \in Ordinals(h) :
       Commit(AcknowledgementTx(h, o)) \/ LoseReply(AcknowledgementTx(h, o))
  \/ \E h \in Heights : Commit(AdvanceTx(h)) \/ LoseReply(AdvanceTx(h))
  \/ SettleCommitted
  \/ SettleRolledBack

ProgressSpec == ProgressInit /\ [][ProgressNext]_progressVars

-----------------------------------------------------------------------------
(* Properties, whoever calls the store.                                    *)

(* Every height up to the cursor is journaled and completely acknowledged: *)
(* the cursor skips no height and passes no block with a publication that  *)
(* JetStream has not confirmed (advance_cursor), whatever was outstanding. *)
CursorBacked ==
  \A h \in Heights : h <= cursor => journal[h] # NoPlan /\ acked[h] = Ordinals(h)

(* cursor_version counts the committed blocks exactly: no lost COMMIT that *)
(* lands late is counted twice.                                            *)
VersionCountsBlocks == version = cursor - FirstHeight + 1

(* The state column of record_acknowledgement never disagrees with the     *)
(* acknowledgements it summarises.                                         *)
StateColumnAgrees ==
  \A h \in Heights :
    /\ (blockState[h] = "absent") <=> (journal[h] = NoPlan)
    /\ (blockState[h] = "acknowledged") <=> (journal[h] # NoPlan /\ acked[h] = Ordinals(h))
    /\ (blockState[h] = "publishing") => acked[h] # {}

(* What a step may not do to the tables.                                   *)
RewritesNothing ==
  /\ \A h \in Heights : journal[h] # NoPlan => journal'[h] = journal[h]
  /\ \A h \in Heights : acked[h] \subseteq acked'[h]
  /\ cursor' \in {cursor, cursor + 1}

(* A plan and an acknowledgement are written once, and the cursor moves by *)
(* one height at a time: no transaction rewrites what an earlier one, lost *)
(* reply or not, has made durable.                                         *)
NothingRewritten == [][RewritesNothing]_progressVars

(* The committed part of the journal, as the log downstream relies on.     *)
LogContent == [h \in Heights |-> IF h <= cursor THEN journal[h] ELSE NoPlan]

Log == INSTANCE CommittedLog WITH
         Contents <- Plans, NoContent <- NoPlan,
         committed <- cursor, content <- LogContent

(* The journal implements the committed log: it grows at the end, by one   *)
(* height, and what is committed stays as it is.                           *)
ImplementsCommittedLog == Log!LogSpec
=============================================================================
