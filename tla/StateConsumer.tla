--------------------------- MODULE StateConsumer ---------------------------
(***************************************************************************)
(* The state service (services/hl-core): a durable pull consumer collects  *)
(* the messages of a committed block, hands a complete block to the        *)
(* ledger, makes the state after it durable in the atomic state store      *)
(* (crates/canonical-state-store, atomic.rs) and only then acknowledges    *)
(* the messages.                                                           *)
(*                                                                         *)
(* Abstractions.  A message is <<h, o>>: ordinal 0 is the marker of block  *)
(* h, the others its events; the stream holds one content per height (the  *)
(* capture modules are about that), so payload hashes always agree and a   *)
(* state is named by the height it was reached at: generation h is the     *)
(* directory gen-<hash of the state after h>.  What the reducers compute   *)
(* is left out.  An error ends the session, as the service and the tests   *)
(* drop it: its memory is gone, its messages stay unacknowledged.  Between *)
(* two directory syncs a power loss keeps a prefix of the renames (the     *)
(* order of a journalling file system).                                    *)
(***************************************************************************)
EXTENDS Integers, Sequences, FiniteSets

CONSTANTS
  MaxBlock,        \* bound: blocks 1..MaxBlock are published
  BlockEvents,     \* BlockEvents[h]: number of events of block h
  FetchMax,        \* fetch_batch
  MaxPendingBlocks,      \* MAX_PENDING_BLOCKS
  MaxAckPending,   \* max_ack_pending of the durable consumer
  MaxDeliver,      \* max_deliver of the durable consumer
  MaxSessionEnds   \* bound: sessions cut short

ASSUME ConsumerAssumption ==
  /\ MaxBlock \in Nat /\ MaxSessionEnds \in Nat
  /\ BlockEvents \in [1..MaxBlock -> Nat]
  /\ {FetchMax, MaxPendingBlocks, MaxAckPending, MaxDeliver} \subseteq Nat \ {0}

VARIABLES
  published,    \* number of messages the stream holds
  status,       \* what the server knows of a message
  deliveries,   \* how often it was delivered
  session,      \* "down" or the step of the session
  fetched,      \* deliveries of the current fetch not yet pushed
  inflight,     \* JetStreamPullSource.inflight
  collecting,      \* BlockAssembler.pending: message ids per block
  applied,      \* height of the visible ledger, 0 before the first block
  block,        \* the assembled block in hand
  acking,       \* message ids still to acknowledge
  generations,  \* gen-* directories of the store
  headFile,     \* generation HEAD names, 0 when there is none
  renames,      \* renames in the root since its last sync
  exposed,      \* blocks acknowledged on the strength of an unsynced HEAD
  sessionEnds   \* sessions cut short so far

serverVars == <<published, status, deliveries>>
sessionVars == <<session, fetched, inflight, collecting, applied, block, acking>>
storeVars == <<generations, headFile, renames>>
consumerVars == <<serverVars, sessionVars, storeVars, exposed, sessionEnds>>

StreamBlocks == 1..MaxBlock
BlockMessages(h) == {<<h, o>> : o \in 0..BlockEvents[h]}
StreamMessages == UNION {BlockMessages(h) : h \in StreamBlocks}

(* Position of a message in the stream: blocks in order, marker first.     *)
Position(m) == 1 + Cardinality({n \in StreamMessages :
                   n[1] < m[1] \/ (n[1] = m[1] /\ n[2] < m[2])})

ConsumerTypeOK ==
  /\ published \in 0..Cardinality(StreamMessages)
  /\ status \in [StreamMessages -> {"new", "sent", "due", "acked", "dropped"}]
  /\ deliveries \in [StreamMessages -> 0..MaxDeliver]
  /\ session \in {"down", "fetch", "push", "prepare", "store", "head", "sync", "ack"}
  /\ fetched \in Seq(StreamMessages) /\ acking \in Seq(StreamMessages)
  /\ inflight \subseteq StreamMessages
  /\ collecting \in [StreamBlocks -> Seq(StreamMessages)]
  /\ applied \in 0..MaxBlock /\ block \in 0..MaxBlock
  /\ generations \subseteq StreamBlocks /\ headFile \in 0..MaxBlock
  /\ renames \in Seq({"generation", "head"} \X StreamBlocks)
  /\ exposed \subseteq StreamBlocks

ConsumerInit ==
  /\ published = 0
  /\ status = [m \in StreamMessages |-> "new"]
  /\ deliveries = [m \in StreamMessages |-> 0]
  /\ session = "down" /\ fetched = <<>> /\ inflight = {}
  /\ collecting = [h \in StreamBlocks |-> <<>>]
  /\ applied = 0 /\ block = 0 /\ acking = <<>>
  /\ generations = {} /\ headFile = 0 /\ renames = <<>>
  /\ exposed = {} /\ sessionEnds = 0

-----------------------------------------------------------------------------
(* The server: the durable consumer with explicit acknowledgements.        *)

PublishMessage ==
  /\ published < Cardinality(StreamMessages)
  /\ published' = published + 1
  /\ UNCHANGED <<status, deliveries, sessionVars, storeVars, exposed, sessionEnds>>

(* The acknowledgement wait of a delivered message runs out: it is         *)
(* delivered again, or given up after max_deliver attempts.                *)
AckWaitEnds(m) ==
  /\ status[m] = "sent"
  /\ status' = [status EXCEPT ![m] =
                  IF deliveries[m] < MaxDeliver THEN "due" ELSE "dropped"]
  /\ UNCHANGED <<published, deliveries, sessionVars, storeVars, exposed, sessionEnds>>

(* A message the server may deliver now: one that is due again, or the     *)
(* next new one while fewer than max_ack_pending are unacknowledged.       *)
Deliverable(m) ==
  \/ status[m] = "due"
  \/ /\ status[m] = "new" /\ Position(m) <= published
     /\ \A n \in StreamMessages : Position(n) < Position(m) => status[n] # "new"
     /\ Cardinality({n \in StreamMessages : status[n] \in {"sent", "due"}}) < MaxAckPending

-----------------------------------------------------------------------------
(* The session.                                                            *)

(* The session returns an error and is dropped.                            *)
FailSession ==
  /\ session' = "down" /\ fetched' = <<>> /\ inflight' = {}
  /\ collecting' = [h \in StreamBlocks |-> <<>>]
  /\ applied' = 0 /\ block' = 0 /\ acking' = <<>>

(* HEAD and the generation it names are there: load_latest succeeds.       *)
HeadLoads == headFile = 0 \/ headFile \in generations

(* JetStreamReplaySession::open: StateRuntime::open in Durable mode takes  *)
(* the latest durable state as the ledger.                                 *)
OpenSession ==
  /\ session = "down" /\ HeadLoads
  /\ session' = "fetch" /\ applied' = headFile
  /\ UNCHANGED <<serverVars, fetched, inflight, collecting, block, acking,
                 storeVars, exposed, sessionEnds>>

(* One message of a fetch.  A message that is in flight already fails the  *)
(* session with PendingLimit.                                              *)
Fetch(m) ==
  /\ session = "fetch" /\ Len(fetched) < FetchMax /\ Deliverable(m)
  /\ status' = [status EXCEPT ![m] = "sent"]
  /\ deliveries' = [deliveries EXCEPT ![m] = @ + 1]
  /\ \/ /\ m \in inflight /\ FailSession
     \/ /\ m \notin inflight
        /\ inflight' = inflight \cup {m} /\ fetched' = Append(fetched, m)
        /\ UNCHANGED <<session, collecting, applied, block, acking>>
  /\ UNCHANGED <<published, storeVars, exposed, sessionEnds>>

(* The fetch returns what it has.  An empty one ends consume_available,    *)
(* and with IncompleteBlock when blocks are still being collected.         *)
FetchReturns ==
  /\ session = "fetch"
  /\ \/ /\ fetched # <<>> /\ session' = "push"
        /\ UNCHANGED <<fetched, inflight, collecting, applied, block, acking>>
     \/ /\ fetched = <<>> /\ \A m \in StreamMessages : ~Deliverable(m)
        /\ \E h \in StreamBlocks : collecting[h] # <<>>
        /\ FailSession
  /\ UNCHANGED <<serverVars, storeVars, exposed, sessionEnds>>

CollectedBlocks == {h \in StreamBlocks : collecting[h] # <<>>}

(* What the loop does once the delivery in hand is dealt with.             *)
NextDelivery(rest) == IF rest = <<>> THEN "fetch" ELSE "push"

(* BlockAssembler::push.  A message its block has already, or a new block  *)
(* at the pending limit, fails the session; the last message of a block    *)
(* hands the block over with the ids to acknowledge, in arrival order.     *)
Push ==
  /\ session = "push"
  /\ LET m == Head(fetched)
         ids == Append(collecting[m[1]], m)
         known == \E i \in 1..Len(collecting[m[1]]) : collecting[m[1]][i] = m
         full == m[1] \notin CollectedBlocks /\ Cardinality(CollectedBlocks) >= MaxPendingBlocks
         complete == Len(ids) = BlockEvents[m[1]] + 1
     IN \/ (known \/ full) /\ FailSession
        \/ /\ ~known /\ ~full /\ ~complete
           /\ collecting' = [collecting EXCEPT ![m[1]] = ids]
           /\ fetched' = Tail(fetched) /\ session' = NextDelivery(fetched')
           /\ UNCHANGED <<inflight, applied, block, acking>>
        \/ /\ ~known /\ ~full /\ complete
           /\ collecting' = [collecting EXCEPT ![m[1]] = <<>>]
           /\ fetched' = Tail(fetched)
           /\ block' = m[1] /\ acking' = ids /\ session' = "prepare"
           /\ UNCHANGED <<inflight, applied>>
  /\ UNCHANGED <<serverVars, storeVars, exposed, sessionEnds>>

-----------------------------------------------------------------------------
(* apply_block_durably: prepare, make durable, make visible.               *)

(* prepare_block: the latest block again is AlreadyApplied, and only that  *)
(* one; any other height than the next is HeightDiscontinuity.             *)
PrepareBlock ==
  /\ session = "prepare"
  /\ \/ /\ block = applied /\ session' = "ack"
        /\ exposed' = IF renames = <<>> THEN exposed ELSE exposed \cup {block}
        /\ UNCHANGED <<fetched, inflight, collecting, applied, block, acking>>
     \/ /\ block = applied + 1 /\ session' = "store"
        /\ UNCHANGED <<fetched, inflight, collecting, applied, block, acking, exposed>>
     \/ block \notin {applied, applied + 1} /\ FailSession /\ UNCHANGED exposed
  /\ UNCHANGED <<serverVars, storeVars, sessionEnds>>

(* commit, up to the rename of the staged generation.  HEAD must name the  *)
(* state before the block; a generation of that name that exists already   *)
(* is a Conflict (NOREPLACE).                                              *)
StoreGeneration ==
  /\ session = "store"
  /\ \/ /\ headFile = applied /\ block \notin generations
        /\ generations' = generations \cup {block}
        /\ renames' = Append(renames, <<"generation", block>>) /\ session' = "head"
        /\ UNCHANGED <<fetched, inflight, collecting, applied, block, acking, headFile>>
     \/ /\ headFile # applied \/ block \in generations
        /\ FailSession /\ UNCHANGED storeVars
  /\ UNCHANGED <<serverVars, exposed, sessionEnds>>

(* write_head: the staged HEAD replaces HEAD.                              *)
WriteHead ==
  /\ session = "head"
  /\ headFile' = block /\ renames' = Append(renames, <<"head", block>>) /\ session' = "sync"
  /\ UNCHANGED <<serverVars, fetched, inflight, collecting, applied, block, acking,
                 generations, exposed, sessionEnds>>

(* Mutant: the ledger advances and the messages are acknowledged before    *)
(* the root is synced.                                                     *)
CommitPrepared_Unsynced ==
  /\ session = "sync"
  /\ applied' = block /\ session' = "ack"
  /\ UNCHANGED <<serverVars, fetched, inflight, collecting, block, acking, storeVars,
                 exposed, sessionEnds>>

(* The root is synced, the receipt matches and commit_prepared makes the   *)
(* block visible.                                                          *)
CommitPrepared ==
  /\ session = "sync"
  /\ renames' = <<>>
  /\ applied' = block /\ session' = "ack"
  /\ UNCHANGED <<serverVars, fetched, inflight, collecting, block, acking,
                 generations, headFile, exposed, sessionEnds>>

(* source.ack, one message at a time.  The client does not wait for the    *)
(* server: an acknowledgement may be lost.                                 *)
Ack ==
  /\ session = "ack"
  /\ LET m == Head(acking)
         after == IF Tail(acking) = <<>> THEN NextDelivery(fetched) ELSE "ack"
     IN /\ inflight' = inflight \ {m}
        /\ acking' = Tail(acking) /\ session' = after
        /\ status' \in {status, [status EXCEPT ![m] = "acked"]}
  /\ UNCHANGED <<published, deliveries, fetched, collecting, applied, block,
                 storeVars, exposed, sessionEnds>>

-----------------------------------------------------------------------------
(* A lost connection, an I/O error or a killed process: the session ends   *)
(* between any two steps.                                                  *)
SessionEnds ==
  /\ session # "down" /\ sessionEnds < MaxSessionEnds
  /\ sessionEnds' = sessionEnds + 1
  /\ FailSession
  /\ UNCHANGED <<serverVars, storeVars, exposed>>

(* The host loses power: of the renames since the last sync a prefix is    *)
(* on disk.                                                                *)
HostPowerLoss ==
  /\ session # "down" \/ renames # <<>>
  /\ sessionEnds < MaxSessionEnds
  /\ sessionEnds' = sessionEnds + 1
  /\ \E n \in 0..Len(renames) :
       LET lost == {renames[i] : i \in n + 1..Len(renames)}
       IN /\ headFile' = headFile - Cardinality({r \in lost : r[1] = "head"})
          /\ generations' = generations \ {r[2] : r \in {x \in lost : x[1] = "generation"}}
  /\ renames' = <<>>
  /\ FailSession
  /\ UNCHANGED <<serverVars, exposed>>

ConsumerNext ==
  \/ PublishMessage \/ OpenSession \/ FetchReturns \/ Push
  \/ \E m \in StreamMessages : AckWaitEnds(m) \/ Fetch(m)
  \/ PrepareBlock \/ StoreGeneration \/ WriteHead \/ CommitPrepared \/ Ack
  \/ SessionEnds \/ HostPowerLoss

ConsumerSpec == ConsumerInit /\ [][ConsumerNext]_consumerVars

-----------------------------------------------------------------------------
(* What a power loss at this moment leaves of HEAD at the least.           *)
DurableHead ==
  headFile - Cardinality({i \in 1..Len(renames) : renames[i][1] = "head"})

(* A message is acknowledged only when the state after its block survives  *)
(* every crash and power loss (apply_next before source.ack, commit with   *)
(* its sync before commit_prepared): the server will not send it again.    *)
(* The exception is a block found applied on a HEAD that an interrupted    *)
(* commit renamed and nobody has synced since.                             *)
AckedDurable ==
  \A m \in StreamMessages :
    status[m] = "acked" => m[1] <= DurableHead \/ m[1] \in exposed

(* What the ledger shows is in the store, and the store can be loaded      *)
(* after a crash at any step: HEAD never names a missing generation.       *)
VisibleIsStored ==
  /\ HeadLoads
  /\ session # "down" => applied <= headFile
  /\ session \in {"prepare", "store", "head"} => applied = headFile

(* The state service under redelivery, ended sessions and power loss:      *)
(* apply_next makes durable what it shows and what it acknowledges.        *)
ConsumerSafe == ConsumerTypeOK /\ AckedDurable /\ VisibleIsStored

(* A store whose HEAD names the state before a block accepts the block:    *)
(* a commit that was interrupted can be made again ("Crash-safe atomic     *)
(* state adapter", atomic.rs:1).                                           *)
NextBlockAccepted ==
  session = "store" /\ headFile = applied => block \notin generations
=============================================================================
