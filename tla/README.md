# Verification of alpha-desk's capture path

alpha-desk records the Hyperliquid chain, turns it into canonical blocks, and
serves everything else (state, analytics, research, dashboards) from that log.
This directory holds TLA+ models of the part on whose correctness the rest
depends: how `hl-capture` takes a block from two node directories to a durable,
ordered, published and exactly-once-committed log, how it captures everything
else (tailed node output, REST pages, WebSocket frames), the stores all of that
ends in, and how `hl-core` makes state of the committed stream. TLC checks the
models on small instances; TLAPS proves the central ones for every value of
their constants.

Every definition is translated from the source; `PROJECT.json` maps each one to
its lines, lists the runs, the hazards of the code with the properties that
cover them, the findings and the theorems.

## 1. Inventory

| Part | State | Operations | Interacts with |
| --- | --- | --- | --- |
| **Progress journal** (`services/hl-capture/src/progress`, `crates/storage-ports`, `schemas/postgres/0002`) | chain row, archived blocks with their publication plan and state column, acknowledgements, cursor and version | `initialize_chain`, `record_archived`, `record_acknowledgement`, `advance_cursor`; reads `next_expected_height`, `load_archived_block`, `load_acknowledgements` | called by the coordinator and the drain; every write is one serializable transaction behind the row lock of the chain |
| **Coordinator** (`coordinator.rs`) | none of its own, only where a call is | `process_block`, `complete_batch`, `recover_startup` | archive, journal, publisher; called concurrently by the drain and the recovery supervisor |
| **Publisher** (`bus/`) | JetStream session, publication ledger (ids sent in this session) | `publish` with its acknowledgement, reconnect | NATS JetStream with its duplicate window |
| **Canonical archive** (`crates/canonical-archive`) | immutable Parquet objects and manifests, `CURRENT` pointer of each partition and of the catalog, writer lock | `append_block`, `load_block`, range reads, `compact_range` | called by the coordinator; readers elsewhere |
| **Committed drain and failover** (`source_runtime.rs`, `failover.rs`, `backlog.rs`, `committed_pipeline.rs`) | active role, known gap of the primary, failover record on disk, position in the spool | one drain pass, `attempt_failover`, wait and wake | spools, journal, coordinator; notices from the acquisition tasks |
| **Acquisition and spool** (`adapters/node_files.rs`, `spool/`) | written and synced records per source, segments and manifests, parked flag | copy the next block file, sync, report a visible gap | node directory, drain |
| **Recovery supervisor and task tree** (`app.rs`, `service.rs`) | whether start-up recovery is done | recover until it succeeds; end the process when a task fails | coordinator; systemd restarts the process |
| **Sequencer** (`sequencer/`) | committed and provisional watermark with a window of recent blocks, pending blocks, open gap, red latch | `observe` | used by the committed pipeline |
| **Auxiliary lane** (`source_runtime.rs`, `auxiliary_checkpoint.rs`, `node_stream.rs`, `raw_archive.rs`) | checkpoint of the lane, sealed segments, group of unacknowledged lines, position in the tailed file | bind, recover, observe, seal, archive, publish the checkpoint, prune, acknowledge | spool, raw archive, node output file |
| **Raw archive v3** (`raw_v3_store.rs`, `raw_v3_store/`) | commit and pack files, index journal, roots, `CURRENT`, checkpoint, leases, deletion journals and backups | append, pack, checkpoint, backup, plan, execute, restore; leased reads | auxiliary lane, operator tools, readers |
| **Provisional lane** (`public_ws.rs`, `ws_session.rs`, `provisional_pipeline.rs`) | session, queued frames, last snapshot per subscription, fan-out | archive, queue, classify, push, replay | public WebSocket, readers of the fan-out |
| **Info capture** (`info_scheduler.rs`, `request_budget.rs`, `info_rest.rs`, `hl-protocol/src/info/pagination.rs`) | two token pools, queue and leases, page cursor, capture checkpoint | enqueue, dispatch, complete, cancel, back off; crawl, save, publish | public REST |
| **hl-core** (`consumer.rs`, `state_runtime.rs`, `publication.rs`) | messages collected per block, deterministic state | fetch, assemble, apply a block, acknowledge | JetStream, state store |
| **Canonical ledger, state store, replay** | account and position state, generations and `HEAD` | prepare, commit, load, replay | hl-core |
| **Query API, protocol decoding, analytics, research, dashboards, tools** | read-only or pure | | downstream |

What is hard here: two tasks of one process drive the same block through four
systems that fail on their own; each of them can have done its part when the
caller sees an error; the process can end at every point; a block comes from
one of two sources that agree on its canonical hash but not on its evidence;
the switch between the sources happens once, for good, and in the middle of all
this. What makes each part correct:

* journal: the cursor skips nothing and passes no unconfirmed publication;
  nothing durable is rewritten; the version counts the blocks;
* coordinator: archive before journal before stream before acknowledgement
  before cursor, with the same evidence all the way; one content per message
  id; messages in order; recovery reproduces what was journaled;
* drain: the failover record splits the chain; no way back to the primary;
  every height is committed in the end;
* sequencer: heights in order and once each; no contradiction is merged; the
  gap is exact; the red latch is final; the buffer keeps to its limit;
* archive: a block with a receipt stays readable whatever is appended, compacted
  or interrupted, and every operation finds a catalog it can load;
* spool: what was acknowledged is on disk under its number, cursors advance,
  replies are true;
* auxiliary lane: no line lost, skipped or stored twice; source acknowledged
  last; every line archived in the end;
* raw archive: receipts stay readable through packing and collection, leased
  files stay, whatever is deleted can be restored;
* hl-core: nothing is acknowledged that a power loss can take back; what is
  shown is stored;
* info capture: a crawl that says it is complete is complete, the checkpoint is
  never ahead of the capture; the budget neither creates nor loses weight;
* WebSocket capture: a saved frame reaches the fan-out, in order, with a class
  the reader can trust.

## 2. Modules

```
CommittedLog                 what the service promises downstream
  ^ refinement
CaptureProgress              the journal            <- CaptureCoordinatorProofs, MCStores
  ^ EXTENDS, refinement
CaptureCoordinator           archive, journal, bus  <- CaptureCoordinatorProofs, MCCaptureCoordinator
  ^ EXTENDS, refinement
CommittedDrain               sources, drain, failover, supervisor
                                                    <- CommittedDrainProofs, MCCommittedDrain

SourceSpool                  byte-offset spool      <- SourceSpoolProofs, MCStores
  ^ EXTENDS
AuxiliaryLane                tailed file to archive <- AuxiliaryLaneProofs, MCAuxiliaryLane

CanonicalArchive             Parquet archive        <- CanonicalArchiveProofs, MCStores
RawArchive                   raw observation store  <- RawArchiveProofs, MCStores
CanonicalSequencer           the sequencer          <- CanonicalStateProofs, MCMachines
StateConsumer                hl-core, state store   <- CanonicalStateProofs, MCMachines, MCStateOrphan
InfoCapture, RequestBudget   paged crawl, its budget <- LiveSourceProofs, MCMachines
WsCapture                    WebSocket frames       <- LiveSourceProofs, MCMachines
```

`MCStores` and `MCMachines` put components that share no state into one run:
the initial state chooses a component, and only its actions follow. Every
behaviour of each specification is a behaviour of the run and the other way
round, so a property of a component that holds there holds of the component.

The names of variables and actions are those of the code where TLA+ allows it.
Definitions with an underscore suffix and a comment "Mutant:" are faulty
variants of the definition after them; nothing uses them. `PROJECT.json` pairs
each property with one of them, and with that variant in place TLC finds the
property violated.

**CommittedLog** is the abstract specification: a log that grows at its end by
one height at a time and binds a height to one content.

**CaptureProgress** models the PostgreSQL journal. A write is admitted
(`Admits`) and applied (`Apply`) in one step when the call returns, or it
becomes `pendingTx` when the call times out with its COMMIT under way
(`LoseReply`); the server then commits or rolls it back (`SettleCommitted`,
`SettleRolledBack`). `pendingTx` holds the row lock of the chain, so other
writes wait (`Unlocked`), but plain reads do not. `blockState` is the state
column that `record_acknowledgement` recomputes. `ProgressSpec` lets arbitrary
callers do anything.

**CaptureCoordinator** is `coordinator.rs` with what it calls. Each worker has a
program counter; the steps are the calls that read or write shared state:
`PublishPartition`/`PublishCatalog`/`AppendExisting` (archive, under the writer
lock), `JournalBlock`, `LoadAcknowledgements`, `Publish`, `RecordAck`,
`Advance`, and the three reads of `recover_startup`. Each call also fails:
without effect, with its effect pending, or with a message that arrives late
(`wire`, `LateArrival`). A crash (`CoordinatorCrash`) drops calls, session and
ledger. Two environments: `CoordinatorSpec`, in which the drain offers the next
height with the evidence it is archived under, and `AnyEvidenceSpec`, in which
the evidence may be the other source's.

**CommittedDrain** adds the two sources with their spools (written and synced
heights), the drain with its phases, `attempt_failover`, the failover record,
the recovery supervisor, restarts and power loss, and shows that all of this is
one of the two environments above (`KeepsToCoordinator`, `KeepsToHeights`): the
safety theorems about the coordinator therefore hold of the drain.

**CanonicalSequencer** is `CanonicalSequencer::observe`, one action per case. A
block is its canonical hash and a set of evidence items with locators. `handed`
records the Commit decisions, `reply` the last answer.

**SourceSpool** is a directory of segments and close manifests. An append,
rotation, seal or shutdown is a chain of stages (`PublishManifest`,
`CreateSegment`, `WriteRecord`), each a durable file operation; `Crash` inside a
stage leaves nothing, a part (temporary manifest, file without header, torn
record) or all of it. `Open` inspects, recovers and rebuilds the index of
retained cursors. `ackedRecs` records what was acknowledged.

**AuxiliaryLane** is `run_auxiliary_node_acquisition` on top of it: start with
bind and cleanup, recovery of what the last process left, tailing with log
rotation, quarantine, group commit, archive, checkpoint, prune, acknowledge,
and the ways to stop. `V3` selects the archive format, with a checkpoint of its
own that has to fit the lane's.

**CanonicalArchive** is `append_block` and `compact_range` as their sequences of
file operations (`FileStep`) under the writer lock, with `ArchiveCrash` between
any two, and the readers' verification as predicates over the files. The chain a
reader walks (`Ancestors`) is the smallest set that holds the file and, with a
file, its predecessor.

**RawArchive** is the V3 store: files, index journal, roots, `CURRENT`,
checkpoint, and collection as backup, plan and journaled unlinking, against
readers that load a root and lease it afterwards. A checkpoint document binds a
root and lists a range of its batches; publishing and switching authenticate the
listed entries and no other leaf (`DocFiles`). A plan first makes the lease
files it is going to lock and then collects what is eligible, those included
(`EligibleFiles(rawFiles')`). Opening a lease file and locking it are one step
(`ReaderLease`), two calls in the code. Time moves between operations (`Tick`)
because the commit carries it and retention asks for it. The history variable
`ckMissing` holds the leaves of the checkpoint's root that were gone when the
checkpoint was switched to it.

**StateConsumer** is the JetStream pull consumer with redelivery
(`AckWaitEnds`), block assembly, `apply_next` and the atomic state store with
its renames and syncs. A power loss keeps a prefix of the renames since the last
sync.

**InfoCapture** is `crawl_time_pages` inside `capture_time_pages`, with a venue
that keeps adding records. A page is archived, queued and saved before the crawl
applies it (`SavePending`); when the archive refuses the body it is neither
archived nor queued, when the save fails it is queued in memory only, and in
both cases the crawl goes on with the page and the error waits in `broken`
(`last_error`) for the end of the crawl. **RequestBudget** is `InfoScheduler`
over its two token pools with a clock that can be set back, and two history
variables (`charged`, `ideal`) to compare it with an exact token bucket; a
request may turn out to weigh anything up to `MaxWeight`. **WsCapture** is
`WsCaptureCoordinator`: archive, queue, save, classify, push, commit, drop.

### Abstractions

* One chain. Heights, hashes, plans and evidence are small sets. The archive
  receipt is a function of the height because the partition pointer binds a
  height once; all blocks share one hourly partition.
* An archived block, its plan and its messages are represented by the source
  that vouched for the block: the canonical hash leaves the evidence out
  (`crates/canonical-events/src/block.rs:216`), and the archive, the plan and
  the messages carry it.
* PostgreSQL calls of a process go through one session mutex, so a call is a
  step; between calls anything may happen.
* The duplicate window of JetStream may have passed at any time, so `Store`
  may store a second copy; the stream is a set, so what is modelled is which
  contents it holds and when the first copy entered.
* The drain creates a sequencer per pass and feeds it one contiguous source:
  it commits at once. `CanonicalSequencer` covers the general case.
* Storage errors of reads that are only retried, health reporting, backoff
  delays and notices that only wake the drain are no steps (the drain polls).
  Errors of acquisition that end the task are `Crash`. A latched drain stands
  still until an operator ends the process (`Restart`).
* `recover_pending` and `restore_snapshot_hashes` are called by tests only and
  are left out; snapshot hashes are therefore lost at a restart.
* The spool of CommittedDrain is the native-offset one, reduced to written and
  synced heights; SourceSpool is the byte-offset one of the auxiliary sources.
* A raw batch in AuxiliaryLane is immutable and appending it twice is the same
  as once; RawArchive shows where that is not so (finding 5).
* The line reader of AuxiliaryLane finds the end of the file and the path
  replaced in one step (`FollowRotation`). In the code the end is read first
  (`node_stream.rs:470`) and the path is examined after it (`rotate_if_ready`,
  called at 483): a line written to the old file and rotated away in between is
  skipped while the source is open, and `CapturedInOrder`, which lets an epoch
  end after any line, would not object.
* The archive of WsCapture keeps every body it took, so the arm of
  `fan_out_pending` that drops a queued frame whose body is missing
  (`public_ws.rs:544-546`) has no step.
* Checkpoint documents of the raw archive are of version 2, which the service
  writes.
* Stored contents are what distinguishes them: a manifest is its place in the
  chain, a generation the height of its state, a page the set of its records, a
  frame its subscription and body.
* In the sequencer MaxHeight is `u64::MAX`: there `checked_add` yields no next
  height. Candidates of other chains and lanes are refused without effect.

## 3. Runs

| Run | Instance | Shows |
| --- | --- | --- |
| `coordinator` | 2 heights, 2 workers, 2 sources, an event in the first block, ledger of 2 for 3 messages | under AnyEvidenceSpec: stream order, one content per message id and correct use of the journal, with every failure and crashes at any point and any number of times |
| `drain` | 3 heights, the primary lacks the second, 1 fault | failover, no failback, refinement of CoordinatorSpec, durability order, recovery, and that everything is committed in the end |
| `drain_power_loss` | 2 heights, 2 faults, unsynced data may be lost, one block refused by the mapper | the drain still offers the next height only, so it is AnyEvidenceSpec |
| `stores` | journal: 3 heights, 2 plans; spool: 2 epochs, 2 offsets, 2 bodies, 3 segments; archive: 3 heights in 2 hours, 1 interrupted operation; raw archive: 4 roots of up to 3 batches, rotation after 2 records, 1 reader, 1 plan, 1 interrupted operation | what each store promises, see section 1; the journal implements CommittedLog |
| `machines` | sequencer: 4 heights, buffer 2, window 2, contradictory versions; consumer: 3 blocks, 1 ended session or power loss; crawl: 4 records, pages of 3, 1 fault, 1 crash; budget: 2 jobs, 2 slots, 3 ticks, clock set back once; frames: 3 of 2 subscriptions, fan-out of 1, 1 fault, 1 crash | order, gap, window, buffer and latch of the sequencer; what the other four promise |
| `auxiliary_lane` | V2 archive, 3 lines in up to 3 log generations, groups of 2, 1 fault | nothing lost, skipped or doubled, source acknowledged last, every restart binds, every line archived in the end |
| `power_loss_recovery`, `ledger_exhausted`, `failover_unsynced`, `auxiliary_v3_bind`, `raw_append_retry`, `state_store_orphan` | small variants of the above | violations, see findings |

Bounds. Two heights are enough for everything about a height and its
predecessor, one event for a batch that can be cut between marker and event;
three heights in `drain` put the gap after a committed and before a later
block. Coordinator runs have no bound on failures or crashes: their state is
finite without one. The drain has `MaxFaults`, since each fault restarts the
whole system; one fault reaches every single failure point of a failover, two
are needed for a power loss followed by a failure of recovery. `LedgerCapacity`
lies below the number of messages where refusal is wanted and above it where it
would hide the rest. `GapProbeHeights` is 1 where the code has a longer probe:
the holes of the instances have one height.
The stores and the machines have one interrupted operation each (`MaxEnds`,
`MaxRawEnds`, `MaxSessionEnds`, `MaxInfoCrashes`, `MaxWsCrashes`): every
property is about what one interruption leaves and what is done on top of it;
the spool has no such bound. The constraint of `MCStores` keeps the third raw
batch, which makes an append rotate the index, apart from readers, collection
and interruptions, an interruption apart from readers once there are three
roots, and with four roots, the first that can hold a pack of two batches, an
interruption to states with a plan and a checkpoint document, and documents
apart from readers. A document lists the last batch of its root, which asks for
the fewest files; a longer list has the same effect.
`MaxSegments`, `MaxManifests` and `MaxRoots` end a
behaviour when a directory is full. Two hours and three heights let a
compaction have something to merge beside another partition; pages of three with
four records split a millisecond and need a second page; a protected job that
costs more than the priority pool straddles both pools, and `MaxWeight` lies
above every estimate, so that extra charges and refunds straddle them as well.

Fairness (`drain`, `ledger_exhausted`, `auxiliary_lane`). Weak fairness for each task of the
process (acquisition per source, drain, supervisor): tokio runs every ready
task. For `Settle`: PostgreSQL ends the session of a client that is gone. For
`Restart`: `infra/systemd/hl-service@.service` restarts on failure; the latched
case, which needs an operator, does not occur in the fair runs. Strong fairness
for `ReceiveGap`: `select!` polls the notice channel each time the drain waits,
so a queued notice is not passed over for ever. Faults are bounded and need no
fairness. `FairLaneSpec` has weak fairness for the steps of the lane's task
(`TaskStep`, with the group deadline, which the loop of
`source_runtime.rs:959-970` tests in every turn, and with the start, which
systemd repeats) and for `Close`. Log lines, rotations, stops and crashes are
free. The other runs state safety only.

Deadlock is checked in the coordinator and drain runs: there is always a caller
that can go on. The other instances end when a bound is reached.

## 4. Findings

1. `power_loss_recovery`: `append_block` compares an existing block by its
   canonical hash only and keeps it, `process_block` journals the plan of the
   block it was offered. If power is lost after a block of the primary was
   archived from an unsynced spool record, and the height comes back from the
   independent source, plan and archive differ and every start-up recovery ends
   with a RecoveryMismatch. Without power loss this cannot happen
   (`KeepsToCoordinator` and the theorem NeverRecoveryMismatch).
2. `ledger_exhausted`: the publication ledger of a session never shrinks and a
   full one does not end the session: after `publisher_ledger_capacity`
   messages in one session the drain retries for ever.
3. `failover_unsynced`: the failover probe accepts a record of the independent
   spool that is written but not yet synced, where the runbook requires it to
   be durable.
4. `auxiliary_v3_bind`: with the V3 archive a sealed segment is appended batch by
   batch and the archive's own checkpoint moves at the end. A crash after a batch
   and before that leaves an archive with data and no checkpoint for it, which
   every later start refuses (`load_v3_checkpoint_entries`) before it opens the
   spool: the sealed segment is not archived again, where `docs/DEVELOPMENT.md`
   says that closed segments are archived idempotently before restart completion.
   A crash between the switch of the archive's checkpoint and the publication of
   the lane's own is refused likewise, by `bind_v3`. Both refusals are deliberate
   and tested (`raw_segment_archive.rs:644`, `auxiliary_checkpoint.rs:1006`); that
   a plain crash leaves the refused states is not. With V2 a restart goes on.
5. `raw_append_retry`: the index journal of the raw archive carries the time of
   the attempt. An append interrupted after it extended the journal and before
   `CURRENT` moved is refused by every retry ("divergent uncommitted suffix").
6. `state_store_orphan`: `commit` renames the generation with NOREPLACE before it
   writes `HEAD`. Interrupted between the two, every redelivery of the block
   computes the same name and gets Conflict.

Noticed while modelling, true of the models and stated as exceptions or left
open, without a statement of the repository against them:

* Spool: a temporary manifest or a segment without header, left by a crash, is
  refused by every later open (`Interrupted`). Log rotation while the source is
  closed skips the lines that were not read.
* Canonical archive: a height with two block times is filed twice and no longer
  read (`FiledTwice`). A compaction interrupted before the catalog pointer and
  repeated returns the existing receipt and does not advance the catalog.
* Raw archive: a lease taken while an execution runs, on a lease file made anew,
  does not protect its root, nor is the root of a checkpoint protected that is
  switched after the plan (the exceptions in `LeasedFilesStay` and
  `MaintenanceLoads`). A switch authenticates only the entries its document
  lists, so after an interrupted execution the checkpoint may move to a root of
  which another leaf is unlinked; backup and plan then fail until that file is
  restored or the checkpoint moves on (`ckMissing`, an exception in
  `MaintenanceLoads`). A reader that opened its lease file before an execution
  unlinked it, and locks it after that execution was interrupted, holds a file
  no later execution finds; the model does not contain it.
* hl-core: a block found applied on a `HEAD` that was renamed and never synced
  is acknowledged (`exposed`). A redelivered older block ends the session and
  uses up its deliveries.
* Info capture: a record that arrives late with a millisecond below the cursor
  is dropped; an overlap window with a page full of known records stops the
  crawl as SameMillisecondBurst at every attempt. The budget starts full, so the
  first minute may spend two envelopes (`RateBounded` is the exact bound); a
  clock that jumps forward adds weight; weight that cannot be paid on completion
  is not charged.
* WebSocket capture: a frame whose archive write fails is gone; a failed archive
  read lets newer frames overtake (`readFaults`).

## 5. Proofs

The assumptions are those on the constants, named in the module that declares
them (`ProgressAssumption`, `CoordinatorAssumption`, `SequencerAssumption`, ...):
heights are naturals, limits positive, `NoPlan` and `NoBlock` are no plan and no
block, candidates do not contradict themselves. Bounds are arbitrary naturals, so
a theorem holds for any number of heights, frames, pages, faults and crashes.

* **CaptureCoordinatorProofs**, first part, the journal: type correctness, CursorBacked,
  VersionCountsBlocks, StateColumnAgrees, NothingRewritten and the refinement of
  CommittedLog, for arbitrary callers. The inductive invariant adds that an
  outstanding transaction is still admissible: it was checked before the reply
  was lost and nothing else gets past the lock, which is why it may be applied
  later.
* **CaptureCoordinatorProofs**, the coordinator: two inductive invariants. PublicationInv
  (for AnyEvidenceSpec, any number of workers) says for each program counter
  what the worker knows: from "load" on, its evidence is the journaled one;
  what is in `known` is acknowledged; what precedes the message in hand is
  stored. It gives OneContentPerId and StreamInOrder, and with it the
  coordinator is shown to use the journal as ProgressSpec allows, so that it
  implements CommittedLog. ArchiveInv (for CoordinatorSpec) adds that the
  catalog is never ahead of the partition pointer, that a block in hand has the
  archived evidence and that what is journaled, or about to be, is in the
  catalog. It gives DurableBeforeVisible, NoRecoveryMismatch and
  CommittedIsArchivedAndPublished.
* **CommittedDrainProofs**: three layers on top of PublicationInv. HeightInv is
  about the coordinator under any evidence: the archive is at most one height
  ahead of the cursor and the journal never ahead of the catalog. LaneInv ties
  the drain's phase to the cursor: the backlog is open at the very height the
  journal expects, the catalog has nothing beyond the cursor between two blocks
  (so neither the supervisor's recovery nor a COMMIT that lands late can move it
  there), an append that was cut off between its two pointers is repaired by the
  drain alone, and a gap is the height after the last one of a spool that
  stays as it is. Both hold with power loss and give DrainTypeOK, KeepsToHeights,
  NoFailback and the refinement of CommittedLog. SplitInv adds where each height
  came from: the archive and what the drain offers are the independent source's
  exactly from the failover record on. It needs `~PowerLoss`, a constant of the
  module: a power loss may take from the primary's spool a block that is already
  archived, and the independent source then offers that height again, which is
  finding 1. It gives KeepsToCoordinator, the refinement of
  CoordinatorSpec, and with it the coordinator's theorems for the whole lane;
  FailoverSplitsChain and GapNotBehindCursor.
* **CanonicalStateProofs**, the sequencer: SequencerInv ties `handed`, `retained`,
  `pending` and the gap to the watermark; all its properties
  follow for every range of heights, limit and set of candidates.
* **CanonicalStateProofs**, the state consumer: ConsumerSafe, and that what a power loss would leave
  never goes back. A power loss keeps a prefix of the unsynced renames, and
  several interrupted commits may have left theirs; ConsumerInv says that they
  alternate between a generation and the HEAD that names it, for consecutive
  blocks, so that every prefix is a store that opens; that the block in hand is
  the next one after HEAD; and that what the server counts as acknowledged is
  covered by the synced part.
* **CanonicalArchiveProofs**: ArchiveSafe. FilesInv speaks of every manifest ever
  written, also by an operation that was interrupted, and of every chain from
  one, not only of the current ones: a crashed append leaves files the next one
  has to adopt or step over. WritingInv says for each stage of append_block and
  compact_range which of its files exist.
* **RawArchiveProofs**: RawStoreSafe and LeasedFilesStay. That a receipt stays
  readable depends on what an operation half way through will publish and on what
  an old plan may still unlink. RootsInv says that the leaves of every root tile
  its batches; OpInv, for each step of append_batch and of the packs, that the
  page to publish carries every leaf of CURRENT and that its files are written
  before the root; PlansInv that a plan is either for CURRENT and spares what
  CURRENT, the checkpoint and recent roots need, or for a root CURRENT has left
  for good (generations and prefixes only grow), which an execution refuses;
  LeasesInv that a lease that is held has its file, so an execution, which locks
  the lease files it finds, runs only beside leases on CURRENT or the checkpoint;
  FilesInv that the root of the checkpoint keeps all its leaves if the switch
  found them all, and its root file in any case, unless an older plan lists it.
* **LiveSourceProofs**, the WebSocket capture: WsSafe. A reader sees the fan-out late, so ReaderInv is
  about the items still in it: each DuplicateSnapshot repeats the item before it
  of the same subscription, and the session remembers the last one pushed.
  QueueInv follows a frame through the list in memory and the one on disk, and
  OrderInv says that a queued frame which was overtaken had been pushed before.
* **LiveSourceProofs**, the paged crawl and its budget: InfoSafe. CrawlExact speaks of a crawl that ended; inductive is
  that at every page the collected records are a run of consecutive ones
  beginning with the first from the start on, with the cursor at its end and the
  identities of its last millisecond in `at` (CollectedInv), and that the page in
  hand is an interval of what the venue had listed, cut at the page limit
  (PageInv). CaptureInv says of the checkpoint in memory what StartBehindCapture
  says of the saved one, and of the records collected since as long as no error
  is pending: after a refused archive write the crawl collects records that
  nothing holds, and FinishCrawl then leaves the start where it was. BudgetSafe, for
  every ceiling, split, job list and number of slots: RateBounded is not
  inductive, because a refill adds to the pools with no time passing, so RateInv
  counts what the next refill will add as well; a refund gives back only weight
  that was charged because what all leases hold is covered by `charged`
  (LentInv, with the leases' weights counted one by one in `Units`); and
  CreditInv keeps the exact bucket within its cap, so that a refund the code cuts
  off at the cap is cut off there too.
* **SourceSpoolProofs**: SpoolSafe and ReopensUnlessInterrupted. A record's number
  is not stored with it: every open recomputes it from the manifests, so an
  acknowledged number stays true only if each manifest carries on where the one
  before it ended. SpoolInv(b), for a directory that continues a baseline b, says
  that the manifests chain up by hash and number (ChainInv), that cursors rise
  within and between segments and an epoch that was left does not come back
  (OrderInv), that the last number counts the records (CountInv), that an open
  spool's memory describes its files and what each stage of append, rotation and
  seal has established (MemoryInv), and that every acknowledged record is on disk
  under its number (AckInv). A crash inside a stage is one of the stage's changes
  of the directory with the memory gone, so the lemmas about directory changes
  serve both.
* **AuxiliaryLaneProofs**: LaneTypeOK, NothingLost, SourceAckedAfterCheckpoint,
  CapturedInOrder and RestartSucceeds. The captured stream is kept in two places,
  the archive up to the checkpoint and the spool after it; CapturedIn joins them.
  LaneInv says that there are a baseline b, the checkpoint, and a number e of
  captured records with: SpoolInv(b) for the directory; one record for each number
  up to e, line after line, and the line in hand the next one (LogInv); an archive
  ahead of the checkpoint by batches of the next segment at most (ArchiveInv),
  without which a checkpoint could cover what was never archived; what is sealed,
  archived and pending in each phase of the task (PhaseInv); and a source that
  stands at the last record or at the start of a file (SourceInv), without which
  the order of the lines is not inductive. A step leaves the stream alone, adds one
  record at its end (an append, or a crash inside one), or moves the border between
  the two places (a checkpoint), which renumbers nothing. RestartSucceeds is proved
  for `~V3`, the V2 raw archive; with V3 it does not hold, which is the finding of
  run `auxiliary_v3_bind`.

The inductive invariants were checked by TLC on the instances of the runs, or
larger ones, before they were proved.

Model-checked only: liveness (EverythingCommitted, LinesArchived), which is
outside the prover's reach. Every other property of a passing run is stated by a
theorem.

StateColumnAgrees is proved and no longer part of a run.

## 6. Plan

The committed lane, the journal, the sequencer, the stores, the auxiliary lane
and the capture machines are modelled, and every safety property of a passing run
is proved. What would come next is more of the system, in this order: the V2
import and reclaim of the raw archive, the promotion of V1 checkpoints, the
snapshot-directory source and the timers of the WebSocket session.

Not modelled:

* decoding and encoding (`hl-protocol`, `canonical-events`), the reducers of the
  ledger and the order book, execution simulation, analytics and research:
  computations without steps in between, dominated by decimal arithmetic and
  format detail that small instances do not reach. Facts used from them are what
  the canonical block hash covers and that a state hash is a function of the
  applied blocks;
* HTTP API, OpenAPI documents, dashboards, command line tools: read-only over
  snapshots that are replaced whole;
* timers of the WebSocket session (ping, reconnect), the per-address budget
  windows, subscription planning and provisional matching: wall-clock policy that
  loses no durable state;
* raw archive V2 import and reclaim, receipt hints and physical index packs; the
  promotion of V1 checkpoints; the snapshot-directory source; the block directory
  scan of `node_files.rs` beyond what the drain sees of it;
* historical and EVM adapters: readers of external stores without protocol of
  their own.

These make up most of the repository's lines; the modelled parts are those in
which steps of several actors, failures and restarts decide what is correct.
