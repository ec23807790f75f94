----------------------------- MODULE CommittedDrain -----------------------------
(***************************************************************************)
(* The committed lane of hl-capture (source_runtime.rs): two node sources  *)
(* are copied, each by its own task, from the block directory of a node    *)
(* into a spool; one drain task reads the spool of the active source and   *)
(* hands every block to the coordinator; the recovery supervisor (app.rs)  *)
(* recovers at start-up next to it.  A height the primary node no longer   *)
(* has is taken from the independent source, from then on for good, after  *)
(* the decision is on disk (failover.rs).                                  *)
(*                                                                         *)
(* Both sources start at FirstHeight and agree on the canonical hash of a  *)
(* height; what a node has is fixed, except after a power loss.  Health    *)
(* reporting, backoff delays and the notices that only wake the drain are  *)
(* left out: the drain polls.  A storage error of a read that is simply    *)
(* tried again changes nothing and is no step.                             *)
(***************************************************************************)
EXTENDS CaptureCoordinator

CONSTANTS
  Primary, Independent,   \* the two committed sources, members of Plans
  Supervisor,             \* the recovery supervisor, a member of Workers
  Missing,                \* Missing[s]: heights the node of s does not have
  Unmappable,             \* Unmappable[s]: heights whose record is refused
  GapProbeHeights,        \* GAP_PROBE_HEIGHTS
  MaxFaults,              \* bound: failures of services and crashes
  PowerLoss               \* a crash may take what is not yet synced to disk

ASSUME DrainAssumption ==
  /\ Plans = {Primary, Independent}
  /\ Primary # Independent
  /\ Workers = {Drain, Supervisor}
  /\ Drain # Supervisor
  /\ Missing \in [Plans -> SUBSET Heights]
  /\ Unmappable \in [Plans -> SUBSET Heights]
  /\ GapProbeHeights \in Nat
  /\ MaxFaults \in Nat
  /\ PowerLoss \in BOOLEAN

VARIABLES
  written,       \* written[s]: last height of the spool of s that can be read
  durable,       \* durable[s]: last height of the spool of s that is synced
  parked,        \* parked[s]: the source reported a gap and waits for the end
  lost,          \* heights a power loss took from the directory of the primary
  gapNotice,     \* the VisibleGap of the primary in the channel, or NoHeight
  primary_gap,   \* the gap the drain knows of, or NoHeight
  failover,      \* the height of the failover record on disk, or NoHeight
  active_role,   \* the source the drain reads
  expected,      \* expected_offset of the open backlog
  phase,         \* where the drain is
  supervision,   \* where the recovery supervisor is
  faults         \* failures so far

sourceVars == <<written, durable, parked, lost>>
drainVars == <<gapNotice, primary_gap, failover, active_role, expected, phase>>
drainRuntimeVars == <<sourceVars, drainVars, supervision>>
vars == <<coordinatorVars, drainRuntimeVars, faults>>

NoHeight == FirstHeight - 1
SpoolHeights == FirstHeight - 1..LastHeight

Phases == {"init", "recover", "open", "read", "commit", "caught_up", "probe",
           "switch", "wait", "latched", "stopped"}

DrainTypeOK ==
  /\ CoordinatorTypeOK
  /\ written \in [Plans -> SpoolHeights]
  /\ durable \in [Plans -> SpoolHeights]
  /\ parked \in [Plans -> BOOLEAN]
  /\ lost \subseteq Heights
  /\ gapNotice \in SpoolHeights
  /\ primary_gap \in SpoolHeights
  /\ failover \in SpoolHeights
  /\ active_role \in Plans
  /\ expected \in SpoolHeights \union {LastHeight + 1}
  /\ phase \in Phases
  /\ supervision \in {"init", "recover", "done"}
  /\ faults \in 0..MaxFaults

-----------------------------------------------------------------------------
(* Acquisition: the node directory, the spool, the gap.                    *)

Visible(s, h) ==
  /\ h \in Heights \ Missing[s]
  /\ s = Primary => h \notin lost

(* The height that comes after the last durable one.                       *)
Acquiring(s) == ~parked[s] /\ written[s] = durable[s]

(* SegmentWriter::append writes the record ...                             *)
SpoolWrite(s) ==
  /\ Acquiring(s)
  /\ Visible(s, durable[s] + 1)
  /\ written' = [written EXCEPT ![s] = @ + 1]
  /\ UNCHANGED <<coordinatorVars, durable, parked, lost, drainVars, supervision, faults>>

(* ... and syncs it before the source is told that it is durable.          *)
SpoolSync(s) ==
  /\ written[s] # durable[s]
  /\ durable' = [durable EXCEPT ![s] = written[s]]
  /\ UNCHANGED <<coordinatorVars, written, parked, lost, drainVars, supervision, faults>>

(* Mutant: the last durable height is reported instead of the next.        *)
VisibleGap_OffByOne(s) ==
  /\ Acquiring(s)
  /\ ~Visible(s, durable[s] + 1)
  /\ \E delta \in 1..GapProbeHeights : Visible(s, durable[s] + 1 + delta)
  /\ parked' = [parked EXCEPT ![s] = TRUE]
  /\ gapNotice' = IF s = Primary THEN durable[s] ELSE gapNotice
  /\ UNCHANGED <<coordinatorVars, written, durable, lost, primary_gap, failover,
                 active_role, expected, phase, supervision, faults>>

(* Mutant: the notice is dropped, as a Durable notice may be.              *)
VisibleGap_Dropped(s) ==
  /\ Acquiring(s)
  /\ ~Visible(s, durable[s] + 1)
  /\ \E delta \in 1..GapProbeHeights : Visible(s, durable[s] + 1 + delta)
  /\ parked' = [parked EXCEPT ![s] = TRUE]
  /\ UNCHANGED <<coordinatorVars, written, durable, lost, drainVars, supervision, faults>>

(* find_next_block: the height is not there but a later one is.  The       *)
(* source sends VisibleGap and stays parked until the process ends.  The   *)
(* notice of the independent source changes nothing but the health.        *)
VisibleGap(s) ==
  /\ Acquiring(s)
  /\ ~Visible(s, durable[s] + 1)
  /\ \E delta \in 1..GapProbeHeights : Visible(s, durable[s] + 1 + delta)
  /\ parked' = [parked EXCEPT ![s] = TRUE]
  /\ gapNotice' = IF s = Primary THEN durable[s] + 1 ELSE gapNotice
  /\ UNCHANGED <<coordinatorVars, written, durable, lost, primary_gap, failover,
                 active_role, expected, phase, supervision, faults>>

-----------------------------------------------------------------------------
(* The drain.                                                              *)

Phase(p) == phase' = p /\ UNCHANGED <<gapNotice, primary_gap, failover, active_role, expected>>

(* drain_backlog_once: initialize_chain, then recover_startup.             *)
DrainInitialize ==
  /\ phase = "init"
  /\ ~initialized
  /\ CallInitialize(Drain)
  /\ UNCHANGED <<drainRuntimeVars, faults>>

DrainRecover ==
  /\ phase = "init"
  /\ CallRecover(Drain)
  /\ Phase("recover")
  /\ UNCHANGED <<sourceVars, supervision, faults>>

(* Mutant: the backlog is opened where it was left, or at its start.       *)
DrainOpen_Stale ==
  /\ phase = "open"
  /\ phase' = "read"
  /\ UNCHANGED <<coordinatorVars, sourceVars, gapNotice, primary_gap, failover,
                 active_role, expected, supervision, faults>>

(* The backlog is opened at the height the journal expects.                *)
DrainOpen ==
  /\ phase = "open"
  /\ expected' = next_expected_height
  /\ phase' = "read"
  /\ UNCHANGED <<coordinatorVars, sourceVars, gapNotice, primary_gap, failover,
                 active_role, supervision, faults>>

(* Mutant: a phase nothing leaves.                                         *)
DrainCaughtUp_Undefined ==
  /\ phase = "read"
  /\ expected > written[active_role]
  /\ Phase("idle")
  /\ UNCHANGED <<coordinatorVars, sourceVars, supervision, faults>>

(* next_observation and process_spooled.  The spool is contiguous, so the  *)
(* fresh sequencer of this pass commits the record at once.                *)
DrainObservation ==
  /\ phase = "read"
  /\ expected <= written[active_role]
  /\ expected \notin Unmappable[active_role]
  /\ Take(Drain, "append", expected, active_role, FALSE)
  /\ Phase("commit")
  /\ UNCHANGED <<progressVars, archiveVars, busVars, sourceVars, supervision, faults>>

(* PipelineError::Mapping, SourceParse: latched until the process ends.    *)
DrainLatches ==
  /\ phase = "read"
  /\ expected <= written[active_role]
  /\ expected \in Unmappable[active_role]
  /\ Phase("latched")
  /\ UNCHANGED <<coordinatorVars, sourceVars, supervision, faults>>

DrainCaughtUp ==
  /\ phase = "read"
  /\ expected > written[active_role]
  /\ Phase("caught_up")
  /\ UNCHANGED <<coordinatorVars, sourceVars, supervision, faults>>

(* The coordinator returns to the drain.                                   *)
DrainReply ==
  /\ phase \in {"recover", "commit"}
  /\ pc[Drain] = "caller"
  /\ TakeReply(Drain)
  /\ \/ reply[Drain] = "recovered" /\ Phase("open")
     \/ /\ reply[Drain] = "committed"      \* acknowledge the backlog record
        /\ expected' = expected + 1
        /\ phase' = "read"
        /\ UNCHANGED <<gapNotice, primary_gap, failover, active_role>>
     \/ reply[Drain] = "retryable" /\ Phase("init")
     \/ reply[Drain] \in {"archive", "mismatch"} /\ Phase("stopped")
  /\ UNCHANGED <<sourceVars, supervision, faults>>

-----------------------------------------------------------------------------
(* attempt_failover.                                                       *)

FailoverDue == phase = "caught_up" /\ active_role = Primary /\ primary_gap # NoHeight

(* The journal expects the very height of the gap: probe the other spool.  *)
FailoverCheck ==
  /\ FailoverDue
  /\ next_expected_height = primary_gap
  /\ Phase("probe")
  /\ UNCHANGED <<coordinatorVars, sourceVars, supervision, faults>>

(* Mutant: the role changes without a record on disk.                      *)
FailoverRecord_Volatile ==
  /\ phase = "probe"
  /\ primary_gap <= written[Independent]
  /\ Phase("switch")
  /\ UNCHANGED <<coordinatorVars, sourceVars, supervision, faults>>

(* The height is in the spool of the independent source: the decision is   *)
(* written once, and synced ...                                            *)
FailoverRecord ==
  /\ phase = "probe"
  /\ primary_gap <= written[Independent]
  /\ failover' = primary_gap
  /\ phase' = "switch"
  /\ UNCHANGED <<coordinatorVars, sourceVars, gapNotice, primary_gap, active_role,
                 expected, supervision, faults>>

(* ... before the role changes.                                            *)
FailoverSwitch ==
  /\ phase = "switch"
  /\ active_role' = Independent
  /\ phase' = "init"
  /\ UNCHANGED <<coordinatorVars, sourceVars, gapNotice, primary_gap, failover,
                 expected, supervision, faults>>

(* The gap is behind the cursor: InvalidConfig.                            *)
FailoverFatal ==
  /\ FailoverDue
  /\ next_expected_height > primary_gap
  /\ Phase("stopped")
  /\ UNCHANGED <<coordinatorVars, sourceVars, supervision, faults>>

(* The independent source does not have the height yet.                    *)
FailoverUnavailable ==
  /\ phase = "probe"
  /\ primary_gap > written[Independent]
  /\ Phase("wait")
  /\ UNCHANGED <<coordinatorVars, sourceVars, supervision, faults>>

(* No gap, or one that the drain has not reached.                          *)
DrainWaits ==
  /\ phase = "caught_up"
  /\ FailoverDue => next_expected_height < primary_gap
  /\ Phase("wait")
  /\ UNCHANGED <<coordinatorVars, sourceVars, supervision, faults>>

(* select!: the notice of the primary, or the poll delay.                  *)
ReceiveGap ==
  /\ phase = "wait"
  /\ gapNotice # NoHeight
  /\ primary_gap' = gapNotice
  /\ gapNotice' = NoHeight
  /\ phase' = "init"
  /\ UNCHANGED <<coordinatorVars, sourceVars, failover, active_role, expected,
                 supervision, faults>>

Poll ==
  /\ phase = "wait"
  /\ Phase("init")
  /\ UNCHANGED <<coordinatorVars, sourceVars, supervision, faults>>

-----------------------------------------------------------------------------
(* The recovery supervisor: recover until it succeeds once.                *)

SupervisorInitialize ==
  /\ supervision = "init"
  /\ ~initialized
  /\ CallInitialize(Supervisor)
  /\ UNCHANGED <<drainRuntimeVars, faults>>

SupervisorRecover ==
  /\ supervision = "init"
  /\ CallRecover(Supervisor)
  /\ supervision' = "recover"
  /\ UNCHANGED <<sourceVars, drainVars, faults>>

SupervisorReply ==
  /\ supervision = "recover"
  /\ TakeReply(Supervisor)
  /\ \/ reply[Supervisor] = "recovered" /\ supervision' = "done" /\ UNCHANGED drainVars
     \/ reply[Supervisor] = "retryable" /\ supervision' = "init" /\ UNCHANGED drainVars
     \/ reply[Supervisor] \in {"archive", "mismatch"} /\ supervision' = "done" /\ Phase("stopped")
  /\ UNCHANGED <<sourceVars, faults>>

-----------------------------------------------------------------------------
(* The end of the process and the next one.                                *)

(* Mutant: the failover record is not loaded.                              *)
Restarted_Primary ==
  /\ CoordinatorCrash
  /\ parked' = [s \in Plans |-> FALSE]
  /\ gapNotice' = NoHeight
  /\ primary_gap' = NoHeight
  /\ active_role' = Primary
  /\ expected' = FirstHeight
  /\ phase' = "init"
  /\ supervision' = "init"
  /\ UNCHANGED failover

(* A task that returns an error ends the process, the other tasks soon     *)
(* after it, and systemd starts it again.  The role comes from the         *)
(* failover record; the spools are sealed as they are found.  A latched    *)
(* drain stands still until an operator ends the process.                  *)
Restarted ==
  /\ CoordinatorCrash
  /\ parked' = [s \in Plans |-> FALSE]
  /\ gapNotice' = NoHeight
  /\ primary_gap' = NoHeight
  /\ active_role' = IF failover # NoHeight THEN Independent ELSE Primary
  /\ expected' = FirstHeight
  /\ phase' = "init"
  /\ supervision' = "init"
  /\ UNCHANGED failover

Restart ==
  /\ phase \in {"stopped", "latched"}
  /\ Restarted
  /\ durable' = written
  /\ UNCHANGED <<written, lost, faults>>

Fault == faults < MaxFaults /\ faults' = faults + 1

Crash ==
  /\ Fault
  /\ Restarted
  /\ durable' = written
  /\ UNCHANGED <<written, lost>>

(* The host loses power: spool records that are not synced are gone, and   *)
(* so may be block files of the node that its spool does not have.         *)
HostCrash ==
  /\ PowerLoss
  /\ Fault
  /\ Restarted
  /\ written' = durable
  /\ \E files \in SUBSET {h \in Heights : h > durable[Primary]} : lost' = lost \union files
  /\ UNCHANGED durable

-----------------------------------------------------------------------------
DrainInit ==
  /\ CoordinatorInit
  /\ written = [s \in Plans |-> NoHeight]
  /\ durable = [s \in Plans |-> NoHeight]
  /\ parked = [s \in Plans |-> FALSE]
  /\ lost = {}
  /\ gapNotice = NoHeight
  /\ primary_gap = NoHeight
  /\ failover = NoHeight
  /\ active_role = Primary
  /\ expected = FirstHeight
  /\ phase = "init"
  /\ supervision = "init"
  /\ faults = 0

(* A step of the coordinator for one of its callers.                       *)
WorkerStep(w) == CoordinatorStep(w) /\ UNCHANGED <<drainRuntimeVars, faults>>

ServiceFails(w) ==
  /\ Fault
  /\ CoordinatorFault(w)
  /\ UNCHANGED drainRuntimeVars

DrainStep ==
  \/ DrainInitialize \/ DrainRecover \/ DrainOpen \/ DrainObservation
  \/ DrainLatches \/ DrainCaughtUp \/ DrainReply
  \/ FailoverCheck \/ FailoverRecord \/ FailoverUnavailable
  \/ FailoverSwitch \/ FailoverFatal
  \/ DrainWaits \/ Poll \/ ReceiveGap \/ WorkerStep(Drain)

SupervisorStep ==
  \/ SupervisorInitialize \/ SupervisorRecover \/ SupervisorReply
  \/ WorkerStep(Supervisor)

Settle == SettleTransaction /\ UNCHANGED <<drainRuntimeVars, faults>>
Arrive == LateArrival /\ UNCHANGED <<drainRuntimeVars, faults>>

DrainNext ==
  \/ \E s \in Plans : SpoolWrite(s) \/ SpoolSync(s) \/ VisibleGap(s)
  \/ DrainStep
  \/ SupervisorStep
  \/ \E w \in Workers : ServiceFails(w)
  \/ Settle
  \/ Arrive
  \/ Restart
  \/ Crash
  \/ HostCrash

DrainSpec == DrainInit /\ [][DrainNext]_vars

(* Every task keeps running, PostgreSQL settles what was sent to it and    *)
(* systemd restarts the service.  A queued notice is received in the end:  *)
(* select! polls the channel every time the drain waits.                   *)
DrainFairness ==
  /\ \A s \in Plans : /\ WF_vars(SpoolWrite(s))
                      /\ WF_vars(SpoolSync(s))
                      /\ WF_vars(VisibleGap(s))
  /\ WF_vars(DrainStep)
  /\ SF_vars(ReceiveGap)
  /\ WF_vars(SupervisorStep)
  /\ WF_vars(Settle)
  /\ WF_vars(Restart)

FairDrainSpec == DrainSpec /\ DrainFairness

-----------------------------------------------------------------------------
(* Properties.                                                             *)

(* The failover record splits the chain: below its height every block that *)
(* was ever journaled has the evidence of the primary, from its height on  *)
(* that of the independent source, whatever was in progress when the       *)
(* record was written and wherever the process was cut off.                *)
FailoverSplitsChain ==
  \A h \in Heights : journal[h] # NoPlan =>
    (journal[h] = Independent <=> failover # NoHeight /\ h >= failover)

(* attempt_failover never finds the cursor beyond the gap: the drain does  *)
(* not get past a height the primary does not have on its own.             *)
GapNotBehindCursor ==
  active_role = Primary /\ primary_gap # NoHeight => next_expected_height <= primary_gap

(* The decision is final: it is written once, and there is no way back to  *)
(* the primary, not even through a restart.                                *)
NoFailback ==
  [][/\ failover # NoHeight => failover' = failover
     /\ active_role = Independent => active_role' = Independent]_vars

(* The drain, with its sources, roles and restarts, is a caller as the     *)
(* coordinator expects it: it offers the next height, and never with other *)
(* evidence than the height is archived under.                             *)
KeepsToCoordinator == CoordinatorSpec

(* When a power loss takes unsynced spool records and node files, the      *)
(* drain still offers the next height only, though perhaps with the other  *)
(* source as evidence.                                                     *)
KeepsToHeights == AnyEvidenceSpec

(* Whatever fails on the way, every height is committed in the end.        *)
EverythingCommitted == <>(cursor = LastHeight)

(* The failover height is durable in the independent spool before the      *)
(* primary is abandoned (docs/runbooks/committed-gap.md).                  *)
FailoverHeightDurable == failover # NoHeight => failover <= durable[Independent]
=============================================================================
