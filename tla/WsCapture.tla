----------------------------- MODULE WsCapture -----------------------------
(***************************************************************************)
(* Capture of one public WebSocket connection (WsCaptureCoordinator over   *)
(* WsSession): a frame is archived, queued in the session checkpoint and   *)
(* only then handed to the fan-out, classified against the last snapshot   *)
(* the fan-out took for its subscription.                                  *)
(*                                                                         *)
(* Abstractions.  A frame is a snapshot of one subscription; its number    *)
(* stands for the request hash.  The archive is content addressed, so it   *)
(* is the set of bodies it holds.  The reader of the fan-out replaces its  *)
(* state on SnapshotReplace and ignores DuplicateSnapshot.  Frames that    *)
(* are not snapshots have no state to lose and are left out; ping, pong    *)
(* and reconnect are left out.                                             *)
(***************************************************************************)
EXTENDS Integers, Sequences, FiniteSets

CONSTANTS
  Subscriptions,    \* subscriptions of the connection
  Snapshots,        \* contents a snapshot may have
  FanoutCapacity,   \* capacity of the fan-out
  MaxFrames,        \* bound: frames received
  MaxWsFaults,      \* bound: failed writes and reads
  MaxWsCrashes      \* bound: crashes

ASSUME WsAssumption ==
  /\ FanoutCapacity \in Nat \ {0}
  /\ {MaxFrames, MaxWsFaults, MaxWsCrashes} \subseteq Nat

NoSnapshot == "none"

VARIABLES
  received,       \* frames the venue has sent, by number
  wsArchive,      \* bodies in the archive
  wsStep,         \* "idle", "archived", "fan", "commit" or "drop"
  wsPending,      \* WsSessionCheckpoint.pending, frame numbers
  wsSaved,        \* the pending list on disk
  work,           \* copy of the list fan_out_pending walks through
  class,          \* class of the frame in hand
  snapshotHash,   \* TrackedSubscription.snapshot_hash
  fanout,         \* frames in the fan-out, with their class
  readerState,    \* the reader's state per subscription
  pushed,         \* frame numbers in the order they were pushed
  owed,           \* frames whose queueing was saved
  readFaults,     \* an archive read has failed
  wsFaults, wsCrashes

sessionMemory == <<wsStep, wsPending, work, class, snapshotHash, fanout>>
wsVars == <<received, wsArchive, sessionMemory, wsSaved, readerState, pushed, owed,
            readFaults, wsFaults, wsCrashes>>

Frames == 1..MaxFrames
FrameBodies == Subscriptions \X Snapshots
Latest == Len(received)

WsTypeOK ==
  /\ received \in Seq(FrameBodies) /\ Latest <= MaxFrames
  /\ wsArchive \subseteq FrameBodies
  /\ wsStep \in {"idle", "archived", "fan", "commit", "drop"}
  /\ wsPending \in Seq(Frames) /\ wsSaved \in Seq(Frames) /\ work \in Seq(Frames)
  /\ class \in {"SnapshotReplace", "DuplicateSnapshot"}
  /\ snapshotHash \in [Subscriptions -> Snapshots \cup {NoSnapshot}]
  /\ readerState \in [Subscriptions -> Snapshots \cup {NoSnapshot}]
  /\ Len(fanout) <= FanoutCapacity
  /\ pushed \in Seq(Frames) /\ owed \subseteq Frames

WsInit ==
  /\ received = <<>> /\ wsArchive = {}
  /\ wsStep = "idle" /\ wsPending = <<>> /\ wsSaved = <<>> /\ work = <<>>
  /\ class = "SnapshotReplace"
  /\ snapshotHash = [s \in Subscriptions |-> NoSnapshot]
  /\ readerState = [s \in Subscriptions |-> NoSnapshot]
  /\ fanout = <<>> /\ pushed = <<>> /\ owed = {}
  /\ readFaults = FALSE /\ wsFaults = 0 /\ wsCrashes = 0

WsFault == wsFaults < MaxWsFaults /\ wsFaults' = wsFaults + 1

-----------------------------------------------------------------------------
(* ingest: a frame arrives and its body goes into the archive; when that   *)
(* fails the frame is gone.                                                *)
IngestFrame ==
  /\ wsStep = "idle" /\ Latest < MaxFrames
  /\ \E b \in FrameBodies :
       /\ received' = Append(received, b)
       /\ \/ wsArchive' = wsArchive \cup {b} /\ wsStep' = "archived" /\ UNCHANGED wsFaults
          \/ WsFault /\ UNCHANGED <<wsArchive, wsStep>>
  /\ UNCHANGED <<wsPending, work, class, snapshotHash, fanout, wsSaved, readerState,
                 pushed, owed, readFaults, wsCrashes>>

(* The frame is queued and the checkpoint saved; a failed save returns the *)
(* error and leaves the frame queued in memory.                            *)
QueueFrame ==
  /\ wsStep = "archived"
  /\ wsPending' = Append(wsPending, Latest)
  /\ \/ /\ wsSaved' = wsPending' /\ wsStep' = "fan" /\ work' = wsPending'
        /\ owed' = owed \cup {wsPending'[i] : i \in 1..Len(wsPending')}
        /\ UNCHANGED wsFaults
     \/ WsFault /\ wsStep' = "idle" /\ UNCHANGED <<wsSaved, work, owed>>
  /\ UNCHANGED <<received, wsArchive, class, snapshotHash, fanout, readerState, pushed,
                 readFaults, wsCrashes>>

(* replay_pending: the fan-out starts over with what is queued.            *)
ReplayFrames ==
  /\ wsStep = "idle" /\ wsPending # <<>>
  /\ wsStep' = "fan" /\ work' = wsPending
  /\ UNCHANGED <<received, wsArchive, wsPending, class, snapshotHash, fanout, wsSaved,
                 readerState, pushed, owed, readFaults, wsFaults, wsCrashes>>

(* classify_inbound: a snapshot equal to the one the session remembers.    *)
Classify(s, body) ==
  IF snapshotHash[s] = body THEN "DuplicateSnapshot" ELSE "SnapshotReplace"

(* Mutant: the snapshot is remembered when it is observed, whether or not  *)
(* the fan-out takes it.                                                   *)
PushFrame_CommitFirst ==
  /\ wsStep = "fan" /\ work # <<>>
  /\ LET s == received[Head(work)][1]
         body == received[Head(work)][2]
         kind == Classify(s, body)
     IN /\ class' = kind
        /\ snapshotHash' = [snapshotHash EXCEPT ![s] = body]
        /\ \/ /\ Len(fanout) < FanoutCapacity
              /\ fanout' = Append(fanout, <<Head(work), kind>>)
              /\ pushed' = Append(pushed, Head(work)) /\ wsStep' = "commit"
              /\ UNCHANGED work
           \/ /\ Len(fanout) >= FanoutCapacity
              /\ wsStep' = "idle" /\ work' = <<>> /\ UNCHANGED <<fanout, pushed>>
  /\ UNCHANGED <<received, wsArchive, wsPending, wsSaved, readerState, owed, readFaults,
                 wsFaults, wsCrashes>>

(* One frame of fan_out_pending: read back, observed and pushed.  A full   *)
(* fan-out ends the walk.                                                  *)
PushFrame ==
  /\ wsStep = "fan" /\ work # <<>>
  /\ LET s == received[Head(work)][1]
         body == received[Head(work)][2]
         kind == Classify(s, body)
     IN /\ class' = kind
        /\ \/ /\ Len(fanout) < FanoutCapacity
              /\ fanout' = Append(fanout, <<Head(work), kind>>)
              /\ pushed' = Append(pushed, Head(work)) /\ wsStep' = "commit"
              /\ UNCHANGED work
           \/ /\ Len(fanout) >= FanoutCapacity
              /\ wsStep' = "idle" /\ work' = <<>> /\ UNCHANGED <<fanout, pushed>>
  /\ UNCHANGED <<received, wsArchive, wsPending, snapshotHash, wsSaved, readerState, owed,
                 readFaults, wsFaults, wsCrashes>>

(* The archive cannot be read: the frame stays queued and the walk goes    *)
(* on with the next one.  A frame whose body the archive does not have is  *)
(* dropped from the queue without a push; that arm is left out, because    *)
(* the archive of this module keeps every body it took.                    *)
SkipFrame ==
  /\ wsStep = "fan" /\ work # <<>> /\ WsFault
  /\ work' = Tail(work) /\ readFaults' = TRUE
  /\ UNCHANGED <<received, wsArchive, wsStep, wsPending, class, snapshotHash, fanout,
                 wsSaved, readerState, pushed, owed, wsCrashes>>

(* commit_applied: the session remembers the snapshot the fan-out took.    *)
CommitApplied ==
  /\ wsStep = "commit"
  /\ snapshotHash' = [snapshotHash EXCEPT ![received[Head(work)][1]] = received[Head(work)][2]]
  /\ wsStep' = "drop"
  /\ UNCHANGED <<received, wsArchive, wsPending, work, class, fanout, wsSaved, readerState,
                 pushed, owed, readFaults, wsFaults, wsCrashes>>

(* The list without frame n, which is in it at most once.                  *)
Without(list, n) ==
  IF \E i \in 1..Len(list) : list[i] = n
  THEN LET i == CHOOSE i \in 1..Len(list) : list[i] = n
       IN SubSeq(list, 1, i - 1) \o SubSeq(list, i + 1, Len(list))
  ELSE list

(* drop_pending and its save; a failed save returns the error.             *)
DropFrame ==
  /\ wsStep = "drop"
  /\ wsPending' = Without(wsPending, Head(work))
  /\ \/ /\ wsSaved' = wsPending' /\ wsStep' = "fan" /\ work' = Tail(work)
        /\ owed' = owed \cup {wsPending'[i] : i \in 1..Len(wsPending')}
        /\ UNCHANGED wsFaults
     \/ WsFault /\ wsStep' = "idle" /\ work' = <<>> /\ UNCHANGED <<wsSaved, owed>>
  /\ UNCHANGED <<received, wsArchive, class, snapshotHash, fanout, readerState, pushed,
                 readFaults, wsCrashes>>

FanOutDone ==
  /\ wsStep = "fan" /\ work = <<>>
  /\ wsStep' = "idle"
  /\ UNCHANGED <<received, wsArchive, wsPending, work, class, snapshotHash, fanout, wsSaved,
                 readerState, pushed, owed, readFaults, wsFaults, wsCrashes>>

(* The reader takes the oldest item of the fan-out.                        *)
ReaderTakes ==
  /\ fanout # <<>>
  /\ fanout' = Tail(fanout)
  /\ LET frame == received[fanout[1][1]]
     IN readerState' = IF fanout[1][2] = "SnapshotReplace"
                       THEN [readerState EXCEPT ![frame[1]] = frame[2]] ELSE readerState
  /\ UNCHANGED <<received, wsArchive, wsStep, wsPending, work, class, snapshotHash, wsSaved,
                 pushed, owed, readFaults, wsFaults, wsCrashes>>

(* The process ends and takes the fan-out and its reader with it; the next *)
(* one starts from the checkpoint on disk.                                 *)
WsCrash ==
  /\ wsCrashes < MaxWsCrashes /\ wsCrashes' = wsCrashes + 1
  /\ wsStep' = "idle" /\ work' = <<>> /\ class' = "SnapshotReplace" /\ fanout' = <<>>
  /\ snapshotHash' = [s \in Subscriptions |-> NoSnapshot]
  /\ readerState' = [s \in Subscriptions |-> NoSnapshot]
  /\ wsPending' = wsSaved
  /\ UNCHANGED <<received, wsArchive, wsSaved, pushed, owed, readFaults, wsFaults>>

WsNext ==
  \/ IngestFrame \/ QueueFrame \/ ReplayFrames \/ PushFrame \/ SkipFrame
  \/ CommitApplied \/ DropFrame \/ FanOutDone \/ ReaderTakes \/ WsCrash

WsSpec == WsInit /\ [][WsNext]_wsVars

-----------------------------------------------------------------------------
Pushed(n) == \E i \in 1..Len(pushed) : pushed[i] = n

(* A frame whose queueing was saved is pushed, or queued on disk and so    *)
(* queued again after a crash at any step (persist before fan_out_pending, *)
(* drop_pending only after push); its body is in the archive.              *)
SavedFramesKept ==
  \A n \in owed :
    /\ received[n] \in wsArchive
    /\ Pushed(n) \/ \E i \in 1..Len(wsSaved) : wsSaved[i] = n

(* Once the fan-out is drained the reader holds, per subscription, the     *)
(* snapshot pushed last in this process: a frame called DuplicateSnapshot  *)
(* repeats what the reader has.  A full fan-out, which refuses a frame     *)
(* that was classified already, does not break this.                       *)
ReaderFollows ==
  fanout = <<>> /\ wsStep # "commit" =>
    \A s \in Subscriptions : snapshotHash[s] = readerState[s]

(* Unless reading the archive failed, frames are pushed for the first time *)
(* in the order they arrived.                                              *)
FirstPushInOrder ==
  ~readFaults => \A i, j \in 1..Len(pushed) :
    i < j /\ pushed[j] < pushed[i] => \E k \in 1..i : pushed[k] = pushed[j]

(* No saved frame is lost between archive and fan-out, frames go out in    *)
(* order, and the reader can trust the class a frame is pushed with.       *)
WsSafe == WsTypeOK /\ SavedFramesKept /\ ReaderFollows /\ FirstPushInOrder
=============================================================================
