--------------------------- MODULE CanonicalSequencer ---------------------------
(***************************************************************************)
(* CanonicalSequencer (sequencer/mod.rs): takes block candidates of several *)
(* sources in any order, holds back what is ahead of a gap, hands out the  *)
(* blocks of the committed lane in order, and latches red for good when    *)
(* two candidates contradict each other.  It is synchronous: an            *)
(* observation is one step.                                                *)
(*                                                                         *)
(* A block is its canonical hash and a set of evidence items.  An item has *)
(* a locator, which contains its source, and a content: the source block   *)
(* hash and the evidence of the events are such items.  BlockCandidate::   *)
(* try_new admits the committed and the provisional lane only, and a       *)
(* candidate of another chain is refused without effect.  Blocks of equal  *)
(* canonical hash have equal events, so a merge cannot fail otherwise.     *)
(***************************************************************************)
EXTENDS Integers, FiniteSets

CONSTANTS
  FirstHeight,   \* first_height of the configuration
  MaxHeight,     \* u64::MAX
  MaxPending,    \* max_pending_blocks
  Retained,      \* retained_committed_blocks
  Hashes,        \* canonical block hashes
  Items,         \* evidence items, [locator |-> ..., content |-> ...]
  Candidates,    \* the candidates the sources may come up with
  NoBlock        \* no entry in a map of blocks

Lanes == {"committed", "provisional"}
BlockHeights == 0..MaxHeight
Blocks == [hash: Hashes, evidence: SUBSET Items]

(* No locator has two contents.                                            *)
ConflictFree(evidence) ==
  \A i, j \in evidence : i.locator = j.locator => i.content = j.content

ASSUME SequencerAssumption ==
  /\ FirstHeight \in Nat
  /\ MaxHeight \in Nat
  /\ FirstHeight <= MaxHeight
  /\ MaxPending \in Nat \ {0}
  /\ Retained \in Nat \ {0}
  /\ Candidates \subseteq [lane: Lanes, height: BlockHeights, hash: Hashes, evidence: SUBSET Items]
  /\ \A c \in Candidates : ConflictFree(c.evidence)
  /\ NoBlock \notin Blocks

VARIABLES
  watermark,        \* watermark[l]: current of lane l, NoHeight before the first
  retained,         \* retained[l][h]: recent blocks kept for comparison
  pending,          \* pending[h]: committed candidates ahead of the watermark
  outstanding_gap,  \* the gap that was requested last and is still open
  red_incident,     \* the divergence that latched the sequencer, or NoIncident
  handed,           \* handed[h]: the block given out by a Commit decision
  reply             \* the answer to the last observation

sequencerVars ==
  <<watermark, retained, pending, outstanding_gap, red_incident, handed, reply>>

NoHeight == -1
NoGap == [start |-> NoHeight, end |-> NoHeight]
NoIncident == [lane |-> "committed", height |-> NoHeight]
NoReply == [kind |-> "none"]

BlockMaps == [BlockHeights -> Blocks \union {NoBlock}]
Gaps == [start: BlockHeights, end: BlockHeights] \union {NoGap}
Kinds == {"accepted", "duplicate", "provisional", "quarantine", "verify",
          "operator", "capacity"}

SequencerTypeOK ==
  /\ watermark \in [Lanes -> BlockHeights \union {NoHeight}]
  /\ retained \in [Lanes -> BlockMaps]
  /\ pending \in BlockMaps
  /\ outstanding_gap \in Gaps
  /\ red_incident \in [lane: Lanes, height: BlockHeights] \union {NoIncident}
  /\ handed \in BlockMaps
  /\ reply \in [kind: Kinds, candidate: Candidates, request: Gaps] \union {NoReply}

-----------------------------------------------------------------------------
BlockOf(c) == [hash |-> c.hash, evidence |-> c.evidence]

(* Past MaxHeight there is no next height; no map has an entry there.      *)
next_committed_height ==
  IF watermark["committed"] = NoHeight THEN FirstHeight ELSE watermark["committed"] + 1

Held(map) == {h \in DOMAIN map : map[h] # NoBlock}

(* Mutant: the contents found at the same locator are not compared.        *)
Agrees_HashOnly(b, c) == b.hash = c.hash

(* compare_and_merge.                                                      *)
Agrees(b, c) == b.hash = c.hash /\ ConflictFree(b.evidence \union c.evidence)

Merged(b, c) == [hash |-> b.hash, evidence |-> b.evidence \union c.evidence]

(* Mutant: one block too few is kept.                                      *)
Newest_OneLess(map) ==
  [h \in BlockHeights |->
     IF Cardinality({g \in Held(map) : g > h}) < Retained - 1 THEN map[h] ELSE NoBlock]

(* Watermark::advance drops the oldest blocks beyond the limit.            *)
Newest(map) ==
  [h \in BlockHeights |->
     IF Cardinality({g \in Held(map) : g > h}) < Retained THEN map[h] ELSE NoBlock]

Lowest(heights) == CHOOSE h \in heights : \A g \in heights : h <= g

(* Mutant: with nothing pending the gap is the next height.                *)
Hole_OpenEnd(next, map) ==
  IF Held(map) # {} THEN [start |-> next, end |-> Lowest(Held(map)) - 1]
  ELSE [start |-> next, end |-> next]

(* Mutant: the gap ends at the pending block.                              *)
Hole_OneMore(next, map) ==
  IF Held(map) # {} /\ Lowest(Held(map)) > next
  THEN [start |-> next, end |-> Lowest(Held(map))] ELSE NoGap

(* refresh_gap: the heights from next up to the first pending one.         *)
Hole(next, map) ==
  IF Held(map) # {} /\ Lowest(Held(map)) > next
  THEN [start |-> next, end |-> Lowest(Held(map)) - 1] ELSE NoGap

Answer(kind, c) == reply' = [kind |-> kind, candidate |-> c, request |-> NoGap]

Unmoved == UNCHANGED <<watermark, pending, outstanding_gap, handed>>

-----------------------------------------------------------------------------
(* observe, case by case.                                                  *)

Latched == red_incident # NoIncident

(* Mutant: a candidate of the committed lane gets past the latch.          *)
Heeded_PastLatch(c) == TRUE

(* The committed lane stands still once the sequencer is red; the          *)
(* provisional lane goes on.                                               *)
Heeded(c) == c.lane = "committed" => ~Latched

Behind(c) ==
  \/ c.height <= watermark[c.lane]
  \/ c.lane = "committed" /\ c.height < FirstHeight

AwaitOperatorResolution(c) ==
  /\ ~Heeded(c)
  /\ Answer("operator", c)
  /\ UNCHANGED <<retained, red_incident>>
  /\ Unmoved

(* observe_retained: below what is kept, the archive has to be asked ...   *)
VerifyHistoricalBlock(c) ==
  /\ Heeded(c)
  /\ Behind(c)
  /\ retained[c.lane][c.height] = NoBlock
  /\ Answer("verify", c)
  /\ UNCHANGED <<retained, red_incident>>
  /\ Unmoved

(* ... a matching block adds its evidence to the one that is kept.         *)
RecordDuplicate(c) ==
  /\ Heeded(c)
  /\ Behind(c)
  /\ retained[c.lane][c.height] # NoBlock
  /\ Agrees(retained[c.lane][c.height], c)
  /\ retained' = [retained EXCEPT ![c.lane][c.height] = Merged(@, c)]
  /\ Answer("duplicate", c)
  /\ UNCHANGED red_incident
  /\ Unmoved

MergePending(c) ==
  /\ c.lane = "committed"
  /\ Heeded(c)
  /\ ~Behind(c)
  /\ pending[c.height] # NoBlock
  /\ Agrees(pending[c.height], c)
  /\ pending' = [pending EXCEPT ![c.height] = Merged(@, c)]
  /\ Answer("duplicate", c)
  /\ UNCHANGED <<watermark, retained, outstanding_gap, red_incident, handed>>

(* The block the candidate is compared with.                               *)
Counterpart(c) ==
  CASE Behind(c) -> retained[c.lane][c.height]
    [] ~Behind(c) /\ c.lane = "committed" -> pending[c.height]
    [] OTHER -> NoBlock

(* latch_divergence keeps the first incident.                              *)
Quarantine(c) ==
  /\ Heeded(c)
  /\ Counterpart(c) # NoBlock
  /\ ~Agrees(Counterpart(c), c)
  /\ red_incident' = IF Latched THEN red_incident ELSE [lane |-> c.lane, height |-> c.height]
  /\ Answer("quarantine", c)
  /\ UNCHANGED retained
  /\ Unmoved

Ahead(c) ==
  /\ c.lane = "committed"
  /\ Heeded(c)
  /\ ~Behind(c)
  /\ pending[c.height] = NoBlock

(* Mutant: a full buffer takes one more.                                   *)
Room_OneMore(c) == Cardinality(Held(pending)) <= MaxPending \/ c.height = next_committed_height

(* A full buffer still takes the block that everything waits for.          *)
Room(c) == Cardinality(Held(pending)) < MaxPending \/ c.height = next_committed_height

PendingCapacityExceeded(c) ==
  /\ Ahead(c)
  /\ ~Room(c)
  /\ Answer("capacity", c)
  /\ UNCHANGED <<retained, red_incident>>
  /\ Unmoved

(* Mutant: everything that is pending is handed out.                       *)
Contiguous_Skips(map, last) ==
  last < MaxHeight => \A h \in last + 1..MaxHeight : map[h] = NoBlock

(* drain_contiguous goes on while the next height is there.                *)
Contiguous(map, last) ==
  /\ \A h \in next_committed_height..last : map[h] # NoBlock
  /\ last < MaxHeight => map[last + 1] = NoBlock

(* A new height: insert, drain_contiguous, refresh_gap.                    *)
Insert(c) ==
  /\ Ahead(c)
  /\ Room(c)
  /\ \E last \in next_committed_height - 1..MaxHeight :
       LET offered == [pending EXCEPT ![c.height] = BlockOf(c)]
           run == next_committed_height..last
           rest == [h \in BlockHeights |-> IF h \in run THEN NoBlock ELSE offered[h]]
           gap == Hole(last + 1, rest)
       IN /\ Contiguous(offered, last)
          /\ pending' = rest
          /\ handed' = [h \in BlockHeights |-> IF h \in run THEN offered[h] ELSE handed[h]]
          /\ watermark' = [watermark EXCEPT !["committed"] = IF run = {} THEN @ ELSE last]
          /\ retained' = [retained EXCEPT !["committed"] =
               Newest([h \in BlockHeights |-> IF h \in run THEN offered[h] ELSE @[h]])]
          /\ outstanding_gap' = gap
          /\ reply' = [kind |-> "accepted", candidate |-> c,
                       request |-> IF gap = outstanding_gap THEN NoGap ELSE gap]
  /\ UNCHANGED red_incident

(* observe_provisional: any height beyond the last one, gaps included.     *)
PublishProvisional(c) ==
  /\ c.lane = "provisional"
  /\ ~Behind(c)
  /\ watermark' = [watermark EXCEPT !["provisional"] = c.height]
  /\ retained' = [retained EXCEPT !["provisional"] =
                    Newest([@ EXCEPT ![c.height] = BlockOf(c)])]
  /\ Answer("provisional", c)
  /\ UNCHANGED <<pending, outstanding_gap, red_incident, handed>>

Observe(c) ==
  \/ AwaitOperatorResolution(c)
  \/ VerifyHistoricalBlock(c)
  \/ RecordDuplicate(c)
  \/ MergePending(c)
  \/ Quarantine(c)
  \/ PendingCapacityExceeded(c)
  \/ Insert(c)
  \/ PublishProvisional(c)

-----------------------------------------------------------------------------
SequencerInit ==
  /\ watermark = [l \in Lanes |-> NoHeight]
  /\ retained = [l \in Lanes |-> [h \in BlockHeights |-> NoBlock]]
  /\ pending = [h \in BlockHeights |-> NoBlock]
  /\ outstanding_gap = NoGap
  /\ red_incident = NoIncident
  /\ handed = [h \in BlockHeights |-> NoBlock]
  /\ reply = NoReply

SequencerNext == \E c \in Candidates : Observe(c)

SequencerSpec == SequencerInit /\ [][SequencerNext]_sequencerVars

-----------------------------------------------------------------------------
(* Properties.                                                             *)

(* A step hands out a run of heights right above the watermark and         *)
(* rewrites nothing it has handed out.                                     *)
ExtendsRun ==
  /\ watermark'["committed"] >= watermark["committed"]
  /\ \A h \in BlockHeights :
       IF h \in next_committed_height..watermark'["committed"]
       THEN handed[h] = NoBlock /\ handed'[h] # NoBlock
       ELSE handed'[h] = handed[h]

(* Commit decisions come for one height after the other from first_height  *)
(* on, once each, in whatever order the sources deliver and however often  *)
(* they repeat (drain_contiguous).                                         *)
HandsOutInOrder == [][ExtendsRun]_sequencerVars

(* The first divergence stops the committed lane for good, whichever lane  *)
(* it is found in: no later observation hands out, holds back or unlatches *)
(* anything (red_incident_id is never cleared).                            *)
RedIsFinal ==
  [][Latched => /\ red_incident' = red_incident
                /\ handed' = handed /\ pending' = pending
                /\ watermark'["committed"] = watermark["committed"]]_sequencerVars

(* No contradiction is merged (compare_and_merge).  What is kept of a      *)
(* block has one content per locator, has the canonical hash that was      *)
(* handed out, and has lost none of the evidence that was handed out.      *)
NothingContradictoryKept ==
  /\ \A h \in Held(pending) : ConflictFree(pending[h].evidence)
  /\ \A l \in Lanes : \A h \in Held(retained[l]) : ConflictFree(retained[l][h].evidence)
  /\ \A h \in Held(retained["committed"]) :
       /\ handed[h] # NoBlock
       /\ retained["committed"][h].hash = handed[h].hash
       /\ handed[h].evidence \subseteq retained["committed"][h].evidence

(* The answers can be relied on (observe_retained).  What is reported as a *)
(* duplicate has been compared and recorded; what is refused to the        *)
(* archive is below first_height or older than the Retained newest blocks; *)
(* what is quarantined has latched the sequencer.                          *)
AnswersTrue ==
  LET c == reply.candidate IN
  /\ reply.kind = "duplicate" =>
       \E b \in {retained[c.lane][c.height], pending[c.height]} \ {NoBlock} :
         b.hash = c.hash /\ c.evidence \subseteq b.evidence
  /\ reply.kind = "verify" /\ c.lane = "committed" =>
       c.height < FirstHeight \/ c.height <= watermark["committed"] - Retained
  /\ reply.kind \in {"quarantine", "operator"} => Latched

(* The open gap is what separates the watermark from what is pending: from *)
(* the next height to below the first pending one, and there is none when  *)
(* nothing is pending.                                                     *)
GapExact ==
  \A h \in BlockHeights :
    (h \in outstanding_gap.start..outstanding_gap.end) <=>
      /\ h >= next_committed_height
      /\ \E g \in Held(pending) : g > h
      /\ \A g \in Held(pending) : g > h

(* The buffer keeps to its limit between observations, although a full one *)
(* takes the missing block, and holds nothing that could be handed out.    *)
BufferBounded ==
  /\ Cardinality(Held(pending)) <= MaxPending
  /\ \A h \in Held(pending) : h > next_committed_height

(* What waits, and for what: whatever order three sources deliver in, the  *)
(* buffer keeps to max_pending_blocks, holds nothing that could go, and    *)
(* the gap is exactly what keeps its first block back.                     *)
BufferExact == GapExact /\ BufferBounded
=============================================================================
