------------------------ MODULE CanonicalStateProofs ------------------------
(***************************************************************************)
(* Proofs about the two ends of the canonical path: the sequencer that     *)
(* hands blocks to the committed lane, for every range of heights, buffer  *)
(* limit, window and set of candidates, and the state service that         *)
(* consumes them, for every stream of blocks, whatever is delivered again, *)
(* however often the session ends or the power is lost.                    *)
(*                                                                         *)
(* SequencerInv is inductive.  It ties the three maps to the watermark:    *)
(* what was handed out is exactly first_height up to the watermark, what   *)
(* is kept extends what was handed out, and everything pending is beyond   *)
(* the next height, with the gap in between.                               *)
(*                                                                         *)
(* ConsumerSafe is not inductive: that a power loss leaves a HEAD whose    *)
(* generation is there depends on the order of the renames that are not    *)
(* synced yet, possibly of several interrupted commits.  StoreInv says     *)
(* what they look like: a generation and the HEAD that names it in turn,   *)
(* for consecutive blocks that end at HEAD, so what a power loss keeps is  *)
(* again of that form.  SessionInv adds where the commit in hand is.       *)
(***************************************************************************)
EXTENDS CanonicalSequencer, StateConsumer, FiniteSetTheorems, FunctionTheorems, SequenceTheorems,
        WellFoundedInduction, TLAPS

-----------------------------------------------------------------------------
(* The sequencer.                                                          *)

HandedToWatermark ==
  /\ watermark["committed"] # NoHeight => watermark["committed"] >= FirstHeight
  /\ \A h \in BlockHeights :
       (handed[h] # NoBlock) <=> (h \in FirstHeight..watermark["committed"])

PendingBeyondNext == \A h \in BlockHeights : pending[h] # NoBlock => h > next_committed_height

GapUpToDate == outstanding_gap = Hole(next_committed_height, pending)

WindowKept ==
  \A h \in BlockHeights :
    (retained["committed"][h] # NoBlock) <=>
      (handed[h] # NoBlock /\ h > watermark["committed"] - Retained)

SequencerInv ==
  /\ SequencerTypeOK
  /\ HandedToWatermark
  /\ NothingContradictoryKept
  /\ WindowKept
  /\ PendingBeyondNext
  /\ GapUpToDate

-----------------------------------------------------------------------------
(* A nonempty set of heights has a lowest element, which Lowest picks.     *)
LEMMA LowestExists ==
  ASSUME NEW H, H \subseteq Nat, H # {}
  PROVE  Lowest(H) \in H /\ \A g \in H : Lowest(H) <= g
<1> DEFINE LessThan == {ss \in Nat \X Nat : ss[1] < ss[2]}
<1>1. OpToRel(<, Nat) = LessThan
  BY Zenon DEF OpToRel
<1>2. \E x \in H : \A y \in H : ~(<<y, x>> \in LessThan)
  BY <1>1, NatLessThanWellFounded, WFMin
<1>3. PICK x \in H : \A y \in H : <<y, x>> \notin LessThan
  BY <1>2
<1>4. ASSUME NEW y \in H PROVE x <= y
  <2>1. x \in Nat /\ y \in Nat
    OBVIOUS
  <2>2. y < x => <<y, x>> \in LessThan
    BY <2>1
  <2>3. ~(y < x)
    BY <1>3, <2>2
  <2> HIDE DEF LessThan
  <2> QED
    BY <2>1, <2>3
<1>5. \E h \in H : \A g \in H : h <= g
  BY <1>4
<1> HIDE DEF LessThan
<1> QED
  BY <1>5 DEF Lowest

(* What a map of blocks holds is a finite set of heights.                  *)
LEMMA HeldFacts ==
  ASSUME NEW map \in BlockMaps
  PROVE  /\ Held(map) = {h \in BlockHeights : map[h] # NoBlock}
         /\ Held(map) \subseteq Nat
         /\ IsFiniteSet(Held(map))
<1>1. Held(map) = {h \in BlockHeights : map[h] # NoBlock}
  BY DEF Held, BlockMaps
<1>2. IsFiniteSet(BlockHeights) /\ BlockHeights \subseteq Nat
  BY FS_Interval, SequencerAssumption DEF BlockHeights
<1> QED
  BY <1>1, <1>2, FS_Subset

(* A gap that refresh_gap finds lies within the heights.                   *)
LEMMA HoleType ==
  ASSUME NEW map \in BlockMaps, NEW next \in Nat
  PROVE  Hole(next, map) \in Gaps
<1>1. CASE Held(map) # {} /\ Lowest(Held(map)) > next
  <2>1. Lowest(Held(map)) \in BlockHeights
    BY <1>1, HeldFacts, LowestExists
  <2>2. next \in BlockHeights /\ Lowest(Held(map)) - 1 \in BlockHeights
    BY <1>1, <2>1, SequencerAssumption DEF BlockHeights
  <2> QED
    BY <1>1, <2>2 DEF Hole, Gaps
<1>2. CASE ~(Held(map) # {} /\ Lowest(Held(map)) > next)
  BY <1>2 DEF Hole, Gaps
<1> QED
  BY <1>1, <1>2

(* Heights beyond the last one are never entered: next is a natural number *)
LEMMA NextType ==
  ASSUME SequencerTypeOK
  PROVE  /\ next_committed_height \in Nat
         /\ watermark["committed"] \in Int /\ watermark["provisional"] \in Int
         /\ next_committed_height - 1 >= watermark["committed"]
<1>1. watermark["committed"] \in 0..MaxHeight \union {-1} /\ watermark["provisional"] \in 0..MaxHeight \union {-1}
  BY DEF SequencerTypeOK, BlockHeights, NoHeight, Lanes
<1> QED
  BY <1>1, SequencerAssumption DEF next_committed_height, NoHeight

(* Evidence that agrees is merged into a block without a contradiction.    *)
LEMMA MergedBlock ==
  ASSUME NEW b \in Blocks, NEW c \in Candidates, Agrees(b, c)
  PROVE  /\ Merged(b, c) \in Blocks
         /\ Merged(b, c) # NoBlock
         /\ Merged(b, c).hash = b.hash
         /\ b.evidence \subseteq Merged(b, c).evidence
         /\ ConflictFree(Merged(b, c).evidence)
<1>1. Merged(b, c) \in Blocks
  BY SequencerAssumption DEF Merged, Blocks
<1> QED
  BY <1>1, SequencerAssumption DEF Merged, Agrees

(* The block a candidate brings.                                           *)
LEMMA CandidateBlock ==
  ASSUME NEW c \in Candidates
  PROVE  /\ c.lane \in Lanes
         /\ c.height \in BlockHeights
         /\ BlockOf(c) \in Blocks
         /\ BlockOf(c) # NoBlock
         /\ ConflictFree(BlockOf(c).evidence)
<1>1. c \in [lane: Lanes, height: BlockHeights, hash: Hashes, evidence: SUBSET Items]
  BY SequencerAssumption
<1>2. BlockOf(c) \in Blocks
  BY <1>1 DEF BlockOf, Blocks
<1>3. BlockOf(c).evidence = c.evidence
  BY DEF BlockOf
<1> QED
  BY <1>1, <1>2, <1>3, SequencerAssumption

(* Newest keeps some of the blocks of a map and adds none.                 *)
LEMMA NewestType ==
  ASSUME NEW map \in BlockMaps
  PROVE  /\ Newest(map) \in BlockMaps
         /\ \A h \in BlockHeights : Newest(map)[h] \in {map[h], NoBlock}
BY DEF Newest, BlockMaps

-----------------------------------------------------------------------------
(* An empty sequencer satisfies the invariant.                             *)
LEMMA SequencerInvInit == SequencerInit => SequencerInv
<1> SUFFICES ASSUME SequencerInit PROVE SequencerInv
  OBVIOUS
<1>1. SequencerTypeOK
  BY SequencerAssumption DEF SequencerInit, SequencerTypeOK, BlockMaps, Gaps, BlockHeights
<1>2. HandedToWatermark
  BY SequencerAssumption DEF SequencerInit, HandedToWatermark, Lanes, NoHeight, BlockHeights
<1>3. Held(pending) = {}
  BY DEF SequencerInit, Held
<1>4. NothingContradictoryKept
  BY <1>3 DEF SequencerInit, NothingContradictoryKept, Held, Lanes
<1>7. WindowKept
  BY DEF SequencerInit, WindowKept, Lanes
<1>5. PendingBeyondNext
  BY DEF SequencerInit, PendingBeyondNext
<1>6. GapUpToDate
  BY <1>3 DEF SequencerInit, GapUpToDate, Hole
<1> QED
  BY <1>1, <1>2, <1>4, <1>5, <1>6, <1>7 DEF SequencerInv

-----------------------------------------------------------------------------
(* The steps that leave watermark, pending, gap and handed alone.          *)
LEMMA UnmovedKeeps ==
  ASSUME SequencerInv, Unmoved
  PROVE  HandedToWatermark' /\ PendingBeyondNext' /\ GapUpToDate'
BY DEF SequencerInv, Unmoved, HandedToWatermark, PendingBeyondNext, GapUpToDate,
       next_committed_height, Hole, Held

(* The type of an answer.                                                  *)
LEMMA AnswerType ==
  ASSUME NEW c \in Candidates, NEW k \in Kinds, Answer(k, c)
  PROVE  reply' \in [kind: Kinds, candidate: Candidates, request: Gaps] \union {NoReply}
BY DEF Answer, Gaps

(* A refusal changes nothing but the answer.                               *)
LEMMA RefusalKeeps ==
  ASSUME SequencerInv, NEW c \in Candidates, NEW k \in Kinds, Answer(k, c),
         UNCHANGED <<retained, red_incident>>, Unmoved
  PROVE  SequencerInv'
<1>1. SequencerTypeOK'
  BY AnswerType DEF SequencerInv, SequencerTypeOK, Unmoved
<1>2. NothingContradictoryKept'
  BY DEF SequencerInv, NothingContradictoryKept, Unmoved, Held
<1>3. WindowKept'
  BY DEF SequencerInv, WindowKept, Unmoved
<1> QED
  BY <1>1, <1>2, <1>3, UnmovedKeeps DEF SequencerInv

(* A duplicate of a block handed out adds its evidence to it.              *)
LEMMA RecordDuplicateKeeps ==
  ASSUME SequencerInv, NEW c \in Candidates, RecordDuplicate(c)
  PROVE  SequencerInv'
<1> DEFINE old == retained[c.lane][c.height]
<1>1. retained \in [Lanes -> BlockMaps] /\ c.lane \in Lanes /\ c.height \in BlockHeights
  BY CandidateBlock DEF SequencerInv, SequencerTypeOK
<1>2. old \in Blocks /\ Agrees(old, c)
  BY <1>1 DEF RecordDuplicate, BlockMaps
<1>3. retained' = [retained EXCEPT ![c.lane] = [retained[c.lane] EXCEPT ![c.height] = Merged(old, c)]]
  BY <1>1 DEF RecordDuplicate
<1>4. /\ Merged(old, c) \in Blocks
      /\ Merged(old, c) # NoBlock
      /\ Merged(old, c).hash = old.hash
      /\ old.evidence \subseteq Merged(old, c).evidence
      /\ ConflictFree(Merged(old, c).evidence)
  BY <1>2, MergedBlock
<1> HIDE DEF old
<1>5. retained' \in [Lanes -> BlockMaps]
  BY <1>1, <1>3, <1>4 DEF BlockMaps
<1>6. SequencerTypeOK'
  <2>1. Unmoved /\ UNCHANGED red_incident /\ Answer("duplicate", c)
    BY DEF RecordDuplicate
  <2>2. reply' \in [kind: Kinds, candidate: Candidates, request: Gaps] \union {NoReply}
    BY <2>1, AnswerType DEF Kinds
  <2> QED
    BY <1>5, <2>1, <2>2 DEF SequencerInv, SequencerTypeOK, Unmoved
<1>7. \A l \in Lanes, h \in BlockHeights :
        \/ retained'[l][h] = retained[l][h] /\ ~(l = c.lane /\ h = c.height)
        \/ l = c.lane /\ h = c.height /\ retained'[l][h] = Merged(old, c)
  BY <1>1, <1>3 DEF BlockMaps
<1>8. \A l \in Lanes : Held(retained'[l]) = Held(retained[l])
  <2>1. old # NoBlock
    BY <1>2, SequencerAssumption
  <2> SUFFICES ASSUME NEW l \in Lanes PROVE Held(retained'[l]) = Held(retained[l])
    OBVIOUS
  <2>2. retained[l] \in BlockMaps /\ retained'[l] \in BlockMaps
    BY <1>1, <1>5
  <2>3. \A h \in BlockHeights : (retained'[l][h] # NoBlock) <=> (retained[l][h] # NoBlock)
    BY <1>4, <1>7, <2>1 DEF old
  <2>4. Held(retained[l]) = {h \in BlockHeights : retained[l][h] # NoBlock}
    BY <2>2, HeldFacts
  <2>5. Held(retained'[l]) = {h \in BlockHeights : retained'[l][h] # NoBlock}
    BY <2>2, HeldFacts
  <2> QED
    BY <2>3, <2>4, <2>5
<1>9. NothingContradictoryKept'
  <2>1. UNCHANGED <<pending, handed>>
    BY DEF RecordDuplicate, Unmoved
  <2>2. \A h \in Held(pending') : ConflictFree(pending'[h].evidence)
    BY <2>1 DEF SequencerInv, NothingContradictoryKept
  <2>3. \A l \in Lanes : \A h \in Held(retained'[l]) : ConflictFree(retained'[l][h].evidence)
    <3> SUFFICES ASSUME NEW l \in Lanes, NEW h \in Held(retained'[l])
                 PROVE  ConflictFree(retained'[l][h].evidence)
      OBVIOUS
    <3>1. h \in Held(retained[l]) /\ h \in BlockHeights
      BY <1>1, <1>8, HeldFacts
    <3>2. ConflictFree(retained[l][h].evidence)
      BY <3>1 DEF SequencerInv, NothingContradictoryKept
    <3> QED
      BY <1>4, <1>7, <3>1, <3>2
  <2>4. ASSUME NEW h \in Held(retained'["committed"])
        PROVE  /\ handed'[h] # NoBlock
               /\ retained'["committed"][h].hash = handed'[h].hash
               /\ handed'[h].evidence \subseteq retained'["committed"][h].evidence
    <3>1. h \in Held(retained["committed"]) /\ h \in BlockHeights /\ "committed" \in Lanes
      BY <1>1, <1>8, <2>4, HeldFacts DEF Lanes
    <3>2. /\ handed[h] # NoBlock
          /\ retained["committed"][h].hash = handed[h].hash
          /\ handed[h].evidence \subseteq retained["committed"][h].evidence
      BY <3>1 DEF SequencerInv, NothingContradictoryKept
    <3>3. CASE "committed" = c.lane /\ h = c.height
      <4>1. retained'["committed"][h] = Merged(old, c) /\ retained["committed"][h] = old
        BY <1>7, <3>1, <3>3 DEF old
      <4> QED
        BY <1>4, <2>1, <3>2, <4>1
    <3>4. CASE ~("committed" = c.lane /\ h = c.height)
      BY <1>7, <2>1, <3>1, <3>2, <3>4
    <3> QED
      BY <3>3, <3>4
  <2> QED
    BY <2>2, <2>3, <2>4 DEF NothingContradictoryKept
<1>10. WindowKept'
  <2>1. \A h \in BlockHeights : (retained'["committed"][h] # NoBlock) <=> (retained["committed"][h] # NoBlock)
    BY <1>1, <1>5, <1>8, HeldFacts DEF Lanes
  <2>2. UNCHANGED <<watermark, handed>>
    BY DEF RecordDuplicate, Unmoved
  <2> QED
    BY <2>1, <2>2 DEF SequencerInv, WindowKept
<1> QED
  BY <1>6, <1>9, <1>10, UnmovedKeeps DEF RecordDuplicate, SequencerInv

(* A duplicate of a buffered block adds its evidence to it.                *)
LEMMA MergePendingKeeps ==
  ASSUME SequencerInv, NEW c \in Candidates, MergePending(c)
  PROVE  SequencerInv'
<1> DEFINE old == pending[c.height]
<1>1. pending \in BlockMaps /\ c.height \in BlockHeights
  BY CandidateBlock DEF SequencerInv, SequencerTypeOK
<1>2. old \in Blocks /\ Agrees(old, c) /\ old # NoBlock
  BY <1>1 DEF MergePending, BlockMaps
<1>3. pending' = [pending EXCEPT ![c.height] = Merged(old, c)]
  BY <1>1 DEF MergePending, BlockMaps
<1>4. /\ Merged(old, c) \in Blocks
      /\ Merged(old, c) # NoBlock
      /\ ConflictFree(Merged(old, c).evidence)
  BY <1>2, MergedBlock
<1>5. pending' \in BlockMaps
  BY <1>1, <1>3, <1>4 DEF BlockMaps
<1>6. \A h \in BlockHeights : pending'[h] = IF h = c.height THEN Merged(old, c) ELSE pending[h]
  BY <1>1, <1>3 DEF BlockMaps
<1>7. Held(pending') = Held(pending)
  <2>1. Held(pending) = {h \in BlockHeights : pending[h] # NoBlock}
    BY <1>1, HeldFacts
  <2>2. Held(pending') = {h \in BlockHeights : pending'[h] # NoBlock}
    BY <1>5, HeldFacts
  <2> QED
    BY <1>2, <1>4, <1>6, <2>1, <2>2
<1> HIDE DEF old
<1>8. UNCHANGED <<watermark, retained, outstanding_gap, red_incident, handed>>
  BY DEF MergePending
<1>9. SequencerTypeOK'
  <2>1. reply' \in [kind: Kinds, candidate: Candidates, request: Gaps] \union {NoReply}
    BY AnswerType DEF Kinds, MergePending
  <2> QED
    BY <1>5, <1>8, <2>1 DEF SequencerInv, SequencerTypeOK
<1>10. NothingContradictoryKept'
  <2>1. ASSUME NEW h \in Held(pending') PROVE ConflictFree(pending'[h].evidence)
    <3>1. h \in Held(pending) /\ h \in BlockHeights
      BY <1>1, <1>7, HeldFacts
    <3>2. ConflictFree(pending[h].evidence)
      BY <3>1 DEF SequencerInv, NothingContradictoryKept
    <3> QED
      BY <1>4, <1>6, <3>1, <3>2
  <2> QED
    BY <1>8, <2>1 DEF SequencerInv, NothingContradictoryKept, Held
<1>11. PendingBeyondNext'
  <2>1. next_committed_height' = next_committed_height
    BY <1>8 DEF next_committed_height
  <2>2. \A h \in BlockHeights : pending'[h] # NoBlock => pending[h] # NoBlock
    BY <1>2, <1>6 DEF old
  <2> QED
    BY <2>1, <2>2 DEF SequencerInv, PendingBeyondNext
<1>12. HandedToWatermark' /\ WindowKept' /\ GapUpToDate'
  BY <1>7, <1>8 DEF SequencerInv, HandedToWatermark, WindowKept, GapUpToDate,
                    Hole, next_committed_height
<1> QED
  BY <1>9, <1>10, <1>11, <1>12 DEF SequencerInv

(* A contradiction raises the incident and moves nothing.                  *)
LEMMA QuarantineKeeps ==
  ASSUME SequencerInv, NEW c \in Candidates, Quarantine(c)
  PROVE  SequencerInv'
<1>1. red_incident' \in [lane: Lanes, height: BlockHeights] \union {NoIncident}
  BY CandidateBlock DEF Quarantine, SequencerInv, SequencerTypeOK
<1>2. reply' \in [kind: Kinds, candidate: Candidates, request: Gaps] \union {NoReply}
  BY AnswerType DEF Kinds, Quarantine
<1>3. Unmoved /\ UNCHANGED retained
  BY DEF Quarantine
<1>4. SequencerTypeOK'
  BY <1>1, <1>2, <1>3 DEF SequencerInv, SequencerTypeOK, Unmoved
<1>5. NothingContradictoryKept' /\ WindowKept'
  BY <1>3 DEF SequencerInv, NothingContradictoryKept, WindowKept, Unmoved, Held
<1> QED
  BY <1>3, <1>4, <1>5, UnmovedKeeps DEF SequencerInv

(* A provisional block is handed out at once.                              *)
LEMMA PublishProvisionalKeeps ==
  ASSUME SequencerInv, NEW c \in Candidates, PublishProvisional(c)
  PROVE  SequencerInv'
<1> DEFINE map == [retained["provisional"] EXCEPT ![c.height] = BlockOf(c)]
<1>1. /\ c.height \in BlockHeights
      /\ BlockOf(c) \in Blocks
      /\ ConflictFree(BlockOf(c).evidence)
  BY CandidateBlock
<1>2. /\ retained \in [Lanes -> BlockMaps]
      /\ watermark \in [Lanes -> BlockHeights \union {NoHeight}]
      /\ "provisional" \in Lanes /\ "committed" \in Lanes
  BY DEF SequencerInv, SequencerTypeOK, Lanes
<1>3. map \in BlockMaps
  BY <1>1, <1>2 DEF BlockMaps
<1>4. retained' = [retained EXCEPT !["provisional"] = Newest(map)]
  BY <1>2 DEF PublishProvisional
<1>5. \A h \in BlockHeights : map[h] = IF h = c.height THEN BlockOf(c) ELSE retained["provisional"][h]
  BY <1>1, <1>2 DEF BlockMaps
<1> HIDE DEF map
<1>6. Newest(map) \in BlockMaps /\ \A h \in BlockHeights : Newest(map)[h] \in {map[h], NoBlock}
  BY <1>3, NewestType
<1>7. /\ retained' \in [Lanes -> BlockMaps]
      /\ retained'["committed"] = retained["committed"]
      /\ retained'["provisional"] = Newest(map)
  BY <1>2, <1>4, <1>6
<1>8. /\ watermark' \in [Lanes -> BlockHeights \union {NoHeight}]
      /\ watermark'["committed"] = watermark["committed"]
  BY <1>1, <1>2 DEF PublishProvisional
<1>9. UNCHANGED <<pending, outstanding_gap, red_incident, handed>>
  BY DEF PublishProvisional
<1>10. SequencerTypeOK'
  <2>1. reply' \in [kind: Kinds, candidate: Candidates, request: Gaps] \union {NoReply}
    BY AnswerType DEF Kinds, PublishProvisional
  <2> QED
    BY <1>7, <1>8, <1>9, <2>1 DEF SequencerInv, SequencerTypeOK
<1>11. NothingContradictoryKept'
  <2>1. ASSUME NEW h \in Held(retained'["provisional"])
        PROVE  ConflictFree(retained'["provisional"][h].evidence)
    <3>1. h \in BlockHeights /\ Newest(map)[h] # NoBlock
      BY <1>6, <1>7, <2>1, HeldFacts
    <3>2. Newest(map)[h] = map[h]
      BY <1>6, <3>1
    <3>3. CASE h = c.height
      BY <1>1, <1>5, <1>7, <3>1, <3>2, <3>3
    <3>4. CASE h # c.height
      <4>1. Newest(map)[h] = retained["provisional"][h]
        BY <1>5, <3>1, <3>2, <3>4
      <4>2. h \in Held(retained["provisional"])
        BY <1>2, <3>1, <4>1, HeldFacts
      <4> QED
        BY <1>2, <1>7, <4>1, <4>2 DEF SequencerInv, NothingContradictoryKept
    <3> QED
      BY <3>3, <3>4
  <2> QED
    BY <1>7, <1>9, <2>1 DEF SequencerInv, NothingContradictoryKept, Lanes, Held
<1>12. HandedToWatermark' /\ WindowKept' /\ PendingBeyondNext' /\ GapUpToDate'
  BY <1>7, <1>8, <1>9 DEF SequencerInv, HandedToWatermark, WindowKept, PendingBeyondNext,
                          GapUpToDate, next_committed_height, Hole, Held
<1> QED
  BY <1>10, <1>11, <1>12 DEF SequencerInv

-----------------------------------------------------------------------------
(* What Insert does, with the last height of the run that it hands out.    *)
InsertEffect(c, last, offered) ==
  LET run == next_committed_height..last IN
  /\ \A h \in BlockHeights :
       offered[h] = IF h = c.height THEN BlockOf(c) ELSE pending[h]
  /\ \A h \in run : offered[h] # NoBlock
  /\ last < MaxHeight => offered[last + 1] = NoBlock
  /\ \A h \in BlockHeights : pending'[h] = IF h \in run THEN NoBlock ELSE offered[h]
  /\ \A h \in BlockHeights : handed'[h] = IF h \in run THEN offered[h] ELSE handed[h]
  /\ watermark'["committed"] = IF last < next_committed_height THEN watermark["committed"] ELSE last
  /\ retained'["committed"] =
       Newest([h \in BlockHeights |-> IF h \in run THEN offered[h] ELSE retained["committed"][h]])
  /\ retained'["provisional"] = retained["provisional"]
  /\ next_committed_height' = last + 1
  /\ outstanding_gap' = Hole(last + 1, pending')

(* insert buffers the block and hands out the run it completes.            *)
LEMMA InsertHasEffect ==
  ASSUME SequencerInv, NEW c \in Candidates, Insert(c)
  PROVE  /\ \E last \in next_committed_height - 1..MaxHeight, offered \in BlockMaps :
              InsertEffect(c, last, offered)
         /\ SequencerTypeOK'
         /\ UNCHANGED red_incident
<1> DEFINE next == next_committed_height
<1> DEFINE offered == [pending EXCEPT ![c.height] = BlockOf(c)]
<1> DEFINE run(last) == next..last
<1> DEFINE rest(last) == [h \in BlockHeights |-> IF h \in run(last) THEN NoBlock ELSE offered[h]]
<1> DEFINE map(last) ==
      [h \in BlockHeights |-> IF h \in run(last) THEN offered[h] ELSE retained["committed"][h]]
<1>1. /\ c.height \in BlockHeights
      /\ BlockOf(c) \in Blocks
  BY CandidateBlock
<1>2. /\ retained \in [Lanes -> BlockMaps]
      /\ watermark \in [Lanes -> BlockHeights \union {NoHeight}]
      /\ pending \in BlockMaps
      /\ handed \in BlockMaps
      /\ "provisional" \in Lanes /\ "committed" \in Lanes
  BY DEF SequencerInv, SequencerTypeOK, Lanes
<1>3. offered \in BlockMaps
  BY <1>1, <1>2 DEF BlockMaps
<1>4. next \in Nat /\ MaxHeight \in Nat
  BY NextType, SequencerAssumption DEF SequencerInv
<1>5. PICK last \in next - 1..MaxHeight :
        /\ Contiguous(offered, last)
        /\ pending' = rest(last)
        /\ handed' = [h \in BlockHeights |-> IF h \in run(last) THEN offered[h] ELSE handed[h]]
        /\ watermark' = [watermark EXCEPT !["committed"] = IF run(last) = {} THEN @ ELSE last]
        /\ retained' = [retained EXCEPT !["committed"] = Newest(map(last))]
        /\ outstanding_gap' = Hole(last + 1, rest(last))
        /\ reply' = [kind |-> "accepted", candidate |-> c,
                     request |-> IF Hole(last + 1, rest(last)) = outstanding_gap
                                 THEN NoGap ELSE Hole(last + 1, rest(last))]
  BY <1>2 DEF Insert
<1>6. last \in Int /\ last >= next - 1 /\ last <= MaxHeight /\ last + 1 \in Nat
  BY <1>4
<1>7. run(last) = {} <=> last < next
  BY <1>4, <1>6
<1>8. rest(last) \in BlockMaps /\ map(last) \in BlockMaps
  BY <1>2, <1>3 DEF BlockMaps
<1>9. last >= next => last \in BlockHeights
  BY <1>4, <1>6 DEF BlockHeights
<1>10. /\ watermark' \in [Lanes -> BlockHeights \union {NoHeight}]
       /\ watermark'["committed"] = IF last < next THEN watermark["committed"] ELSE last
  BY <1>2, <1>5, <1>6, <1>7, <1>9, <1>4
<1>11. /\ retained' \in [Lanes -> BlockMaps]
       /\ retained'["committed"] = Newest(map(last))
       /\ retained'["provisional"] = retained["provisional"]
  <2>1. Newest(map(last)) \in BlockMaps
    BY <1>8, NewestType
  <2> QED
    BY <1>2, <1>5, <2>1
<1>12. next_committed_height' = last + 1
  <2>1. next_committed_height' = IF watermark'["committed"] = NoHeight THEN FirstHeight
                                 ELSE watermark'["committed"] + 1
    BY DEF next_committed_height
  <2>2. CASE last < next
    <3>1. watermark'["committed"] = watermark["committed"]
      BY <1>10, <2>2
    <3>2. next_committed_height' = next
      BY <2>1, <3>1 DEF next_committed_height
    <3> QED
      BY <1>4, <1>6, <2>2, <3>2
  <2>3. CASE ~(last < next)
    <3>1. watermark'["committed"] = last /\ last # NoHeight
      BY <1>4, <1>6, <1>10, <2>3 DEF NoHeight
    <3> QED
      BY <2>1, <3>1
  <2> QED
    BY <2>2, <2>3
<1>13. Hole(last + 1, rest(last)) \in Gaps
  BY <1>6, <1>8, HoleType
<1>14. UNCHANGED red_incident
  BY DEF Insert
<1>15. SequencerTypeOK'
  <2>1. handed' \in BlockMaps
    BY <1>2, <1>3, <1>5 DEF BlockMaps
  <2>2. reply' \in [kind: Kinds, candidate: Candidates, request: Gaps] \union {NoReply}
    BY <1>5, <1>13 DEF Kinds, Gaps
  <2> QED
    BY <1>5, <1>8, <1>10, <1>11, <1>13, <1>14, <2>1, <2>2 DEF SequencerInv, SequencerTypeOK
<1>16. InsertEffect(c, last, offered)
  <2>1. \A h \in BlockHeights : offered[h] = IF h = c.height THEN BlockOf(c) ELSE pending[h]
    BY <1>1, <1>2 DEF BlockMaps
  <2>2. /\ \A h \in run(last) : offered[h] # NoBlock
        /\ last < MaxHeight => offered[last + 1] = NoBlock
    BY <1>5 DEF Contiguous
  <2>3. /\ \A h \in BlockHeights : pending'[h] = IF h \in run(last) THEN NoBlock ELSE offered[h]
        /\ \A h \in BlockHeights : handed'[h] = IF h \in run(last) THEN offered[h] ELSE handed[h]
        /\ outstanding_gap' = Hole(last + 1, pending')
    BY <1>5
  <2> HIDE DEF offered
  <2> QED
    BY <1>10, <1>11, <1>12, <2>1, <2>2, <2>3 DEF InsertEffect
<1> HIDE DEF offered
<1> QED
  BY <1>3, <1>5, <1>14, <1>15, <1>16

(* A candidate that is not behind is at the next height or beyond.         *)
LEMMA AheadIsBeyond ==
  ASSUME SequencerInv, NEW c \in Candidates, Insert(c)
  PROVE  c.height >= next_committed_height
<1>1. c.height \in Nat /\ ~(c.height <= watermark["committed"]) /\ ~(c.height < FirstHeight)
  BY CandidateBlock, SequencerAssumption DEF Insert, Ahead, Behind, BlockHeights
<1>2. watermark["committed"] \in Int
  BY NextType DEF SequencerInv
<1> QED
  BY <1>1, <1>2, SequencerAssumption DEF next_committed_height

(* Of a run of heights from first to last, the Retained newest are kept.   *)
LEMMA NewestOfRun ==
  ASSUME NEW map \in BlockMaps, NEW low \in Int, NEW last \in BlockHeights \union {NoHeight},
         \A h \in BlockHeights : (map[h] # NoBlock) <=> (h \in FirstHeight..last /\ h > low)
  PROVE  \A h \in BlockHeights :
           (Newest(map)[h] # NoBlock) <=> (map[h] # NoBlock /\ h > last - Retained)
<1> SUFFICES ASSUME NEW h \in BlockHeights
             PROVE  (Newest(map)[h] # NoBlock) <=> (map[h] # NoBlock /\ h > last - Retained)
  OBVIOUS
<1> DEFINE later == {g \in Held(map) : g > h}
<1>1. Newest(map)[h] = IF Cardinality(later) < Retained THEN map[h] ELSE NoBlock
  BY DEF Newest
<1>2. CASE map[h] = NoBlock
  BY <1>1, <1>2
<1>3. CASE map[h] # NoBlock
  <2>1. h \in Nat /\ last \in Int /\ FirstHeight \in Nat /\ Retained \in Nat /\ MaxHeight \in Nat
    BY SequencerAssumption DEF BlockHeights, NoHeight
  <2>2. h \in FirstHeight..last /\ h > low
    BY <1>3
  <2>3. Held(map) = {g \in BlockHeights : map[g] # NoBlock}
    BY HeldFacts
  <2>4. last \in 0..MaxHeight
    BY <2>1, <2>2 DEF BlockHeights, NoHeight
  <2>5. later = h + 1..last
    <3>1. ASSUME NEW g \in later PROVE g \in h + 1..last
      <4>1. g \in BlockHeights /\ map[g] # NoBlock /\ g > h
        BY <2>3, <3>1
      <4>2. g \in FirstHeight..last
        BY <4>1
      <4> QED
        BY <2>1, <4>1, <4>2 DEF BlockHeights
    <3>2. ASSUME NEW g \in h + 1..last PROVE g \in later
      <4>1. g \in BlockHeights /\ g \in FirstHeight..last /\ g > low /\ g > h
        BY <2>1, <2>2, <2>4, <3>2 DEF BlockHeights
      <4>2. map[g] # NoBlock
        BY <4>1
      <4> QED
        BY <2>3, <4>1, <4>2
    <3> QED
      BY <3>1, <3>2
  <2>6. Cardinality(h + 1..last) = IF h + 1 > last THEN 0 ELSE last - (h + 1) + 1
    BY <2>1, FS_Interval
  <2> HIDE DEF later
  <2>7. Cardinality(later) = last - h
    BY <2>1, <2>2, <2>5, <2>6
  <2> QED
    BY <1>1, <1>3, <2>1, <2>7
<1> QED
  BY <1>2, <1>3

(* insert keeps the invariant.                                             *)
LEMMA InsertKeeps ==
  ASSUME SequencerInv, NEW c \in Candidates, Insert(c)
  PROVE  SequencerInv'
<1> DEFINE next == next_committed_height
<1>1. PICK last \in next - 1..MaxHeight, offered \in BlockMaps : InsertEffect(c, last, offered)
  BY InsertHasEffect
<1>2. SequencerTypeOK'
  BY InsertHasEffect
<1> DEFINE run == next..last
<1> DEFINE map == [h \in BlockHeights |-> IF h \in run THEN offered[h] ELSE retained["committed"][h]]
<1>3. /\ next \in Nat /\ MaxHeight \in Nat /\ FirstHeight \in Nat /\ Retained \in Nat
      /\ watermark["committed"] \in Int /\ next - 1 >= watermark["committed"]
      /\ last \in Int /\ last >= next - 1 /\ last <= MaxHeight
  BY NextType, SequencerAssumption DEF SequencerInv
<1>4. c.height \in BlockHeights /\ c.height >= next /\ BlockOf(c) # NoBlock
  BY AheadIsBeyond, CandidateBlock
<1>5. \A h \in BlockHeights : offered[h] # NoBlock => h >= next
  <2> SUFFICES ASSUME NEW h \in BlockHeights, offered[h] # NoBlock PROVE h >= next
    OBVIOUS
  <2>1. h = c.height \/ pending[h] # NoBlock
    BY <1>1 DEF InsertEffect
  <2>2. pending[h] # NoBlock => h > next
    BY DEF SequencerInv, PendingBeyondNext
  <2>3. h \in Int
    BY DEF BlockHeights
  <2> QED
    BY <1>3, <1>4, <2>1, <2>2, <2>3
<1>6. PendingBeyondNext'
  <2> SUFFICES ASSUME NEW h \in BlockHeights, pending'[h] # NoBlock
               PROVE  h > next_committed_height'
    BY DEF PendingBeyondNext
  <2>1. offered[h] # NoBlock /\ h \notin run
    BY <1>1 DEF InsertEffect
  <2>2. h \in Int /\ h <= MaxHeight
    BY <1>3 DEF BlockHeights
  <2>3. h >= next /\ h > last
    BY <1>3, <1>5, <2>1, <2>2
  <2>4. h # last + 1
    BY <1>1, <1>3, <2>1, <2>2 DEF InsertEffect
  <2>5. next_committed_height' = last + 1
    BY <1>1 DEF InsertEffect
  <2> QED
    BY <1>3, <2>2, <2>3, <2>4, <2>5
<1>7. GapUpToDate'
  BY <1>1 DEF InsertEffect, GapUpToDate, Hole, Held
<1>8. watermark'["committed"] = IF last < next THEN watermark["committed"] ELSE last
  BY <1>1 DEF InsertEffect
<1>9. \A h \in BlockHeights :
        (h \in FirstHeight..watermark'["committed"]) <=> (h \in FirstHeight..watermark["committed"] \/ h \in run)
  <2>1. next = IF watermark["committed"] = NoHeight THEN FirstHeight ELSE watermark["committed"] + 1
    BY DEF next_committed_height
  <2>2. watermark["committed"] # NoHeight => watermark["committed"] >= FirstHeight
    BY DEF SequencerInv, HandedToWatermark
  <2> QED
    BY <1>3, <1>8, <2>1, <2>2 DEF NoHeight, BlockHeights
<1>10. HandedToWatermark'
  <2>1. watermark'["committed"] # NoHeight => watermark'["committed"] >= FirstHeight
    <3>1. next >= FirstHeight
      BY <1>3 DEF next_committed_height, SequencerInv, HandedToWatermark
    <3> QED
      BY <1>3, <1>8, <3>1 DEF SequencerInv, HandedToWatermark
  <2>2. \A h \in BlockHeights : (handed'[h] # NoBlock) <=> (handed[h] # NoBlock \/ h \in run)
    BY <1>1 DEF InsertEffect
  <2>3. \A h \in BlockHeights : (handed[h] # NoBlock) <=> (h \in FirstHeight..watermark["committed"])
    BY DEF SequencerInv, HandedToWatermark
  <2> HIDE DEF run
  <2> QED
    BY <1>9, <2>1, <2>2, <2>3 DEF HandedToWatermark
<1>11. map \in BlockMaps /\ retained["committed"] \in BlockMaps /\ retained["provisional"] \in BlockMaps
  <2>1. retained["committed"] \in BlockMaps /\ retained["provisional"] \in BlockMaps
    BY DEF SequencerInv, SequencerTypeOK, Lanes
  <2> QED
    BY <1>1, <2>1 DEF BlockMaps
<1>12. retained'["committed"] = Newest(map) /\ retained'["provisional"] = retained["provisional"]
  BY <1>1 DEF InsertEffect
<1>13. \A h \in BlockHeights :
         (map[h] # NoBlock) <=>
           (h \in FirstHeight..watermark'["committed"] /\ h > watermark["committed"] - Retained)
  <2> SUFFICES ASSUME NEW h \in BlockHeights
               PROVE  (map[h] # NoBlock) <=>
                        (h \in FirstHeight..watermark'["committed"] /\ h > watermark["committed"] - Retained)
    OBVIOUS
  <2>1. (map[h] # NoBlock) <=> (h \in run \/ retained["committed"][h] # NoBlock)
    BY <1>1 DEF InsertEffect
  <2>2. (retained["committed"][h] # NoBlock) <=>
          (h \in FirstHeight..watermark["committed"] /\ h > watermark["committed"] - Retained)
    BY DEF SequencerInv, WindowKept, HandedToWatermark
  <2>3. h \in run => h > watermark["committed"] - Retained
    BY <1>3 DEF BlockHeights
  <2> HIDE DEF run, map
  <2> QED
    BY <1>9, <2>1, <2>2, <2>3
<1>14. \A h \in BlockHeights :
         (retained'["committed"][h] # NoBlock) <=>
           (map[h] # NoBlock /\ h > watermark'["committed"] - Retained)
  <2>1. watermark'["committed"] \in BlockHeights \union {NoHeight}
    BY <1>2 DEF SequencerTypeOK, Lanes
  <2>2. watermark["committed"] - Retained \in Int
    BY <1>3
  <2> HIDE DEF map
  <2> QED
    BY <1>11, <1>12, <1>13, <2>1, <2>2, NewestOfRun
<1>15. WindowKept'
  <2> SUFFICES ASSUME NEW h \in BlockHeights
               PROVE  (retained'["committed"][h] # NoBlock) <=>
                        (handed'[h] # NoBlock /\ h > watermark'["committed"] - Retained)
    BY DEF WindowKept
  <2>1. (handed'[h] # NoBlock) <=> (h \in FirstHeight..watermark'["committed"])
    BY <1>10 DEF HandedToWatermark
  <2>2. h > watermark'["committed"] - Retained => h > watermark["committed"] - Retained
    BY <1>3, <1>8 DEF BlockHeights
  <2> HIDE DEF map
  <2> QED
    BY <1>13, <1>14, <2>1, <2>2
<1>16. \A h \in BlockHeights : offered[h] # NoBlock => ConflictFree(offered[h].evidence)
  <2> SUFFICES ASSUME NEW h \in BlockHeights, offered[h] # NoBlock
               PROVE  ConflictFree(offered[h].evidence)
    OBVIOUS
  <2>1. CASE h = c.height
    BY <1>1, <2>1, CandidateBlock DEF InsertEffect
  <2>2. CASE h # c.height
    <3>1. offered[h] = pending[h]
      BY <1>1, <2>2 DEF InsertEffect
    <3>2. h \in Held(pending)
      BY <3>1, HeldFacts DEF SequencerInv, SequencerTypeOK
    <3> QED
      BY <3>1, <3>2 DEF SequencerInv, NothingContradictoryKept
  <2> QED
    BY <2>1, <2>2
<1>17. NothingContradictoryKept'
  <2>1. ASSUME NEW h \in Held(pending') PROVE ConflictFree(pending'[h].evidence)
    <3>1. h \in BlockHeights /\ pending'[h] # NoBlock
      BY <1>2, <2>1, HeldFacts DEF SequencerTypeOK
    <3> QED
      BY <1>1, <1>16, <3>1 DEF InsertEffect
  <2>2. ASSUME NEW h \in Held(retained'["committed"])
        PROVE  /\ ConflictFree(retained'["committed"][h].evidence)
               /\ handed'[h] # NoBlock
               /\ retained'["committed"][h].hash = handed'[h].hash
               /\ handed'[h].evidence \subseteq retained'["committed"][h].evidence
    <3>1. h \in BlockHeights /\ retained'["committed"][h] # NoBlock
      BY <1>2, <2>2, HeldFacts DEF SequencerTypeOK, Lanes
    <3>2. retained'["committed"][h] = map[h]
      BY <1>11, <1>12, <3>1, NewestType
    <3>3. CASE h \in run
      <4>1. retained'["committed"][h] = offered[h] /\ handed'[h] = offered[h]
        BY <1>1, <3>1, <3>2, <3>3 DEF InsertEffect
      <4> QED
        BY <1>16, <3>1, <4>1
    <3>4. CASE h \notin run
      <4>1. retained'["committed"][h] = retained["committed"][h] /\ handed'[h] = handed[h]
        BY <1>1, <3>1, <3>2, <3>4 DEF InsertEffect
      <4>2. h \in Held(retained["committed"])
        BY <1>11, <3>1, <4>1, HeldFacts
      <4> QED
        BY <4>1, <4>2 DEF SequencerInv, NothingContradictoryKept, Lanes
    <3> QED
      BY <3>3, <3>4
  <2>3. \A h \in Held(retained'["provisional"]) : ConflictFree(retained'["provisional"][h].evidence)
    BY <1>12 DEF SequencerInv, NothingContradictoryKept, Lanes
  <2> QED
    BY <2>1, <2>2, <2>3 DEF NothingContradictoryKept, Lanes
<1> QED
  BY <1>2, <1>6, <1>7, <1>10, <1>15, <1>17 DEF SequencerInv

(* One step per case of observe.                                           *)
LEMMA SequencerInvStep == SequencerInv /\ [SequencerNext]_sequencerVars => SequencerInv'
<1> SUFFICES ASSUME SequencerInv, [SequencerNext]_sequencerVars PROVE SequencerInv'
  OBVIOUS
<1>1. ASSUME NEW c \in Candidates, Observe(c) PROVE SequencerInv'
  <2>1. CASE AwaitOperatorResolution(c)
    BY <2>1, RefusalKeeps DEF AwaitOperatorResolution, Kinds
  <2>2. CASE VerifyHistoricalBlock(c)
    BY <2>2, RefusalKeeps DEF VerifyHistoricalBlock, Kinds
  <2>3. CASE PendingCapacityExceeded(c)
    BY <2>3, RefusalKeeps DEF PendingCapacityExceeded, Kinds
  <2>4. CASE RecordDuplicate(c)
    BY <2>4, RecordDuplicateKeeps
  <2>5. CASE MergePending(c)
    BY <2>5, MergePendingKeeps
  <2>6. CASE Quarantine(c)
    BY <2>6, QuarantineKeeps
  <2>7. CASE Insert(c)
    BY <2>7, InsertKeeps
  <2>8. CASE PublishProvisional(c)
    BY <2>8, PublishProvisionalKeeps
  <2> QED
    BY <1>1, <2>1, <2>2, <2>3, <2>4, <2>5, <2>6, <2>7, <2>8 DEF Observe
<1>2. CASE UNCHANGED sequencerVars
  BY <1>2 DEF sequencerVars, SequencerInv, SequencerTypeOK, HandedToWatermark,
              NothingContradictoryKept, WindowKept, PendingBeyondNext, GapUpToDate,
              next_committed_height, Hole, Held
<1> QED
  BY <1>1, <1>2 DEF SequencerNext

(* The invariant of the sequencer holds for ever.                          *)
THEOREM SequencerInvariant == SequencerSpec => []SequencerInv
BY SequencerInvInit, SequencerInvStep, PTL DEF SequencerSpec

(* The sequencer (CanonicalSequencer::observe) is type correct.            *)
THEOREM SequencerTypeCorrect == SequencerSpec => []SequencerTypeOK
<1>1. SequencerInv => SequencerTypeOK
  BY DEF SequencerInv
<1> QED
  BY <1>1, SequencerInvariant, PTL

(* compare_and_merge never merges a contradiction, and what is kept of a   *)
(* block extends what was handed out.                                      *)
THEOREM NeverContradictory == SequencerSpec => []NothingContradictoryKept
<1>1. SequencerInv => NothingContradictoryKept
  BY DEF SequencerInv
<1> QED
  BY <1>1, SequencerInvariant, PTL

(* refresh_gap leaves exactly the heights between watermark and buffer.    *)
THEOREM GapAlwaysExact == SequencerSpec => []GapExact
<1>1. SequencerInv => GapExact
  <2> SUFFICES ASSUME SequencerInv, NEW h \in BlockHeights
               PROVE  (h \in outstanding_gap.start..outstanding_gap.end) <=>
                        /\ h >= next_committed_height
                        /\ \E g \in Held(pending) : g > h
                        /\ \A g \in Held(pending) : g > h
    BY DEF GapExact
  <2>1. /\ Held(pending) = {g \in BlockHeights : pending[g] # NoBlock}
        /\ Held(pending) \subseteq Nat
    BY HeldFacts DEF SequencerInv, SequencerTypeOK
  <2>2. next_committed_height \in Nat /\ h \in Nat
    BY NextType, SequencerAssumption DEF SequencerInv, BlockHeights
  <2>3. outstanding_gap = Hole(next_committed_height, pending)
    BY DEF SequencerInv, GapUpToDate
  <2>4. CASE Held(pending) = {}
    <3>1. outstanding_gap.start = -1 /\ outstanding_gap.end = -1
      BY <2>3, <2>4 DEF Hole, NoGap, NoHeight
    <3> QED
      BY <2>2, <2>4, <3>1
  <2>5. CASE Held(pending) # {}
    <3>1. Lowest(Held(pending)) \in Held(pending) /\ \A g \in Held(pending) : Lowest(Held(pending)) <= g
      BY <2>1, <2>5, LowestExists
    <3>2. Lowest(Held(pending)) > next_committed_height
      BY <2>1, <3>1 DEF SequencerInv, PendingBeyondNext
    <3>3. outstanding_gap.start = next_committed_height /\ outstanding_gap.end = Lowest(Held(pending)) - 1
      BY <2>3, <2>5, <3>2 DEF Hole
    <3>4. Lowest(Held(pending)) \in Nat
      BY <2>1, <3>1
    <3> QED
      BY <2>1, <2>2, <3>1, <3>2, <3>3, <3>4
  <2> QED
    BY <2>4, <2>5
<1> QED
  BY <1>1, SequencerInvariant, PTL

(* drain_contiguous hands out the heights in order and once each.          *)
THEOREM AlwaysHandsOutInOrder == SequencerSpec => HandsOutInOrder
<1>1. ASSUME SequencerInv, SequencerNext PROVE ExtendsRun
  <2>1. PICK c \in Candidates : Observe(c)
    BY <1>1 DEF SequencerNext
  <2>2. /\ next_committed_height \in Nat /\ watermark["committed"] \in Int
        /\ next_committed_height - 1 >= watermark["committed"]
    BY <1>1, NextType DEF SequencerInv
  <2>3. CASE Insert(c)
    <3>1. PICK last \in next_committed_height - 1..MaxHeight, offered \in BlockMaps :
            InsertEffect(c, last, offered)
      BY <1>1, <2>3, InsertHasEffect
    <3>2. watermark'["committed"] = IF last < next_committed_height THEN watermark["committed"] ELSE last
      BY <3>1 DEF InsertEffect
    <3>3. last \in Int
      BY <2>2, SequencerAssumption
    <3>4. next_committed_height..watermark'["committed"] = next_committed_height..last
      BY <2>2, <3>2, <3>3
    <3>5. watermark'["committed"] >= watermark["committed"]
      BY <2>2, <3>2, <3>3
    <3>6. ASSUME NEW h \in BlockHeights, h \in next_committed_height..last
          PROVE  handed[h] = NoBlock /\ handed'[h] # NoBlock
      <4>1. handed'[h] # NoBlock
        BY <3>1, <3>6 DEF InsertEffect
      <4>2. h \notin FirstHeight..watermark["committed"]
        BY <2>2, <3>3, <3>6
      <4> QED
        BY <1>1, <4>1, <4>2 DEF SequencerInv, HandedToWatermark
    <3>7. ASSUME NEW h \in BlockHeights, h \notin next_committed_height..last
          PROVE  handed'[h] = handed[h]
      BY <3>1, <3>7 DEF InsertEffect
    <3> QED
      BY <3>4, <3>5, <3>6, <3>7 DEF ExtendsRun
  <2>4. CASE ~Insert(c)
    <3>1. handed' = handed /\ watermark'["committed"] = watermark["committed"]
      <4>1. watermark \in [Lanes -> BlockHeights \union {NoHeight}]
        BY <1>1 DEF SequencerInv, SequencerTypeOK
      <4> QED
        BY <2>1, <2>4, <4>1 DEF Observe, AwaitOperatorResolution, VerifyHistoricalBlock, RecordDuplicate,
             MergePending, Quarantine, PendingCapacityExceeded, PublishProvisional, Unmoved, Lanes
    <3>2. next_committed_height..watermark["committed"] = {}
      BY <2>2
    <3> QED
      BY <2>2, <3>1, <3>2 DEF ExtendsRun
  <2> QED
    BY <2>3, <2>4
<1> QED
  BY <1>1, SequencerInvariant, PTL DEF SequencerSpec, HandsOutInOrder

(* A divergence stops the committed lane for good (latch_divergence).      *)
THEOREM RedStaysRed == SequencerSpec => RedIsFinal
<1> DEFINE Stands ==
      Latched => /\ red_incident' = red_incident
                 /\ handed' = handed /\ pending' = pending
                 /\ watermark'["committed"] = watermark["committed"]
<1>1. ASSUME SequencerInv, SequencerNext PROVE Stands
  <2> SUFFICES ASSUME Latched
               PROVE  /\ red_incident' = red_incident
                      /\ handed' = handed /\ pending' = pending
                      /\ watermark'["committed"] = watermark["committed"]
    OBVIOUS
  <2>1. PICK c \in Candidates : Observe(c)
    BY <1>1 DEF SequencerNext
  <2>2. ~MergePending(c) /\ ~Insert(c)
    BY DEF MergePending, Insert, Ahead, Heeded
  <2>3. watermark \in [Lanes -> BlockHeights \union {NoHeight}]
    BY <1>1 DEF SequencerInv, SequencerTypeOK
  <2> QED
    BY <2>1, <2>2, <2>3 DEF Observe, AwaitOperatorResolution, VerifyHistoricalBlock, RecordDuplicate,
             Quarantine, PendingCapacityExceeded, PublishProvisional, Unmoved, Lanes
<1> QED
  BY <1>1, SequencerInvariant, PTL DEF SequencerSpec, RedIsFinal

-----------------------------------------------------------------------------
(* The block that closes the gap leaves the buffer in the same step, and   *)
(* any other one finds room.                                               *)
LEMMA InsertKeepsBound ==
  ASSUME SequencerInv, NEW c \in Candidates, Insert(c), Cardinality(Held(pending)) <= MaxPending
  PROVE  Cardinality(Held(pending')) <= MaxPending
<1>1. PICK last \in next_committed_height - 1..MaxHeight, offered \in BlockMaps :
        InsertEffect(c, last, offered)
  BY InsertHasEffect
<1>2. next_committed_height \in Nat /\ last \in Int /\ last >= next_committed_height - 1
  BY NextType, SequencerAssumption DEF SequencerInv
<1>3. c.height \in BlockHeights /\ BlockOf(c) # NoBlock /\ c.height \in Nat /\ c.height <= MaxHeight
  BY CandidateBlock, SequencerAssumption DEF BlockHeights
<1>4. /\ Held(pending) = {h \in BlockHeights : pending[h] # NoBlock}
      /\ IsFiniteSet(Held(pending))
  BY HeldFacts DEF SequencerInv, SequencerTypeOK
<1>5. Held(pending') = {h \in BlockHeights : pending'[h] # NoBlock}
  BY InsertHasEffect, HeldFacts DEF SequencerTypeOK
<1>6. Cardinality(Held(pending)) \in Nat /\ MaxPending \in Nat
  BY <1>4, FS_CardinalityType, SequencerAssumption
<1>7. CASE c.height = next_committed_height
  <2>1. last >= next_committed_height
    BY <1>1, <1>2, <1>3, <1>7, SequencerAssumption DEF InsertEffect
  <2>2. c.height \in next_committed_height..last
    BY <1>2, <1>7, <2>1
  <2>3. Held(pending') \subseteq Held(pending)
    BY <1>1, <1>4, <1>5, <2>2 DEF InsertEffect
  <2>4. Cardinality(Held(pending')) <= Cardinality(Held(pending)) /\ IsFiniteSet(Held(pending'))
    BY <1>4, <2>3, FS_Subset
  <2>5. Cardinality(Held(pending')) \in Nat
    BY <2>4, FS_CardinalityType
  <2> QED
    BY <1>6, <2>4, <2>5
<1>8. CASE c.height # next_committed_height
  <2>1. Cardinality(Held(pending)) < MaxPending
    BY <1>8 DEF Insert, Room
  <2>2. Held(pending') \subseteq Held(pending) \union {c.height}
    BY <1>1, <1>4, <1>5 DEF InsertEffect
  <2>3. /\ IsFiniteSet(Held(pending) \union {c.height})
        /\ Cardinality(Held(pending) \union {c.height}) <= Cardinality(Held(pending)) + 1
        /\ Cardinality(Held(pending) \union {c.height}) \in Nat
    <3>1. /\ IsFiniteSet(Held(pending) \union {c.height})
          /\ Cardinality(Held(pending) \union {c.height}) =
               IF c.height \in Held(pending) THEN Cardinality(Held(pending)) ELSE Cardinality(Held(pending)) + 1
      BY <1>4, FS_AddElement
    <3> QED
      BY <1>6, <3>1
  <2>4. Cardinality(Held(pending')) <= Cardinality(Held(pending) \union {c.height}) /\ IsFiniteSet(Held(pending'))
    BY <2>2, <2>3, FS_Subset
  <2>5. Cardinality(Held(pending')) \in Nat
    BY <2>4, FS_CardinalityType
  <2> QED
    BY <1>6, <2>1, <2>3, <2>4, <2>5
<1> QED
  BY <1>7, <1>8

(* pending keeps to max_pending_blocks and holds nothing to hand out.      *)
THEOREM BufferAlwaysBounded == SequencerSpec => []BufferBounded
<1> DEFINE Bounded == Cardinality(Held(pending)) <= MaxPending
<1>1. SequencerInit => Bounded
  <2> SUFFICES ASSUME SequencerInit PROVE Cardinality(Held(pending)) <= MaxPending
    OBVIOUS
  <2>1. Held(pending) = {}
    BY DEF SequencerInit, Held
  <2> QED
    BY <2>1, FS_EmptySet, SequencerAssumption
<1>2. ASSUME SequencerInv, Bounded, SequencerNext PROVE Bounded'
  <2>1. PICK c \in Candidates : Observe(c)
    BY <1>2 DEF SequencerNext
  <2>2. CASE Insert(c)
    BY <1>2, <2>2, InsertKeepsBound
  <2>3. CASE MergePending(c)
    <3>1. Held(pending') = Held(pending)
      <4>1. pending \in BlockMaps /\ c.height \in BlockHeights
        BY <1>2, CandidateBlock DEF SequencerInv, SequencerTypeOK
      <4>2. pending[c.height] \in Blocks /\ pending[c.height] # NoBlock
        BY <2>3, <4>1 DEF MergePending, BlockMaps
      <4>3. Merged(pending[c.height], c) \in Blocks /\ Merged(pending[c.height], c) # NoBlock
        BY <2>3, <4>2, MergedBlock DEF MergePending
      <4>4. pending' = [pending EXCEPT ![c.height] = Merged(pending[c.height], c)]
        BY <2>3, <4>1 DEF MergePending, BlockMaps
      <4> QED
        BY <4>1, <4>2, <4>3, <4>4 DEF Held, BlockMaps
    <3> QED
      BY <1>2, <3>1
  <2>4. CASE ~Insert(c) /\ ~MergePending(c)
    <3>1. pending' = pending
      BY <2>1, <2>4 DEF Observe, AwaitOperatorResolution, VerifyHistoricalBlock, RecordDuplicate,
           Quarantine, PendingCapacityExceeded, PublishProvisional, Unmoved
    <3> QED
      BY <1>2, <3>1
  <2> QED
    BY <2>2, <2>3, <2>4
<1>3. Bounded /\ UNCHANGED sequencerVars => Bounded'
  BY DEF sequencerVars
<1>4. SequencerInv /\ Bounded => BufferBounded
  <2> SUFFICES ASSUME SequencerInv, Bounded PROVE BufferBounded
    OBVIOUS
  <2>1. Held(pending) = {h \in BlockHeights : pending[h] # NoBlock}
    BY HeldFacts DEF SequencerInv, SequencerTypeOK
  <2> QED
    BY <2>1 DEF BufferBounded, SequencerInv, PendingBeyondNext
<1> HIDE DEF Bounded
<1> QED
  BY <1>1, <1>2, <1>3, <1>4, SequencerInvariant, PTL DEF SequencerSpec

(* Both together: what observe keeps back, how much, and for which gap.    *)
THEOREM BufferAlwaysExact == SequencerSpec => []BufferExact
<1>1. GapExact /\ BufferBounded => BufferExact
  BY DEF BufferExact
<1> QED
  BY <1>1, GapAlwaysExact, BufferAlwaysBounded, PTL

-----------------------------------------------------------------------------
(* Every answer says what the step did.                                    *)
LEMMA AnswersTrueStep ==
  ASSUME SequencerInv, NEW c \in Candidates, Observe(c)
  PROVE  AnswersTrue'
<1>1. c.lane \in Lanes /\ c.height \in BlockHeights /\ c.height \in Int
  BY CandidateBlock DEF BlockHeights
<1>2. /\ retained \in [Lanes -> BlockMaps]
      /\ pending \in BlockMaps
  BY DEF SequencerInv, SequencerTypeOK
<1>3. CASE AwaitOperatorResolution(c)
  BY <1>3 DEF AwaitOperatorResolution, Heeded, Answer, AnswersTrue, Latched
<1>4. CASE VerifyHistoricalBlock(c)
  <2>1. reply'.kind = "verify" /\ reply'.candidate = c /\ watermark' = watermark
    BY <1>4 DEF VerifyHistoricalBlock, Answer, Unmoved
  <2>2. ASSUME c.lane = "committed"
        PROVE  c.height < FirstHeight \/ c.height <= watermark["committed"] - Retained
    <3>1. c.height <= watermark["committed"] \/ c.height < FirstHeight
      BY <1>4, <2>2 DEF VerifyHistoricalBlock, Behind
    <3>2. ~(c.height \in FirstHeight..watermark["committed"] /\ c.height > watermark["committed"] - Retained)
      BY <1>1, <1>4, <2>2 DEF VerifyHistoricalBlock, SequencerInv, WindowKept, HandedToWatermark
    <3>3. watermark["committed"] \in Int /\ FirstHeight \in Nat /\ Retained \in Nat
      BY NextType, SequencerAssumption DEF SequencerInv
    <3> QED
      BY <1>1, <3>1, <3>2, <3>3
  <2> QED
    BY <2>1, <2>2 DEF AnswersTrue
<1>5. CASE RecordDuplicate(c)
  <2>1. reply'.kind = "duplicate" /\ reply'.candidate = c
    BY <1>5 DEF RecordDuplicate, Answer
  <2>2. /\ retained[c.lane][c.height] \in Blocks
        /\ Agrees(retained[c.lane][c.height], c)
    BY <1>1, <1>2, <1>5 DEF RecordDuplicate, BlockMaps
  <2>3. retained'[c.lane][c.height] = Merged(retained[c.lane][c.height], c)
    BY <1>1, <1>2, <1>5 DEF RecordDuplicate, BlockMaps
  <2>4. /\ retained'[c.lane][c.height] # NoBlock
        /\ retained'[c.lane][c.height].hash = c.hash
        /\ c.evidence \subseteq retained'[c.lane][c.height].evidence
    BY <2>2, <2>3, MergedBlock DEF Merged, Agrees
  <2> QED
    BY <2>1, <2>4 DEF AnswersTrue
<1>6. CASE MergePending(c)
  <2>1. reply'.kind = "duplicate" /\ reply'.candidate = c
    BY <1>6 DEF MergePending, Answer
  <2>2. pending[c.height] \in Blocks /\ Agrees(pending[c.height], c)
    BY <1>1, <1>2, <1>6 DEF MergePending, BlockMaps
  <2>3. pending'[c.height] = Merged(pending[c.height], c)
    BY <1>1, <1>2, <1>6 DEF MergePending, BlockMaps
  <2>4. /\ pending'[c.height] # NoBlock
        /\ pending'[c.height].hash = c.hash
        /\ c.evidence \subseteq pending'[c.height].evidence
    BY <2>2, <2>3, MergedBlock DEF Merged, Agrees
  <2> QED
    BY <2>1, <2>4 DEF AnswersTrue
<1>7. CASE Quarantine(c)
  <2>1. reply'.kind = "quarantine"
    BY <1>7 DEF Quarantine, Answer
  <2>2. [lane |-> c.lane, height |-> c.height] # NoIncident
    BY <1>1, SequencerAssumption DEF NoIncident, NoHeight, BlockHeights
  <2>3. red_incident' # NoIncident
    BY <1>7, <2>2 DEF Quarantine, Latched
  <2> QED
    BY <2>1, <2>3 DEF AnswersTrue, Latched
<1>8. CASE PendingCapacityExceeded(c) \/ Insert(c) \/ PublishProvisional(c)
  <2>1. CASE Insert(c)
    <3>1. PICK gap : reply' = [kind |-> "accepted", candidate |-> c, request |-> gap]
      BY <2>1 DEF Insert
    <3> QED
      BY <3>1 DEF AnswersTrue
  <2>2. CASE PendingCapacityExceeded(c) \/ PublishProvisional(c)
    <3>1. reply'.kind \in {"capacity", "provisional"}
      BY <2>2 DEF PendingCapacityExceeded, PublishProvisional, Answer
    <3> QED
      BY <3>1 DEF AnswersTrue
  <2> QED
    BY <1>8, <2>1, <2>2
<1> QED
  BY <1>3, <1>4, <1>5, <1>6, <1>7, <1>8 DEF Observe

(* The answers of observe can be relied on.                                *)
THEOREM AnswersAlwaysTrue == SequencerSpec => []AnswersTrue
<1>1. SequencerInit => AnswersTrue
  BY DEF SequencerInit, AnswersTrue, NoReply
<1>2. SequencerInv /\ SequencerNext => AnswersTrue'
  BY AnswersTrueStep DEF SequencerNext
<1>3. AnswersTrue /\ UNCHANGED sequencerVars => AnswersTrue'
  BY DEF AnswersTrue, sequencerVars, Latched
<1> QED
  BY <1>1, <1>2, <1>3, SequencerInvariant, PTL DEF SequencerSpec

-----------------------------------------------------------------------------
(* The state service.                                                      *)

(* The HEAD that survives a power loss in any case.                        *)
SyncedHead == headFile - Len(renames) \div 2

(* The renames since the last sync: generation, HEAD, generation, HEAD ... *)
RenamesAlternate ==
  /\ SyncedHead >= 0
  /\ \A i \in 1..Len(renames) :
       renames[i] = IF i % 2 = 1 THEN <<"generation", SyncedHead + (i + 1) \div 2>>
                                 ELSE <<"head", SyncedHead + i \div 2>>

(* Every block up to HEAD has its generation, and perhaps one more: the    *)
(* commit in hand, or one that was interrupted before it wrote HEAD.       *)
GenerationsContiguous ==
  \/ generations = 1..headFile /\ Len(renames) % 2 = 0
  \/ generations = 1..headFile + 1 /\ (Len(renames) % 2 = 1 \/ renames = <<>>)

RenameKinds == {"generation", "head"}

StoreInv ==
  /\ headFile \in 0..MaxBlock
  /\ generations \subseteq StreamBlocks
  /\ renames \in Seq(RenameKinds \X StreamBlocks)
  /\ RenamesAlternate
  /\ GenerationsContiguous

(* The commit in hand: where the ledger, HEAD and the block are.           *)
CommitInHand ==
  /\ session # "down" => applied = IF session = "sync" THEN headFile - 1 ELSE headFile
  /\ session \in {"store", "head"} => block = headFile + 1
  /\ session = "head" => Len(renames) % 2 = 1
  /\ session = "sync" => block = headFile /\ generations = 1..headFile
  /\ session = "ack" => block <= SyncedHead \/ block \in exposed

(* The messages in hand are those of the block in hand.                    *)
BlockInHand ==
  session \in {"prepare", "store", "head", "sync", "ack"} =>
    acking # <<>> /\ \A i \in 1..Len(acking) : acking[i][1] = block

SessionInv ==
  /\ session \in {"down", "fetch", "push", "prepare", "store", "head", "sync", "ack"}
  /\ fetched \in Seq(StreamMessages) /\ acking \in Seq(StreamMessages)
  /\ inflight \subseteq StreamMessages
  /\ collecting \in [StreamBlocks -> Seq(StreamMessages)]
  /\ applied \in 0..MaxBlock /\ block \in 0..MaxBlock
  /\ session = "push" => fetched # <<>>
  /\ \A h \in StreamBlocks : \A i \in 1..Len(collecting[h]) : collecting[h][i][1] = h
  /\ CommitInHand
  /\ BlockInHand

(* The server: how often a message was delivered, and what it need not     *)
(* deliver any more.                                                       *)
ServerInv ==
  /\ published \in 0..Cardinality(StreamMessages)
  /\ status \in [StreamMessages -> {"new", "sent", "due", "acked", "dropped"}]
  /\ deliveries \in [StreamMessages -> 0..MaxDeliver]
  /\ \A m \in StreamMessages :
       /\ status[m] = "new" => deliveries[m] = 0
       /\ status[m] = "due" => deliveries[m] < MaxDeliver
  /\ exposed \subseteq StreamBlocks

(* What was acknowledged survives.                                         *)
AckedSynced ==
  \A m \in StreamMessages : status[m] = "acked" => m[1] <= SyncedHead \/ m[1] \in exposed

ConsumerInv == StoreInv /\ SessionInv /\ ServerInv /\ AckedSynced

-----------------------------------------------------------------------------
(* A message names its block.                                              *)
LEMMA MessageFacts ==
  /\ MaxBlock \in Nat /\ MaxDeliver \in Nat \ {0}
  /\ \A m \in StreamMessages : m[1] \in StreamBlocks /\ m[1] \in Int
  BY ConsumerAssumption DEF StreamMessages, BlockMessages, StreamBlocks

(* The stream is finite.                                                   *)
LEMMA StreamFinite == Cardinality(StreamMessages) \in Nat
<1>1. ASSUME NEW h \in StreamBlocks PROVE IsFiniteSet(BlockMessages(h))
  <2>1. BlockEvents[h] \in Nat
    BY ConsumerAssumption DEF StreamBlocks
  <2>2. IsFiniteSet({h} \X (0..BlockEvents[h]))
    <3>1. IsFiniteSet({h})
      BY FS_Singleton, Zenon
    <3>2. 0 \in Int /\ BlockEvents[h] \in Int
      BY <2>1
    <3>3. IsFiniteSet(0..BlockEvents[h])
      BY <3>2, FS_Interval
    <3> QED
      BY <3>1, <3>3, FS_Product
  <2>3. BlockMessages(h) = {h} \X (0..BlockEvents[h])
    BY DEF BlockMessages
  <2> QED
    BY <2>2, <2>3
<1>2. IsFiniteSet({BlockMessages(h) : h \in StreamBlocks})
  <2> DEFINE image == [h \in StreamBlocks |-> BlockMessages(h)]
             T == {BlockMessages(h) : h \in StreamBlocks}
  <2>1. IsFiniteSet(StreamBlocks)
    BY ConsumerAssumption, FS_Interval DEF StreamBlocks
  <2>2. image \in Surjection(StreamBlocks, T)
    BY Fun_IsSurj
  <2> QED
    BY <2>1, <2>2, FS_Surjection
<1>3. IsFiniteSet(StreamMessages)
  BY <1>1, <1>2, FS_UNION DEF StreamMessages
<1> QED
  BY <1>3, FS_CardinalityType

(* Halves, as the pairs of renames are counted.                            *)
LEMMA HalfFacts ==
  ASSUME NEW i \in Nat
  PROVE  /\ i % 2 \in {0, 1} /\ i \div 2 \in Nat /\ i \div 2 <= i
         /\ i % 2 = 0 => (i + 1) % 2 = 1 /\ (i + 1) \div 2 = i \div 2
         /\ i % 2 = 1 => (i + 1) % 2 = 0 /\ (i + 1) \div 2 = i \div 2 + 1
  OBVIOUS

(* HEAD and its renames as the properties count them.                      *)
LEMMA DurableIsSynced == StoreInv => DurableHead = SyncedHead
<1> SUFFICES ASSUME StoreInv PROVE DurableHead = SyncedHead
  OBVIOUS
<1> DEFINE heads == {i \in 1..Len(renames) : renames[i][1] = "head"}
           k == Len(renames) \div 2
           place == [j \in 1..k |-> 2 * j]
<1>1. Len(renames) \in Nat /\ k \in Nat
  BY LenProperties DEF StoreInv
<1>2. ASSUME NEW i \in 1..Len(renames) PROVE i \in heads <=> i % 2 = 0
  <2>1. i \in Nat /\ i % 2 \in {0, 1}
    BY <1>1
  <2>2. renames[i] = IF i % 2 = 1 THEN <<"generation", SyncedHead + (i + 1) \div 2>>
                                  ELSE <<"head", SyncedHead + i \div 2>>
    BY DEF StoreInv, RenamesAlternate
  <2>3. renames[i][1] = IF i % 2 = 1 THEN "generation" ELSE "head"
    BY <2>2
  <2> QED
    BY <2>1, <2>3
<1>3. place \in [1..k -> heads]
  BY <1>1, <1>2
<1>4. \A a, b \in 1..k : place[a] = place[b] => a = b
  BY <1>1
<1>5. ASSUME NEW i \in heads PROVE \E j \in 1..k : place[j] = i
  <2>1. i % 2 = 0 /\ i \in 1..Len(renames)
    BY <1>2
  <2>2. i \div 2 \in 1..k /\ 2 * (i \div 2) = i
    BY <1>1, <2>1
  <2> QED
    BY <2>2
<1>6. place \in Bijection(1..k, heads)
  BY <1>3, <1>4, <1>5, Fun_IsBij
<1>7. Cardinality(heads) = k
  BY <1>1, <1>6, FS_CountingElements DEF ExistsBijection
<1> QED
  BY <1>7 DEF DurableHead, SyncedHead

-----------------------------------------------------------------------------
(* The store under the commit: the generation is renamed into place ...    *)
LEMMA GenerationKeepsStore ==
  ASSUME StoreInv, block = headFile + 1, block \in StreamBlocks, block \notin generations,
         generations' = generations \cup {block}, headFile' = headFile,
         renames' = Append(renames, <<"generation", block>>)
  PROVE  StoreInv' /\ SyncedHead' = SyncedHead /\ Len(renames') % 2 = 1
<1> DEFINE n == Len(renames)
           rename == <<"generation", block>>
<1>0. n \in Nat /\ headFile \in Nat /\ MaxBlock \in Nat
  BY LenProperties, MessageFacts DEF StoreInv
<1>1. generations = 1..headFile /\ n % 2 = 0
  BY <1>0 DEF StoreInv, GenerationsContiguous
<1>2. rename \in RenameKinds \X StreamBlocks
  BY DEF RenameKinds
<1>3. /\ renames' \in Seq(RenameKinds \X StreamBlocks)
      /\ Len(renames') = n + 1
      /\ \A i \in 1..n : renames'[i] = renames[i]
      /\ renames'[n + 1] = rename
  BY <1>2, AppendProperties DEF StoreInv
<1>4. SyncedHead' = SyncedHead /\ (n + 1) % 2 = 1
  <2>1. (n + 1) % 2 = 1 /\ (n + 1) \div 2 = n \div 2
    BY <1>0, <1>1, HalfFacts
  <2> QED
    BY <1>3, <2>1 DEF SyncedHead
<1>5. RenamesAlternate'
  <2> SUFFICES ASSUME NEW i \in 1..n + 1
               PROVE  renames'[i] = IF i % 2 = 1
                                    THEN <<"generation", SyncedHead + (i + 1) \div 2>>
                                    ELSE <<"head", SyncedHead + i \div 2>>
    BY <1>3, <1>4 DEF RenamesAlternate, StoreInv
  <2>1. CASE i \in 1..n
    BY <1>3, <2>1 DEF StoreInv, RenamesAlternate
  <2>2. CASE i = n + 1
    <3>1. SyncedHead + (n + 1 + 1) \div 2 = headFile + 1
      BY <1>0, <1>1 DEF SyncedHead
    <3> QED
      BY <1>3, <1>4, <2>2, <3>1
  <2> QED
    BY <1>0, <2>1, <2>2
<1>6. generations' = 1..headFile' + 1
  BY <1>0, <1>1
<1> QED
  BY <1>3, <1>4, <1>5, <1>6 DEF StoreInv, GenerationsContiguous

(* ... then HEAD, which names it.                                          *)
LEMMA HeadKeepsStore ==
  ASSUME StoreInv, block = headFile + 1, block \in StreamBlocks, Len(renames) % 2 = 1,
         generations' = generations, headFile' = block,
         renames' = Append(renames, <<"head", block>>)
  PROVE  StoreInv' /\ SyncedHead' = SyncedHead /\ generations' = 1..headFile'
<1> DEFINE n == Len(renames)
           rename == <<"head", block>>
<1>0. n \in Nat /\ headFile \in Nat /\ MaxBlock \in Nat /\ StreamBlocks = 1..MaxBlock
  BY LenProperties, MessageFacts DEF StoreInv, StreamBlocks
<1>1. generations = 1..headFile + 1
  BY <1>0 DEF StoreInv, GenerationsContiguous
<1>2. rename \in RenameKinds \X StreamBlocks
  BY DEF RenameKinds
<1>3. /\ renames' \in Seq(RenameKinds \X StreamBlocks)
      /\ Len(renames') = n + 1
      /\ \A i \in 1..n : renames'[i] = renames[i]
      /\ renames'[n + 1] = rename
  BY <1>2, AppendProperties DEF StoreInv
<1>4. SyncedHead' = SyncedHead /\ (n + 1) % 2 = 0
  <2>1. (n + 1) % 2 = 0 /\ (n + 1) \div 2 = n \div 2 + 1 /\ n \div 2 \in Nat
    BY <1>0, HalfFacts
  <2>2. SyncedHead' = headFile' - Len(renames') \div 2
    BY DEF SyncedHead
  <2>3. headFile' = headFile + 1 /\ Len(renames') \div 2 = n \div 2 + 1
    BY <1>3, <2>1
  <2>4. SyncedHead = headFile - n \div 2
    BY DEF SyncedHead
  <2>5. \A a, b \in Nat : (a + 1) - (b + 1) = a - b
    OBVIOUS
  <2> HIDE DEF n
  <2> QED
    BY <1>0, <2>1, <2>2, <2>3, <2>4, <2>5
<1>5. RenamesAlternate'
  <2> SUFFICES ASSUME NEW i \in 1..n + 1
               PROVE  renames'[i] = IF i % 2 = 1
                                    THEN <<"generation", SyncedHead + (i + 1) \div 2>>
                                    ELSE <<"head", SyncedHead + i \div 2>>
    BY <1>3, <1>4 DEF RenamesAlternate, StoreInv
  <2>1. CASE i \in 1..n
    BY <1>3, <2>1 DEF StoreInv, RenamesAlternate
  <2>2. CASE i = n + 1
    <3>1. SyncedHead + (n + 1) \div 2 = headFile + 1
      BY <1>0 DEF SyncedHead
    <3> QED
      BY <1>3, <1>4, <2>2, <3>1
  <2>3. i \in 1..n \/ i = n + 1
    BY <1>0
  <2> QED
    BY <2>1, <2>2, <2>3
<1>6. headFile' \in 0..MaxBlock /\ generations' = 1..headFile'
  BY <1>0, <1>1
<1> QED
  BY <1>3, <1>4, <1>5, <1>6 DEF StoreInv, GenerationsContiguous

(* A sync makes all of it durable.                                         *)
LEMMA SyncKeepsStore ==
  ASSUME StoreInv, generations = 1..headFile, renames' = <<>>, UNCHANGED <<generations, headFile>>
  PROVE  StoreInv' /\ SyncedHead' = headFile /\ SyncedHead <= headFile
<1>1. Len(renames') = 0 /\ renames' \in Seq(RenameKinds \X StreamBlocks)
  BY EmptySeq
<1>2. headFile \in Nat /\ Len(renames) \in Nat
  BY LenProperties, MessageFacts DEF StoreInv
<1>3. SyncedHead' = headFile /\ SyncedHead <= headFile
  BY <1>1, <1>2 DEF SyncedHead
<1>4. RenamesAlternate' /\ GenerationsContiguous'
  BY <1>1, <1>2, <1>3 DEF RenamesAlternate, GenerationsContiguous
<1> QED
  BY <1>1, <1>3, <1>4 DEF StoreInv

(* What a power loss takes of the renames when the first n are on disk:    *)
(* the HEADs and the generations written after them.                       *)
Lost(n) == {renames[i] : i \in n + 1..Len(renames)}
LostHeads(n) == {r \in Lost(n) : r[1] = "head"}
LostGenerations(n) == {r[2] : r \in {x \in Lost(n) : x[1] = "generation"}}

(* The generations that odd places after the n-th up to the m-th name.     *)
OddPlaces(S, n, m) == {S + (i + 1) \div 2 : i \in {j \in n + 1..m : j % 2 = 1}}

(* What the rename at a place is.                                          *)
LEMMA RenameAt ==
  ASSUME StoreInv, NEW i \in 1..Len(renames)
  PROVE  /\ i \in Nat /\ i % 2 \in {0, 1}
         /\ i % 2 = 1 => renames[i] = <<"generation", SyncedHead + (i + 1) \div 2>>
         /\ i % 2 = 0 => renames[i] = <<"head", SyncedHead + i \div 2>>
<1>1. i \in Nat
  BY LenProperties DEF StoreInv
<1>2. renames[i] = IF i % 2 = 1 THEN <<"generation", SyncedHead + (i + 1) \div 2>>
                                ELSE <<"head", SyncedHead + i \div 2>>
  BY DEF StoreInv, RenamesAlternate
<1>3. i % 2 \in {0, 1}
  BY <1>1, HalfFacts
<1> QED
  BY <1>1, <1>2, <1>3

(* With the first n renames on disk HEAD is back at the last of them.      *)
LEMMA LostHeadCount ==
  ASSUME StoreInv, NEW n \in 0..Len(renames)
  PROVE  headFile - Cardinality(LostHeads(n)) = SyncedHead + n \div 2
<1> DEFINE m == Len(renames)
           heads == LostHeads(n)
           k == m \div 2 - n \div 2
           place == [j \in 1..k |-> <<"head", SyncedHead + n \div 2 + j>>]
<1>0. m \in Nat /\ n \in Nat /\ n <= m /\ headFile \in Nat /\ SyncedHead \in Nat /\ k \in Nat
  BY LenProperties, MessageFacts DEF StoreInv, RenamesAlternate, SyncedHead
<1>1. ASSUME NEW i \in n + 1..m PROVE i \in 1..m
  BY <1>0
<1>2. place \in [1..k -> heads]
  <2> SUFFICES ASSUME NEW j \in 1..k
               PROVE  <<"head", SyncedHead + n \div 2 + j>> \in heads
    OBVIOUS
  <2> DEFINE i == 2 * (n \div 2 + j)
  <2>1. i \in n + 1..m /\ i % 2 = 0 /\ i \div 2 = n \div 2 + j
    BY <1>0
  <2>2. renames[i] = <<"head", SyncedHead + n \div 2 + j>>
    <3> HIDE DEF i
    <3>1. renames[i] = <<"head", SyncedHead + i \div 2>>
      BY <1>1, <2>1, RenameAt
    <3>2. SyncedHead + i \div 2 = SyncedHead + n \div 2 + j
      BY <1>0, <2>1, HalfFacts
    <3> QED
      BY <3>1, <3>2
  <2> QED
    BY <2>1, <2>2 DEF LostHeads, Lost
<1>3. ASSUME NEW a \in 1..k, NEW b \in 1..k, place[a] = place[b] PROVE a = b
  BY <1>0, <1>3
<1>4. ASSUME NEW r \in heads PROVE \E j \in 1..k : place[j] = r
  <2>1. PICK i \in n + 1..m : r = renames[i]
    BY DEF LostHeads, Lost
  <2>2. i % 2 = 0 /\ r = <<"head", SyncedHead + i \div 2>>
    <3>1. renames[i][1] = "head"
      BY <2>1 DEF LostHeads
    <3> QED
      BY <1>1, <2>1, <3>1, RenameAt
  <2> DEFINE j == i \div 2 - n \div 2
  <2>3. j \in 1..k
    BY <1>0, <2>2
  <2>4. SyncedHead + n \div 2 + j = SyncedHead + i \div 2
    BY <1>0, <2>3
  <2> QED
    BY <2>2, <2>3, <2>4
<1>5. place \in Bijection(1..k, heads)
  BY <1>2, <1>3, <1>4, Fun_IsBij
<1>6. Cardinality(heads) = k
  BY <1>0, <1>5, FS_CountingElements DEF ExistsBijection
<1> QED
  BY <1>0, <1>6 DEF SyncedHead

(* The generations of the renames after the n-th are gone.                 *)
LEMMA LostAreOddPlaces ==
  ASSUME StoreInv, NEW n \in 0..Len(renames)
  PROVE  LostGenerations(n) = OddPlaces(SyncedHead, n, Len(renames))
<1> DEFINE m == Len(renames)
<1>0. m \in Nat
  BY LenProperties DEF StoreInv
<1>1. ASSUME NEW i \in n + 1..m PROVE i \in 1..m
  BY <1>0
<1>2. ASSUME NEW g \in LostGenerations(n) PROVE g \in OddPlaces(SyncedHead, n, m)
  <2>1. PICK i \in n + 1..m : renames[i][1] = "generation" /\ g = renames[i][2]
    BY DEF LostGenerations, Lost
  <2>2. i % 2 = 1 /\ g = SyncedHead + (i + 1) \div 2
    BY <1>1, <2>1, RenameAt
  <2> QED
    BY <2>2 DEF OddPlaces
<1>3. ASSUME NEW g \in OddPlaces(SyncedHead, n, m) PROVE g \in LostGenerations(n)
  <2>1. PICK i \in n + 1..m : i % 2 = 1 /\ g = SyncedHead + (i + 1) \div 2
    BY DEF OddPlaces
  <2>2. renames[i] = <<"generation", g>>
    BY <1>1, <2>1, RenameAt
  <2> QED
    BY <2>2 DEF LostGenerations, Lost
<1> QED
  BY <1>2, <1>3

(* They are the generations after those the first n renames wrote.         *)
LEMMA OddPlacesInterval ==
  ASSUME NEW m \in Nat, NEW n \in Nat, n <= m, NEW S \in Nat
  PROVE  OddPlaces(S, n, m) = S + (n + 1) \div 2 + 1..S + (m + 1) \div 2
<1>1. ASSUME NEW g \in S + (n + 1) \div 2 + 1..S + (m + 1) \div 2 PROVE g \in OddPlaces(S, n, m)
  <2> DEFINE i == 2 * (g - S) - 1
  <2>1. i \in n + 1..m
    BY <1>1
  <2>2. i % 2 = 1 /\ (i + 1) \div 2 = g - S
    BY <1>1
  <2>3. g = S + (i + 1) \div 2
    BY <2>2
  <2> QED
    BY <2>1, <2>2, <2>3 DEF OddPlaces
<1>2. ASSUME NEW i \in n + 1..m, i % 2 = 1
      PROVE  S + (i + 1) \div 2 \in S + (n + 1) \div 2 + 1..S + (m + 1) \div 2
  BY <1>2
<1> QED
  BY <1>1, <1>2 DEF OddPlaces

(* A power loss leaves a store that can be loaded, at a HEAD no older than *)
(* the last synced one.                                                    *)
LEMMA LossKeepsStore ==
  ASSUME StoreInv, NEW n \in 0..Len(renames), renames' = <<>>,
         headFile' = headFile - Cardinality(LostHeads(n)),
         generations' = generations \ LostGenerations(n)
  PROVE  StoreInv' /\ SyncedHead <= SyncedHead' /\ SyncedHead' \in Nat
<1> DEFINE m == Len(renames)
<1>0. m \in Nat /\ n \in Nat /\ n <= m /\ headFile \in Nat /\ SyncedHead \in Nat
      /\ headFile = SyncedHead + m \div 2 /\ MaxBlock \in Nat
  BY LenProperties, MessageFacts DEF StoreInv, RenamesAlternate, SyncedHead
<1>1. /\ headFile' = SyncedHead + n \div 2
      /\ LostGenerations(n) = SyncedHead + (n + 1) \div 2 + 1..SyncedHead + (m + 1) \div 2
  BY <1>0, LostHeadCount, LostAreOddPlaces, OddPlacesInterval
<1>2. Len(renames') = 0 /\ renames' \in Seq(RenameKinds \X StreamBlocks)
  BY EmptySeq
<1>3. headFile' \in 0..headFile /\ SyncedHead <= headFile'
  BY <1>0, <1>1
<1>4. SyncedHead' = headFile'
  BY <1>2, <1>3 DEF SyncedHead
<1>5. headFile' \in 0..MaxBlock /\ generations' \subseteq StreamBlocks
  BY <1>0, <1>3 DEF StoreInv
<1>6. RenamesAlternate'
  BY <1>2, <1>3, <1>4, <1>0 DEF RenamesAlternate
<1>7. generations' \in {1..headFile', 1..headFile' + 1}
  <2>1. CASE m = 0 /\ generations = 1..headFile + 1
    <3>1. n = 0 /\ n \div 2 = 0 /\ m \div 2 = 0 /\ (n + 1) \div 2 = 0 /\ (m + 1) \div 2 = 0
      BY <1>0, <2>1
    <3>2. headFile' = headFile /\ LostGenerations(n) = {}
      BY <1>0, <1>1, <3>1
    <3> QED
      BY <2>1, <3>2
  <2>2. CASE generations = 1..SyncedHead + (m + 1) \div 2
    <3>1. (n + 1) \div 2 \in Nat /\ (m + 1) \div 2 \in Nat /\ (n + 1) \div 2 <= (m + 1) \div 2
      BY <1>0
    <3>2. \A a, b, c \in Nat : a <= b => (1..c + b) \ (c + a + 1..c + b) = 1..c + a
      OBVIOUS
    <3>3. generations' = 1..SyncedHead + (n + 1) \div 2
      BY <1>0, <1>1, <2>2, <3>1, <3>2
    <3>4. (n + 1) \div 2 = n \div 2 \/ (n + 1) \div 2 = n \div 2 + 1
      BY <1>0, HalfFacts
    <3>5. n \div 2 \in Nat
      BY <1>0, HalfFacts
    <3>6. SyncedHead + (n \div 2 + 1) = headFile' + 1
      BY <1>0, <1>1, <3>5
    <3> QED
      BY <1>1, <3>3, <3>4, <3>6
  <2>3. generations = 1..SyncedHead + (m + 1) \div 2 \/ (m = 0 /\ generations = 1..headFile + 1)
    <3>1. CASE generations = 1..headFile /\ m % 2 = 0
      BY <1>0, <3>1, HalfFacts
    <3>2. CASE generations = 1..headFile + 1 /\ m % 2 = 1
      <4>1. SyncedHead + (m + 1) \div 2 = headFile + 1
        BY <1>0, <3>2
      <4> QED
        BY <3>2, <4>1
    <3>3. CASE generations = 1..headFile + 1 /\ renames = <<>>
      BY <3>3
    <3> QED
      BY <3>1, <3>2, <3>3 DEF StoreInv, GenerationsContiguous
  <2> QED
    BY <2>1, <2>2, <2>3
<1>8. GenerationsContiguous'
  <2>1. Len(renames') % 2 = 0
    BY <1>2
  <2> QED
    BY <1>7, <2>1, Zenon DEF GenerationsContiguous
<1> QED
  BY <1>2, <1>3, <1>4, <1>5, <1>6, <1>8 DEF StoreInv

-----------------------------------------------------------------------------
(* Steps that leave the store alone.                                       *)
LEMMA StoreUnchanged ==
  ASSUME StoreInv, UNCHANGED storeVars
  PROVE  StoreInv' /\ SyncedHead' = SyncedHead
  BY DEF StoreInv, RenamesAlternate, GenerationsContiguous, SyncedHead, storeVars

(* The synced HEAD is a number.                                            *)
LEMMA SyncedHeadInt ==
  ASSUME StoreInv
  PROVE  SyncedHead \in Nat /\ headFile \in Nat /\ SyncedHead <= headFile
<1>1. headFile \in Nat /\ Len(renames) \in Nat
  BY LenProperties, MessageFacts DEF StoreInv
<1>2. SyncedHead \in Int /\ SyncedHead <= headFile
  BY <1>1, HalfFacts DEF SyncedHead
<1> QED
  BY <1>1, <1>2 DEF StoreInv, RenamesAlternate

(* What was acknowledged stays so when the synced HEAD does not go back.   *)
LEMMA AckedKept ==
  ASSUME StoreInv, AckedSynced, SyncedHead' \in Int, SyncedHead <= SyncedHead',
         exposed \subseteq exposed',
         \A m \in StreamMessages : status'[m] = "acked" => status[m] = "acked"
  PROVE  AckedSynced'
<1> SUFFICES ASSUME NEW m \in StreamMessages, status'[m] = "acked"
             PROVE  m[1] <= SyncedHead' \/ m[1] \in exposed'
  BY DEF AckedSynced
<1>1. m[1] <= SyncedHead \/ m[1] \in exposed
  BY DEF AckedSynced
<1>2. m[1] \in Int
  BY MessageFacts
<1> QED
  BY <1>1, <1>2, SyncedHeadInt

(* Steps that leave the session alone.                                     *)
LEMMA SessionUnchanged ==
  ASSUME SessionInv, UNCHANGED <<sessionVars, storeVars, exposed>>
  PROVE  SessionInv'
  BY DEF SessionInv, CommitInHand, BlockInHand, SyncedHead, sessionVars, storeVars

(* Steps that leave the server alone.                                      *)
LEMMA ServerUnchanged ==
  ASSUME ServerInv, UNCHANGED serverVars, exposed' \subseteq StreamBlocks
  PROVE  ServerInv'
  BY DEF ServerInv, serverVars

(* A session that failed holds nothing.                                    *)
LEMMA FailedSession ==
  ASSUME FailSession
  PROVE  SessionInv'
<1>1. /\ session' = "down" /\ fetched' = <<>> /\ inflight' = {}
      /\ collecting' = [h \in StreamBlocks |-> <<>>]
      /\ applied' = 0 /\ block' = 0 /\ acking' = <<>>
  BY DEF FailSession
<1>2. <<>> \in Seq(StreamMessages) /\ Len(<<>>) = 0
  BY EmptySeq
<1>3. collecting' \in [StreamBlocks -> Seq(StreamMessages)]
  BY <1>1, <1>2
<1>4. \A h \in StreamBlocks : \A i \in 1..Len(collecting'[h]) : collecting'[h][i][1] = h
  BY <1>1, <1>2
<1>5. CommitInHand' /\ BlockInHand'
  BY <1>1 DEF CommitInHand, BlockInHand
<1>6. 0 \in 0..MaxBlock
  BY MessageFacts
<1> QED
  BY <1>1, <1>2, <1>3, <1>4, <1>5, <1>6 DEF SessionInv

-----------------------------------------------------------------------------
(* Every step keeps the invariant.  First the server.                      *)
LEMMA PublishKeeps ==
  ASSUME ConsumerInv, PublishMessage
  PROVE  ConsumerInv'
<1>1. StoreInv' /\ SyncedHead' = SyncedHead
  BY StoreUnchanged DEF ConsumerInv, PublishMessage
<1>2. SessionInv'
  BY SessionUnchanged DEF ConsumerInv, PublishMessage
<1>3. ServerInv'
  BY StreamFinite DEF ConsumerInv, PublishMessage, ServerInv
<1>4. AckedSynced'
  BY <1>1, SyncedHeadInt, AckedKept DEF ConsumerInv, PublishMessage
<1> QED
  BY <1>1, <1>2, <1>3, <1>4 DEF ConsumerInv

(* A message that is due again was delivered less than max_deliver times.  *)
LEMMA AckWaitKeeps ==
  ASSUME ConsumerInv, NEW m \in StreamMessages, AckWaitEnds(m)
  PROVE  ConsumerInv'
<1>1. StoreInv' /\ SyncedHead' = SyncedHead
  BY StoreUnchanged DEF ConsumerInv, AckWaitEnds
<1>2. SessionInv'
  BY SessionUnchanged DEF ConsumerInv, AckWaitEnds
<1>3. ServerInv'
  <2>1. /\ status' \in [StreamMessages -> {"new", "sent", "due", "acked", "dropped"}]
        /\ \A n \in StreamMessages : n # m => status'[n] = status[n]
        /\ status'[m] = IF deliveries[m] < MaxDeliver THEN "due" ELSE "dropped"
    BY DEF ConsumerInv, AckWaitEnds, ServerInv
  <2>2. UNCHANGED <<published, deliveries, exposed>>
    BY DEF AckWaitEnds
  <2> QED
    BY <2>1, <2>2 DEF ConsumerInv, ServerInv
<1>4. AckedSynced'
  <2>1. \A n \in StreamMessages : status'[n] = "acked" => status[n] = "acked"
    BY DEF ConsumerInv, AckWaitEnds, ServerInv
  <2> QED
    BY <1>1, <2>1, SyncedHeadInt, AckedKept DEF ConsumerInv, AckWaitEnds
<1> QED
  BY <1>1, <1>2, <1>3, <1>4 DEF ConsumerInv

(* The session takes a delivery, or fails on one it holds already.         *)
LEMMA FetchKeeps ==
  ASSUME ConsumerInv, NEW m \in StreamMessages, Fetch(m)
  PROVE  ConsumerInv'
<1>1. StoreInv' /\ SyncedHead' = SyncedHead
  BY StoreUnchanged DEF ConsumerInv, Fetch
<1>2. SessionInv'
  <2>1. CASE FailSession
    BY <2>1, FailedSession
  <2>2. CASE /\ inflight' = inflight \cup {m} /\ fetched' = Append(fetched, m)
             /\ UNCHANGED <<session, collecting, applied, block, acking>>
    <3>1. fetched' \in Seq(StreamMessages) /\ inflight' \subseteq StreamMessages
      BY <2>2, AppendProperties DEF ConsumerInv, SessionInv
    <3>2. session = "fetch" /\ UNCHANGED <<storeVars, exposed>>
      BY DEF Fetch
    <3>3. CommitInHand' /\ BlockInHand'
      BY <2>2, <3>2 DEF ConsumerInv, SessionInv, CommitInHand, BlockInHand, storeVars
    <3> QED
      BY <2>2, <3>1, <3>2, <3>3 DEF ConsumerInv, SessionInv
  <2> QED
    BY <2>1, <2>2 DEF Fetch
<1>3. ServerInv'
  <2>1. /\ status' = [status EXCEPT ![m] = "sent"]
        /\ deliveries' = [deliveries EXCEPT ![m] = @ + 1]
        /\ UNCHANGED <<published, exposed>>
    BY DEF Fetch
  <2>2. deliveries[m] \in Nat /\ deliveries[m] < MaxDeliver /\ MaxDeliver \in Nat
    BY MessageFacts DEF ConsumerInv, ServerInv, Fetch, Deliverable
  <2>3. deliveries' \in [StreamMessages -> 0..MaxDeliver]
    BY <2>1, <2>2 DEF ConsumerInv, ServerInv
  <2>4. status' \in [StreamMessages -> {"new", "sent", "due", "acked", "dropped"}]
    BY <2>1 DEF ConsumerInv, ServerInv
  <2>5. /\ status'[m] = "sent"
        /\ \A n \in StreamMessages : n # m => status'[n] = status[n] /\ deliveries'[n] = deliveries[n]
    BY <2>1 DEF ConsumerInv, ServerInv
  <2> QED
    BY <2>1, <2>3, <2>4, <2>5 DEF ConsumerInv, ServerInv
<1>4. AckedSynced'
  <2>1. \A n \in StreamMessages : status'[n] = "acked" => status[n] = "acked"
    BY DEF ConsumerInv, Fetch, ServerInv
  <2> QED
    BY <1>1, <2>1, SyncedHeadInt, AckedKept DEF ConsumerInv, Fetch
<1> QED
  BY <1>1, <1>2, <1>3, <1>4 DEF ConsumerInv

(* Steps of the session that touch neither the server nor the store.       *)
LEMMA SessionStepKeeps ==
  ASSUME ConsumerInv, SessionInv', UNCHANGED <<serverVars, storeVars>>,
         exposed \subseteq exposed', exposed' \subseteq StreamBlocks
  PROVE  ConsumerInv'
<1>1. StoreInv' /\ SyncedHead' = SyncedHead
  BY StoreUnchanged DEF ConsumerInv
<1>2. ServerInv'
  BY ServerUnchanged DEF ConsumerInv
<1>3. AckedSynced'
  BY <1>1, SyncedHeadInt, AckedKept DEF ConsumerInv, serverVars
<1> QED
  BY <1>1, <1>2, <1>3 DEF ConsumerInv

(* The session opens at HEAD.                                              *)
LEMMA OpenKeeps ==
  ASSUME ConsumerInv, OpenSession
  PROVE  ConsumerInv'
<1>1. CommitInHand' /\ BlockInHand'
  BY DEF ConsumerInv, OpenSession, CommitInHand, BlockInHand, storeVars
<1>2. SessionInv'
  BY <1>1 DEF ConsumerInv, StoreInv, SessionInv, OpenSession, storeVars
<1> QED
  BY <1>2, SessionStepKeeps DEF ConsumerInv, ServerInv, OpenSession

(* The fetch returns.                                                      *)
LEMMA FetchReturnsKeeps ==
  ASSUME ConsumerInv, FetchReturns
  PROVE  ConsumerInv'
<1>1. SessionInv'
  <2>1. CASE FailSession
    BY <2>1, FailedSession
  <2>2. CASE /\ fetched # <<>> /\ session' = "push"
             /\ UNCHANGED <<fetched, inflight, collecting, applied, block, acking>>
    <3>1. CommitInHand' /\ BlockInHand'
      BY <2>2 DEF ConsumerInv, SessionInv, FetchReturns, CommitInHand, BlockInHand, storeVars
    <3> QED
      BY <2>2, <3>1 DEF ConsumerInv, SessionInv
  <2> QED
    BY <2>1, <2>2 DEF FetchReturns
<1> QED
  BY <1>1, SessionStepKeeps DEF ConsumerInv, ServerInv, FetchReturns

(* What is pushed collects under its own block; the block that is complete *)
(* comes with its own messages.                                            *)
LEMMA PushKeeps ==
  ASSUME ConsumerInv, Push
  PROVE  ConsumerInv'
<1> DEFINE m == Head(fetched)
           ids == Append(collecting[m[1]], m)
<1>0. /\ session = "push" /\ fetched # <<>> /\ fetched \in Seq(StreamMessages)
      /\ collecting \in [StreamBlocks -> Seq(StreamMessages)]
      /\ UNCHANGED <<serverVars, storeVars, exposed>>
  BY DEF ConsumerInv, SessionInv, Push
<1>1. m \in StreamMessages /\ Tail(fetched) \in Seq(StreamMessages)
  BY <1>0, HeadTailProperties
<1>2. m[1] \in StreamBlocks /\ StreamBlocks \subseteq 0..MaxBlock
  BY <1>1, MessageFacts DEF StreamBlocks
<1>3. collecting[m[1]] \in Seq(StreamMessages)
  BY <1>0, <1>2
<1>4. /\ ids \in Seq(StreamMessages) /\ Len(ids) = Len(collecting[m[1]]) + 1
      /\ Len(collecting[m[1]]) \in Nat
      /\ \A i \in 1..Len(collecting[m[1]]) : ids[i] = collecting[m[1]][i]
      /\ ids[Len(collecting[m[1]]) + 1] = m
  BY <1>1, <1>3, AppendProperties, LenProperties
<1>5. \A i \in 1..Len(ids) : ids[i][1] = m[1]
  <2> SUFFICES ASSUME NEW i \in 1..Len(ids) PROVE ids[i][1] = m[1]
    OBVIOUS
  <2>1. i \in 1..Len(collecting[m[1]]) \/ i = Len(collecting[m[1]]) + 1
    BY <1>4
  <2>2. \A j \in 1..Len(collecting[m[1]]) : collecting[m[1]][j][1] = m[1]
    BY <1>2 DEF ConsumerInv, SessionInv
  <2> HIDE DEF ids, m
  <2> QED
    BY <1>4, <2>1, <2>2
<1>6. SessionInv'
  <2>1. CASE FailSession
    BY <2>1, FailedSession
  <2>2. CASE /\ collecting' = [collecting EXCEPT ![m[1]] = ids]
             /\ fetched' = Tail(fetched) /\ session' = NextDelivery(fetched')
             /\ UNCHANGED <<inflight, applied, block, acking>>
    <3> HIDE DEF ids, m
    <3>1. collecting' \in [StreamBlocks -> Seq(StreamMessages)]
      BY <1>0, <1>2, <1>4, <2>2
    <3>2. \A h \in StreamBlocks : \A i \in 1..Len(collecting'[h]) : collecting'[h][i][1] = h
      BY <1>0, <1>5, <2>2 DEF ConsumerInv, SessionInv
    <3>3. session' = "fetch" \/ (session' = "push" /\ fetched' # <<>>)
      BY <2>2 DEF NextDelivery
    <3>4. CommitInHand' /\ BlockInHand'
      BY <1>0, <2>2, <3>3 DEF ConsumerInv, SessionInv, CommitInHand, BlockInHand, storeVars
    <3> QED
      BY <1>1, <2>2, <3>1, <3>2, <3>3, <3>4 DEF ConsumerInv, SessionInv
  <2>3. CASE /\ collecting' = [collecting EXCEPT ![m[1]] = <<>>]
             /\ fetched' = Tail(fetched)
             /\ block' = m[1] /\ acking' = ids /\ session' = "prepare"
             /\ UNCHANGED <<inflight, applied>>
    <3> HIDE DEF ids, m
    <3>0. <<>> \in Seq(StreamMessages) /\ Len(<<>>) = 0
      BY EmptySeq
    <3>1. collecting' \in [StreamBlocks -> Seq(StreamMessages)]
      BY <1>0, <1>2, <2>3, <3>0
    <3>2. \A h \in StreamBlocks : \A i \in 1..Len(collecting'[h]) : collecting'[h][i][1] = h
      BY <1>0, <2>3, <3>0 DEF ConsumerInv, SessionInv
    <3>3. CommitInHand'
      BY <1>0, <2>3 DEF ConsumerInv, SessionInv, CommitInHand, storeVars
    <3>4. BlockInHand'
      <4>1. acking' # <<>>
        BY <1>4, <2>3, <3>0
      <4> QED
        BY <1>5, <2>3, <4>1 DEF BlockInHand
    <3> QED
      BY <1>1, <1>2, <1>4, <2>3, <3>1, <3>2, <3>3, <3>4 DEF ConsumerInv, SessionInv
  <2> QED
    BY <2>1, <2>2, <2>3 DEF Push
<1> QED
  BY <1>0, <1>6, SessionStepKeeps DEF ConsumerInv, ServerInv

(* The block in hand is a block of the stream.                             *)
LEMMA BlockInStream ==
  ASSUME SessionInv, session \in {"prepare", "store", "head", "sync", "ack"}
  PROVE  /\ block \in StreamBlocks /\ block \in Int
         /\ Head(acking) \in StreamMessages /\ Head(acking)[1] = block
<1>1. acking # <<>> /\ acking \in Seq(StreamMessages)
  BY DEF SessionInv, BlockInHand
<1>2. Head(acking) = acking[1] /\ 1 \in 1..Len(acking) /\ acking[1] \in StreamMessages
  BY <1>1, HeadTailProperties, LenProperties, EmptySeq, ElementOfSeq
<1>3. acking[1][1] = block
  BY <1>2 DEF SessionInv, BlockInHand
<1> QED
  BY <1>2, <1>3, MessageFacts

(* A block found applied is acknowledged: HEAD names it, and when HEAD is  *)
(* not synced the block counts as exposed.                                 *)
LEMMA PrepareKeeps ==
  ASSUME ConsumerInv, PrepareBlock
  PROVE  ConsumerInv'
<1>0. /\ session = "prepare" /\ applied = headFile /\ block \in StreamBlocks
      /\ UNCHANGED <<serverVars, storeVars>> /\ SyncedHead' = SyncedHead /\ headFile \in Nat
  BY BlockInStream, StoreUnchanged, SyncedHeadInt
  DEF ConsumerInv, SessionInv, CommitInHand, PrepareBlock
<1>1. CASE FailSession /\ UNCHANGED exposed
  BY <1>0, <1>1, FailedSession, SessionStepKeeps DEF ConsumerInv, ServerInv
<1>2. CASE /\ block = applied /\ session' = "ack"
           /\ exposed' = IF renames = <<>> THEN exposed ELSE exposed \cup {block}
           /\ UNCHANGED <<fetched, inflight, collecting, applied, block, acking>>
  <2>1. block <= SyncedHead' \/ block \in exposed'
    <3>1. CASE renames = <<>>
      <4>1. Len(renames) \div 2 = 0
        BY <3>1, EmptySeq
      <4> QED
        BY <1>0, <1>2, <4>1 DEF SyncedHead
    <3> QED
      BY <1>2, <3>1
  <2>2. CommitInHand' /\ BlockInHand'
    BY <1>0, <1>2, <2>1 DEF ConsumerInv, SessionInv, CommitInHand, BlockInHand, storeVars
  <2>3. SessionInv'
    BY <1>2, <2>2 DEF ConsumerInv, SessionInv
  <2> QED
    BY <1>0, <1>2, <2>3, SessionStepKeeps DEF ConsumerInv, ServerInv
<1>3. CASE /\ block = applied + 1 /\ session' = "store"
           /\ UNCHANGED <<fetched, inflight, collecting, applied, block, acking, exposed>>
  <2>1. CommitInHand' /\ BlockInHand'
    BY <1>0, <1>3 DEF ConsumerInv, SessionInv, CommitInHand, BlockInHand, storeVars
  <2>2. SessionInv'
    BY <1>3, <2>1 DEF ConsumerInv, SessionInv
  <2> QED
    BY <1>0, <1>3, <2>2, SessionStepKeeps DEF ConsumerInv, ServerInv
<1> QED
  BY <1>1, <1>2, <1>3 DEF PrepareBlock

(* The generation is renamed into place, or the commit is refused.         *)
LEMMA StoreGenerationKeeps ==
  ASSUME ConsumerInv, StoreGeneration
  PROVE  ConsumerInv'
<1>0. /\ session = "store" /\ applied = headFile /\ block = headFile + 1 /\ block \in StreamBlocks
      /\ UNCHANGED <<serverVars, exposed>>
  BY BlockInStream DEF ConsumerInv, SessionInv, CommitInHand, StoreGeneration
<1>1. CASE FailSession /\ UNCHANGED storeVars
  BY <1>0, <1>1, FailedSession, SessionStepKeeps DEF ConsumerInv, ServerInv
<1>2. CASE /\ block \notin generations
           /\ generations' = generations \cup {block}
           /\ renames' = Append(renames, <<"generation", block>>) /\ session' = "head"
           /\ UNCHANGED <<fetched, inflight, collecting, applied, block, acking, headFile>>
  <2>1. StoreInv' /\ SyncedHead' = SyncedHead /\ Len(renames') % 2 = 1
    BY <1>0, <1>2, GenerationKeepsStore DEF ConsumerInv
  <2>2. CommitInHand' /\ BlockInHand'
    BY <1>0, <1>2, <2>1 DEF ConsumerInv, SessionInv, CommitInHand, BlockInHand
  <2>3. SessionInv'
    BY <1>2, <2>2 DEF ConsumerInv, SessionInv
  <2>4. ServerInv' /\ AckedSynced'
    BY <1>0, <2>1, ServerUnchanged, SyncedHeadInt, AckedKept DEF ConsumerInv, ServerInv, serverVars
  <2> QED
    BY <2>1, <2>3, <2>4 DEF ConsumerInv
<1> QED
  BY <1>1, <1>2 DEF StoreGeneration

(* HEAD is renamed into place.                                             *)
LEMMA WriteHeadKeeps ==
  ASSUME ConsumerInv, WriteHead
  PROVE  ConsumerInv'
<1>0. /\ session = "head" /\ applied = headFile /\ block = headFile + 1 /\ block \in StreamBlocks
      /\ Len(renames) % 2 = 1 /\ headFile \in Nat
      /\ headFile' = block /\ renames' = Append(renames, <<"head", block>>) /\ session' = "sync"
      /\ UNCHANGED <<serverVars, fetched, inflight, collecting, applied, block, acking,
                     generations, exposed>>
  BY BlockInStream, SyncedHeadInt DEF ConsumerInv, SessionInv, CommitInHand, WriteHead
<1>1. StoreInv' /\ SyncedHead' = SyncedHead /\ generations' = 1..headFile'
  BY <1>0, HeadKeepsStore DEF ConsumerInv
<1>2. CommitInHand' /\ BlockInHand'
  BY <1>0, <1>1 DEF ConsumerInv, SessionInv, CommitInHand, BlockInHand
<1>3. SessionInv'
  BY <1>0, <1>2 DEF ConsumerInv, SessionInv
<1>4. ServerInv' /\ AckedSynced'
  BY <1>0, <1>1, ServerUnchanged, SyncedHeadInt, AckedKept DEF ConsumerInv, ServerInv, serverVars
<1> QED
  BY <1>1, <1>3, <1>4 DEF ConsumerInv

(* The root is synced and the block becomes visible.                       *)
LEMMA CommitKeeps ==
  ASSUME ConsumerInv, CommitPrepared
  PROVE  ConsumerInv'
<1>0. /\ session = "sync" /\ block = headFile /\ generations = 1..headFile
      /\ renames' = <<>> /\ applied' = block /\ session' = "ack"
      /\ UNCHANGED <<serverVars, fetched, inflight, collecting, block, acking,
                     generations, headFile, exposed>>
  BY DEF ConsumerInv, SessionInv, CommitInHand, CommitPrepared
<1>1. StoreInv' /\ SyncedHead' = headFile /\ SyncedHead <= headFile /\ headFile \in Nat
  BY <1>0, SyncKeepsStore, SyncedHeadInt DEF ConsumerInv
<1>2. CommitInHand' /\ BlockInHand'
  BY <1>0, <1>1 DEF ConsumerInv, SessionInv, CommitInHand, BlockInHand
<1>3. SessionInv'
  BY <1>0, <1>2 DEF ConsumerInv, SessionInv
<1>4. ServerInv'
  BY <1>0, ServerUnchanged DEF ConsumerInv, ServerInv
<1>5. AckedSynced'
  BY <1>0, <1>1, AckedKept DEF ConsumerInv, serverVars
<1> QED
  BY <1>1, <1>3, <1>4, <1>5 DEF ConsumerInv

(* A message of the block in hand is acknowledged.                         *)
LEMMA AckKeeps ==
  ASSUME ConsumerInv, Ack
  PROVE  ConsumerInv'
<1> DEFINE m == Head(acking)
<1>0. /\ session = "ack" /\ acking # <<>> /\ acking \in Seq(StreamMessages)
      /\ m \in StreamMessages /\ m[1] = block
      /\ block <= SyncedHead \/ block \in exposed
      /\ UNCHANGED <<published, deliveries, fetched, collecting, applied, block, storeVars, exposed>>
  BY BlockInStream DEF ConsumerInv, SessionInv, CommitInHand, BlockInHand, Ack
<1>1. StoreInv' /\ SyncedHead' = SyncedHead
  BY <1>0, StoreUnchanged DEF ConsumerInv
<1>2. SessionInv'
  <2>1. /\ inflight' = inflight \ {m} /\ acking' = Tail(acking)
        /\ session' = IF Tail(acking) = <<>> THEN NextDelivery(fetched) ELSE "ack"
    BY DEF Ack
  <2>2. /\ Tail(acking) \in Seq(StreamMessages) /\ Len(Tail(acking)) = Len(acking) - 1
        /\ Len(acking) \in Nat
        /\ \A i \in 1..Len(Tail(acking)) : Tail(acking)[i] = acking[i + 1]
    BY <1>0, HeadTailProperties, LenProperties
  <2>3. \/ session' = "fetch"
        \/ session' = "push" /\ fetched' # <<>>
        \/ session' = "ack" /\ acking' # <<>>
    BY <1>0, <2>1 DEF NextDelivery
  <2>4. \A i \in 1..Len(acking') : acking'[i][1] = block'
    <3> SUFFICES ASSUME NEW i \in 1..Len(Tail(acking)) PROVE Tail(acking)[i][1] = block
      BY <1>0, <2>1
    <3>1. i + 1 \in 1..Len(acking) /\ Tail(acking)[i] = acking[i + 1]
      BY <2>2
    <3> QED
      BY <1>0, <3>1 DEF ConsumerInv, SessionInv, BlockInHand
  <2>5. CommitInHand' /\ BlockInHand'
    BY <1>0, <1>1, <2>3, <2>4
    DEF ConsumerInv, SessionInv, CommitInHand, BlockInHand, storeVars
  <2> QED
    BY <1>0, <2>1, <2>2, <2>3, <2>5 DEF ConsumerInv, SessionInv
<1>3. ServerInv' /\ AckedSynced'
  <2>0. status' \in {status, [status EXCEPT ![m] = "acked"]}
    BY DEF Ack
  <2>1. /\ status' \in [StreamMessages -> {"new", "sent", "due", "acked", "dropped"}]
        /\ \A n \in StreamMessages : status'[n] = status[n] \/ (n = m /\ status'[n] = "acked")
    BY <1>0, <2>0 DEF ConsumerInv, ServerInv
  <2>2. ServerInv'
    BY <1>0, <2>1 DEF ConsumerInv, ServerInv
  <2>3. AckedSynced'
    BY <1>0, <1>1, <2>1 DEF ConsumerInv, AckedSynced
  <2> QED
    BY <2>2, <2>3
<1> QED
  BY <1>1, <1>2, <1>3 DEF ConsumerInv

(* The session is cut short.                                               *)
LEMMA SessionEndsKeeps ==
  ASSUME ConsumerInv, SessionEnds
  PROVE  ConsumerInv'
  BY FailedSession, SessionStepKeeps DEF ConsumerInv, ServerInv, SessionEnds

(* The host loses power.                                                   *)
LEMMA PowerLossKeeps ==
  ASSUME ConsumerInv, HostPowerLoss
  PROVE  ConsumerInv'
<1>1. PICK n \in 0..Len(renames) :
        /\ headFile' = headFile - Cardinality(LostHeads(n))
        /\ generations' = generations \ LostGenerations(n)
  BY Zenon DEF HostPowerLoss, LostHeads, LostGenerations, Lost
<1>2. renames' = <<>> /\ FailSession /\ UNCHANGED <<serverVars, exposed>>
  BY DEF HostPowerLoss
<1>3. StoreInv' /\ SyncedHead <= SyncedHead' /\ SyncedHead' \in Nat
  BY <1>1, <1>2, LossKeepsStore DEF ConsumerInv
<1>4. SessionInv'
  BY <1>2, FailedSession
<1>5. ServerInv' /\ AckedSynced'
  BY <1>2, <1>3, ServerUnchanged, AckedKept DEF ConsumerInv, ServerInv, serverVars
<1> QED
  BY <1>3, <1>4, <1>5 DEF ConsumerInv

-----------------------------------------------------------------------------
(* The empty store and the closed session satisfy the invariant.           *)
LEMMA ConsumerInitHolds == ConsumerInit => ConsumerInv
<1> SUFFICES ASSUME ConsumerInit PROVE ConsumerInv
  OBVIOUS
<1>1. Len(<<>>) = 0 /\ <<>> \in Seq(StreamMessages) /\ <<>> \in Seq(RenameKinds \X StreamBlocks)
  BY EmptySeq
<1>2. MaxBlock \in Nat /\ MaxDeliver \in Nat /\ Cardinality(StreamMessages) \in Nat
  BY MessageFacts, StreamFinite
<1>3. /\ headFile = 0 /\ renames = <<>> /\ generations = {}
      /\ session = "down" /\ fetched = <<>> /\ inflight = {}
      /\ collecting = [h \in StreamBlocks |-> <<>>]
      /\ applied = 0 /\ block = 0 /\ acking = <<>>
  BY DEF ConsumerInit
<1>4. StoreInv
  <2>1. SyncedHead = 0
    BY <1>1, <1>3 DEF SyncedHead
  <2>2. RenamesAlternate /\ GenerationsContiguous
    BY <1>1, <1>3, <2>1 DEF RenamesAlternate, GenerationsContiguous
  <2> QED
    BY <1>1, <1>2, <1>3, <2>2 DEF StoreInv
<1>5. SessionInv
  <2>1. CommitInHand /\ BlockInHand
    BY <1>3 DEF CommitInHand, BlockInHand
  <2>2. collecting \in [StreamBlocks -> Seq(StreamMessages)]
    BY <1>1, <1>3
  <2>3. \A h \in StreamBlocks : \A i \in 1..Len(collecting[h]) : collecting[h][i][1] = h
    BY <1>1, <1>3
  <2> QED
    BY <1>1, <1>2, <1>3, <2>1, <2>2, <2>3 DEF SessionInv
<1>6. ServerInv /\ AckedSynced
  BY <1>2 DEF ConsumerInit, ServerInv, AckedSynced
<1> QED
  BY <1>4, <1>5, <1>6 DEF ConsumerInv

(* The state service keeps its invariant whatever is delivered, lost or    *)
(* cut short: the unsynced renames of one or several interrupted commits   *)
(* are consecutive generations each followed by its HEAD, and the block in *)
(* hand is the next one after HEAD.                                        *)
THEOREM ConsumerInvariant == ConsumerSpec => []ConsumerInv
<1>1. ConsumerInit => ConsumerInv
  BY ConsumerInitHolds
<1>2. ConsumerInv /\ [ConsumerNext]_consumerVars => ConsumerInv'
  <2> SUFFICES ASSUME ConsumerInv, [ConsumerNext]_consumerVars PROVE ConsumerInv'
    OBVIOUS
  <2>1. CASE PublishMessage
    BY <2>1, PublishKeeps
  <2>2. CASE OpenSession
    BY <2>2, OpenKeeps
  <2>3. CASE FetchReturns
    BY <2>3, FetchReturnsKeeps
  <2>4. CASE Push
    BY <2>4, PushKeeps
  <2>5. CASE \E m \in StreamMessages : AckWaitEnds(m) \/ Fetch(m)
    BY <2>5, AckWaitKeeps, FetchKeeps
  <2>6. CASE PrepareBlock
    BY <2>6, PrepareKeeps
  <2>7. CASE StoreGeneration
    BY <2>7, StoreGenerationKeeps
  <2>8. CASE WriteHead
    BY <2>8, WriteHeadKeeps
  <2>9. CASE CommitPrepared
    BY <2>9, CommitKeeps
  <2>10. CASE Ack
    BY <2>10, AckKeeps
  <2>11. CASE SessionEnds
    BY <2>11, SessionEndsKeeps
  <2>12. CASE HostPowerLoss
    BY <2>12, PowerLossKeeps
  <2>13. CASE UNCHANGED consumerVars
    <3>1. UNCHANGED <<serverVars, sessionVars, storeVars, exposed>>
      BY <2>13 DEF consumerVars
    <3>2. SessionInv'
      BY <3>1, SessionUnchanged DEF ConsumerInv
    <3> QED
      BY <3>1, <3>2, SessionStepKeeps DEF ConsumerInv, ServerInv
  <2> QED
    BY <2>1, <2>2, <2>3, <2>4, <2>5, <2>6, <2>7, <2>8, <2>9, <2>10, <2>11, <2>12, <2>13
    DEF ConsumerNext
<1> QED
  BY <1>1, <1>2, PTL DEF ConsumerSpec

(* For every stream and every number of crashes: a message is acknowledged *)
(* only when the state after its block survives every crash (or its block  *)
(* was found applied on an unsynced HEAD), HEAD never names a missing      *)
(* generation, and the ledger shows nothing HEAD does not name.            *)
THEOREM ConsumerIsSafe == ConsumerSpec => []ConsumerSafe
<1>1. ConsumerInv => ConsumerSafe
  <2> SUFFICES ASSUME ConsumerInv PROVE ConsumerSafe
    OBVIOUS
  <2>1. ConsumerTypeOK
    BY DEF ConsumerInv, StoreInv, SessionInv, ServerInv, ConsumerTypeOK, RenameKinds
  <2>2. AckedDurable
    BY DurableIsSynced DEF ConsumerInv, AckedSynced, AckedDurable
  <2>3. VisibleIsStored
    <3>1. headFile \in Nat
      BY SyncedHeadInt DEF ConsumerInv
    <3>2. HeadLoads
      BY <3>1 DEF ConsumerInv, StoreInv, GenerationsContiguous, HeadLoads
    <3> QED
      BY <3>1, <3>2 DEF ConsumerInv, SessionInv, CommitInHand, VisibleIsStored
  <2> QED
    BY <2>1, <2>2, <2>3 DEF ConsumerSafe
<1> QED
  BY <1>1, ConsumerInvariant, PTL

(* What a power loss would leave, as a number.                             *)
DurableIsNumber == DurableHead = SyncedHead /\ SyncedHead \in Nat

(* What a power loss would leave never goes back: no step, not even a      *)
(* power loss, undoes a state that was durable.                            *)
THEOREM DurableNeverGoesBack == ConsumerSpec => [][DurableHead <= DurableHead']_consumerVars
<1>1. ConsumerInv => DurableIsNumber
  BY DurableIsSynced, SyncedHeadInt DEF ConsumerInv, DurableIsNumber
<1>2. ASSUME ConsumerInv, [ConsumerNext]_consumerVars, SyncedHead' \in Nat
      PROVE  SyncedHead <= SyncedHead'
  <2>0. StoreInv /\ SyncedHead \in Nat
    BY <1>1, <1>2 DEF ConsumerInv, DurableIsNumber
  <2>1. CASE UNCHANGED storeVars
    BY <2>0, <2>1, StoreUnchanged
  <2>2. CASE StoreGeneration
    <3>1. block = headFile + 1 /\ block \in StreamBlocks
      BY <1>2, <2>2, BlockInStream DEF ConsumerInv, SessionInv, CommitInHand, StoreGeneration
    <3> QED
      BY <2>0, <2>1, <2>2, <3>1, GenerationKeepsStore DEF StoreGeneration
  <2>3. CASE WriteHead
    <3>1. block = headFile + 1 /\ block \in StreamBlocks /\ Len(renames) % 2 = 1
      BY <1>2, <2>3, BlockInStream DEF ConsumerInv, SessionInv, CommitInHand, WriteHead
    <3> QED
      BY <2>0, <2>3, <3>1, HeadKeepsStore DEF WriteHead
  <2>4. CASE CommitPrepared
    <3>1. generations = 1..headFile
      BY <1>2, <2>4 DEF ConsumerInv, SessionInv, CommitInHand, CommitPrepared
    <3> QED
      BY <2>0, <2>4, <3>1, SyncKeepsStore DEF CommitPrepared
  <2>5. CASE HostPowerLoss
    <3>1. PICK n \in 0..Len(renames) :
            /\ headFile' = headFile - Cardinality(LostHeads(n))
            /\ generations' = generations \ LostGenerations(n)
      BY <2>5, Zenon DEF HostPowerLoss, LostHeads, LostGenerations, Lost
    <3> QED
      BY <2>0, <2>5, <3>1, LossKeepsStore DEF HostPowerLoss
  <2>6. \/ UNCHANGED storeVars
        \/ StoreGeneration \/ WriteHead \/ CommitPrepared \/ HostPowerLoss
    BY <1>2 DEF ConsumerNext, consumerVars, PublishMessage, AckWaitEnds, OpenSession, Fetch,
                FetchReturns, Push, PrepareBlock, Ack, SessionEnds
  <2> QED
    BY <2>1, <2>2, <2>3, <2>4, <2>5, <2>6
<1>3. DurableIsNumber /\ DurableIsNumber' /\ ConsumerInv /\ [ConsumerNext]_consumerVars
        => [DurableHead <= DurableHead']_consumerVars
  BY <1>2 DEF DurableIsNumber
<1> QED
  BY <1>1, <1>3, ConsumerInvariant, PTL DEF ConsumerSpec
=============================================================================
