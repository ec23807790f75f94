-------------------------- MODULE LiveSourceProofs --------------------------
(***************************************************************************)
(* Proofs about the sources that are asked over the network: a time-paged  *)
(* /info endpoint, the weight budget its requests are paid from, and a     *)
(* WebSocket connection.  They hold for every venue, page limit, overlap,  *)
(* page budget, ceiling, split, set of jobs and number of slots, for every *)
(* number of subscriptions, snapshots and frames, every capacity of the    *)
(* fan-out, and every number of faults and crashes.                        *)
(*                                                                         *)
(* CrawlExact speaks of a crawl that has ended.  Inductive is what holds   *)
(* of the crawl under way: what it has collected is a run of consecutive   *)
(* records that begins with the first one from its start on, the cursor    *)
(* stands at the end of that run, with the identities of its last          *)
(* millisecond (CollectedInv), and the page in hand is an interval of what *)
(* the venue had listed when it served it (PageInv).  StartBehindCapture   *)
(* is about the checkpoint on disk; CaptureInv says the same of the one in *)
(* memory, and of the records the crawl has collected, unless a page could *)
(* not be archived or saved: a page that is nowhere is collected too, and  *)
(* it is the error that keeps the start where it was.                      *)
(*                                                                         *)
(* The budget: RateBounded counts what the pools hold, and a refill adds   *)
(* to that with no time passing.  Inductive is the bound with what the     *)
(* next refill will add (RateInv).  That a refund is never of weight that  *)
(* was not charged needs the weight the leases hold, all together, to be   *)
(* charged (LentInv).                                                      *)
(*                                                                         *)
(* The connection: ReaderFollows speaks of a drained fan-out.  Inductive   *)
(* is what holds of the items still in it: each DuplicateSnapshot repeats  *)
(* the item before it of the same subscription, and the session remembers  *)
(* the last one (ReaderInv).  QueueInv follows a frame through the list in *)
(* memory and the one on disk, and OrderInv says that a queued frame which *)
(* was overtaken has been pushed before.                                   *)
(***************************************************************************)
EXTENDS InfoCapture, RequestBudget, WsCapture, FiniteSetTheorems, SequenceTheorems,
        WellFoundedInduction, NaturalsInduction, TLAPS

Crawling == crawl \in {"fetch", "save", "apply", "finish"}

Cursors == [start : 0..MaxMillis, last : None..MaxMillis, at : SUBSET Listing]

InfoTyped == InfoTypeOK /\ pageCursor \in Cursors /\ infoCrashes \in Nat

(* The millisecond of the last record of the venue.                        *)
LastMillis == IF venue = <<>> THEN 0 ELSE venue[Len(venue)]

(* The venue's records are in time order, and no start is beyond them.     *)
VenueInv ==
  /\ \A i, j \in 1..Len(venue) : i <= j => venue[i] <= venue[j]
  /\ checkpoint.next <= LastMillis /\ savedCheckpoint.next <= LastMillis

Queued(list, b) == \E n \in 1..Len(list) : list[n] = b

(* A record is in a body that was published or is queued.                  *)
Held(i, c) ==
  \E b \in PageBodies \ {Drift} :
    i \in b /\ (publications[b] > 0 \/ Queued(c.pending, b))

CheckpointHeld(c) == \A i \in 1..Len(venue) : venue[i] < c.next => Held(i, c)

(* What the checkpoints are behind of, and what has been published.        *)
CaptureInv ==
  /\ CheckpointHeld(checkpoint) /\ CheckpointHeld(savedCheckpoint)
  /\ Crawling /\ ~broken => \A n \in 1..Len(collected) : Held(collected[n], checkpoint)
  /\ crawl = "apply" => page # Drift /\ (~broken => Queued(checkpoint.pending, page))
  /\ crawl = "drop" => /\ checkpoint.pending # <<>>
                       /\ Head(checkpoint.pending) = Drift \/ publications[Head(checkpoint.pending)] > 0
  /\ \A b \in PageBodies :
       /\ b \in marked => publications[b] > 0 /\ publications[b] <= 1 + infoCrashes
       /\ b \notin marked => publications[b] <= infoCrashes

(* The records from start on among the first n are those from a on.        *)
StartsAt(a, start, n) == \A i \in 1..n : venue[i] >= start <=> i >= a

Newest == collected[1] + Len(collected) - 1

(* What the crawl has collected is a run of records, and its cursor is at  *)
(* the end of it.                                                          *)
CollectedInv ==
  Crawling =>
    /\ pageCursor.start = checkpoint.next
    /\ collected = <<>> => pageCursor.last = None
    /\ collected # <<>> =>
         /\ \A n \in 1..Len(collected) : collected[n] = collected[1] + n - 1
         /\ Newest <= listed
         /\ StartsAt(collected[1], pageCursor.start, Len(venue))
         /\ pageCursor.last = venue[Newest]
         /\ pageCursor.at = {i \in collected[1]..Newest : venue[i] = venue[Newest]}

(* The page in hand is what the venue listed from the cursor's start on.   *)
PageIs(a, b) ==
  /\ page = a..b
  /\ StartsAt(a, NextQueryStart(pageCursor), listed)
  /\ a <= b + 1 /\ b + 1 - a <= PageLimit
  /\ b = listed \/ b + 1 - a = PageLimit

PageInv ==
  /\ crawl \in {"save", "apply"} /\ page # Drift =>
       \E a \in 1..listed + 1, b \in 0..listed : PageIs(a, b)
  /\ crawl = "finish" /\ stop \in CompleteStops =>
       IF collected = <<>> THEN \A i \in 1..listed : venue[i] < pageCursor.start
       ELSE Newest = listed

InfoInv == InfoTyped /\ VenueInv /\ CaptureInv /\ CollectedInv /\ PageInv

-----------------------------------------------------------------------------
(* Every nonempty set of naturals has a least element.                     *)
LEMMA LeastExists ==
  ASSUME NEW S, S \subseteq Nat, S # {}
  PROVE  \E x \in S : \A y \in S : x <= y
<1> DEFINE LessThan == {ss \in Nat \X Nat : ss[1] < ss[2]}
<1>1. OpToRel(<, Nat) = LessThan
  BY Zenon DEF OpToRel
<1>2. \E x \in S : \A y \in S : ~(<<y, x>> \in LessThan)
  BY <1>1, NatLessThanWellFounded, WFMin
<1>3. PICK x \in S : \A y \in S : <<y, x>> \notin LessThan
  BY <1>2
<1>4. ASSUME NEW y \in S PROVE x <= y
  <2>1. x \in Nat /\ y \in Nat
    OBVIOUS
  <2>2. ~(y < x)
    BY <1>3, <2>1
  <2> QED
    BY <2>1, <2>2
<1> QED
  BY <1>3, <1>4

(* The venue and its times.                                                *)
LEMMA VenueFacts ==
  ASSUME InfoTypeOK
  PROVE  /\ venue \in Seq(0..MaxMillis) /\ Len(venue) \in Nat /\ Len(venue) <= MaxVenue
         /\ MaxVenue \in Nat /\ MaxMillis \in Nat
         /\ listed \in Nat /\ listed <= Len(venue)
         /\ \A i \in 1..Len(venue) : venue[i] \in Nat /\ venue[i] <= MaxMillis
<1>1. venue \in Seq(0..MaxMillis) /\ Len(venue) <= MaxVenue /\ listed \in 0..Len(venue)
  BY DEF InfoTypeOK
<1>2. Len(venue) \in Nat
  BY <1>1, LenProperties
<1>3. \A i \in 1..Len(venue) : venue[i] \in 0..MaxMillis
  BY <1>1, ElementOfSeq
<1> QED
  BY <1>1, <1>2, <1>3, InfoAssumption

(* What was collected, when there is something.                            *)
LEMMA CollectedFacts ==
  ASSUME InfoTypeOK, collected # <<>>
  PROVE  /\ collected \in Seq(Listing) /\ Len(collected) \in Nat /\ Len(collected) >= 1
         /\ collected[1] \in Nat /\ collected[1] >= 1
         /\ Newest \in Nat /\ Newest >= collected[1]
         /\ Len(collected) = Newest + 1 - collected[1]
<1>1. collected \in Seq(Listing)
  BY DEF InfoTypeOK
<1>2. Len(collected) \in Nat \ {0}
  BY <1>1, EmptySeq
<1>3. collected[1] \in Listing
  BY <1>1, <1>2, ElementOfSeq
<1>4. PICK l : l = Len(collected)
  OBVIOUS
<1>5. PICK lo : lo = collected[1]
  OBVIOUS
<1>6. Newest = lo + l - 1
  BY <1>4, <1>5 DEF Newest
<1>7. l \in Nat /\ l >= 1 /\ lo \in Nat /\ lo >= 1
  BY <1>2, <1>3, <1>4, <1>5, InfoAssumption DEF Listing
<1> QED
  BY <1>1, <1>4, <1>5, <1>6, <1>7

(* In a venue in time order the records from a start on follow the others. *)
LEMMA StartExists ==
  ASSUME InfoTypeOK, VenueInv, NEW n \in 0..Len(venue), NEW start \in Int
  PROVE  \E a \in 1..n + 1 : StartsAt(a, start, n)
<1> DEFINE S == {i \in 1..n : venue[i] >= start} \cup {n + 1}
<1>1. /\ n \in Nat /\ Len(venue) \in Nat
      /\ \A i \in 1..Len(venue) : venue[i] \in Nat
  BY VenueFacts
<1>2. S \subseteq Nat /\ S # {}
  BY <1>1
<1>3. PICK a \in S : \A y \in S : a <= y
  BY <1>2, LeastExists
<1>4. a \in 1..n + 1
  BY <1>1, <1>3
<1>5. ASSUME NEW i \in 1..n PROVE venue[i] >= start <=> i >= a
  <2>1. i \in 1..Len(venue) /\ venue[i] \in Nat
    BY <1>1
  <2>2. CASE venue[i] >= start
    BY <1>3, <1>4, <2>2
  <2>3. CASE i >= a
    <3>1. a \in 1..n /\ venue[a] >= start
      BY <1>1, <1>3, <1>4, <2>3
    <3>2. a \in 1..Len(venue) /\ venue[a] \in Nat
      BY <1>1, <3>1
    <3>3. venue[a] <= venue[i]
      BY <2>1, <2>3, <3>2 DEF VenueInv
    <3> QED
      BY <2>1, <2>3, <3>1, <3>2, <3>3
  <2> QED
    BY <2>2, <2>3
<1> QED
  BY <1>4, <1>5 DEF StartsAt

(* The elements of an interval up to one of them.                          *)
LEMMA CountUpTo ==
  ASSUME NEW a \in Int, NEW b \in Int, NEW i \in a..b
  PROVE  Cardinality({j \in a..b : j <= i}) = i + 1 - a
<1>1. {j \in a..b : j <= i} = a..i
  OBVIOUS
<1>2. Cardinality(a..i) = i - a + 1
  BY FS_Interval
<1>3. i - a + 1 = i + 1 - a
  OBVIOUS
<1> QED
  BY <1>1, <1>2, <1>3, Zenon

(* Ascending lists an interval from its first element on.                  *)
LEMMA AscendingInterval ==
  ASSUME NEW a \in Int, NEW b \in Int, a <= b + 1
  PROVE  Ascending(a..b) = [n \in 1..(b + 1 - a) |-> a + n - 1]
<1>1. Cardinality(a..b) = b + 1 - a
  BY FS_Interval
<1>2. ASSUME NEW n \in 1..(b + 1 - a)
      PROVE  (CHOOSE i \in a..b : Cardinality({j \in a..b : j <= i}) = n) = a + n - 1
  <2>1. \A i \in a..b : Cardinality({j \in a..b : j <= i}) = n <=> i = a + n - 1
    BY CountUpTo
  <2>2. a + n - 1 \in a..b
    OBVIOUS
  <2> QED
    BY <2>1, <2>2
<1> QED
  BY <1>1, <1>2, Zenon DEF Ascending

(* The page the venue answers with, as an interval.                        *)
LEMMA VenuePageInterval ==
  ASSUME InfoTypeOK, VenueInv, NEW start \in Int
  PROVE  \E a \in 1..Len(venue) + 1, b \in 0..Len(venue) :
           /\ VenuePage(start) = a..b
           /\ StartsAt(a, start, Len(venue))
           /\ a <= b + 1 /\ b + 1 - a <= PageLimit
           /\ b = Len(venue) \/ b + 1 - a = PageLimit
<1>1. Len(venue) \in Nat /\ PageLimit \in Nat /\ PageLimit >= 1
  BY InfoAssumption, VenueFacts
<1>2. PICK l : l = Len(venue)
  OBVIOUS
<1>3. PICK a \in 1..l + 1 : StartsAt(a, start, l)
  BY <1>1, <1>2, StartExists
<1>4. {i \in 1..l : venue[i] >= start} = a..l
  BY <1>1, <1>2, <1>3 DEF StartsAt
<1>5. VenuePage(start) = {i \in a..l : Cardinality({j \in a..l : j <= i}) <= PageLimit}
  BY <1>2, <1>4 DEF VenuePage
<1>6. VenuePage(start) = {i \in a..l : i + 1 - a <= PageLimit}
  <2>1. \A i \in a..l : Cardinality({j \in a..l : j <= i}) = i + 1 - a
    BY <1>1, <1>2, <1>3, CountUpTo
  <2> QED
    BY <1>5, <2>1
<1>7. CASE l + 1 - a <= PageLimit
  <2>1. VenuePage(start) = a..l
    BY <1>1, <1>2, <1>3, <1>6, <1>7
  <2> QED
    BY <1>1, <1>2, <1>3, <1>7, <2>1
<1>8. CASE l + 1 - a > PageLimit
  <2>1. PICK b : b = a + PageLimit - 1
    OBVIOUS
  <2>2. b \in 0..l /\ b + 1 - a = PageLimit /\ a <= b + 1
    BY <1>1, <1>2, <1>3, <1>8, <2>1
  <2>3. VenuePage(start) = a..b
    BY <1>1, <1>2, <1>3, <1>6, <1>8, <2>1
  <2> QED
    BY <1>2, <1>3, <2>2, <2>3, <1>1
<1> QED
  BY <1>1, <1>2, <1>3, <1>7, <1>8

-----------------------------------------------------------------------------
(* The venue lists one more record.                                        *)
LEMMA VenueGrows ==
  ASSUME InfoTypeOK, VenueInv, RecordArrives
  PROVE  /\ venue' \in Seq(0..MaxMillis) /\ Len(venue') = Len(venue) + 1
         /\ Len(venue') <= MaxVenue
         /\ \A i \in 1..Len(venue) : venue'[i] = venue[i]
         /\ venue'[Len(venue) + 1] \in 0..MaxMillis
         /\ venue'[Len(venue) + 1] >= LastMillis /\ LastMillis' >= LastMillis
         /\ LastMillis \in Nat
         /\ \A i \in 1..Len(venue) : venue[i] <= venue'[Len(venue) + 1]
<1>1. PICK t \in 0..MaxMillis : /\ venue # <<>> => t >= venue[Len(venue)]
                                /\ venue' = Append(venue, t)
  BY DEF RecordArrives
<1>2. /\ venue \in Seq(0..MaxMillis) /\ Len(venue) \in Nat /\ Len(venue) < MaxVenue
      /\ MaxVenue \in Nat /\ MaxMillis \in Nat
      /\ \A i \in 1..Len(venue) : venue[i] \in Nat
  BY VenueFacts DEF RecordArrives
<1>3. /\ venue' \in Seq(0..MaxMillis) /\ Len(venue') = Len(venue) + 1
      /\ \A i \in 1..Len(venue) : venue'[i] = venue[i]
      /\ venue'[Len(venue) + 1] = t
  BY <1>1, <1>2, AppendProperties
<1>4. CASE venue = <<>>
  <2>1. Len(venue) = 0 /\ LastMillis = 0
    BY <1>4 DEF LastMillis
  <2>2. venue' # <<>>
    BY <1>3, <2>1
  <2>3. LastMillis' = t
    BY <1>3, <2>2 DEF LastMillis
  <2> QED
    BY <1>1, <1>2, <1>3, <2>1, <2>3
<1>5. CASE venue # <<>>
  <2>1. Len(venue) \in 1..Len(venue) /\ LastMillis = venue[Len(venue)]
    BY <1>2, <1>5, EmptySeq DEF LastMillis
  <2>2. venue' # <<>>
    BY <1>2, <1>3, EmptySeq
  <2>3. LastMillis' = t
    BY <1>3, <2>2 DEF LastMillis
  <2>4. \A i \in 1..Len(venue) : venue[i] <= venue[Len(venue)]
    BY <2>1, <1>2 DEF VenueInv
  <2> QED
    BY <1>1, <1>2, <1>3, <1>5, <2>1, <2>3, <2>4
<1> QED
  BY <1>4, <1>5

(* A record joins the venue's list at its end.                             *)
LEMMA RecordArrivesVenue ==
  ASSUME InfoTypeOK, VenueInv, RecordArrives
  PROVE  VenueInv'
<1>1. /\ Len(venue) \in Nat /\ Len(venue') = Len(venue) + 1
      /\ \A i \in 1..Len(venue) : venue'[i] = venue[i] /\ venue[i] \in Nat
      /\ venue'[Len(venue) + 1] \in Nat
      /\ \A i \in 1..Len(venue) : venue[i] <= venue'[Len(venue) + 1]
  <2>1. Len(venue) \in Nat /\ \A i \in 1..Len(venue) : venue[i] \in Nat
    BY VenueFacts
  <2>2. /\ Len(venue') = Len(venue) + 1
        /\ \A i \in 1..Len(venue) : venue'[i] = venue[i] /\ venue[i] <= venue'[Len(venue) + 1]
    BY VenueGrows
  <2>3. venue'[Len(venue) + 1] \in Nat
    <3>1. venue'[Len(venue) + 1] \in 0..MaxMillis
      BY VenueGrows
    <3> QED
      BY <3>1
  <2> QED
    BY <2>1, <2>2, <2>3
<1>2. ASSUME NEW i \in 1..Len(venue'), NEW j \in 1..Len(venue'), i <= j
      PROVE  venue'[i] <= venue'[j]
  <2>1. CASE j \in 1..Len(venue)
    <3>1. i \in 1..Len(venue)
      BY <1>1, <1>2, <2>1
    <3>2. venue[i] <= venue[j]
      BY <1>2, <2>1, <3>1 DEF VenueInv
    <3> QED
      BY <1>1, <2>1, <3>1, <3>2
  <2>2. CASE j = Len(venue) + 1
    <3>1. CASE i \in 1..Len(venue)
      BY <1>1, <2>2, <3>1
    <3>2. CASE i = Len(venue) + 1
      BY <1>1, <2>2, <3>2
    <3> QED
      BY <1>1, <3>1, <3>2
  <2> QED
    BY <1>1, <2>1, <2>2
<1>3. /\ checkpoint.next \in Nat /\ savedCheckpoint.next \in Nat
      /\ UNCHANGED <<checkpoint, savedCheckpoint>>
  BY InfoAssumption DEF InfoTypeOK, Checkpoints, RecordArrives
<1>4. /\ checkpoint.next <= LastMillis /\ savedCheckpoint.next <= LastMillis
      /\ LastMillis' \in Nat /\ LastMillis' >= LastMillis /\ LastMillis \in Nat
  <2>1. LastMillis' >= LastMillis /\ LastMillis \in Nat
    BY VenueGrows
  <2>2. LastMillis' \in Nat
    BY <1>1 DEF LastMillis
  <2> QED
    BY <2>1, <2>2 DEF VenueInv
<1> QED
  BY <1>2, <1>3, <1>4 DEF VenueInv

(* A new record is above every start.                                      *)
LEMMA RecordArrivesCapture ==
  ASSUME InfoTypeOK, VenueInv, CaptureInv, RecordArrives
  PROVE  CaptureInv'
<1>1. UNCHANGED <<crawl, page, collected, broken, checkpoint, savedCheckpoint, marked,
                  publications, infoCrashes>>
  BY DEF RecordArrives, crawlVars
<1>3. ASSUME NEW c \in Checkpoints, c.next <= LastMillis, CheckpointHeld(c),
             NEW i \in 1..Len(venue'), venue'[i] < c.next
      PROVE  Held(i, c)
  <2>1. /\ Len(venue) \in Nat /\ Len(venue') = Len(venue) + 1
        /\ \A k \in 1..Len(venue) : venue'[k] = venue[k]
        /\ venue'[Len(venue) + 1] \in Nat /\ venue'[Len(venue) + 1] >= LastMillis
        /\ LastMillis \in Nat
    BY VenueGrows, VenueFacts
  <2>2. c.next \in Nat
    BY InfoAssumption DEF Checkpoints
  <2>3. i # Len(venue) + 1
    BY <1>3, <2>1, <2>2
  <2>4. i \in 1..Len(venue) /\ venue[i] < c.next
    BY <1>3, <2>1, <2>3
  <2> QED
    BY <1>3, <2>4 DEF CheckpointHeld
<1>4. checkpoint \in Checkpoints /\ savedCheckpoint \in Checkpoints
  BY DEF InfoTypeOK
<1>5. CheckpointHeld(checkpoint)' /\ CheckpointHeld(savedCheckpoint)'
  BY <1>1, <1>3, <1>4 DEF CheckpointHeld, CaptureInv, VenueInv, Held
<1> QED
  BY <1>1, <1>5 DEF CaptureInv, Crawling, Held

(* What a crawl has collected stays a run of the list.                     *)
LEMMA RecordArrivesCollected ==
  ASSUME InfoTypeOK, VenueInv, CollectedInv, RecordArrives
  PROVE  CollectedInv'
<1>1. UNCHANGED <<crawl, listed, pageCursor, collected, checkpoint>>
  BY DEF RecordArrives, crawlVars
<1> SUFFICES ASSUME Crawling, collected # <<>>
             PROVE  /\ StartsAt(collected[1], pageCursor.start, Len(venue))'
                    /\ pageCursor.last = venue'[Newest]
                    /\ pageCursor.at = {i \in collected[1]..Newest : venue'[i] = venue'[Newest]}
  BY <1>1 DEF CollectedInv, Crawling, Newest
<1>2. /\ Len(venue) \in Nat /\ Len(venue') = Len(venue) + 1
      /\ \A k \in 1..Len(venue) : venue'[k] = venue[k] /\ venue[k] \in Nat
      /\ venue'[Len(venue) + 1] \in Nat
      /\ \A i \in 1..Len(venue) : venue[i] <= venue'[Len(venue) + 1]
      /\ listed \in Nat /\ listed <= Len(venue)
  <2>1. /\ Len(venue) \in Nat /\ listed \in Nat /\ listed <= Len(venue)
        /\ \A k \in 1..Len(venue) : venue[k] \in Nat
    BY VenueFacts
  <2>2. /\ Len(venue') = Len(venue) + 1
        /\ \A k \in 1..Len(venue) : venue'[k] = venue[k] /\ venue[k] <= venue'[Len(venue) + 1]
    BY VenueGrows
  <2>3. venue'[Len(venue) + 1] \in Nat
    <3>1. venue'[Len(venue) + 1] \in 0..MaxMillis
      BY VenueGrows
    <3> QED
      BY <3>1
  <2> QED
    BY <2>1, <2>2, <2>3
<1>3. collected[1] \in Nat /\ collected[1] >= 1 /\ Len(collected) \in Nat /\ Len(collected) >= 1
  BY CollectedFacts
<1>4. /\ Newest <= listed /\ StartsAt(collected[1], pageCursor.start, Len(venue))
      /\ pageCursor.last = venue[Newest]
      /\ pageCursor.at = {i \in collected[1]..Newest : venue[i] = venue[Newest]}
  BY DEF CollectedInv
<1>5. PICK lo : lo = collected[1]
  OBVIOUS
<1>6. PICK hi : hi = Newest
  OBVIOUS
<1>7. lo \in 1..Len(venue) /\ hi \in 1..Len(venue) /\ lo <= hi
  BY <1>2, <1>3, <1>4, <1>5, <1>6 DEF Newest
<1>8. pageCursor.start \in Nat
  BY InfoAssumption DEF InfoTypeOK
<1>9. StartsAt(collected[1], pageCursor.start, Len(venue))'
  <2>1. ASSUME NEW i \in 1..Len(venue) + 1 PROVE venue'[i] >= pageCursor.start <=> i >= lo
    <3>1. CASE i \in 1..Len(venue)
      BY <1>2, <1>4, <1>5, <3>1 DEF StartsAt
    <3>2. CASE i = Len(venue) + 1
      <4>1. venue[lo] >= pageCursor.start
        BY <1>4, <1>5, <1>7 DEF StartsAt
      <4>2. venue[lo] <= venue'[i]
        BY <1>2, <1>7, <3>2
      <4> QED
        BY <1>2, <1>7, <1>8, <3>2, <4>1, <4>2
    <3> QED
      BY <1>2, <3>1, <3>2
  <2> QED
    BY <1>1, <1>2, <1>5, <2>1 DEF StartsAt
<1>10. venue'[hi] = venue[hi]
  BY <1>2, <1>7
<1>11. {i \in lo..hi : venue'[i] = venue'[hi]} = {i \in lo..hi : venue[i] = venue[hi]}
  BY <1>2, <1>7, <1>10
<1> QED
  BY <1>4, <1>5, <1>6, <1>9, <1>10, <1>11

(* The page in hand stays an interval of it.                               *)
LEMMA RecordArrivesPage ==
  ASSUME InfoTypeOK, VenueInv, CollectedInv, PageInv, RecordArrives
  PROVE  PageInv'
<1>1. UNCHANGED <<crawl, page, listed, pageCursor, collected, stop>>
  BY DEF RecordArrives, crawlVars
<1>2. /\ Len(venue) \in Nat /\ listed \in Nat /\ listed <= Len(venue)
      /\ \A k \in 1..Len(venue) : venue'[k] = venue[k]
  BY VenueGrows, VenueFacts
<1>3. \A k \in 1..listed : venue'[k] = venue[k]
  BY <1>2
<1>4. \A a, b : PageIs(a, b) => PageIs(a, b)'
  BY <1>1, <1>3 DEF PageIs, StartsAt, NextQueryStart
<1> QED
  BY <1>1, <1>3, <1>4 DEF PageInv, Newest

(* The venue lists a record while the crawl is under way.                  *)
LEMMA RecordArrivesKeeps ==
  ASSUME InfoInv, RecordArrives
  PROVE  InfoInv'
<1>1. InfoTypeOK /\ VenueInv /\ CaptureInv /\ CollectedInv /\ PageInv /\ InfoTyped
  BY DEF InfoInv, InfoTyped
<1>2. /\ venue' \in Seq(0..MaxMillis) /\ Len(venue') = Len(venue) + 1 /\ Len(venue') <= MaxVenue
      /\ Len(venue) \in Nat
  BY <1>1, VenueGrows, VenueFacts
<1>3. listed' \in 0..Len(venue')
  BY <1>1, <1>2 DEF InfoTypeOK, RecordArrives, crawlVars
<1>4. InfoTyped'
  BY <1>1, <1>2, <1>3 DEF InfoTyped, InfoTypeOK, RecordArrives, crawlVars
<1> QED
  BY <1>1, <1>4, RecordArrivesVenue, RecordArrivesCapture, RecordArrivesCollected, RecordArrivesPage
     DEF InfoInv

-----------------------------------------------------------------------------
(* A crawl begins at the checkpoint.                                       *)
LEMMA BeginCrawlKeeps ==
  ASSUME InfoInv, BeginCrawl
  PROVE  InfoInv'
<1>1. InfoTyped /\ InfoTypeOK /\ VenueInv /\ CaptureInv
  BY DEF InfoInv, InfoTyped
<1>2. /\ UNCHANGED <<venue, page, listed, checkpoint, savedCheckpoint, marked, publications,
                      infoCrashes>>
      /\ crawl' = "fetch" /\ pageCursor' = NewCursor(checkpoint.next)
      /\ collected' = <<>> /\ pages' = 0 /\ stop' = "none" /\ broken' = FALSE
  BY DEF BeginCrawl
<1>3. checkpoint.next \in 0..MaxMillis
  BY <1>1 DEF InfoTypeOK, Checkpoints
<1>4. /\ pageCursor' \in Cursors /\ pageCursor'.start = checkpoint.next
      /\ pageCursor'.last = None /\ pageCursor'.at = {}
  BY <1>2, <1>3, InfoAssumption DEF Cursors, NewCursor, None
<1>5. InfoTyped'
  <2>1. pageCursor'.last \in None..MaxMillis
    BY <1>4, InfoAssumption DEF None
  <2>2. pages' \in 0..MaxTimePages
    BY <1>2, InfoAssumption
  <2>3. collected' \in Seq(Listing)
    BY <1>2
  <2> QED
    BY <1>1, <1>2, <1>3, <1>4, <2>1, <2>2, <2>3 DEF InfoTyped, InfoTypeOK
<1>6. VenueInv'
  BY <1>1, <1>2 DEF VenueInv, LastMillis
<1>7. CaptureInv'
  BY <1>1, <1>2 DEF CaptureInv, CheckpointHeld, Held
<1>8. CollectedInv'
  BY <1>2, <1>4 DEF CollectedInv
<1>9. PageInv'
  BY <1>2 DEF PageInv
<1> QED
  BY <1>5, <1>6, <1>7, <1>8, <1>9 DEF InfoInv

(* A checkpoint with the same start and no fewer bodies, saved or not, and *)
(* an error that is not forgotten.                                         *)
QueueGrows ==
  /\ UNCHANGED <<venue, publications, marked, infoCrashes, collected, pageCursor, page, listed>>
  /\ checkpoint' \in Checkpoints /\ checkpoint'.next = checkpoint.next
  /\ savedCheckpoint' \in {savedCheckpoint, checkpoint'}
  /\ \A b : Queued(checkpoint.pending, b) => Queued(checkpoint'.pending, b)
  /\ ~broken' => ~broken

(* It holds what the one before held.                                      *)
LEMMA QueueGrowsKeeps ==
  ASSUME InfoInv, QueueGrows
  PROVE  /\ VenueInv' /\ savedCheckpoint' \in Checkpoints
         /\ CheckpointHeld(checkpoint)' /\ CheckpointHeld(savedCheckpoint)'
         /\ \A i : Held(i, checkpoint) => Held(i, checkpoint)'
<1>1. InfoTypeOK /\ VenueInv /\ CaptureInv
  BY DEF InfoInv, InfoTyped
<1>2. savedCheckpoint' \in Checkpoints
  BY <1>1 DEF InfoTypeOK, QueueGrows
<1>3. savedCheckpoint'.next \in {savedCheckpoint.next, checkpoint.next}
  BY DEF QueueGrows
<1>4. VenueInv'
  BY <1>1, <1>3 DEF VenueInv, LastMillis, QueueGrows
<1>5. \A i : Held(i, checkpoint) => Held(i, checkpoint)'
  BY DEF Held, QueueGrows
<1>6. CheckpointHeld(checkpoint)'
  BY <1>1, <1>5 DEF CheckpointHeld, CaptureInv, QueueGrows
<1>7. CheckpointHeld(savedCheckpoint)'
  <2>1. CASE savedCheckpoint' = savedCheckpoint
    BY <1>1, <2>1 DEF CheckpointHeld, CaptureInv, QueueGrows, Held
  <2>2. CASE savedCheckpoint' = checkpoint'
    BY <1>6, <2>2 DEF CheckpointHeld, Held
  <2> QED
    BY <2>1, <2>2 DEF QueueGrows
<1> QED
  BY <1>2, <1>4, <1>5, <1>6, <1>7

(* A crawl that stops early, with or without what it collected.            *)
LEMMA CrawlStops ==
  ASSUME InfoInv, QueueGrows, Crawling,
         crawl' \in {"idle", "finish"}, stop' \in PartialStops \cup {"none"},
         pages' \in 0..MaxTimePages, broken' \in BOOLEAN
  PROVE  InfoInv'
<1>1. InfoTyped /\ InfoTypeOK /\ CaptureInv /\ CollectedInv /\ PageInv
  BY DEF InfoInv, InfoTyped
<1>2. InfoTyped'
  BY <1>1, QueueGrowsKeeps DEF InfoTyped, InfoTypeOK, QueueGrows
<1>3. CaptureInv'
  <2>1. ASSUME ~broken' PROVE \A n \in 1..Len(collected') : Held(collected[n], checkpoint)'
    BY <1>1, <2>1, QueueGrowsKeeps DEF CaptureInv, QueueGrows
  <2> QED
    BY <1>1, <2>1, QueueGrowsKeeps DEF CaptureInv, QueueGrows
<1>4. CollectedInv'
  BY <1>1 DEF CollectedInv, QueueGrows, StartsAt, Newest
<1>5. PageInv'
  BY DEF PageInv, PartialStops, CompleteStops
<1> QED
  BY <1>2, <1>3, <1>4, <1>5, QueueGrowsKeeps DEF InfoInv

(* The checkpoint as it was.                                               *)
LEMMA SameQueue ==
  ASSUME InfoTypeOK,
         UNCHANGED <<venue, publications, marked, infoCrashes, collected, pageCursor, page, listed,
                     broken, checkpoint, savedCheckpoint>>
  PROVE  QueueGrows
  BY DEF InfoTypeOK, QueueGrows

(* The page budget is spent: the crawl stops.                              *)
LEMMA TruncateKeeps ==
  ASSUME InfoInv, Truncate
  PROVE  InfoInv'
<1>1. InfoTypeOK
  BY DEF InfoInv, InfoTyped
<1>2. QueueGrows
  BY <1>1, SameQueue DEF Truncate
<1>3. crawl = "fetch" /\ crawl' = "finish" /\ stop' = "Truncated" /\ UNCHANGED <<pages, broken>>
  BY DEF Truncate
<1> QED
  BY <1>1, <1>2, <1>3, CrawlStops DEF Crawling, PartialStops, InfoTypeOK

(* A request fails: the crawl stops.                                       *)
LEMMA FetchRefusedKeeps ==
  ASSUME InfoInv, FetchRefused
  PROVE  InfoInv'
<1>1. InfoTypeOK
  BY DEF InfoInv, InfoTyped
<1>2. QueueGrows
  BY <1>1, SameQueue DEF FetchRefused
<1>3. /\ crawl = "fetch" /\ crawl' \in {"idle", "finish"}
      /\ stop' \in PartialStops \cup {"none"} /\ UNCHANGED broken
  BY DEF FetchRefused, TakeProgress, PartialStops
<1>4. pages' \in 0..MaxTimePages
  BY <1>1, InfoAssumption DEF FetchRefused, InfoTypeOK
<1> QED
  BY <1>1, <1>2, <1>3, <1>4, CrawlStops DEF Crawling, InfoTypeOK

(* The start of the next query is between the start of the crawl and the   *)
(* cursor.                                                                 *)
LEMMA QueryStartFacts ==
  ASSUME InfoTyped
  PROVE  /\ NextQueryStart(pageCursor) \in 0..MaxMillis
         /\ pageCursor.start \in Nat /\ pageCursor.last \in Int
         /\ pageCursor.start <= NextQueryStart(pageCursor)
         /\ pageCursor.last = None => NextQueryStart(pageCursor) = pageCursor.start
         /\ NextQueryStart(pageCursor) = pageCursor.start
              \/ NextQueryStart(pageCursor) < pageCursor.last
<1>1. pageCursor.start \in 0..MaxMillis /\ pageCursor.last \in None..MaxMillis
  BY DEF InfoTyped, InfoTypeOK
<1>2. MaxMillis \in Nat /\ Overlap \in Nat /\ Overlap >= 1 /\ None = -1
  BY InfoAssumption DEF None
<1> QED
  BY <1>1, <1>2 DEF NextQueryStart

(* An interval of listed records is a body, and never the one that does    *)
(* not parse.                                                              *)
LEMMA IntervalIsBody ==
  ASSUME NEW n \in Nat, n <= MaxVenue, NEW a \in 1..n + 1, NEW b \in 0..n, a <= b + 1
  PROVE  a..b \in PageBodies /\ a..b # Drift
<1>1. CASE a = b + 1
  <2>1. a..b = {}
    BY <1>1
  <2>2. {} \in PageBodies
    BY DEF PageBodies
  <2>3. {} # Drift
    BY DEF Drift
  <2> QED
    BY <2>1, <2>2, <2>3
<1>2. CASE a <= b
  <2>1. a \in Listing /\ b \in Listing
    BY <1>2, InfoAssumption DEF Listing
  <2>2. a..b \in PageBodies
    BY <2>1 DEF PageBodies
  <2>3. 0 \notin a..b
    OBVIOUS
  <2> QED
    BY <2>2, <2>3 DEF Drift
<1> QED
  BY <1>1, <1>2

(* The venue serves a page.                                                *)
LEMMA FetchPageKeeps ==
  ASSUME InfoInv, FetchPage
  PROVE  InfoInv'
<1>1. InfoTyped /\ InfoTypeOK /\ VenueInv /\ CaptureInv /\ CollectedInv
  BY DEF InfoInv, InfoTyped
<1>2. /\ UNCHANGED <<venue, pageCursor, collected, stop, broken, checkpoint, savedCheckpoint,
                      marked, publications, infoCrashes>>
      /\ crawl = "fetch" /\ crawl' = "save" /\ listed' = Len(venue)
      /\ pages < MaxTimePages /\ pages' = pages + 1
      /\ page' = VenuePage(NextQueryStart(pageCursor)) \/ page' = Drift
  BY DEF FetchPage
<1>3. /\ Len(venue) \in Nat /\ Len(venue) <= MaxVenue /\ MaxVenue \in Nat
      /\ listed \in Nat /\ listed <= Len(venue)
  BY <1>1, VenueFacts
<1>4. NextQueryStart(pageCursor) \in Int
  BY <1>1, QueryStartFacts
<1>5. PICK a \in 1..Len(venue) + 1, b \in 0..Len(venue) :
         /\ VenuePage(NextQueryStart(pageCursor)) = a..b
         /\ StartsAt(a, NextQueryStart(pageCursor), Len(venue))
         /\ a <= b + 1 /\ b + 1 - a <= PageLimit
         /\ b = Len(venue) \/ b + 1 - a = PageLimit
  BY <1>1, <1>4, VenuePageInterval
<1>6. page' \in PageBodies
  <2>1. a..b \in PageBodies
    BY <1>3, <1>5, IntervalIsBody
  <2>2. Drift \in PageBodies
    BY DEF PageBodies
  <2> QED
    BY <1>2, <1>5, <2>1, <2>2
<1>7. InfoTyped'
  <2>1. listed' \in 0..Len(venue')
    BY <1>2, <1>3
  <2>2. pages' \in 0..MaxTimePages
    <3>1. pages \in 0..MaxTimePages
      BY <1>1 DEF InfoTypeOK
    <3>2. pages < MaxTimePages /\ pages' = pages + 1
      BY <1>2
    <3>3. MaxTimePages \in Nat
      BY InfoAssumption
    <3> QED
      BY <3>1, <3>2, <3>3
  <2> QED
    BY <1>1, <1>2, <1>6, <2>1, <2>2 DEF InfoTyped, InfoTypeOK
<1>8. VenueInv'
  BY <1>1, <1>2 DEF VenueInv, LastMillis
<1>9. CaptureInv'
  BY <1>1, <1>2 DEF CaptureInv, CheckpointHeld, Held, Crawling
<1>10. CollectedInv'
  <2>1. Crawling
    BY <1>2 DEF Crawling
  <2>2. collected # <<>> => Newest <= listed'
    <3> SUFFICES ASSUME collected # <<>> PROVE Newest <= listed'
      OBVIOUS
    <3>1. Newest <= listed
      BY <1>1, <2>1 DEF CollectedInv
    <3>2. Newest \in Int
      BY <1>1, CollectedFacts
    <3> QED
      BY <1>2, <1>3, <3>1, <3>2
  <2> QED
    BY <1>1, <1>2, <2>1, <2>2 DEF CollectedInv, StartsAt, Newest
<1>11. PageInv'
  <2> SUFFICES ASSUME page' # Drift
               PROVE  \E c \in 1..listed' + 1, d \in 0..listed' : PageIs(c, d)'
    BY <1>2 DEF PageInv
  <2>1. page' = a..b
    BY <1>2, <1>5
  <2>2. PageIs(a, b)'
    BY <1>2, <1>5, <2>1 DEF PageIs, StartsAt, NextQueryStart
  <2> QED
    BY <1>2, <1>5, <2>2
<1> QED
  BY <1>7, <1>8, <1>9, <1>10, <1>11 DEF InfoInv

(* queue_pending keeps the start and adds the body.                        *)
LEMMA QueuePendingFacts ==
  ASSUME NEW c \in Checkpoints, NEW b \in PageBodies
  PROVE  /\ QueuePending(c, b) \in Checkpoints /\ QueuePending(c, b).next = c.next
         /\ Queued(QueuePending(c, b).pending, b)
         /\ \A d : Queued(c.pending, d) => Queued(QueuePending(c, b).pending, d)
<1>1. c.pending \in Seq(PageBodies) /\ c.next \in 0..MaxMillis
  BY DEF Checkpoints
<1>2. CASE Queued(c.pending, b)
  BY <1>2 DEF QueuePending, Queued
<1>3. CASE ~Queued(c.pending, b)
  <2>1. QueuePending(c, b) = [c EXCEPT !.pending = Append(c.pending, b)]
    BY <1>3 DEF QueuePending, Queued
  <2>2. PICK l : l = Append(c.pending, b)
    OBVIOUS
  <2>3. /\ l \in Seq(PageBodies) /\ Len(l) = Len(c.pending) + 1 /\ l[Len(l)] = b
        /\ Len(c.pending) \in Nat
        /\ \A n \in 1..Len(c.pending) : l[n] = c.pending[n]
    BY <1>1, <2>2, AppendProperties, LenProperties
  <2>4. /\ QueuePending(c, b) \in Checkpoints /\ QueuePending(c, b).next = c.next
        /\ QueuePending(c, b).pending = l
    BY <2>1, <2>2, <2>3 DEF Checkpoints
  <2>5. Queued(l, b)
    BY <2>3 DEF Queued
  <2>6. \A d : Queued(c.pending, d) => Queued(l, d)
    BY <2>3 DEF Queued
  <2> QED
    BY <2>4, <2>5, <2>6
<1> QED
  BY <1>2, <1>3

(* The page is queued in the checkpoint file, or the error is remembered.  *)
LEMMA SavePendingKeeps ==
  ASSUME InfoInv, SavePending
  PROVE  InfoInv'
<1>1. InfoTyped /\ InfoTypeOK /\ CaptureInv /\ CollectedInv /\ PageInv
  BY DEF InfoInv, InfoTyped
<1>2. /\ UNCHANGED <<venue, page, listed, pageCursor, collected, pages, marked, publications,
                      infoCrashes>>
      /\ crawl = "save"
      /\ \/ checkpoint' = QueuePending(checkpoint, page)
         \/ checkpoint' = checkpoint /\ broken' = TRUE
      /\ savedCheckpoint' \in {savedCheckpoint, checkpoint'}
      /\ broken' = broken \/ broken' = TRUE
  BY DEF SavePending
<1>3. broken' \in BOOLEAN /\ (~broken' => ~broken)
  <2>1. broken \in BOOLEAN
    BY <1>1 DEF InfoTypeOK
  <2>2. CASE broken' = broken
    BY <2>1, <2>2, Zenon
  <2>3. CASE broken' = TRUE
    BY <2>3, Zenon
  <2> QED
    BY <1>2, <2>2, <2>3, Zenon
<1>4. /\ checkpoint' \in Checkpoints /\ checkpoint'.next = checkpoint.next
      /\ ~broken' => Queued(checkpoint'.pending, page)
      /\ \A d : Queued(checkpoint.pending, d) => Queued(checkpoint'.pending, d)
  <2>1. CASE checkpoint' = QueuePending(checkpoint, page)
    BY <1>1, <2>1, QueuePendingFacts DEF InfoTypeOK
  <2>2. CASE checkpoint' = checkpoint /\ broken' = TRUE
    BY <1>1, <2>2 DEF InfoTypeOK
  <2> QED
    BY <1>2, <2>1, <2>2
<1>5. QueueGrows
  BY <1>2, <1>3, <1>4 DEF QueueGrows
<1>6. CASE page = Drift
  <2>1. TakeProgress("Incomplete")
    BY <1>6 DEF SavePending
  <2>2. crawl' \in {"idle", "finish"} /\ stop' \in PartialStops \cup {"none"}
    BY <2>1 DEF TakeProgress, PartialStops
  <2> QED
    BY <1>1, <1>2, <1>3, <1>5, <2>2, CrawlStops DEF Crawling, InfoTypeOK
<1>7. CASE page # Drift
  <2>1. crawl' = "apply" /\ UNCHANGED stop
    BY <1>7 DEF SavePending
  <2>2. InfoTyped'
    BY <1>1, <1>2, <1>3, <1>5, <2>1, QueueGrowsKeeps DEF InfoTyped, InfoTypeOK, QueueGrows
  <2>3. CaptureInv'
    <3>1. ASSUME ~broken' PROVE \A n \in 1..Len(collected') : Held(collected[n], checkpoint)'
      BY <1>1, <1>2, <1>5, <3>1, QueueGrowsKeeps DEF CaptureInv, Crawling, QueueGrows
    <3>2. page' # Drift /\ (~broken' => Queued(checkpoint'.pending, page'))
      BY <1>2, <1>4, <1>7
    <3> QED
      BY <1>1, <1>2, <1>5, <2>1, <3>1, <3>2, QueueGrowsKeeps DEF CaptureInv
  <2>4. CollectedInv'
    BY <1>1, <1>2, <1>4, <2>1 DEF CollectedInv, Crawling, StartsAt, Newest
  <2>5. PageInv'
    BY <1>1, <1>2, <2>1 DEF PageInv, PageIs, StartsAt, NextQueryStart
  <2> QED
    BY <1>5, <2>2, <2>3, <2>4, <2>5, QueueGrowsKeeps DEF InfoInv
<1> QED
  BY <1>6, <1>7

-----------------------------------------------------------------------------
(* What apply_page keeps of the page in hand.                              *)
Kept == {i \in page : IsAfterCursor(pageCursor, i)}

(* It is the page, or what of it follows the run.                          *)
LEMMA KeptInterval ==
  ASSUME InfoInv, crawl = "apply",
         NEW a \in 1..listed + 1, NEW b \in 0..listed, PageIs(a, b)
  PROVE  /\ collected = <<>> => Kept = a..b
         /\ collected # <<>> => a <= Newest /\ Kept = Newest + 1..b
<1>1. InfoTyped /\ InfoTypeOK /\ VenueInv /\ CollectedInv /\ Crawling
  BY DEF InfoInv, InfoTyped, Crawling
<1>2. page = a..b
  BY DEF PageIs
<1>3. CASE collected = <<>>
  <2>1. pageCursor.last = None
    BY <1>1, <1>3 DEF CollectedInv
  <2>2. Kept = page
    BY <2>1 DEF Kept, IsAfterCursor
  <2> QED
    BY <1>2, <1>3, <2>2
<1>4. CASE collected # <<>>
  <2>1. PICK lo : lo = collected[1]
    OBVIOUS
  <2>2. PICK hi : hi = Newest
    OBVIOUS
  <2>3. PICK q : q = NextQueryStart(pageCursor)
    OBVIOUS
  <2>4. /\ Len(venue) \in Nat /\ listed \in Nat /\ listed <= Len(venue)
        /\ \A i \in 1..Len(venue) : venue[i] \in Nat
    BY <1>1, VenueFacts
  <2>5. /\ lo \in Nat /\ lo >= 1 /\ hi \in Nat /\ lo <= hi /\ hi <= listed
    BY <1>1, <1>4, <2>1, <2>2, CollectedFacts DEF CollectedInv
  <2>6. /\ \A i \in 1..Len(venue) : venue[i] >= pageCursor.start <=> i >= lo
        /\ pageCursor.last = venue[hi]
        /\ pageCursor.at = {i \in lo..hi : venue[i] = venue[hi]}
    BY <1>1, <1>4, <2>1, <2>2 DEF CollectedInv, StartsAt
  <2>7. /\ q \in Nat /\ pageCursor.start \in Nat /\ pageCursor.start <= q
        /\ q = pageCursor.start \/ q < pageCursor.last
    BY <1>1, <2>3, QueryStartFacts, InfoAssumption
  <2>8. \A i \in 1..listed : venue[i] >= q <=> i >= a
    BY <2>3 DEF PageIs, StartsAt
  <2>9. hi \in 1..listed /\ hi \in 1..Len(venue) /\ venue[hi] \in Nat /\ venue[hi] >= q
    <3>1. hi \in 1..listed /\ hi \in 1..Len(venue) /\ venue[hi] \in Nat
      BY <2>4, <2>5
    <3>2. venue[hi] >= pageCursor.start
      BY <2>5, <2>6, <3>1
    <3> QED
      BY <2>6, <2>7, <3>1, <3>2
  <2>10. a <= hi
    BY <2>8, <2>9
  <2>11. ASSUME NEW i \in a..b PROVE IsAfterCursor(pageCursor, i) <=> i > hi
    <3>1. i \in 1..listed /\ i \in 1..Len(venue) /\ venue[i] \in Nat
      BY <2>4
    <3>2. i >= lo
      <4>1. venue[i] >= q
        BY <2>8, <3>1
      <4>2. venue[i] >= pageCursor.start
        BY <2>7, <3>1, <4>1
      <4> QED
        BY <2>6, <3>1, <4>2
    <3>3. pageCursor.last # None
      BY <2>6, <2>9 DEF None
    <3>4. CASE i > hi
      <4>1. venue[hi] <= venue[i]
        BY <1>1, <2>5, <2>9, <3>1, <3>4 DEF VenueInv
      <4>2. i \notin pageCursor.at
        BY <2>5, <2>6, <3>1, <3>4
      <4> QED
        BY <2>6, <2>9, <3>1, <3>4, <4>1, <4>2 DEF IsAfterCursor
    <3>5. CASE i <= hi
      <4>1. venue[i] <= venue[hi]
        BY <1>1, <2>5, <2>9, <3>1, <3>5 DEF VenueInv
      <4>2. venue[i] = venue[hi] => i \in pageCursor.at
        BY <2>5, <2>6, <3>1, <3>2, <3>5
      <4> QED
        BY <2>5, <2>6, <2>9, <3>1, <3>3, <3>5, <4>1, <4>2 DEF IsAfterCursor
    <3> QED
      BY <2>5, <3>1, <3>4, <3>5
  <2>12. Kept = {i \in a..b : i > hi}
    BY <1>2, <2>11 DEF Kept
  <2>13. {i \in a..b : i > hi} = hi + 1..b
    BY <2>5, <2>10
  <2> QED
    BY <1>4, <2>2, <2>10, <2>12, <2>13
<1> QED
  BY <1>3, <1>4

(* The cursor moves to the last of the records kept.                       *)
LEMMA AdvanceFacts ==
  ASSUME InfoTyped, VenueInv, NEW m \in 1..Len(venue), NEW b \in m..Len(venue)
  PROVE  LET c == Advance(pageCursor, m..b)
             at == {i \in m..b : venue[i] = venue[b]}
         IN /\ c \in Cursors /\ c.start = pageCursor.start /\ c.last = venue[b]
            /\ c.at = IF pageCursor.last = venue[b] THEN pageCursor.at \cup at ELSE at
<1>1. InfoTypeOK /\ pageCursor \in Cursors
  BY DEF InfoTyped
<1>2. /\ Len(venue) \in Nat /\ Len(venue) <= MaxVenue /\ MaxVenue \in Nat /\ MaxMillis \in Nat
      /\ \A i \in 1..Len(venue) : venue[i] \in Nat /\ venue[i] <= MaxMillis
  BY <1>1, VenueFacts
<1>3. b \in m..b /\ \A i \in m..b : i \in 1..Len(venue)
  BY <1>2
<1>4. \A i \in m..b : venue[i] <= venue[b]
  BY <1>2, <1>3 DEF VenueInv
<1>5. (CHOOSE t \in {venue[i] : i \in m..b} : \A i \in m..b : venue[i] <= t) = venue[b]
  <2>1. \A t \in {venue[i] : i \in m..b} : (\A i \in m..b : venue[i] <= t) => t = venue[b]
    BY <1>2, <1>3, <1>4
  <2>2. venue[b] \in {venue[i] : i \in m..b}
    BY <1>3
  <2> QED
    BY <1>4, <2>1, <2>2
<1>6. PICK last : last = venue[b]
  OBVIOUS
<1>7. PICK at : at = {i \in m..b : venue[i] = last}
  OBVIOUS
<1>8. Advance(pageCursor, m..b)
        = [pageCursor EXCEPT !.last = last,
                             !.at = IF pageCursor.last = last THEN @ \cup at ELSE at]
  BY <1>5, <1>6, <1>7 DEF Advance
<1>9. last \in None..MaxMillis /\ at \subseteq Listing
  BY <1>2, <1>3, <1>6, <1>7 DEF None, Listing
<1>10. pageCursor.at \subseteq Listing
  BY <1>1 DEF Cursors
<1> QED
  BY <1>1, <1>6, <1>7, <1>8, <1>9, <1>10 DEF Cursors

(* append_kept appends an interval, element by element.                    *)
LEMMA AppendKept ==
  ASSUME NEW c \in Seq(Listing), NEW m \in Listing, NEW b \in Listing, m <= b
  PROVE  /\ c \o Ascending(m..b) \in Seq(Listing)
         /\ Len(c \o Ascending(m..b)) = Len(c) + (b + 1 - m)
         /\ \A n \in 1..Len(c) : (c \o Ascending(m..b))[n] = c[n]
         /\ \A n \in Len(c) + 1..Len(c) + (b + 1 - m) :
              (c \o Ascending(m..b))[n] = m + (n - Len(c)) - 1
<1>1. m \in Nat /\ b \in Nat /\ m >= 1 /\ b <= MaxVenue /\ MaxVenue \in Nat
  BY InfoAssumption DEF Listing
<1>2. PICK k : k = b + 1 - m
  OBVIOUS
<1>3. k \in Nat
  BY <1>1, <1>2
<1>4. PICK r : r = [n \in 1..k |-> m + n - 1]
  OBVIOUS
<1>5. Ascending(m..b) = r
  BY <1>1, <1>2, <1>4, AscendingInterval
<1>6. \A n \in 1..k : m + n - 1 \in Listing
  BY <1>1, <1>2 DEF Listing
<1>7. r \in Seq(Listing) /\ Len(r) = k /\ \A n \in 1..k : r[n] = m + n - 1
  BY <1>3, <1>4, <1>6, IsASeq
<1>8. PICK l : l = Len(c)
  OBVIOUS
<1>9. l \in Nat
  BY <1>8
<1>10. /\ c \o r \in Seq(Listing) /\ Len(c \o r) = l + k
       /\ \A n \in 1..l + k : (c \o r)[n] = IF n <= l THEN c[n] ELSE r[n - l]
  BY <1>7, <1>8, ConcatProperties
<1>11. \A n \in 1..l : (c \o r)[n] = c[n]
  BY <1>3, <1>9, <1>10
<1>12. \A n \in l + 1..l + k : (c \o r)[n] = m + (n - l) - 1
  BY <1>3, <1>7, <1>9, <1>10
<1> QED
  BY <1>2, <1>5, <1>8, <1>10, <1>11, <1>12

(* What ended a crawl's page, and what it changed.                         *)
LEMMA ApplyPageFacts ==
  ASSUME InfoInv, ApplyPage,
         NEW a \in 1..listed + 1, NEW b \in 0..listed, PageIs(a, b)
  PROVE  /\ UNCHANGED <<venue, page, listed, pages, broken, checkpoint, savedCheckpoint, marked,
                         publications, infoCrashes>>
         /\ crawl = "apply"
         /\ collected' = collected \o Ascending(Kept)
         /\ pageCursor' = IF Kept = {} THEN pageCursor ELSE Advance(pageCursor, Kept)
         /\ crawl' \in {"fetch", "finish"}
         /\ stop' \in CompleteStops \cup PartialStops \cup {"none"}
         /\ Kept = {} => crawl' = "finish"
         /\ stop' = "EmptyVenue" => page = {}
         /\ stop' = "EndOfStream" => page # {} /\ Kept = {} /\ b = listed
         /\ stop' = "Exhausted" => Kept # {} /\ b = listed
<1>1. /\ UNCHANGED <<venue, page, listed, pages, broken, checkpoint, savedCheckpoint, marked,
                      publications, infoCrashes>>
      /\ crawl = "apply"
      /\ collected' = collected \o Ascending(Kept)
      /\ pageCursor' = IF Kept = {} THEN pageCursor ELSE Advance(pageCursor, Kept)
      /\ stop' = IF page = {} THEN "EmptyVenue"
                 ELSE IF Kept = {}
                      THEN IF Cardinality(page) >= PageLimit THEN "SameMillisecondBurst"
                           ELSE "EndOfStream"
                 ELSE IF Cardinality(page) >= PageLimit THEN "none" ELSE "Exhausted"
      /\ crawl' = IF stop' = "none" THEN "fetch" ELSE "finish"
  BY DEF ApplyPage, Kept
<1>2. /\ page = a..b /\ a <= b + 1 /\ b + 1 - a <= PageLimit
      /\ b = listed \/ b + 1 - a = PageLimit
  BY DEF PageIs
<1>3. a \in Int /\ b \in Int
  OBVIOUS
<1>4. Cardinality(page) = b + 1 - a
  <2>1. Cardinality(a..b) = IF a > b THEN 0 ELSE b - a + 1
    BY <1>3, FS_Interval
  <2>2. Cardinality(a..b) = b + 1 - a
    BY <1>2, <1>3, <2>1
  <2> QED
    BY <1>2, <2>2
<1>5. ~(Cardinality(page) >= PageLimit) => b = listed
  BY <1>2, <1>3, <1>4, InfoAssumption
<1>6. Kept # {} => page # {}
  BY DEF Kept
<1> QED
  BY <1>1, <1>5, <1>6 DEF CompleteStops, PartialStops

(* A page with nothing new ends the crawl.                                 *)
LEMMA ApplyNothing ==
  ASSUME InfoInv, ApplyPage, Kept = {}
  PROVE  InfoInv'
<1>1. InfoTyped /\ InfoTypeOK /\ VenueInv /\ CaptureInv /\ CollectedInv /\ PageInv
  BY DEF InfoInv, InfoTyped
<1>2. crawl = "apply" /\ Crawling
  BY DEF ApplyPage, Crawling
<1>3. PICK a \in 1..listed + 1, b \in 0..listed : PageIs(a, b)
  BY <1>1, <1>2 DEF PageInv, CaptureInv
<1>4. /\ UNCHANGED <<venue, page, listed, pages, broken, checkpoint, savedCheckpoint, marked,
                      publications, infoCrashes, pageCursor>>
      /\ collected' = collected \o Ascending({})
      /\ crawl' = "finish"
      /\ stop' \in CompleteStops \cup PartialStops \cup {"none"}
      /\ stop' = "EmptyVenue" => page = {}
      /\ stop' = "EndOfStream" => page # {} /\ b = listed
      /\ stop' # "Exhausted"
  BY <1>3, ApplyPageFacts
<1>5. UNCHANGED collected
  <2>1. Ascending({}) = <<>>
    <3>1. Cardinality({}) = 0
      BY FS_EmptySet
    <3>2. 1..0 = {}
      OBVIOUS
    <3> QED
      BY <3>1, <3>2 DEF Ascending
  <2>2. collected \in Seq(Listing)
    BY <1>1 DEF InfoTypeOK
  <2> QED
    BY <1>4, <2>1, <2>2, ConcatEmptySeq
<1>6. InfoTyped'
  BY <1>1, <1>4, <1>5 DEF InfoTyped, InfoTypeOK
<1>7. VenueInv'
  BY <1>1, <1>4 DEF VenueInv, LastMillis
<1>8. CaptureInv'
  BY <1>1, <1>2, <1>4, <1>5 DEF CaptureInv, CheckpointHeld, Held
<1>9. CollectedInv'
  BY <1>1, <1>2, <1>4, <1>5 DEF CollectedInv, StartsAt, Newest
<1>10. PageInv'
  <2>1. /\ page = a..b /\ a <= b + 1
        /\ StartsAt(a, NextQueryStart(pageCursor), listed)
        /\ b = listed \/ b + 1 - a = PageLimit
        /\ PageLimit \in Nat /\ PageLimit >= 1 /\ listed \in Nat
    BY <1>1, <1>3, VenueFacts, InfoAssumption DEF PageIs
  <2>2. /\ collected = <<>> => page = {}
        /\ collected # <<>> => a <= Newest /\ b <= Newest /\ Newest <= listed /\ Newest \in Nat
    <3>1. CASE collected = <<>>
      BY <1>2, <1>3, <2>1, <3>1, KeptInterval
    <3>2. CASE collected # <<>>
      <4>1. a <= Newest /\ Newest + 1..b = {}
        BY <1>2, <1>3, <3>2, KeptInterval
      <4>2. Newest \in Nat /\ Newest <= listed
        BY <1>1, <1>2, <3>2, CollectedFacts DEF CollectedInv
      <4> QED
        BY <3>2, <4>1, <4>2
    <3> QED
      BY <3>1, <3>2
  <2>3. CASE stop' = "EmptyVenue"
    <3>1. a = b + 1 /\ b = listed
      BY <1>4, <2>1, <2>3
    <3>2. collected = <<>>
      BY <2>1, <2>2, <3>1
    <3>3. NextQueryStart(pageCursor) = pageCursor.start /\ pageCursor.start \in Nat
      BY <1>1, <1>2, <3>2, QueryStartFacts DEF CollectedInv
    <3>4. \A i \in 1..listed : venue[i] < pageCursor.start
      <4>1. \A i \in 1..listed : venue[i] \in Nat
        BY <1>1, VenueFacts
      <4> QED
        BY <2>1, <3>1, <3>3, <4>1 DEF StartsAt
    <3> QED
      BY <1>4, <1>5, <3>2, <3>4 DEF PageInv
  <2>4. CASE stop' = "EndOfStream"
    <3>1. collected # <<>> /\ Newest = listed
      BY <1>4, <2>1, <2>2, <2>4
    <3> QED
      BY <1>4, <1>5, <3>1 DEF PageInv, Newest
  <2>5. CASE stop' \notin CompleteStops
    BY <1>4, <2>5 DEF PageInv
  <2> QED
    BY <1>4, <2>3, <2>4, <2>5 DEF CompleteStops
<1> QED
  BY <1>6, <1>7, <1>8, <1>9, <1>10 DEF InfoInv

(* A page with something new makes the run longer.                         *)
LEMMA ApplySome ==
  ASSUME InfoInv, ApplyPage, Kept # {}
  PROVE  InfoInv'
<1>1. InfoTyped /\ InfoTypeOK /\ VenueInv /\ CaptureInv /\ CollectedInv /\ PageInv
  BY DEF InfoInv, InfoTyped
<1>2. crawl = "apply" /\ Crawling
  BY DEF ApplyPage, Crawling
<1>3. PICK a \in 1..listed + 1, b \in 0..listed : PageIs(a, b)
  BY <1>1, <1>2 DEF PageInv, CaptureInv
<1>4. /\ UNCHANGED <<venue, page, listed, pages, broken, checkpoint, savedCheckpoint, marked,
                      publications, infoCrashes>>
      /\ collected' = collected \o Ascending(Kept)
      /\ pageCursor' = Advance(pageCursor, Kept)
      /\ crawl' \in {"fetch", "finish"}
      /\ stop' \in CompleteStops \cup PartialStops \cup {"none"}
      /\ stop' \in CompleteStops => b = listed
  <2>1. Kept # {} => page # {}
    BY DEF Kept
  <2> QED
    BY <1>3, <2>1, ApplyPageFacts DEF CompleteStops
<1>5. /\ Len(venue) \in Nat /\ Len(venue) <= MaxVenue /\ MaxVenue \in Nat
      /\ listed \in Nat /\ listed <= Len(venue)
      /\ \A i \in 1..Len(venue) : venue[i] \in Nat
  BY <1>1, VenueFacts
<1>6. PICK m : m = IF collected = <<>> THEN a ELSE Newest + 1
  OBVIOUS
<1>7. PICK lo : lo = IF collected = <<>> THEN a ELSE collected[1]
  OBVIOUS
<1>8. Kept = m..b
  BY <1>2, <1>3, <1>6, KeptInterval
<1>9. m \in Nat /\ lo \in Nat /\ lo >= 1 /\ lo <= m /\ a <= m
  <2>1. CASE collected = <<>>
    BY <1>6, <1>7, <2>1
  <2>2. CASE collected # <<>>
    <3>1. a <= Newest
      BY <1>2, <1>3, <2>2, KeptInterval
    <3>2. /\ Newest \in Nat /\ Newest >= collected[1]
          /\ collected[1] \in Nat /\ collected[1] >= 1
      BY <1>1, <2>2, CollectedFacts
    <3> QED
      BY <1>6, <1>7, <2>2, <3>1, <3>2
  <2> QED
    BY <2>1, <2>2
<1>10. m \in 1..b /\ b \in m..Len(venue) /\ m \in 1..Len(venue)
  BY <1>5, <1>8, <1>9
<1>11. m \in Listing /\ b \in Listing /\ m <= b
  BY <1>5, <1>9, <1>10 DEF Listing
<1>12. collected \in Seq(Listing) /\ Len(collected) \in Nat
  BY <1>1 DEF InfoTypeOK
<1>13. m = lo + Len(collected)
  <2>1. CASE collected = <<>>
    BY <1>6, <1>7, <1>9, <2>1
  <2>2. CASE collected # <<>>
    <3>1. Len(collected) = Newest + 1 - collected[1] /\ Newest \in Nat /\ collected[1] \in Nat
      BY <1>1, <2>2, CollectedFacts
    <3> QED
      BY <1>6, <1>7, <1>12, <2>2, <3>1
  <2> QED
    BY <2>1, <2>2
<1>14. /\ collected' \in Seq(Listing) /\ Len(collected') = b + 1 - lo
       /\ \A n \in 1..Len(collected) : collected'[n] = collected[n]
       /\ \A n \in Len(collected) + 1..b + 1 - lo : collected'[n] = lo + n - 1
  <2>1. PICK l : l = Len(collected)
    OBVIOUS
  <2>2. /\ collected' \in Seq(Listing) /\ Len(collected') = l + (b + 1 - m)
        /\ \A n \in 1..l : collected'[n] = collected[n]
        /\ \A n \in l + 1..l + (b + 1 - m) : collected'[n] = m + (n - l) - 1
    BY <1>4, <1>8, <1>11, <1>12, <2>1, AppendKept
  <2>3. l + (b + 1 - m) = b + 1 - lo /\ \A n \in Int : m + (n - l) - 1 = lo + n - 1
    BY <1>9, <1>10, <1>12, <1>13, <2>1
  <2>4. ASSUME NEW n \in l + 1..b + 1 - lo PROVE collected'[n] = lo + n - 1
    <3>1. n \in Int /\ n \in l + 1..l + (b + 1 - m)
      BY <2>3
    <3> QED
      BY <2>2, <2>3, <3>1
  <2> QED
    BY <2>1, <2>2, <2>3, <2>4, Zenon
<1>15. \A n \in 1..b + 1 - lo : collected'[n] = lo + n - 1
  <2>1. \A n \in 1..Len(collected) : collected[n] = lo + n - 1
    <3>1. CASE collected = <<>>
      BY <3>1
    <3>2. CASE collected # <<>>
      BY <1>1, <1>2, <1>7, <3>2 DEF CollectedInv
    <3> QED
      BY <3>1, <3>2
  <2>2. PICK l : l = Len(collected)
    OBVIOUS
  <2>3. l \in Nat /\ l + 1 <= b + 1 - lo
    BY <1>9, <1>10, <1>12, <1>13, <2>2
  <2>4. \A n \in 1..b + 1 - lo : n \in 1..l \/ n \in l + 1..b + 1 - lo
    BY <1>9, <1>10, <2>3
  <2> QED
    BY <1>14, <2>1, <2>2, <2>4
<1>16. collected' # <<>> /\ collected'[1] = lo /\ Newest' = b
  <2>1. b + 1 - lo >= 1
    BY <1>9, <1>10
  <2>2. collected'[1] = lo
    BY <1>9, <1>10, <1>15, <2>1
  <2>3. collected' # <<>>
    BY <1>14, <2>1
  <2> QED
    BY <1>9, <1>10, <1>14, <2>2, <2>3 DEF Newest
<1>17. PICK c : c = Advance(pageCursor, m..b)
  OBVIOUS
<1>18. PICK at : at = {i \in m..b : venue[i] = venue[b]}
  OBVIOUS
<1>19. /\ c \in Cursors /\ c.start = pageCursor.start /\ c.last = venue[b]
       /\ c.at = IF pageCursor.last = venue[b] THEN pageCursor.at \cup at ELSE at
       /\ pageCursor' = c
  BY <1>1, <1>4, <1>8, <1>10, <1>17, <1>18, AdvanceFacts
<1>20. InfoTyped'
  <2>1. c.start \in 0..MaxMillis /\ c.last \in None..MaxMillis /\ c.at \subseteq Listing
    BY <1>19 DEF Cursors
  <2> QED
    BY <1>1, <1>4, <1>14, <1>19, <2>1 DEF InfoTyped, InfoTypeOK
<1>21. VenueInv'
  BY <1>1, <1>4 DEF VenueInv, LastMillis
<1>22. CaptureInv'
  <2>1. ASSUME ~broken, NEW n \in 1..Len(collected') PROVE Held(collected[n], checkpoint)'
    <3>1. CASE n \in 1..Len(collected)
      BY <1>1, <1>2, <1>4, <1>14, <2>1, <3>1 DEF CaptureInv, Held
    <3>2. CASE n \notin 1..Len(collected)
      <4>1. collected'[n] \in a..b
        <5>1. collected'[n] = lo + n - 1 /\ n \in Nat /\ n > Len(collected) /\ n <= b + 1 - lo
          BY <1>9, <1>10, <1>12, <1>14, <1>15, <2>1, <3>2
        <5> QED
          BY <1>9, <1>10, <1>12, <1>13, <5>1
      <4>2. page = a..b /\ page # Drift /\ page \in PageBodies /\ Queued(checkpoint.pending, page)
        BY <1>1, <1>2, <1>3, <2>1 DEF PageIs, CaptureInv, InfoTypeOK
      <4> QED
        BY <1>4, <4>1, <4>2 DEF Held
    <3> QED
      BY <3>1, <3>2
  <2> QED
    BY <1>1, <1>4, <2>1 DEF CaptureInv, CheckpointHeld, Held
<1>23. b \in 1..listed /\ b \in 1..Len(venue) /\ lo <= b /\ lo \in 1..Len(venue)
  BY <1>5, <1>9, <1>10
<1>24. ASSUME NEW i \in 1..Len(venue) PROVE venue[i] >= pageCursor.start <=> i >= lo
  <2>1. CASE collected # <<>>
    BY <1>1, <1>2, <1>7, <2>1 DEF CollectedInv, StartsAt
  <2>2. CASE collected = <<>>
    <3>1. NextQueryStart(pageCursor) = pageCursor.start /\ pageCursor.start \in Nat
      BY <1>1, <1>2, <2>2, QueryStartFacts DEF CollectedInv
    <3>2. \A k \in 1..listed : venue[k] >= pageCursor.start <=> k >= lo
      BY <1>3, <1>7, <2>2, <3>1 DEF PageIs, StartsAt
    <3>3. CASE i \in 1..listed
      BY <3>2, <3>3
    <3>4. CASE i \notin 1..listed
      <4>1. lo <= i /\ lo \in 1..listed
        BY <1>5, <1>9, <1>23, <3>4
      <4>2. venue[lo] >= pageCursor.start /\ venue[lo] <= venue[i]
        BY <1>1, <1>5, <1>9, <1>23, <3>2, <4>1 DEF VenueInv
      <4> QED
        BY <1>5, <1>9, <1>23, <3>1, <4>1, <4>2
    <3> QED
      BY <3>3, <3>4
  <2> QED
    BY <2>1, <2>2
<1>25. c.at = {i \in lo..b : venue[i] = venue[b]}
  <2>1. CASE collected = <<>>
    <3>1. pageCursor.last = None /\ m = lo
      BY <1>1, <1>2, <1>6, <1>7, <2>1 DEF CollectedInv
    <3>2. pageCursor.last # venue[b]
      BY <1>5, <1>23, <3>1 DEF None
    <3> QED
      BY <1>18, <1>19, <3>1, <3>2
  <2>2. CASE collected # <<>>
    <3>1. PICK hi : hi = Newest
      OBVIOUS
    <3>2. /\ hi \in Nat /\ lo <= hi /\ m = hi + 1 /\ pageCursor.last = venue[hi]
          /\ pageCursor.at = {i \in lo..hi : venue[i] = venue[hi]}
      BY <1>1, <1>2, <1>6, <1>7, <2>2, <3>1, CollectedFacts DEF CollectedInv
    <3>3. hi \in 1..Len(venue) /\ hi <= b
      BY <1>9, <1>10, <1>5, <3>2
    <3>4. venue[hi] <= venue[b] /\ venue[hi] \in Nat /\ venue[b] \in Nat
      BY <1>1, <1>5, <1>23, <3>3 DEF VenueInv
    <3>5. \A i \in lo..b : i \in lo..hi \/ i \in m..b
      BY <1>9, <3>2
    <3>6. lo..hi \subseteq lo..b /\ m..b \subseteq lo..b
      BY <1>9, <3>2, <3>3
    <3>7. CASE venue[hi] = venue[b]
      BY <1>18, <1>19, <3>2, <3>5, <3>6, <3>7
    <3>8. CASE venue[hi] # venue[b]
      <4>1. \A i \in lo..hi : venue[i] # venue[b]
        <5> SUFFICES ASSUME NEW i \in lo..hi PROVE venue[i] # venue[b]
          OBVIOUS
        <5>1. i \in 1..Len(venue) /\ i <= hi
          BY <1>9, <3>2, <3>3
        <5>2. venue[i] <= venue[hi] /\ venue[i] \in Nat
          BY <1>1, <1>5, <3>3, <5>1 DEF VenueInv
        <5> QED
          BY <3>4, <3>8, <5>2
      <4> QED
        BY <1>18, <1>19, <3>2, <3>5, <3>6, <3>8, <4>1
    <3> QED
      BY <3>7, <3>8
  <2> QED
    BY <2>1, <2>2
<1>26. CollectedInv'
  <2>1. pageCursor'.start = checkpoint'.next
    BY <1>1, <1>2, <1>4, <1>19 DEF CollectedInv
  <2>2. \A n \in 1..Len(collected') : collected'[n] = collected'[1] + n - 1
    BY <1>14, <1>15, <1>16
  <2>3. StartsAt(collected[1], pageCursor.start, Len(venue))'
    BY <1>4, <1>16, <1>19, <1>24 DEF StartsAt
  <2>4. Newest' <= listed'
    BY <1>4, <1>5, <1>16, <1>23
  <2> QED
    BY <1>4, <1>16, <1>19, <1>25, <2>1, <2>2, <2>3, <2>4 DEF CollectedInv
<1>27. PageInv'
  BY <1>4, <1>16 DEF PageInv
<1> QED
  BY <1>20, <1>21, <1>22, <1>26, <1>27 DEF InfoInv

(* The cursor moves over a page, with or without new records.              *)
LEMMA ApplyPageKeeps ==
  ASSUME InfoInv, ApplyPage
  PROVE  InfoInv'
  BY ApplyNothing, ApplySome

-----------------------------------------------------------------------------
(* A step after which no crawl is under way: what has to be shown of the   *)
(* checkpoints and of what is published.                                   *)
LEMMA CrawlOver ==
  ASSUME InfoInv, UNCHANGED venue, crawl' \in {"idle", "publish", "drop"},
         InfoTyped', CaptureInv',
         \A c \in {checkpoint', savedCheckpoint'} : c.next <= LastMillis
  PROVE  InfoInv'
<1>1. VenueInv'
  BY DEF VenueInv, InfoInv, LastMillis
<1>2. CollectedInv' /\ PageInv'
  BY DEF CollectedInv, PageInv, Crawling
<1> QED
  BY <1>1, <1>2 DEF InfoInv

(* The start a finished crawl leaves is behind what it collected, when     *)
(* every page was archived and saved.                                      *)
LEMMA NextStartHeld ==
  ASSUME InfoInv, crawl = "finish", ~broken
  PROVE  /\ NextQueryStart(pageCursor) <= LastMillis
         /\ \A i \in 1..Len(venue) : venue[i] < NextQueryStart(pageCursor) => Held(i, checkpoint)
<1>1. InfoTyped /\ InfoTypeOK /\ VenueInv /\ CaptureInv /\ CollectedInv /\ Crawling
  BY DEF InfoInv, InfoTyped, Crawling
<1>2. PICK q : q = NextQueryStart(pageCursor)
  OBVIOUS
<1>3. /\ q \in Nat /\ pageCursor.start \in Nat /\ pageCursor.last \in Int
      /\ pageCursor.last = None => q = pageCursor.start
      /\ q = pageCursor.start \/ q < pageCursor.last
  BY <1>1, <1>2, QueryStartFacts, InfoAssumption
<1>4. pageCursor.start = checkpoint.next /\ checkpoint.next <= LastMillis
  BY <1>1 DEF CollectedInv, VenueInv
<1>5. /\ Len(venue) \in Nat /\ listed \in Nat /\ listed <= Len(venue)
      /\ \A i \in 1..Len(venue) : venue[i] \in Nat
  BY <1>1, VenueFacts
<1>6. CASE q = pageCursor.start
  BY <1>1, <1>2, <1>4, <1>6 DEF CaptureInv, CheckpointHeld
<1>7. CASE q # pageCursor.start
  <2>1. collected # <<>>
    BY <1>1, <1>3, <1>7 DEF CollectedInv
  <2>2. PICK hi : hi = Newest
    OBVIOUS
  <2>3. PICK lo : lo = collected[1]
    OBVIOUS
  <2>4. /\ hi \in Nat /\ lo \in Nat /\ lo >= 1 /\ lo <= hi /\ hi <= listed
        /\ Len(collected) = hi + 1 - lo
    BY <1>1, <2>1, <2>2, <2>3, CollectedFacts DEF CollectedInv
  <2>5. hi \in 1..Len(venue) /\ q < venue[hi]
    BY <1>1, <1>3, <1>5, <1>7, <2>1, <2>2, <2>4 DEF CollectedInv
  <2>6. q <= LastMillis
    <3>1. venue # <<>> /\ Len(venue) \in 1..Len(venue)
      BY <1>5, <2>5
    <3>2. venue[hi] <= venue[Len(venue)]
      BY <1>1, <1>5, <2>5, <3>1 DEF VenueInv
    <3> QED
      BY <1>3, <1>5, <2>5, <3>1, <3>2 DEF LastMillis
  <2>7. ASSUME NEW i \in 1..Len(venue), venue[i] < q PROVE Held(i, checkpoint)
    <3>1. venue[i] \in Nat
      BY <1>5
    <3>2. CASE venue[i] < pageCursor.start
      BY <1>1, <1>4, <3>2 DEF CaptureInv, CheckpointHeld
    <3>3. CASE venue[i] >= pageCursor.start
      <4>1. i >= lo
        BY <1>1, <2>1, <2>3, <3>3 DEF CollectedInv, StartsAt
      <4>2. i <= hi
        <5>1. ~(venue[hi] <= venue[i])
          BY <1>3, <1>5, <2>5, <2>7, <3>1
        <5>2. hi <= i => venue[hi] <= venue[i]
          BY <1>1, <2>5 DEF VenueInv
        <5> QED
          BY <2>4, <5>1, <5>2
      <4>3. PICK n : n = i + 1 - lo
        OBVIOUS
      <4>4. n \in 1..Len(collected) /\ lo + n - 1 = i
        BY <2>4, <4>1, <4>2, <4>3
      <4>5. collected[n] = i
        BY <1>1, <2>1, <2>3, <4>4 DEF CollectedInv
      <4> QED
        BY <1>1, <4>4, <4>5 DEF CaptureInv
    <3> QED
      BY <1>3, <3>1, <3>2, <3>3
  <2> QED
    BY <1>2, <2>6, <2>7
<1> QED
  BY <1>6, <1>7

(* The crawl ends and the checkpoint moves as far as it may.               *)
LEMMA FinishCrawlKeeps ==
  ASSUME InfoInv, FinishCrawl
  PROVE  InfoInv'
<1>1. InfoTyped /\ InfoTypeOK /\ VenueInv /\ CaptureInv
  BY DEF InfoInv, InfoTyped
<1>2. /\ UNCHANGED <<venue, page, listed, pageCursor, collected, pages, stop, broken, marked,
                      publications, infoCrashes>>
      /\ crawl = "finish" /\ crawl' \in {"idle", "publish"}
  BY DEF FinishCrawl
<1>3. PICK c : c = [checkpoint EXCEPT !.next = NextQueryStart(pageCursor)]
  OBVIOUS
<1>4. c \in Checkpoints /\ c.next = NextQueryStart(pageCursor) /\ c.pending = checkpoint.pending
  <2>1. NextQueryStart(pageCursor) \in 0..MaxMillis
    BY <1>1, QueryStartFacts
  <2>2. checkpoint \in Checkpoints
    BY <1>1 DEF InfoTypeOK
  <2> QED
    BY <1>3, <2>1, <2>2 DEF Checkpoints
<1>5. /\ checkpoint' \in {checkpoint, c} /\ savedCheckpoint' \in {savedCheckpoint, c}
      /\ broken => checkpoint' = checkpoint /\ savedCheckpoint' = savedCheckpoint
  BY <1>3 DEF FinishCrawl
<1>6. ASSUME ~broken PROVE CheckpointHeld(c) /\ c.next <= LastMillis
  BY <1>2, <1>4, <1>6, NextStartHeld DEF CheckpointHeld, Held
<1>7. InfoTyped'
  BY <1>1, <1>2, <1>4, <1>5 DEF InfoTyped, InfoTypeOK
<1>8. CaptureInv'
  <2>1. ASSUME NEW d, CheckpointHeld(d)
        PROVE  \A i \in 1..Len(venue') : venue'[i] < d.next =>
                 \E b \in PageBodies \ {Drift} :
                   i \in b /\ (publications'[b] > 0 \/ Queued(d.pending, b))
    BY <1>2, <2>1 DEF CheckpointHeld, Held
  <2>2. CheckpointHeld(checkpoint)' /\ CheckpointHeld(savedCheckpoint)'
    BY <1>1, <1>5, <1>6, <2>1 DEF CaptureInv, CheckpointHeld, Held
  <2> QED
    BY <1>1, <1>2, <2>2 DEF CaptureInv, Crawling
<1> QED
  BY <1>1, <1>2, <1>5, <1>6, <1>7, <1>8, CrawlOver DEF VenueInv

(* A queued page is published.                                             *)
LEMMA PublishPendingKeeps ==
  ASSUME InfoInv, PublishPending
  PROVE  InfoInv'
<1>1. InfoTyped /\ InfoTypeOK /\ VenueInv /\ CaptureInv
  BY DEF InfoInv, InfoTyped
<1>2. /\ UNCHANGED <<venue, page, listed, pageCursor, collected, pages, stop, broken, checkpoint,
                      savedCheckpoint, infoCrashes>>
      /\ crawl = "publish" /\ crawl' = "drop" /\ checkpoint.pending # <<>>
  BY DEF PublishPending
<1>3. PICK h : h = Head(checkpoint.pending)
  OBVIOUS
<1>4. h \in PageBodies
  <2>1. checkpoint.pending \in Seq(PageBodies)
    BY <1>1 DEF InfoTypeOK, Checkpoints
  <2> QED
    BY <1>2, <1>3, <2>1, HeadTailProperties
<1>5. /\ publications \in [PageBodies -> Nat] /\ marked \subseteq PageBodies /\ infoCrashes \in Nat
      /\ \A b \in PageBodies :
           /\ b \in marked => publications[b] > 0 /\ publications[b] <= 1 + infoCrashes
           /\ b \notin marked => publications[b] <= infoCrashes
  BY <1>1 DEF InfoTyped, InfoTypeOK, CaptureInv
<1>6. /\ publications' \in [PageBodies -> Nat] /\ marked' \subseteq PageBodies
      /\ \A b \in PageBodies :
           /\ b \in marked' => publications'[b] > 0 /\ publications'[b] <= 1 + infoCrashes
           /\ b \notin marked' => publications'[b] <= infoCrashes
           /\ publications[b] > 0 => publications'[b] > 0
      /\ h = Drift \/ publications'[h] > 0
  <2>1. CASE h \notin marked /\ h # Drift
    <3>1. publications' = [publications EXCEPT ![h] = @ + 1] /\ marked' = marked \cup {h}
      BY <1>3, <2>1 DEF PublishPending
    <3> QED
      BY <1>4, <1>5, <2>1, <3>1
  <2>2. CASE h \in marked \/ h = Drift
    <3>1. UNCHANGED <<publications, marked>>
      BY <1>3, <2>2 DEF PublishPending
    <3> QED
      BY <1>4, <1>5, <2>2, <3>1
  <2> QED
    BY <2>1, <2>2
<1>7. InfoTyped'
  BY <1>1, <1>2, <1>6 DEF InfoTyped, InfoTypeOK
<1>8. CaptureInv'
  <2>1. CheckpointHeld(checkpoint)' /\ CheckpointHeld(savedCheckpoint)'
    BY <1>1, <1>2, <1>6 DEF CaptureInv, CheckpointHeld, Held
  <2> QED
    BY <1>2, <1>3, <1>6, <2>1 DEF CaptureInv, Crawling
<1> QED
  BY <1>1, <1>2, <1>7, <1>8, CrawlOver DEF VenueInv

(* The body that is dropped has been published, or does not parse.         *)
LEMMA DropPendingKeeps ==
  ASSUME InfoInv, DropPending
  PROVE  InfoInv'
<1>1. InfoTyped /\ InfoTypeOK /\ VenueInv /\ CaptureInv
  BY DEF InfoInv, InfoTyped
<1>2. /\ UNCHANGED <<venue, page, listed, pageCursor, collected, pages, stop, broken, marked,
                      publications, infoCrashes>>
      /\ crawl = "drop" /\ crawl' \in {"idle", "publish"}
      /\ savedCheckpoint' \in {savedCheckpoint, checkpoint'}
  BY DEF DropPending
<1>3. PICK q : q = checkpoint.pending
  OBVIOUS
<1>4. PICK t : t = Tail(q)
  OBVIOUS
<1>5. /\ checkpoint \in Checkpoints /\ q \in Seq(PageBodies) /\ q # <<>>
      /\ Head(q) = Drift \/ publications[Head(q)] > 0
  BY <1>1, <1>2, <1>3 DEF InfoTypeOK, CaptureInv, Checkpoints
<1>6. /\ t \in Seq(PageBodies) /\ Len(q) \in Nat /\ Len(q) >= 1 /\ Len(t) = Len(q) - 1
      /\ \A n \in 1..Len(t) : t[n] = q[n + 1]
      /\ Head(q) = q[1]
  <2>1. Len(q) \in Nat \ {0}
    BY <1>5, EmptySeq
  <2> QED
    BY <1>4, <1>5, <2>1, HeadTailProperties
<1>7. /\ checkpoint' \in Checkpoints /\ checkpoint'.next = checkpoint.next
      /\ checkpoint'.pending = t
  <2>1. checkpoint' = [checkpoint EXCEPT !.pending = t]
    BY <1>3, <1>4 DEF DropPending
  <2> QED
    BY <1>5, <1>6, <2>1 DEF Checkpoints
<1>8. ASSUME NEW b \in PageBodies \ {Drift}, Queued(q, b)
      PROVE  publications[b] > 0 \/ Queued(t, b)
  <2>1. PICK n \in 1..Len(q) : q[n] = b
    BY <1>8 DEF Queued
  <2>2. CASE n = 1
    BY <1>5, <1>6, <2>1, <2>2
  <2>3. CASE n # 1
    <3>1. PICK k : k = n - 1
      OBVIOUS
    <3>2. k \in 1..Len(t) /\ k + 1 = n
      BY <1>6, <2>3, <3>1
    <3> QED
      BY <1>6, <2>1, <3>2 DEF Queued
  <2> QED
    BY <2>2, <2>3
<1>9. InfoTyped'
  BY <1>1, <1>2, <1>7 DEF InfoTyped, InfoTypeOK
<1>10. CheckpointHeld(checkpoint)'
  BY <1>1, <1>2, <1>3, <1>7, <1>8 DEF CaptureInv, CheckpointHeld, Held
<1>11. CheckpointHeld(savedCheckpoint)'
  <2>1. CASE savedCheckpoint' = savedCheckpoint
    BY <1>1, <1>2, <2>1 DEF CaptureInv, CheckpointHeld, Held
  <2>2. CASE savedCheckpoint' = checkpoint'
    BY <1>10, <2>2 DEF CheckpointHeld, Held
  <2> QED
    BY <1>2, <2>1, <2>2
<1>12. CaptureInv'
  BY <1>1, <1>2, <1>10, <1>11 DEF CaptureInv, Crawling
<1> QED
  BY <1>1, <1>2, <1>7, <1>9, <1>12, CrawlOver DEF VenueInv

(* The queue is published.                                                 *)
LEMMA PublishDoneKeeps ==
  ASSUME InfoInv, PublishDone
  PROVE  InfoInv'
<1>1. InfoTyped /\ InfoTypeOK /\ VenueInv /\ CaptureInv
  BY DEF InfoInv, InfoTyped
<1>2. /\ UNCHANGED <<venue, page, listed, pageCursor, collected, pages, stop, broken, checkpoint,
                      savedCheckpoint, marked, publications, infoCrashes>>
      /\ crawl' = "idle"
  BY DEF PublishDone
<1>3. InfoTyped'
  BY <1>1, <1>2 DEF InfoTyped, InfoTypeOK
<1>4. CaptureInv'
  BY <1>1, <1>2 DEF CaptureInv, CheckpointHeld, Held, Crawling
<1> QED
  BY <1>1, <1>2, <1>3, <1>4, CrawlOver DEF VenueInv

(* The next process starts from the checkpoint on disk and may publish     *)
(* once more what this one has published.                                  *)
LEMMA InfoCrashKeeps ==
  ASSUME InfoInv, InfoCrash
  PROVE  InfoInv'
<1>1. InfoTyped /\ InfoTypeOK /\ VenueInv /\ CaptureInv
  BY DEF InfoInv, InfoTyped
<1>2. /\ UNCHANGED <<venue, savedCheckpoint, publications>>
      /\ crawl' = "idle" /\ page' = {} /\ listed' = 0 /\ pageCursor' = NewCursor(0)
      /\ collected' = <<>> /\ pages' = 0 /\ stop' = "none" /\ broken' = FALSE
      /\ checkpoint' = savedCheckpoint /\ marked' = {} /\ infoCrashes' = infoCrashes + 1
  BY DEF InfoCrash
<1>3. InfoTyped'
  <2>1. /\ pageCursor' \in Cursors /\ pageCursor'.start \in 0..MaxMillis
        /\ pageCursor'.last \in None..MaxMillis /\ pageCursor'.at \subseteq Listing
    BY <1>2, InfoAssumption DEF Cursors, NewCursor, None
  <2>2. page' \in PageBodies
    BY <1>2 DEF PageBodies
  <2>3. pages' \in 0..MaxTimePages /\ listed' \in 0..Len(venue')
    BY <1>1, <1>2, VenueFacts, InfoAssumption
  <2>4. collected' \in Seq(Listing)
    BY <1>2
  <2>5. infoCrashes' \in Nat /\ marked' \subseteq PageBodies
    BY <1>1, <1>2 DEF InfoTyped
  <2> QED
    BY <1>1, <1>2, <2>1, <2>2, <2>3, <2>4, <2>5 DEF InfoTyped, InfoTypeOK
<1>4. \A b \in PageBodies : publications[b] <= infoCrashes'
  <2>1. \A b \in PageBodies : publications[b] \in Nat
    BY <1>1 DEF InfoTypeOK
  <2> QED
    BY <1>1, <1>2, <2>1 DEF CaptureInv, InfoTyped
<1>5. CheckpointHeld(savedCheckpoint)' /\ CheckpointHeld(checkpoint)'
  BY <1>1, <1>2 DEF CaptureInv, CheckpointHeld, Held
<1>6. CaptureInv'
  BY <1>2, <1>4, <1>5 DEF CaptureInv, Crawling
<1> QED
  BY <1>1, <1>2, <1>3, <1>6, CrawlOver DEF VenueInv

-----------------------------------------------------------------------------
(* Nothing is captured at first.                                           *)
LEMMA InfoInitHolds == InfoInit => InfoInv
<1> SUFFICES ASSUME InfoInit PROVE InfoInv
  OBVIOUS
<1>1. /\ venue = <<>> /\ crawl = "idle" /\ page = {} /\ listed = 0
      /\ pageCursor = NewCursor(0) /\ collected = <<>> /\ pages = 0
      /\ stop = "none" /\ broken = FALSE
      /\ checkpoint = [next |-> 0, pending |-> <<>>] /\ savedCheckpoint = checkpoint
      /\ marked = {} /\ publications = [b \in PageBodies |-> 0] /\ infoCrashes = 0
  BY DEF InfoInit
<1>2. /\ pageCursor \in Cursors /\ pageCursor.start \in 0..MaxMillis
      /\ pageCursor.last \in None..MaxMillis /\ pageCursor.at \subseteq Listing
  BY <1>1, InfoAssumption DEF Cursors, NewCursor, None
<1>3. checkpoint \in Checkpoints /\ checkpoint.next = 0
  <2>1. <<>> \in Seq(PageBodies)
    OBVIOUS
  <2>2. 0 \in 0..MaxMillis
    BY InfoAssumption
  <2> QED
    BY <1>1, <2>1, <2>2 DEF Checkpoints
<1>4. InfoTyped
  <2>1. page \in PageBodies
    BY <1>1 DEF PageBodies
  <2>2. pages \in 0..MaxTimePages /\ listed \in 0..Len(venue) /\ Len(venue) <= MaxVenue
    BY <1>1, InfoAssumption
  <2>3. collected \in Seq(Listing) /\ venue \in Seq(0..MaxMillis)
    BY <1>1
  <2>4. publications \in [PageBodies -> Nat]
    BY <1>1
  <2> QED
    BY <1>1, <1>2, <1>3, <2>1, <2>2, <2>3, <2>4 DEF InfoTyped, InfoTypeOK
<1>5. VenueInv
  BY <1>1, <1>3 DEF VenueInv, LastMillis
<1>6. CaptureInv
  BY <1>1 DEF CaptureInv, CheckpointHeld, Crawling
<1>7. CollectedInv /\ PageInv
  BY <1>1 DEF CollectedInv, PageInv, Crawling
<1> QED
  BY <1>4, <1>5, <1>6, <1>7 DEF InfoInv

(* What holds of crawl_time_pages and capture_time_pages at every step,    *)
(* whatever arrives, is refused, fails or crashes in between.              *)
THEOREM InfoInvariant == InfoSpec => []InfoInv
<1>1. InfoInv /\ [InfoNext]_infoVars => InfoInv'
  <2> SUFFICES ASSUME InfoInv, [InfoNext]_infoVars PROVE InfoInv'
    OBVIOUS
  <2>1. CASE UNCHANGED infoVars
    <3>1. UNCHANGED <<venue, crawl, page, listed, pageCursor, collected, pages, stop, broken,
                      checkpoint, savedCheckpoint, marked, publications, infoCrashes>>
      BY <2>1 DEF infoVars, crawlVars
    <3>2. InfoTyped'
      BY <3>1 DEF InfoInv, InfoTyped, InfoTypeOK
    <3>3. VenueInv'
      BY <3>1 DEF InfoInv, VenueInv, LastMillis
    <3>4. CaptureInv'
      BY <3>1 DEF InfoInv, CaptureInv, CheckpointHeld, Held, Crawling
    <3>5. CollectedInv'
      BY <3>1 DEF InfoInv, CollectedInv, StartsAt, Newest, Crawling
    <3>6. PageInv'
      BY <3>1 DEF InfoInv, PageInv, PageIs, StartsAt, NextQueryStart, Newest
    <3> QED
      BY <3>2, <3>3, <3>4, <3>5, <3>6 DEF InfoInv
  <2> QED
    BY <2>1, RecordArrivesKeeps, BeginCrawlKeeps, TruncateKeeps, FetchRefusedKeeps,
       FetchPageKeeps, SavePendingKeeps, ApplyPageKeeps, FinishCrawlKeeps, PublishPendingKeeps,
       DropPendingKeeps, PublishDoneKeeps, InfoCrashKeeps DEF InfoNext
<1> QED
  BY <1>1, InfoInitHolds, PTL DEF InfoSpec

(* A crawl that has ended is the run of records it says it is.             *)
LEMMA EndedIsExact ==
  ASSUME InfoInv
  PROVE  CrawlExact
<1>3. PICK from : from = {i \in 1..listed : venue[i] >= pageCursor.start}
  OBVIOUS
<1> SUFFICES ASSUME crawl = "finish"
             PROVE  /\ \A n \in 1..Len(collected) - 1 : collected[n + 1] = collected[n] + 1
                    /\ \A n \in 1..Len(collected) : collected[n] \in from
                    /\ stop \in CompleteStops => Len(collected) = Cardinality(from)
                    /\ collected # <<>> => \A i \in from : i >= collected[1]
  BY <1>3 DEF CrawlExact
<1>1. InfoTyped /\ InfoTypeOK /\ CollectedInv /\ PageInv /\ Crawling
  BY DEF InfoInv, InfoTyped, Crawling
<1>2. /\ Len(venue) \in Nat /\ listed \in Nat /\ listed <= Len(venue)
      /\ \A i \in 1..Len(venue) : venue[i] \in Nat
  BY <1>1, VenueFacts
<1>4. CASE collected = <<>>
  <2>1. stop \in CompleteStops => from = {}
    <3>1. pageCursor.start \in Nat
      BY <1>1, QueryStartFacts
    <3> QED
      BY <1>1, <1>2, <1>3, <1>4, <3>1 DEF PageInv
  <2>2. Len(collected) = 0 /\ Cardinality({}) = 0
    BY <1>4, FS_EmptySet
  <2>3. 1..0 = {} /\ 1..0 - 1 = {}
    OBVIOUS
  <2> QED
    BY <1>4, <2>1, <2>2, <2>3
<1>5. CASE collected # <<>>
  <2>1. PICK lo : lo = collected[1]
    OBVIOUS
  <2>2. PICK l : l = Len(collected)
    OBVIOUS
  <2>3. /\ lo \in Nat /\ lo >= 1 /\ l \in Nat /\ l >= 1 /\ Newest = lo + l - 1
        /\ \A n \in 1..l : collected[n] = lo + n - 1
        /\ lo + l - 1 <= listed
    BY <1>1, <1>5, <2>1, <2>2, CollectedFacts DEF CollectedInv, Newest
  <2>4. from = lo..listed
    <3>1. \A i \in 1..Len(venue) : venue[i] >= pageCursor.start <=> i >= lo
      BY <1>1, <1>5, <2>1 DEF CollectedInv, StartsAt
    <3> QED
      BY <1>2, <1>3, <2>3, <3>1
  <2>5. \A n \in 1..l - 1 : collected[n + 1] = collected[n] + 1
    BY <2>3
  <2>6. \A n \in 1..l : collected[n] \in lo..listed
    BY <1>2, <2>3
  <2>7. stop \in CompleteStops => l = Cardinality(lo..listed)
    <3>1. Cardinality(lo..listed) = listed - lo + 1
      BY <1>2, <2>3, FS_Interval
    <3>2. stop \in CompleteStops => lo + l - 1 = listed
      BY <1>1, <1>5, <2>3 DEF PageInv
    <3> QED
      BY <1>2, <2>3, <3>1, <3>2
  <2>8. \A i \in lo..listed : i >= lo
    OBVIOUS
  <2> QED
    BY <2>1, <2>2, <2>4, <2>5, <2>6, <2>7, <2>8
<1> QED
  BY <1>4, <1>5

(* capture_time_pages and replay_pending, for every venue, page limit,     *)
(* overlap and number of faults and crashes: a crawl that says it reached  *)
(* the end has every record from its start on, in order and once, the      *)
(* saved start is behind what is published or queued on disk, and a body   *)
(* is published again only after a crash.                                  *)
THEOREM InfoIsSafe == InfoSpec => []InfoSafe
<1>1. ASSUME InfoInv PROVE InfoSafe
  <2>1. StartBehindCapture
    BY <1>1 DEF InfoInv, CaptureInv, CheckpointHeld, Held, Queued, StartBehindCapture
  <2>2. RepublishedAfterCrash
    <3>1. \A b \in PageBodies : publications[b] \in Nat
      BY <1>1 DEF InfoInv, InfoTyped, InfoTypeOK
    <3> QED
      BY <1>1, <3>1 DEF InfoInv, InfoTyped, CaptureInv, RepublishedAfterCrash
  <2> QED
    BY <1>1, <2>1, <2>2, EndedIsExact DEF InfoInv, InfoTyped, InfoSafe
<1> QED
  BY <1>1, InfoInvariant, PTL

-----------------------------------------------------------------------------
(* The shape of the budget, and the clocks.                                *)
Budgets ==
  [priority : 0..PriorityCap, general : 0..GeneralCap,
   priorityRest : 0..Minute - 1, generalRest : 0..Minute - 1,
   last : Nat, until : Int, failures : 0..5]

ShapeInv ==
  /\ budget \in Budgets
  /\ queued \subseteq Jobs
  /\ inFlight \in [Slots -> Leases \cup {Free}]
  /\ real \in 0..MaxReal /\ setBack \in 0..MaxSteps /\ wall = MaxSteps + real - setBack
  /\ setBack = 0 => budget.last <= wall
  /\ charged \in Int /\ ideal \in [Pools -> Int]

(* The weight that the requests in flight took from a pool.                *)
Lent(p) == Cardinality(Units(Slots, p))

(* What a request in flight has taken is charged.                          *)
LentInv == LeasesPaid /\ Lent("priority") + Lent("general") <= charged

(* What a budget holds, in the units in which a tick adds the cap.         *)
PriorityCredit(b) == b.priority * Minute + b.priorityRest
GeneralCredit(b) == b.general * Minute + b.generalRest
Credit(b) == PriorityCredit(b) + GeneralCredit(b)

(* The ticks the next refill will credit.                                  *)
Due == IF wall > budget.last THEN wall - budget.last ELSE 0

(* A token bucket, with what the next refill will add.                     *)
RateInv == Credit(budget) + Envelope * Due + charged * Minute <= Envelope * (Minute + real)

(* No credit is lost, and an exact bucket holds no more than its cap.      *)
CreditInv == NoCreditLost /\ \A p \in Pools : ideal[p] <= Cap[p] * Minute

BudgetInv == ShapeInv /\ LentInv /\ RateInv /\ CreditInv

-----------------------------------------------------------------------------
(* The pools of the budget.                                                *)
LEMMA CapFacts ==
  /\ PriorityCap \in Nat /\ GeneralCap \in Nat /\ Envelope \in Nat
  /\ PriorityCap >= 1 /\ GeneralCap >= 1
  /\ Envelope = PriorityCap + GeneralCap /\ Minute \in Nat /\ Minute >= 1
  /\ Cap["priority"] = PriorityCap /\ Cap["general"] = GeneralCap
<1>1. /\ Ceiling \in Nat /\ EnvelopePercent \in Nat /\ PriorityPercent \in Nat
      /\ Minute \in Nat /\ Minute >= 1
  BY BudgetAssumption
<1>2. Ceiling * EnvelopePercent \in Nat
  BY <1>1
<1>3. Envelope \in Nat
  BY <1>2 DEF Envelope
<1>4. Envelope * PriorityPercent \in Nat
  BY <1>1, <1>3
<1>5. PriorityCap \in Nat
  BY <1>4 DEF PriorityCap
<1>6. GeneralCap = Envelope - PriorityCap
  BY DEF GeneralCap
<1>7. Cap["priority"] = PriorityCap /\ Cap["general"] = GeneralCap
  BY DEF Cap
<1> QED
  BY <1>1, <1>3, <1>5, <1>6, <1>7, PoolsAssumption

(* Multiplying by a natural keeps the order.                               *)
LEMMA TimesMonotone ==
  ASSUME NEW k \in Nat, NEW x \in Nat, NEW y \in Nat, x <= y
  PROVE  k * x <= k * y
OBVIOUS

(* refill_pool adds what the ticks are worth, up to the cap, and keeps the *)
(* part of a weight.                                                       *)
LEMMA RefillPoolFacts ==
  ASSUME NEW cap \in Nat, cap >= 1, NEW available \in 0..cap, NEW elapsed \in Nat,
         NEW rest \in 0..Minute - 1, NEW r, r = RefillPool(available, cap, elapsed, rest)
  PROVE  /\ r.available \in 0..cap /\ r.rest \in 0..Minute - 1
         /\ r.available * Minute + r.rest <= available * Minute + rest + cap * elapsed
         /\ r.available * Minute + r.rest
              >= Least(cap * Minute, available * Minute + rest + cap * elapsed)
<1>1. Minute \in Nat /\ Minute >= 1
  BY CapFacts
<1>2. PICK added : added = cap * elapsed
  OBVIOUS
<1>3. added \in Nat
  BY <1>2
<1>4. PICK credit : credit = added + rest
  OBVIOUS
<1>5. PICK q : q = credit \div Minute
  OBVIOUS
<1>6. PICK k : k = credit % Minute
  OBVIOUS
<1>7. credit \in Nat /\ q \in Nat /\ k \in 0..Minute - 1 /\ credit = q * Minute + k
  BY <1>1, <1>3, <1>4, <1>5, <1>6
<1>8. PICK next : next = Least(cap, available + q)
  OBVIOUS
<1>9. /\ r.available = next
      /\ r.rest = IF available >= cap \/ next >= cap THEN 0 ELSE k
  BY <1>2, <1>4, <1>5, <1>6, <1>8 DEF RefillPool
<1>10. CASE available + q < cap
  <2>1. next = available + q /\ r.rest = k
    BY <1>7, <1>8, <1>9, <1>10 DEF Least
  <2>2. (available + q) * Minute = available * Minute + q * Minute
    BY <1>1, <1>7
  <2>3. r.available * Minute + r.rest = available * Minute + rest + added
    BY <1>1, <1>3, <1>4, <1>7, <1>9, <2>1, <2>2
  <2>4. r.available \in 0..cap /\ r.rest \in 0..Minute - 1
    BY <1>7, <1>9, <1>10, <2>1
  <2>5. available * Minute + rest + added \in Nat /\ cap * Minute \in Nat
    BY <1>1, <1>3
  <2> QED
    BY <1>2, <2>3, <2>4, <2>5 DEF Least
<1>11. CASE available + q >= cap
  <2>1. next = cap /\ r.rest = 0
    BY <1>7, <1>8, <1>9, <1>11 DEF Least
  <2>2. cap * Minute <= (available + q) * Minute
    BY <1>1, <1>7, <1>11
  <2>3. (available + q) * Minute = available * Minute + q * Minute
    BY <1>1, <1>7
  <2>4. cap * Minute <= available * Minute + rest + added
    BY <1>1, <1>3, <1>4, <1>7, <2>2, <2>3
  <2>5. r.available \in 0..cap /\ r.rest \in 0..Minute - 1
    BY <1>1, <1>9, <2>1
  <2>6. r.available * Minute + r.rest = cap * Minute
    BY <1>1, <1>9, <2>1
  <2>7. available * Minute + rest + added \in Nat /\ cap * Minute \in Nat
    BY <1>1, <1>3
  <2> QED
    BY <1>2, <2>4, <2>5, <2>6, <2>7 DEF Least
<1> QED
  BY <1>7, <1>10, <1>11

(* The fields of a budget, and a record that has them.                     *)
BudgetFields ==
  {"priority", "general", "priorityRest", "generalRest", "last", "until", "failures"}

HasFields(b) == b = [f \in BudgetFields |-> b[f]]

(* The fields of a budget have their types.                                *)
LEMMA BudgetsHaveFields ==
  ASSUME NEW b \in Budgets
  PROVE  /\ HasFields(b)
         /\ b.priority \in 0..PriorityCap /\ b.general \in 0..GeneralCap
         /\ b.priorityRest \in 0..Minute - 1 /\ b.generalRest \in 0..Minute - 1
         /\ b.last \in Nat /\ b.until \in Int /\ b.failures \in 0..5
BY SMT DEF Budgets, HasFields, BudgetFields

(* A record with those fields and types is a budget.                       *)
LEMMA FieldsMakeABudget ==
  ASSUME NEW b, HasFields(b),
         b.priority \in 0..PriorityCap, b.general \in 0..GeneralCap,
         b.priorityRest \in 0..Minute - 1, b.generalRest \in 0..Minute - 1,
         b.last \in Nat, b.until \in Int, b.failures \in 0..5
  PROVE  b \in Budgets
BY SMT DEF Budgets, HasFields, BudgetFields

(* refill: what both pools hold afterwards, and at most and least.         *)
LEMMA RefillFacts ==
  ASSUME ShapeInv, NEW b, b = Refill
  PROVE  /\ b \in Budgets /\ b.last = wall
         /\ PriorityCredit(b) <= PriorityCredit(budget) + PriorityCap * Due
         /\ GeneralCredit(b) <= GeneralCredit(budget) + GeneralCap * Due
         /\ wall >= budget.last =>
              /\ PriorityCredit(b) >= Least(PriorityCap * Minute,
                                            PriorityCredit(budget) + PriorityCap * (wall - budget.last))
              /\ GeneralCredit(b) >= Least(GeneralCap * Minute,
                                           GeneralCredit(budget) + GeneralCap * (wall - budget.last))
<1>1. /\ budget \in Budgets /\ wall \in Nat /\ budget.last \in Nat
      /\ budget.priority \in 0..PriorityCap /\ budget.general \in 0..GeneralCap
      /\ budget.priorityRest \in 0..Minute - 1 /\ budget.generalRest \in 0..Minute - 1
      /\ budget.until \in Int /\ budget.failures \in 0..5
  BY BudgetAssumption DEF ShapeInv, Budgets
<1>0. HasFields(budget)
  BY <1>1, BudgetsHaveFields
<1>2. /\ PriorityCap \in Nat /\ GeneralCap \in Nat /\ PriorityCap >= 1 /\ GeneralCap >= 1
      /\ Minute \in Nat /\ Minute >= 1
  BY CapFacts
<1>3. CASE wall < budget.last
  <2>1. b = [budget EXCEPT !.last = wall, !.priorityRest = 0, !.generalRest = 0]
    BY <1>3 DEF Refill
  <2>0. /\ HasFields(b) /\ b.last = wall /\ b.priority = budget.priority
        /\ b.general = budget.general /\ b.priorityRest = 0 /\ b.generalRest = 0
        /\ b.until = budget.until /\ b.failures = budget.failures
    BY <1>0, <2>1, Zenon DEF HasFields, BudgetFields
  <2>9. 0 \in 0..Minute - 1
    BY <1>2
  <2>2. b \in Budgets
    BY <1>1, <2>0, <2>9, FieldsMakeABudget
  <2>3. Due = 0
    BY <1>1, <1>3 DEF Due
  <2>4. PriorityCap * Due = 0 /\ GeneralCap * Due = 0
    BY <1>2, <2>3
  <2>5. budget.priority * Minute \in Nat /\ budget.general * Minute \in Nat
    BY <1>1, <1>2
  <2> QED
    BY <1>1, <1>3, <2>0, <2>2, <2>4, <2>5 DEF PriorityCredit, GeneralCredit
<1>4. CASE wall = budget.last
  <2>1. b = budget
    BY <1>1, <1>4 DEF Refill
  <2>2. Due = 0 /\ wall - budget.last = 0
    BY <1>1, <1>4 DEF Due
  <2>3. PriorityCap * 0 = 0 /\ GeneralCap * 0 = 0
    BY <1>2
  <2>4. PriorityCredit(b) \in Int /\ GeneralCredit(b) \in Int
        /\ PriorityCap * Minute \in Int /\ GeneralCap * Minute \in Int
    BY <1>1, <1>2, <2>1 DEF PriorityCredit, GeneralCredit
  <2> QED
    BY <1>1, <1>4, <2>1, <2>2, <2>3, <2>4 DEF Least
<1>5. CASE wall > budget.last
  <2>1. PICK e : e = wall - budget.last
    OBVIOUS
  <2>2. e \in Nat /\ Due = e
    BY <1>1, <1>5, <2>1 DEF Due
  <2>3. PICK p : p = RefillPool(budget.priority, PriorityCap, e, budget.priorityRest)
    OBVIOUS
  <2>4. PICK g : g = RefillPool(budget.general, GeneralCap, e, budget.generalRest)
    OBVIOUS
  <2>5. /\ p.available \in 0..PriorityCap /\ p.rest \in 0..Minute - 1
        /\ p.available * Minute + p.rest
             <= budget.priority * Minute + budget.priorityRest + PriorityCap * e
        /\ p.available * Minute + p.rest
             >= Least(PriorityCap * Minute,
                      budget.priority * Minute + budget.priorityRest + PriorityCap * e)
    BY <1>1, <1>2, <2>2, <2>3, RefillPoolFacts
  <2>6. /\ g.available \in 0..GeneralCap /\ g.rest \in 0..Minute - 1
        /\ g.available * Minute + g.rest
             <= budget.general * Minute + budget.generalRest + GeneralCap * e
        /\ g.available * Minute + g.rest
             >= Least(GeneralCap * Minute,
                      budget.general * Minute + budget.generalRest + GeneralCap * e)
    BY <1>1, <1>2, <2>2, <2>4, RefillPoolFacts
  <2>7. b = [budget EXCEPT !.priority = p.available, !.priorityRest = p.rest,
                           !.general = g.available, !.generalRest = g.rest,
                           !.last = wall,
                           !.until = IF wall >= @ THEN CircuitClosed ELSE @]
    BY <1>1, <1>5, <2>1, <2>3, <2>4 DEF Refill
  <2>8. /\ HasFields(b) /\ b.last = wall
        /\ b.priority = p.available /\ b.priorityRest = p.rest
        /\ b.general = g.available /\ b.generalRest = g.rest
        /\ b.until = (IF wall >= budget.until THEN CircuitClosed ELSE budget.until)
        /\ b.failures = budget.failures
    BY <1>0, <2>7, Zenon DEF HasFields, BudgetFields
  <2>9. b.until \in Int
    BY <1>1, <2>8 DEF CircuitClosed
  <2>10. b \in Budgets
    BY <1>1, <2>5, <2>6, <2>8, <2>9, FieldsMakeABudget
  <2> QED
    BY <2>1, <2>2, <2>5, <2>6, <2>8, <2>10 DEF PriorityCredit, GeneralCredit
<1> QED
  BY <1>1, <1>3, <1>4, <1>5

(* What a charge and a refund do to the credit of the pools.               *)
LEMMA TakeFacts ==
  ASSUME NEW b \in Budgets, NEW s, s.priority \in 0..b.priority, s.general \in 0..b.general,
         NEW c, c = Take(b, s)
  PROVE  /\ c \in Budgets /\ c.last = b.last
         /\ PriorityCredit(c) = PriorityCredit(b) - s.priority * Minute
         /\ GeneralCredit(c) = GeneralCredit(b) - s.general * Minute
<1>1. /\ HasFields(b)
      /\ b.priority \in 0..PriorityCap /\ b.general \in 0..GeneralCap
      /\ b.priorityRest \in 0..Minute - 1 /\ b.generalRest \in 0..Minute - 1
      /\ b.last \in Nat /\ b.until \in Int /\ b.failures \in 0..5
  BY BudgetsHaveFields
<1>2. /\ HasFields(c)
      /\ c.priority = b.priority - s.priority /\ c.general = b.general - s.general
      /\ c.priorityRest = b.priorityRest /\ c.generalRest = b.generalRest
      /\ c.last = b.last /\ c.until = b.until /\ c.failures = b.failures
  BY <1>1, Zenon DEF Take, HasFields, BudgetFields
<1>3. PriorityCap \in Nat /\ GeneralCap \in Nat /\ Minute \in Nat
  BY CapFacts
<1>4. c.priority \in 0..PriorityCap /\ c.general \in 0..GeneralCap
  BY <1>1, <1>2, <1>3
<1>5. c \in Budgets
  BY <1>1, <1>2, <1>4, FieldsMakeABudget
<1>6. /\ (b.priority - s.priority) * Minute = b.priority * Minute - s.priority * Minute
      /\ (b.general - s.general) * Minute = b.general * Minute - s.general * Minute
  BY <1>1, <1>3
<1>7. /\ b.priority * Minute \in Nat /\ b.general * Minute \in Nat
      /\ s.priority * Minute \in Nat /\ s.general * Minute \in Nat
  BY <1>1, <1>3
<1> QED
  BY <1>1, <1>2, <1>5, <1>6, <1>7 DEF PriorityCredit, GeneralCredit

(* A refund to one pool stops at its cap.                                  *)
LEMMA PoolGivenBack ==
  ASSUME NEW cap \in Nat, NEW held \in 0..cap, NEW rest \in 0..Minute - 1, NEW weight \in Nat,
         NEW next, next = Least(cap, held + weight)
  PROVE  /\ next \in 0..cap
         /\ next * Minute + rest <= held * Minute + rest + weight * Minute
         /\ next * Minute + rest >= Least(cap * Minute, held * Minute + rest + weight * Minute)
<1>1. Minute \in Nat
  BY CapFacts
<1>2. (held + weight) * Minute = held * Minute + weight * Minute
  BY <1>1
<1>3. held * Minute \in Nat /\ weight * Minute \in Nat /\ cap * Minute \in Nat
  BY <1>1
<1>4. CASE cap < held + weight
  <2>1. next = cap
    BY <1>4 DEF Least
  <2>2. cap * Minute <= (held + weight) * Minute
    BY <1>1, <1>4
  <2> QED
    BY <1>1, <1>2, <1>3, <2>1, <2>2 DEF Least
<1>5. CASE ~(cap < held + weight)
  <2>1. next = held + weight
    BY <1>5 DEF Least
  <2> QED
    BY <1>1, <1>2, <1>3, <1>5, <2>1 DEF Least
<1> QED
  BY <1>4, <1>5

(* A refund to both pools.                                                 *)
LEMMA GiveBackFacts ==
  ASSUME NEW b \in Budgets, NEW s, s.priority \in Nat, s.general \in Nat,
         NEW c, c = GiveBack(b, s)
  PROVE  /\ c \in Budgets /\ c.last = b.last
         /\ PriorityCredit(c) <= PriorityCredit(b) + s.priority * Minute
         /\ GeneralCredit(c) <= GeneralCredit(b) + s.general * Minute
         /\ PriorityCredit(c)
              >= Least(PriorityCap * Minute, PriorityCredit(b) + s.priority * Minute)
         /\ GeneralCredit(c)
              >= Least(GeneralCap * Minute, GeneralCredit(b) + s.general * Minute)
<1>1. /\ HasFields(b)
      /\ b.priority \in 0..PriorityCap /\ b.general \in 0..GeneralCap
      /\ b.priorityRest \in 0..Minute - 1 /\ b.generalRest \in 0..Minute - 1
      /\ b.last \in Nat /\ b.until \in Int /\ b.failures \in 0..5
  BY BudgetsHaveFields
<1>2. /\ HasFields(c)
      /\ c.priority = Least(PriorityCap, b.priority + s.priority)
      /\ c.general = Least(GeneralCap, b.general + s.general)
      /\ c.priorityRest = b.priorityRest /\ c.generalRest = b.generalRest
      /\ c.last = b.last /\ c.until = b.until /\ c.failures = b.failures
  BY <1>1, Zenon DEF GiveBack, HasFields, BudgetFields
<1>3. PriorityCap \in Nat /\ GeneralCap \in Nat
  BY CapFacts
<1>4. /\ c.priority \in 0..PriorityCap
      /\ c.priority * Minute + b.priorityRest
           <= b.priority * Minute + b.priorityRest + s.priority * Minute
      /\ c.priority * Minute + b.priorityRest
           >= Least(PriorityCap * Minute,
                    b.priority * Minute + b.priorityRest + s.priority * Minute)
  BY <1>1, <1>2, <1>3, PoolGivenBack
<1>5. /\ c.general \in 0..GeneralCap
      /\ c.general * Minute + b.generalRest
           <= b.general * Minute + b.generalRest + s.general * Minute
      /\ c.general * Minute + b.generalRest
           >= Least(GeneralCap * Minute,
                    b.general * Minute + b.generalRest + s.general * Minute)
  BY <1>1, <1>2, <1>3, PoolGivenBack
<1>6. c \in Budgets
  BY <1>1, <1>2, <1>4, <1>5, FieldsMakeABudget
<1> QED
  BY <1>2, <1>4, <1>5, <1>6 DEF PriorityCredit, GeneralCredit

(* Clearing the count of failures leaves the pools alone.                  *)
LEMMA ClearedFacts ==
  ASSUME NEW b \in Budgets, NEW c, c = [b EXCEPT !.failures = 0]
  PROVE  /\ c \in Budgets /\ c.last = b.last
         /\ PriorityCredit(c) = PriorityCredit(b) /\ GeneralCredit(c) = GeneralCredit(b)
<1>1. /\ HasFields(b)
      /\ b.priority \in 0..PriorityCap /\ b.general \in 0..GeneralCap
      /\ b.priorityRest \in 0..Minute - 1 /\ b.generalRest \in 0..Minute - 1
      /\ b.last \in Nat /\ b.until \in Int /\ b.failures \in 0..5
  BY BudgetsHaveFields
<1>2. /\ HasFields(c) /\ c.priority = b.priority /\ c.general = b.general
      /\ c.priorityRest = b.priorityRest /\ c.generalRest = b.generalRest
      /\ c.last = b.last /\ c.until = b.until /\ c.failures = 0
  BY <1>1, Zenon DEF HasFields, BudgetFields
<1>3. c.failures \in 0..5
  BY <1>2
<1>4. c \in Budgets
  BY <1>1, <1>2, <1>3, FieldsMakeABudget, Zenon
<1> QED
  BY <1>2, <1>4, Zenon DEF PriorityCredit, GeneralCredit

(* A charge is split between pools that can pay it.                        *)
LEMMA SplitFacts ==
  ASSUME NEW b \in Budgets, NEW j, NEW cost \in Nat,
         NEW s, s = Split(b, j \in ProtectedJobs, cost), s.general <= b.general
  PROVE  /\ s.priority \in 0..b.priority /\ s.general \in 0..b.general
         /\ s.priority + s.general = cost
         /\ j \notin ProtectedJobs => s.priority = 0
<1>1. b.priority \in Nat /\ b.general \in Nat
  BY CapFacts, BudgetsHaveFields
<1>2. PICK p : p = IF j \in ProtectedJobs THEN Least(cost, b.priority) ELSE 0
  OBVIOUS
<1>3. s.priority = p /\ s.general = cost - p
  BY <1>2 DEF Split
<1>4. p \in 0..b.priority /\ p <= cost /\ (j \notin ProtectedJobs => p = 0)
  BY <1>1, <1>2 DEF Least
<1> QED
  BY <1>1, <1>3, <1>4

(* A refund of part of a lease gives back exactly that part.               *)
LEMMA RefundShareFacts ==
  ASSUME NEW lease, lease.priority \in Nat, lease.general \in Nat,
         NEW amount \in 0..Reserved(lease), NEW s, s = RefundShare(lease, amount)
  PROVE  s.priority \in Nat /\ s.general \in Nat /\ s.priority + s.general = amount
<1>1. PICK g : g = Least(amount, lease.general)
  OBVIOUS
<1>2. s.general = g /\ s.priority = Least(amount - g, lease.priority)
  BY <1>1 DEF RefundShare
<1>3. amount \in Nat /\ amount <= lease.priority + lease.general
  BY DEF Reserved
<1> QED
  BY <1>1, <1>2, <1>3 DEF Least

-----------------------------------------------------------------------------
(* The units of weight that leases took from a pool.                       *)
UnitsOf(h, held, p) == {u \in held \X (1..Cap[p]) : u[2] <= h[u[1]][p]}

LeaseTable == [Slots -> Leases \cup {Free}]

(* Both pools can hold at least one weight.                                *)
LEMMA PoolCaps ==
  ASSUME NEW p \in Pools
  PROVE  Cap[p] \in Nat /\ Cap[p] >= 1
BY CapFacts DEF Pools

(* A lease took from each pool no more than its cap.                       *)
LEMMA LeaseFacts ==
  ASSUME NEW lease \in Leases \cup {Free}
  PROVE  /\ lease.priority \in 0..PriorityCap /\ lease.general \in 0..GeneralCap
         /\ lease["priority"] = lease.priority /\ lease["general"] = lease.general
         /\ \A p \in Pools : lease[p] \in 0..Cap[p]
<1>1. PriorityCap \in Nat /\ GeneralCap \in Nat
      /\ Cap["priority"] = PriorityCap /\ Cap["general"] = GeneralCap
  BY CapFacts
<1>2. lease.priority \in 0..PriorityCap /\ lease.general \in 0..GeneralCap
  BY <1>1 DEF Leases, Free
<1>3. lease["priority"] = lease.priority /\ lease["general"] = lease.general
  OBVIOUS
<1> QED
  BY <1>1, <1>2, <1>3 DEF Pools

(* There are finitely many units.                                          *)
LEMMA UnitsAreCounted ==
  ASSUME NEW h, NEW held \in SUBSET Slots, NEW p \in Pools
  PROVE  IsFiniteSet(UnitsOf(h, held, p)) /\ Cardinality(UnitsOf(h, held, p)) \in Nat
<1>1. IsFiniteSet(held)
  BY BudgetAssumption, FS_Subset
<1>2. IsFiniteSet(1..Cap[p])
  BY PoolCaps, FS_Interval
<1>3. IsFiniteSet(held \X (1..Cap[p]))
  BY <1>1, <1>2, FS_Product
<1>4. UnitsOf(h, held, p) \subseteq held \X (1..Cap[p])
  BY DEF UnitsOf
<1>5. IsFiniteSet(UnitsOf(h, held, p))
  BY <1>3, <1>4, FS_Subset
<1> QED
  BY <1>5, FS_CardinalityType

(* A lease took from a pool as many units as it says.                      *)
LEMMA UnitsOfOne ==
  ASSUME NEW h, NEW s \in Slots, NEW p \in Pools, h[s][p] \in 0..Cap[p]
  PROVE  Cardinality(UnitsOf(h, {s}, p)) = h[s][p]
<1>1. Cap[p] \in Nat
  BY PoolCaps
<1>2. PICK n : n = h[s][p]
  OBVIOUS
<1>3. n \in Nat /\ n <= Cap[p]
  BY <1>1, <1>2
<1>4. UnitsOf(h, {s}, p) = {s} \X (1..n)
  <2>1. ASSUME NEW u PROVE u \in UnitsOf(h, {s}, p) <=> u \in {s} \X (1..n)
    BY <1>1, <1>2, <1>3 DEF UnitsOf
  <2> QED
    BY <2>1
<1>5. IsFiniteSet({s}) /\ Cardinality({s}) = 1
  BY FS_Singleton
<1>6. IsFiniteSet(1..n)
  BY <1>3, FS_Interval
<1>7. Cardinality(1..n) = IF 1 > n THEN 0 ELSE n - 1 + 1
  BY <1>3, FS_Interval
<1>8. Cardinality({s} \X (1..n)) = Cardinality({s}) * Cardinality(1..n)
  BY <1>5, <1>6, FS_Product
<1>9. Cardinality(1..n) = n
  BY <1>3, <1>7
<1>10. Cardinality({s} \X (1..n)) = n
  BY <1>3, <1>5, <1>8, <1>9
<1> QED
  BY <1>2, <1>4, <1>10

(* The units of all leases are those of one and those of the others.       *)
LEMMA UnitsSplit ==
  ASSUME NEW h, NEW s \in Slots, NEW p \in Pools, h[s][p] \in 0..Cap[p]
  PROVE  Cardinality(UnitsOf(h, Slots, p))
           = Cardinality(UnitsOf(h, Slots \ {s}, p)) + h[s][p]
<1>1. PICK a : a = UnitsOf(h, Slots \ {s}, p)
  OBVIOUS
<1>2. PICK b : b = UnitsOf(h, {s}, p)
  OBVIOUS
<1>3. IsFiniteSet(a) /\ IsFiniteSet(b) /\ Cardinality(a) \in Nat /\ Cardinality(b) \in Nat
  BY <1>1, <1>2, UnitsAreCounted
<1>4. UnitsOf(h, Slots, p) = a \cup b /\ a \cap b = {}
  BY <1>1, <1>2 DEF UnitsOf
<1>5. Cardinality(a \cap b) = 0
  BY <1>4, FS_EmptySet
<1>6. Cardinality(a \cup b) = Cardinality(a) + Cardinality(b) - Cardinality(a \cap b)
  BY <1>3, FS_Union
<1>7. Cardinality(b) = h[s][p]
  BY <1>2, UnitsOfOne
<1> QED
  BY <1>1, <1>3, <1>4, <1>5, <1>6, <1>7

(* One lease changes: the units change by what it gives up and takes.      *)
LEMMA UnitsChange ==
  ASSUME NEW h \in LeaseTable, NEW s \in Slots, NEW v \in Leases \cup {Free},
         NEW k, k = [h EXCEPT ![s] = v], NEW p \in Pools
  PROVE  /\ Cardinality(UnitsOf(k, Slots, p))
               = Cardinality(UnitsOf(h, Slots, p)) - h[s][p] + v[p]
         /\ Cardinality(UnitsOf(h, Slots, p)) \in Nat
         /\ h[s][p] <= Cardinality(UnitsOf(h, Slots, p))
<1>1. h[s] \in Leases \cup {Free} /\ k[s] = v /\ \A r \in Slots \ {s} : k[r] = h[r]
  BY DEF LeaseTable
<1>2. h[s][p] \in 0..Cap[p] /\ k[s][p] = v[p] /\ v[p] \in 0..Cap[p]
  BY <1>1, LeaseFacts
<1>3. UnitsOf(k, Slots \ {s}, p) = UnitsOf(h, Slots \ {s}, p)
  BY <1>1 DEF UnitsOf
<1>4. Cardinality(UnitsOf(h, Slots \ {s}, p)) \in Nat
      /\ Cardinality(UnitsOf(h, Slots, p)) \in Nat
  BY UnitsAreCounted
<1>5. Cardinality(UnitsOf(h, Slots, p)) = Cardinality(UnitsOf(h, Slots \ {s}, p)) + h[s][p]
  BY <1>2, UnitsSplit
<1>6. Cardinality(UnitsOf(k, Slots, p)) = Cardinality(UnitsOf(k, Slots \ {s}, p)) + v[p]
  BY <1>2, UnitsSplit
<1>7. Cap[p] \in Nat
  BY PoolCaps
<1> QED
  BY <1>2, <1>3, <1>4, <1>5, <1>6, <1>7

(* With every slot free nothing is lent.                                   *)
LEMMA NoUnits ==
  ASSUME NEW h, \A s \in Slots : h[s] = Free, NEW p \in Pools
  PROVE  Cardinality(UnitsOf(h, Slots, p)) = 0
<1>1. Free[p] = 0
  BY DEF Free, Pools
<1>2. UnitsOf(h, Slots, p) = {}
  BY <1>1, PoolCaps DEF UnitsOf
<1> QED
  BY <1>2, FS_EmptySet

(* The slots that are free hold no units.                                  *)
LEMMA UnitsOfHeld ==
  ASSUME NEW h \in LeaseTable, NEW p \in Pools
  PROVE  UnitsOf(h, {s \in Slots : h[s] # Free}, p) = UnitsOf(h, Slots, p)
<1>1. Free[p] = 0
  BY DEF Free, Pools
<1>2. Cap[p] \in Nat
  BY PoolCaps
<1> QED
  BY <1>1, <1>2 DEF UnitsOf

-----------------------------------------------------------------------------
(* After a refill the pools still obey the rate, and with a clock that only*)
(* moved forward they hold what the exact bucket holds.                    *)
LEMMA Refilled ==
  ASSUME BudgetInv, NEW b, b = Refill
  PROVE  /\ b \in Budgets /\ b.last = wall /\ wall \in Nat /\ real \in Nat /\ charged \in Int
         /\ ideal["priority"] \in Int /\ ideal["general"] \in Int
         /\ PriorityCredit(b) \in Nat /\ GeneralCredit(b) \in Nat
         /\ PriorityCredit(b) + GeneralCredit(b) + charged * Minute
              <= Envelope * (Minute + real)
         /\ setBack = 0 => /\ PriorityCredit(b) >= ideal["priority"]
                           /\ GeneralCredit(b) >= ideal["general"]
         /\ ideal["priority"] <= PriorityCap * Minute
         /\ ideal["general"] <= GeneralCap * Minute
<1>1. ShapeInv /\ RateInv /\ NoCreditLost /\ (\A p \in Pools : ideal[p] <= Cap[p] * Minute)
  BY DEF BudgetInv, CreditInv
<1>2. /\ PriorityCap \in Nat /\ GeneralCap \in Nat /\ Envelope = PriorityCap + GeneralCap
      /\ Minute \in Nat /\ Cap["priority"] = PriorityCap /\ Cap["general"] = GeneralCap
  BY CapFacts
<1>3. /\ budget \in Budgets /\ wall \in Nat /\ real \in Nat /\ charged \in Int
      /\ ideal["priority"] \in Int /\ ideal["general"] \in Int
      /\ (setBack = 0 => budget.last <= wall)
  BY <1>1, BudgetAssumption DEF ShapeInv, Pools
<1>4. budget.last \in Nat /\ Due \in Nat
  BY <1>3, BudgetsHaveFields DEF Due
<1>5. /\ b \in Budgets /\ b.last = wall
      /\ PriorityCredit(b) <= PriorityCredit(budget) + PriorityCap * Due
      /\ GeneralCredit(b) <= GeneralCredit(budget) + GeneralCap * Due
      /\ wall >= budget.last =>
           /\ PriorityCredit(b) >= Least(PriorityCap * Minute,
                                         PriorityCredit(budget) + PriorityCap * (wall - budget.last))
           /\ GeneralCredit(b) >= Least(GeneralCap * Minute,
                                        GeneralCredit(budget) + GeneralCap * (wall - budget.last))
  BY <1>1, RefillFacts
<1>6. /\ PriorityCredit(b) \in Nat /\ GeneralCredit(b) \in Nat
      /\ PriorityCredit(budget) \in Nat /\ GeneralCredit(budget) \in Nat
  BY <1>2, <1>3, <1>5, BudgetsHaveFields DEF PriorityCredit, GeneralCredit
<1>7. PriorityCredit(b) + GeneralCredit(b) + charged * Minute <= Envelope * (Minute + real)
  <2>1. Envelope * Due = PriorityCap * Due + GeneralCap * Due
    BY <1>2, <1>4
  <2>2. PriorityCap * Due \in Nat /\ GeneralCap * Due \in Nat /\ charged * Minute \in Int
        /\ Envelope * (Minute + real) \in Int
    BY <1>2, <1>3, <1>4
  <2>3. PriorityCredit(budget) + GeneralCredit(budget) + Envelope * Due + charged * Minute
          <= Envelope * (Minute + real)
    BY <1>1 DEF RateInv, Credit
  <2> QED
    BY <1>5, <1>6, <2>1, <2>2, <2>3
<1>8. ideal["priority"] <= PriorityCap * Minute /\ ideal["general"] <= GeneralCap * Minute
  BY <1>1, <1>2 DEF Pools
<1>9. ASSUME setBack = 0
      PROVE  PriorityCredit(b) >= ideal["priority"] /\ GeneralCredit(b) >= ideal["general"]
  <2>1. wall >= budget.last
    BY <1>3, <1>4, <1>9
  <2>2. HeldCredit["priority"] = PriorityCredit(budget)
        /\ HeldCredit["general"] = GeneralCredit(budget)
    BY DEF HeldCredit, PriorityCredit, GeneralCredit
  <2>3. /\ Least(PriorityCap * Minute, PriorityCredit(budget) + PriorityCap * (wall - budget.last))
              >= ideal["priority"]
        /\ Least(GeneralCap * Minute, GeneralCredit(budget) + GeneralCap * (wall - budget.last))
              >= ideal["general"]
    BY <1>1, <1>2, <1>9, <2>2 DEF NoCreditLost, Pools
  <2>4. /\ PriorityCap * Minute \in Int /\ GeneralCap * Minute \in Int
        /\ PriorityCap * (wall - budget.last) \in Int /\ GeneralCap * (wall - budget.last) \in Int
    BY <1>2, <1>3, <1>4
  <2> QED
    BY <1>3, <1>5, <1>6, <2>1, <2>3, <2>4 DEF Least
<1> QED
  BY <1>3, <1>5, <1>6, <1>7, <1>8, <1>9

(* A call that has just refilled: what it must leave behind.               *)
LEMMA Settled ==
  ASSUME BudgetInv, budget' \in Budgets, budget'.last = wall,
         UNCHANGED <<wall, real, setBack>>, charged' \in Int, ideal' \in [Pools -> Int],
         Credit(budget') + charged' * Minute <= Envelope * (Minute + real),
         setBack = 0 => /\ PriorityCredit(budget') >= ideal'["priority"]
                        /\ GeneralCredit(budget') >= ideal'["general"],
         ideal'["priority"] <= PriorityCap * Minute, ideal'["general"] <= GeneralCap * Minute
  PROVE  RateInv' /\ CreditInv'
<1>1. /\ PriorityCap \in Nat /\ GeneralCap \in Nat /\ Envelope \in Nat /\ Minute \in Nat
      /\ Cap["priority"] = PriorityCap /\ Cap["general"] = GeneralCap
  BY CapFacts
<1>2. wall \in Nat
  BY BudgetAssumption DEF BudgetInv, ShapeInv
<1>3. Due' = 0 /\ wall' - budget'.last = 0
  BY <1>2 DEF Due
<1>4. PriorityCredit(budget') \in Nat /\ GeneralCredit(budget') \in Nat
  BY <1>1, BudgetsHaveFields DEF PriorityCredit, GeneralCredit
<1>5. Envelope * Due' = 0 /\ PriorityCap * 0 = 0 /\ GeneralCap * 0 = 0
      /\ PriorityCap * Minute \in Int /\ GeneralCap * Minute \in Int
      /\ charged' * Minute \in Int
  BY <1>1, <1>3
<1>6. RateInv'
  BY <1>3, <1>4, <1>5 DEF RateInv, Credit, PriorityCredit, GeneralCredit
<1>7. HeldCredit'["priority"] = PriorityCredit(budget')
      /\ HeldCredit'["general"] = GeneralCredit(budget')
  BY DEF HeldCredit, PriorityCredit, GeneralCredit
<1>8. \A p \in Pools : ideal'[p] <= Cap[p] * Minute
  BY <1>1 DEF Pools
<1>9. NoCreditLost'
  <2>1. SUFFICES ASSUME setBack' = 0, NEW p \in Pools
                 PROVE  Least(Cap[p] * Minute,
                              HeldCredit'[p] + Cap[p] * (wall' - budget'.last)) >= ideal'[p]
    BY DEF NoCreditLost
  <2>2. HeldCredit'[p] \in Nat /\ HeldCredit'[p] >= ideal'[p] /\ Cap[p] \in Nat
        /\ ideal'[p] \in Int /\ ideal'[p] <= Cap[p] * Minute
    BY <1>1, <1>4, <1>7, <1>8, <2>1 DEF Pools
  <2>3. Cap[p] * (wall' - budget'.last) = 0 /\ Cap[p] * Minute \in Int
    BY <1>1, <1>3, <2>2
  <2> QED
    BY <2>2, <2>3 DEF Least
<1> QED
  BY <1>6, <1>8, <1>9 DEF CreditInv

(* A charge after the refill.                                              *)
LEMMA ChargeStep ==
  ASSUME BudgetInv, NEW b, b = Refill,
         NEW share, share.priority \in 0..b.priority, share.general \in 0..b.general,
         NEW weight, weight = share.priority + share.general, Charged(weight, share),
         budget' \in Budgets, budget'.last = wall, UNCHANGED <<wall, real, setBack>>,
         PriorityCredit(budget') = PriorityCredit(b) - share.priority * Minute,
         GeneralCredit(budget') = GeneralCredit(b) - share.general * Minute
  PROVE  RateInv' /\ CreditInv' /\ charged' \in Int /\ ideal' \in [Pools -> Int]
<1>1. /\ b \in Budgets /\ real \in Nat /\ charged \in Int
      /\ ideal["priority"] \in Int /\ ideal["general"] \in Int
      /\ PriorityCredit(b) \in Nat /\ GeneralCredit(b) \in Nat
      /\ PriorityCredit(b) + GeneralCredit(b) + charged * Minute <= Envelope * (Minute + real)
      /\ (setBack = 0 => /\ PriorityCredit(b) >= ideal["priority"]
                         /\ GeneralCredit(b) >= ideal["general"])
      /\ ideal["priority"] <= PriorityCap * Minute /\ ideal["general"] <= GeneralCap * Minute
  BY Refilled
<1>2. /\ PriorityCap \in Nat /\ GeneralCap \in Nat /\ Minute \in Nat /\ Envelope \in Nat
  BY CapFacts
<1>3. share.priority \in Nat /\ share.general \in Nat
  BY <1>1, BudgetsHaveFields
<1>4. PICK sp : sp = share.priority * Minute
  OBVIOUS
<1>5. PICK sg : sg = share.general * Minute
  OBVIOUS
<1>6. sp \in Nat /\ sg \in Nat /\ weight \in Nat /\ weight * Minute = sp + sg
  BY <1>2, <1>3, <1>4, <1>5
<1>7. /\ ideal'["priority"] = ideal["priority"] - sp /\ ideal'["general"] = ideal["general"] - sg
      /\ ideal' = [p \in Pools |-> ideal'[p]]
  BY <1>4, <1>5 DEF Charged, Pools
<1>8. ideal' \in [Pools -> Int]
  BY <1>1, <1>6, <1>7 DEF Pools
<1>9. charged' = charged + weight
  BY DEF Charged
<1>10. charged' \in Int /\ charged' * Minute = charged * Minute + sp + sg
       /\ charged * Minute \in Int
  <2>1. charged' \in Int /\ charged * Minute \in Int
    BY <1>1, <1>2, <1>6, <1>9
  <2>2. (charged + weight) * Minute = charged * Minute + weight * Minute
    BY <1>1, <1>2, <1>6
  <2> QED
    BY <1>6, <1>9, <2>1, <2>2
<1>11. Credit(budget') + charged' * Minute <= Envelope * (Minute + real)
  BY <1>1, <1>4, <1>5, <1>6, <1>10 DEF Credit
<1>12. /\ ideal'["priority"] <= PriorityCap * Minute /\ ideal'["general"] <= GeneralCap * Minute
  BY <1>1, <1>2, <1>6, <1>7
<1>13. setBack = 0 => /\ PriorityCredit(budget') >= ideal'["priority"]
                      /\ GeneralCredit(budget') >= ideal'["general"]
  BY <1>1, <1>4, <1>5, <1>6, <1>7
<1> QED
  BY <1>8, <1>10, <1>11, <1>12, <1>13, Settled

(* A refund after the refill: what would pass the cap is dropped.          *)
LEMMA RefundStep ==
  ASSUME BudgetInv, NEW b, b = Refill,
         NEW share, share.priority \in Nat, share.general \in Nat,
         NEW weight, weight = share.priority + share.general, GivenBack(weight, share),
         budget' \in Budgets, budget'.last = wall, UNCHANGED <<wall, real, setBack>>,
         PriorityCredit(budget') <= PriorityCredit(b) + share.priority * Minute,
         GeneralCredit(budget') <= GeneralCredit(b) + share.general * Minute,
         PriorityCredit(budget')
           >= Least(PriorityCap * Minute, PriorityCredit(b) + share.priority * Minute),
         GeneralCredit(budget')
           >= Least(GeneralCap * Minute, GeneralCredit(b) + share.general * Minute)
  PROVE  RateInv' /\ CreditInv' /\ charged' \in Int /\ ideal' \in [Pools -> Int]
<1>1. /\ b \in Budgets /\ real \in Nat /\ charged \in Int
      /\ ideal["priority"] \in Int /\ ideal["general"] \in Int
      /\ PriorityCredit(b) \in Nat /\ GeneralCredit(b) \in Nat
      /\ PriorityCredit(b) + GeneralCredit(b) + charged * Minute <= Envelope * (Minute + real)
      /\ (setBack = 0 => /\ PriorityCredit(b) >= ideal["priority"]
                         /\ GeneralCredit(b) >= ideal["general"])
      /\ ideal["priority"] <= PriorityCap * Minute /\ ideal["general"] <= GeneralCap * Minute
  BY Refilled
<1>2. /\ PriorityCap \in Nat /\ GeneralCap \in Nat /\ Minute \in Nat /\ Envelope \in Nat
      /\ Cap["priority"] = PriorityCap /\ Cap["general"] = GeneralCap
  BY CapFacts
<1>3. PICK sp : sp = share.priority * Minute
  OBVIOUS
<1>4. PICK sg : sg = share.general * Minute
  OBVIOUS
<1>5. PICK cp : cp = PriorityCap * Minute
  OBVIOUS
<1>6. PICK cg : cg = GeneralCap * Minute
  OBVIOUS
<1>7. /\ sp \in Nat /\ sg \in Nat /\ weight \in Nat /\ weight * Minute = sp + sg
      /\ cp \in Nat /\ cg \in Nat
  BY <1>2, <1>3, <1>4, <1>5, <1>6
<1>8. PriorityCredit(budget') \in Nat /\ GeneralCredit(budget') \in Nat
  BY <1>2, BudgetsHaveFields DEF PriorityCredit, GeneralCredit
<1>9. /\ ideal'["priority"] = Least(cp, ideal["priority"] + sp)
      /\ ideal'["general"] = Least(cg, ideal["general"] + sg)
      /\ ideal' = [p \in Pools |-> ideal'[p]]
  BY <1>2, <1>3, <1>4, <1>5, <1>6 DEF GivenBack, Pools
<1>10. /\ ideal'["priority"] \in Int /\ ideal'["general"] \in Int
       /\ ideal'["priority"] <= cp /\ ideal'["general"] <= cg
  BY <1>1, <1>7, <1>9 DEF Least
<1>11. ideal' \in [Pools -> Int]
  BY <1>9, <1>10 DEF Pools
<1>12. charged' = charged - weight
  BY DEF GivenBack
<1>13. charged' \in Int /\ charged' * Minute = charged * Minute - sp - sg
       /\ charged * Minute \in Int
  <2>1. charged' \in Int /\ charged * Minute \in Int
    BY <1>1, <1>2, <1>7, <1>12
  <2>2. (charged - weight) * Minute = charged * Minute - weight * Minute
    BY <1>1, <1>2, <1>7
  <2> QED
    BY <1>7, <1>12, <2>1, <2>2
<1>14. Credit(budget') + charged' * Minute <= Envelope * (Minute + real)
  <2>1. PICK e : e = Envelope * (Minute + real)
    OBVIOUS
  <2>2. PICK c : c = charged * Minute
    OBVIOUS
  <2>3. e \in Int /\ c \in Int /\ PriorityCredit(b) + GeneralCredit(b) + c <= e
    BY <1>1, <1>2, <1>13, <2>1, <2>2
  <2>4. PriorityCredit(budget') <= PriorityCredit(b) + sp
        /\ GeneralCredit(budget') <= GeneralCredit(b) + sg
    BY <1>3, <1>4
  <2>5. PriorityCredit(budget') + GeneralCredit(budget') + (c - sp - sg) <= e
    BY <1>1, <1>7, <1>8, <2>3, <2>4
  <2> QED
    BY <1>13, <2>1, <2>2, <2>5 DEF Credit
<1>15. setBack = 0 => /\ PriorityCredit(budget') >= ideal'["priority"]
                      /\ GeneralCredit(budget') >= ideal'["general"]
  BY <1>1, <1>3, <1>4, <1>5, <1>6, <1>7, <1>8, <1>9 DEF Least
<1> QED
  BY <1>5, <1>6, <1>10, <1>11, <1>13, <1>14, <1>15, Settled

(* A call that only refilled.                                              *)
LEMMA RefillStep ==
  ASSUME BudgetInv, budget' = Refill, UNCHANGED <<wall, real, setBack, charged, ideal>>
  PROVE  RateInv' /\ CreditInv'
<1>1. /\ budget' \in Budgets /\ budget'.last = wall /\ charged \in Int
      /\ PriorityCredit(budget') + GeneralCredit(budget') + charged * Minute
           <= Envelope * (Minute + real)
      /\ (setBack = 0 => /\ PriorityCredit(budget') >= ideal["priority"]
                         /\ GeneralCredit(budget') >= ideal["general"])
      /\ ideal["priority"] <= PriorityCap * Minute /\ ideal["general"] <= GeneralCap * Minute
  BY Refilled
<1>2. ideal \in [Pools -> Int]
  BY DEF BudgetInv, ShapeInv
<1>3. Credit(budget') + charged' * Minute <= Envelope * (Minute + real)
  BY <1>1 DEF Credit
<1> QED
  BY <1>1, <1>2, <1>3, Settled

-----------------------------------------------------------------------------
(* What the actions need of the state.                                     *)
LEMMA ShapeFacts ==
  ASSUME BudgetInv
  PROVE  /\ budget \in Budgets /\ queued \subseteq Jobs /\ inFlight \in LeaseTable
         /\ wall \in Nat /\ real \in 0..MaxReal /\ setBack \in 0..MaxSteps
         /\ charged \in Int /\ LeasesPaid
         /\ Cardinality(UnitsOf(inFlight, Slots, "priority"))
              + Cardinality(UnitsOf(inFlight, Slots, "general")) <= charged
<1>1. wall \in Nat
  BY BudgetAssumption DEF BudgetInv, ShapeInv
<1> QED
  BY <1>1 DEF BudgetInv, ShapeInv, LentInv, Lent, Units, UnitsOf, LeaseTable

(* A call of the scheduler that moves no clock: the invariant comes down to*)
(* the pools, the leases and what they took.                               *)
LEMMA CallKeepsInv ==
  ASSUME BudgetInv, UNCHANGED <<wall, real, setBack>>,
         budget' \in Budgets, budget'.last = wall, queued' \subseteq Jobs,
         inFlight' \in LeaseTable, charged' \in Int, ideal' \in [Pools -> Int],
         RateInv', CreditInv', LeasesPaid',
         Cardinality(UnitsOf(inFlight', Slots, "priority"))
           + Cardinality(UnitsOf(inFlight', Slots, "general")) <= charged'
  PROVE  BudgetInv'
<1>1. wall \in Nat
  BY ShapeFacts
<1>2. ShapeInv'
  BY <1>1 DEF BudgetInv, ShapeInv, LeaseTable
<1>3. LentInv'
  BY DEF LentInv, Lent, Units, UnitsOf
<1> QED
  BY <1>2, <1>3 DEF BudgetInv

(* enqueue touches only the queue.                                         *)
LEMMA EnqueueKeeps ==
  ASSUME BudgetInv, NEW j \in Jobs, Enqueue(j)
  PROVE  BudgetInv'
BY DEF Enqueue, BudgetInv, ShapeInv, LentInv, Lent, Units, LeasesPaid, RateInv, Credit,
       PriorityCredit, GeneralCredit, Due, CreditInv, NoCreditLost, HeldCredit

(* The invariant holds of a full envelope and no leases.                   *)
LEMMA InitInv ==
  ASSUME BudgetInit
  PROVE  BudgetInv
<1>1. /\ PriorityCap \in Nat /\ GeneralCap \in Nat /\ Envelope = PriorityCap + GeneralCap
      /\ Minute \in Nat /\ Minute >= 1
      /\ Cap["priority"] = PriorityCap /\ Cap["general"] = GeneralCap
  BY CapFacts
<1>2. /\ budget \in Budgets /\ budget.last = MaxSteps
      /\ PriorityCredit(budget) = PriorityCap * Minute
      /\ GeneralCredit(budget) = GeneralCap * Minute
  BY <1>1, BudgetAssumption
     DEF BudgetInit, Budgets, CircuitClosed, PriorityCredit, GeneralCredit
<1>3. wall = MaxSteps /\ real = 0 /\ setBack = 0 /\ charged = 0 /\ MaxSteps \in Nat
      /\ MaxReal \in Nat /\ queued = {}
  BY BudgetAssumption DEF BudgetInit
<1>4. /\ ideal["priority"] = PriorityCap * Minute /\ ideal["general"] = GeneralCap * Minute
      /\ ideal \in [Pools -> Int]
  BY <1>1 DEF BudgetInit, Pools
<1>5. inFlight \in [Slots -> Leases \cup {Free}] /\ \A s \in Slots : inFlight[s] = Free
  BY DEF BudgetInit
<1>6. ShapeInv
  BY <1>2, <1>3, <1>4, <1>5 DEF ShapeInv
<1>7. LentInv
  <2>1. Cardinality(UnitsOf(inFlight, Slots, "priority")) = 0
        /\ Cardinality(UnitsOf(inFlight, Slots, "general")) = 0
    BY <1>5, NoUnits DEF Pools
  <2> QED
    BY <1>3, <1>5, <2>1 DEF LentInv, LeasesPaid, Lent, Units, UnitsOf
<1>8. Due = 0
  BY <1>2, <1>3 DEF Due
<1>9. RateInv
  <2>1. Envelope * (Minute + real) = PriorityCap * Minute + GeneralCap * Minute
    BY <1>1, <1>3
  <2>2. Envelope * Due = 0 /\ charged * Minute = 0
        /\ PriorityCap * Minute \in Int /\ GeneralCap * Minute \in Int
    BY <1>1, <1>3, <1>8
  <2> QED
    BY <1>2, <2>1, <2>2 DEF RateInv, Credit
<1>10. CreditInv
  <2>1. HeldCredit["priority"] = PriorityCap * Minute
        /\ HeldCredit["general"] = GeneralCap * Minute
    BY <1>2 DEF HeldCredit, PriorityCredit, GeneralCredit
  <2>2. wall - budget.last = 0
    BY <1>2, <1>3
  <2>3. PriorityCap * 0 = 0 /\ GeneralCap * 0 = 0
        /\ PriorityCap * Minute \in Int /\ GeneralCap * Minute \in Int
    BY <1>1
  <2> QED
    BY <1>1, <1>4, <2>1, <2>2, <2>3 DEF CreditInv, NoCreditLost, Pools, Least
<1> QED
  BY <1>6, <1>7, <1>9, <1>10 DEF BudgetInv

(* A slot that is not free holds a lease.                                  *)
LEMMA HeldLease ==
  ASSUME BudgetInv, NEW s \in Slots, inFlight[s] # Free
  PROVE  /\ inFlight[s] \in Leases /\ inFlight[s].job \in Jobs
         /\ inFlight[s].priority \in Nat /\ inFlight[s].general \in Nat
         /\ Reserved(inFlight[s]) = JobCost[inFlight[s].job]
         /\ Reserved(inFlight[s]) = inFlight[s].priority + inFlight[s].general
<1>1. inFlight[s] \in Leases
  BY ShapeFacts DEF LeaseTable
<1>2. inFlight[s].job \in Jobs
  BY <1>1 DEF Leases
<1>3. inFlight[s].priority \in Nat /\ inFlight[s].general \in Nat
  BY <1>1, LeaseFacts, CapFacts
<1>4. Reserved(inFlight[s]) = JobCost[inFlight[s].job]
  BY ShapeFacts DEF LeasesPaid
<1> QED
  BY <1>1, <1>2, <1>3, <1>4 DEF Reserved

(* A slot is freed: its units are gone and the other leases stay.          *)
LEMMA SlotFreed ==
  ASSUME BudgetInv, NEW s \in Slots, inFlight' = [inFlight EXCEPT ![s] = Free]
  PROVE  /\ inFlight' \in LeaseTable /\ LeasesPaid'
         /\ Cardinality(UnitsOf(inFlight, Slots, "priority")) \in Nat
         /\ Cardinality(UnitsOf(inFlight, Slots, "general")) \in Nat
         /\ Cardinality(UnitsOf(inFlight', Slots, "priority"))
              = Cardinality(UnitsOf(inFlight, Slots, "priority")) - inFlight[s].priority
         /\ Cardinality(UnitsOf(inFlight', Slots, "general"))
              = Cardinality(UnitsOf(inFlight, Slots, "general")) - inFlight[s].general
         /\ inFlight[s].priority \in Nat /\ inFlight[s].general \in Nat
<1>1. inFlight \in LeaseTable /\ LeasesPaid
  BY ShapeFacts
<1>2. inFlight' \in LeaseTable
  BY <1>1 DEF LeaseTable
<1>3. LeasesPaid'
  BY <1>1 DEF LeasesPaid, LeaseTable
<1>4. inFlight[s] \in Leases \cup {Free}
  BY <1>1 DEF LeaseTable
<1>5. /\ inFlight[s].priority \in Nat /\ inFlight[s].general \in Nat
      /\ inFlight[s]["priority"] = inFlight[s].priority
      /\ inFlight[s]["general"] = inFlight[s].general
  BY <1>4, LeaseFacts, CapFacts
<1>6. Free["priority"] = 0 /\ Free["general"] = 0
  BY DEF Free
<1>7. /\ Cardinality(UnitsOf(inFlight', Slots, "priority"))
           = Cardinality(UnitsOf(inFlight, Slots, "priority")) - inFlight[s]["priority"] + Free["priority"]
      /\ Cardinality(UnitsOf(inFlight, Slots, "priority")) \in Nat
  BY <1>1, UnitsChange DEF Pools
<1>8. /\ Cardinality(UnitsOf(inFlight', Slots, "general"))
           = Cardinality(UnitsOf(inFlight, Slots, "general")) - inFlight[s]["general"] + Free["general"]
      /\ Cardinality(UnitsOf(inFlight, Slots, "general")) \in Nat
  BY <1>1, UnitsChange DEF Pools
<1> QED
  BY <1>2, <1>3, <1>5, <1>6, <1>7, <1>8

(* dispatch: the refill, then a reservation or a refusal.                  *)
LEMMA DispatchKeeps ==
  ASSUME BudgetInv, NEW s \in Slots, Dispatch(s)
  PROVE  BudgetInv'
<1>1. PICK b : b = Refill
  OBVIOUS
<1>2. /\ b \in Budgets /\ b.last = wall /\ charged \in Int
  BY <1>1, Refilled
<1>3. PICK payable : payable = {j \in queued : Payable(b, j)}
  OBVIOUS
<1>4. PICK first : first = CHOOSE j \in payable : \A i \in payable : j <= i
  OBVIOUS
<1>5. PICK share : share = Split(b, first \in ProtectedJobs, JobCost[first])
  OBVIOUS
<1>6. inFlight[s] = Free /\ UNCHANGED <<wall, real, setBack>>
  BY DEF Dispatch
<1>7. \/ /\ payable # {}
         /\ budget' = Take(b, share) /\ queued' = queued \ {first}
         /\ inFlight' = [inFlight EXCEPT ![s] =
                           [job |-> first, priority |-> share.priority, general |-> share.general]]
         /\ Charged(JobCost[first], share)
      \/ budget' = b /\ UNCHANGED <<queued, inFlight, charged, ideal>>
  BY <1>1, <1>3, <1>4, <1>5 DEF Dispatch
<1>8. /\ queued \subseteq Jobs /\ inFlight \in LeaseTable /\ LeasesPaid
      /\ Cardinality(UnitsOf(inFlight, Slots, "priority"))
           + Cardinality(UnitsOf(inFlight, Slots, "general")) <= charged
  BY ShapeFacts
<1>9. CASE /\ payable # {}
           /\ budget' = Take(b, share) /\ queued' = queued \ {first}
           /\ inFlight' = [inFlight EXCEPT ![s] =
                             [job |-> first, priority |-> share.priority, general |-> share.general]]
           /\ Charged(JobCost[first], share)
  <2>1. payable \subseteq Nat
    <3>1. Jobs \subseteq Nat
      BY BudgetAssumption DEF Jobs
    <3> QED
      BY <1>3, <1>8, <3>1
  <2>2. \E j \in payable : \A i \in payable : j <= i
    BY <1>9, <2>1, LeastExists
  <2>3. first \in payable
    BY <1>4, <2>2
  <2>4. first \in Jobs /\ share.general <= b.general
    BY <1>3, <1>5, <1>8, <2>3 DEF Payable
  <2>5. JobCost[first] \in Nat
    BY <2>4, BudgetAssumption, ElementOfSeq DEF Jobs
  <2>6. /\ share.priority \in 0..b.priority /\ share.general \in 0..b.general
        /\ share.priority + share.general = JobCost[first]
        /\ (first \notin ProtectedJobs => share.priority = 0)
    BY <1>2, <1>5, <2>4, <2>5, SplitFacts
  <2>7. /\ budget' \in Budgets /\ budget'.last = wall
        /\ PriorityCredit(budget') = PriorityCredit(b) - share.priority * Minute
        /\ GeneralCredit(budget') = GeneralCredit(b) - share.general * Minute
    BY <1>2, <1>9, <2>6, TakeFacts
  <2>8. RateInv' /\ CreditInv' /\ charged' \in Int /\ ideal' \in [Pools -> Int]
    BY <1>1, <1>6, <1>9, <2>6, <2>7, ChargeStep
  <2>9. PICK v : v = [job |-> first, priority |-> share.priority, general |-> share.general]
    OBVIOUS
  <2>10. v.priority \in 0..PriorityCap /\ v.general \in 0..GeneralCap
    BY <1>2, <2>6, <2>9, BudgetsHaveFields, CapFacts
  <2>11. /\ v \in Leases /\ v.job = first
         /\ v.priority = share.priority /\ v.general = share.general
    BY <2>4, <2>9, <2>10 DEF Leases
  <2>12. inFlight' = [inFlight EXCEPT ![s] = v]
    BY <1>9, <2>9
  <2>13. inFlight' \in LeaseTable
    BY <1>8, <2>11, <2>12 DEF LeaseTable
  <2>14. LeasesPaid'
    <3>1. SUFFICES ASSUME NEW r \in Slots, inFlight'[r] # Free
                   PROVE  /\ Reserved(inFlight'[r]) = JobCost[inFlight'[r].job]
                          /\ inFlight'[r].job \notin ProtectedJobs => inFlight'[r].priority = 0
      BY DEF LeasesPaid, Reserved
    <3>2. CASE r = s
      <4>1. inFlight'[r] = v
        BY <1>8, <2>12, <3>2 DEF LeaseTable
      <4> QED
        BY <2>6, <2>11, <4>1 DEF Reserved
    <3>3. CASE r # s
      <4>1. inFlight'[r] = inFlight[r]
        BY <1>8, <2>12, <3>3 DEF LeaseTable
      <4> QED
        BY <1>8, <3>1, <4>1 DEF LeasesPaid
    <3> QED
      BY <3>2, <3>3
  <2>15. Free["priority"] = 0 /\ Free["general"] = 0
    BY DEF Free
  <2>16. v["priority"] = share.priority /\ v["general"] = share.general
    BY <2>11
  <2>17. /\ Cardinality(UnitsOf(inFlight', Slots, "priority"))
              = Cardinality(UnitsOf(inFlight, Slots, "priority")) - inFlight[s]["priority"] + v["priority"]
         /\ Cardinality(UnitsOf(inFlight, Slots, "priority")) \in Nat
    BY <1>8, <2>11, <2>12, UnitsChange DEF Pools
  <2>18. /\ Cardinality(UnitsOf(inFlight', Slots, "general"))
              = Cardinality(UnitsOf(inFlight, Slots, "general")) - inFlight[s]["general"] + v["general"]
         /\ Cardinality(UnitsOf(inFlight, Slots, "general")) \in Nat
    BY <1>8, <2>11, <2>12, UnitsChange DEF Pools
  <2>19. charged' = charged + share.priority + share.general
         /\ share.priority \in Nat /\ share.general \in Nat
    <3>1. share.priority \in Nat /\ share.general \in Nat
      BY <1>2, <2>6, BudgetsHaveFields, CapFacts
    <3> QED
      BY <1>2, <1>9, <2>6, <3>1 DEF Charged
  <2>20. Cardinality(UnitsOf(inFlight', Slots, "priority"))
           + Cardinality(UnitsOf(inFlight', Slots, "general")) <= charged'
    BY <1>2, <1>6, <1>8, <2>15, <2>16, <2>17, <2>18, <2>19
  <2>21. queued' \subseteq Jobs
    BY <1>8, <1>9
  <2> QED
    BY <1>6, <2>7, <2>8, <2>13, <2>14, <2>20, <2>21, CallKeepsInv
<1>10. CASE budget' = b /\ UNCHANGED <<queued, inFlight, charged, ideal>>
  <2>1. RateInv' /\ CreditInv'
    BY <1>1, <1>6, <1>10, RefillStep
  <2>2. LeasesPaid'
    BY <1>8, <1>10 DEF LeasesPaid
  <2>3. ideal' \in [Pools -> Int]
    BY <1>10 DEF BudgetInv, ShapeInv
  <2> QED
    BY <1>2, <1>6, <1>8, <1>10, <2>1, <2>2, <2>3, CallKeepsInv
<1> QED
  BY <1>7, <1>9, <1>10

(* complete: a refund, an extra charge, or the job lost.                   *)
LEMMA CompleteKeeps ==
  ASSUME BudgetInv, NEW s \in Slots,
         NEW actual \in 0..MaxWeight, Complete(s, actual)
  PROVE  BudgetInv'
<1>1. PICK b : b = Refill
  OBVIOUS
<1>2. b \in Budgets /\ b.last = wall /\ charged \in Int
  BY <1>1, Refilled
<1>3. PICK lease : lease = inFlight[s]
  OBVIOUS
<1>4. PICK rest : rest = RefundShare(lease, Reserved(lease) - actual)
  OBVIOUS
<1>5. PICK extra : extra = Split(b, lease.job \in ProtectedJobs, actual - Reserved(lease))
  OBVIOUS
<1>6. /\ lease.job \in Jobs /\ lease.priority \in Nat /\ lease.general \in Nat
      /\ Reserved(lease) = JobCost[lease.job]
      /\ Reserved(lease) = lease.priority + lease.general
  BY <1>3, HeldLease DEF Complete
<1>7. Reserved(lease) \in Nat
  BY <1>6
<1>8. actual \in Nat
  BY BudgetAssumption
<1>9. /\ inFlight' = [inFlight EXCEPT ![s] = Free]
      /\ UNCHANGED <<queued, wall, real, setBack>>
  BY DEF Complete
<1>10. \/ /\ actual <= Reserved(lease)
          /\ budget' = [GiveBack(b, rest) EXCEPT !.failures = 0]
          /\ GivenBack(Reserved(lease) - actual, rest)
       \/ /\ actual > Reserved(lease) /\ extra.general <= b.general
          /\ budget' = [Take(b, extra) EXCEPT !.failures = 0]
          /\ Charged(actual - Reserved(lease), extra)
       \/ budget' = b /\ UNCHANGED <<charged, ideal>>
  BY <1>1, <1>3, <1>4, <1>5, Zenon DEF Complete
<1>11. PICK up : up = Cardinality(UnitsOf(inFlight, Slots, "priority"))
  OBVIOUS
<1>12. PICK ug : ug = Cardinality(UnitsOf(inFlight, Slots, "general"))
  OBVIOUS
<1>13. /\ inFlight' \in LeaseTable /\ LeasesPaid' /\ up \in Nat /\ ug \in Nat
       /\ Cardinality(UnitsOf(inFlight', Slots, "priority")) = up - lease.priority
       /\ Cardinality(UnitsOf(inFlight', Slots, "general")) = ug - lease.general
  BY <1>3, <1>9, <1>11, <1>12, SlotFreed
<1>14. queued' \subseteq Jobs /\ up + ug <= charged
  BY <1>9, <1>11, <1>12, ShapeFacts
<1>15. SUFFICES /\ budget' \in Budgets /\ budget'.last = wall /\ charged' \in Int
                /\ ideal' \in [Pools -> Int] /\ RateInv' /\ CreditInv'
                /\ charged' >= charged - Reserved(lease)
  <2>1. (up - lease.priority) + (ug - lease.general) <= charged'
    BY <1>2, <1>6, <1>13, <1>14, <1>15
  <2> QED
    BY <1>9, <1>13, <1>14, <1>15, <2>1, CallKeepsInv
<1>16. CASE /\ actual <= Reserved(lease)
            /\ budget' = [GiveBack(b, rest) EXCEPT !.failures = 0]
            /\ GivenBack(Reserved(lease) - actual, rest)
  <2>1. /\ rest.priority \in Nat /\ rest.general \in Nat
        /\ rest.priority + rest.general = Reserved(lease) - actual
    <3>1. Reserved(lease) - actual \in 0..Reserved(lease)
      BY <1>7, <1>8, <1>16
    <3> QED
      BY <1>4, <1>6, <3>1, RefundShareFacts
  <2>2. PICK c : c = GiveBack(b, rest)
    OBVIOUS
  <2>3. /\ c \in Budgets /\ c.last = b.last
        /\ PriorityCredit(c) <= PriorityCredit(b) + rest.priority * Minute
        /\ GeneralCredit(c) <= GeneralCredit(b) + rest.general * Minute
        /\ PriorityCredit(c)
             >= Least(PriorityCap * Minute, PriorityCredit(b) + rest.priority * Minute)
        /\ GeneralCredit(c)
             >= Least(GeneralCap * Minute, GeneralCredit(b) + rest.general * Minute)
    BY <1>2, <2>1, <2>2, GiveBackFacts
  <2>4. budget' = [c EXCEPT !.failures = 0]
    BY <1>16, <2>2, Zenon
  <2>5. /\ budget' \in Budgets /\ budget'.last = c.last
        /\ PriorityCredit(budget') = PriorityCredit(c)
        /\ GeneralCredit(budget') = GeneralCredit(c)
    BY <2>3, <2>4, ClearedFacts, Zenon
  <2>6. GivenBack(Reserved(lease) - actual, rest)
    BY <1>16, Zenon
  <2>7. budget'.last = wall
    BY <1>2, <2>3, <2>5
  <2>8. RateInv' /\ CreditInv' /\ charged' \in Int /\ ideal' \in [Pools -> Int]
    BY <1>1, <1>9, <2>1, <2>3, <2>5, <2>6, <2>7, RefundStep
  <2>9. charged' = charged - (Reserved(lease) - actual)
    BY <2>6 DEF GivenBack
  <2>10. charged' >= charged - Reserved(lease)
    BY <1>2, <1>7, <1>8, <2>9
  <2> QED
    BY <2>5, <2>7, <2>8, <2>10
<1>17. CASE /\ actual > Reserved(lease) /\ extra.general <= b.general
            /\ budget' = [Take(b, extra) EXCEPT !.failures = 0]
            /\ Charged(actual - Reserved(lease), extra)
  <2>1. PICK more : more = actual - Reserved(lease)
    OBVIOUS
  <2>2. actual > Reserved(lease) /\ extra.general <= b.general
    BY <1>17, Zenon
  <2>3. more \in Nat
    BY <1>7, <1>8, <2>1, <2>2
  <2>4. /\ extra.priority \in 0..b.priority /\ extra.general \in 0..b.general
        /\ extra.priority + extra.general = more
    BY <1>2, <1>5, <2>1, <2>2, <2>3, SplitFacts
  <2>5. PICK c : c = Take(b, extra)
    OBVIOUS
  <2>6. /\ c \in Budgets /\ c.last = b.last
        /\ PriorityCredit(c) = PriorityCredit(b) - extra.priority * Minute
        /\ GeneralCredit(c) = GeneralCredit(b) - extra.general * Minute
    BY <1>2, <2>4, <2>5, TakeFacts
  <2>7. budget' = [c EXCEPT !.failures = 0] /\ Charged(more, extra)
    BY <1>17, <2>1, <2>5, Zenon
  <2>8. /\ budget' \in Budgets /\ budget'.last = c.last
        /\ PriorityCredit(budget') = PriorityCredit(c)
        /\ GeneralCredit(budget') = GeneralCredit(c)
    BY <2>6, <2>7, ClearedFacts, Zenon
  <2>9. budget'.last = wall /\ Charged(more, extra)
    BY <1>2, <2>6, <2>7, <2>8, Zenon
  <2>10. RateInv' /\ CreditInv' /\ charged' \in Int /\ ideal' \in [Pools -> Int]
    BY <1>1, <1>9, <2>4, <2>6, <2>8, <2>9, ChargeStep
  <2>11. charged' = charged + more
    BY <2>9 DEF Charged
  <2>12. charged' >= charged - Reserved(lease)
    BY <1>2, <1>7, <2>3, <2>11
  <2> QED
    BY <2>8, <2>9, <2>10, <2>12
<1>18. CASE budget' = b /\ UNCHANGED <<charged, ideal>>
  <2>1. RateInv' /\ CreditInv'
    BY <1>1, <1>9, <1>18, RefillStep
  <2>2. ideal' \in [Pools -> Int]
    BY <1>18 DEF BudgetInv, ShapeInv
  <2> QED
    BY <1>2, <1>7, <1>18, <2>1, <2>2
<1> QED
  BY <1>10, <1>16, <1>17, <1>18, Zenon

(* cancel gives back what the lease took.                                  *)
LEMMA CancelKeeps ==
  ASSUME BudgetInv, NEW s \in Slots, Cancel(s)
  PROVE  BudgetInv'
<1>1. PICK b : b = Refill
  OBVIOUS
<1>2. b \in Budgets /\ b.last = wall /\ charged \in Int
  BY <1>1, Refilled
<1>3. PICK share : share = [p \in Pools |-> Cardinality(Units({s}, p))]
  OBVIOUS
<1>4. /\ budget' = GiveBack(b, share)
      /\ GivenBack(share.priority + share.general, share)
  BY <1>1, <1>3 DEF Cancel, Release
<1>5. /\ inFlight' = [inFlight EXCEPT ![s] = Free]
      /\ UNCHANGED <<queued, wall, real, setBack>>
  BY DEF Cancel
<1>6. PICK up : up = Cardinality(UnitsOf(inFlight, Slots, "priority"))
  OBVIOUS
<1>7. PICK ug : ug = Cardinality(UnitsOf(inFlight, Slots, "general"))
  OBVIOUS
<1>8. /\ inFlight' \in LeaseTable /\ LeasesPaid' /\ up \in Nat /\ ug \in Nat
      /\ Cardinality(UnitsOf(inFlight', Slots, "priority")) = up - inFlight[s].priority
      /\ Cardinality(UnitsOf(inFlight', Slots, "general")) = ug - inFlight[s].general
      /\ inFlight[s].priority \in Nat /\ inFlight[s].general \in Nat
  BY <1>5, <1>6, <1>7, SlotFreed
<1>9. share.priority = inFlight[s].priority /\ share.general = inFlight[s].general
  <2>1. inFlight[s] \in Leases \cup {Free}
    BY ShapeFacts DEF LeaseTable
  <2>2. /\ inFlight[s]["priority"] = inFlight[s].priority
        /\ inFlight[s]["general"] = inFlight[s].general
        /\ \A p \in Pools : inFlight[s][p] \in 0..Cap[p]
    BY <2>1, LeaseFacts
  <2>3. \A p \in Pools : Cardinality(UnitsOf(inFlight, {s}, p)) = inFlight[s][p]
    BY <2>2, UnitsOfOne
  <2>4. \A p \in Pools : share[p] = inFlight[s][p]
    BY <1>3, <2>3 DEF Units, UnitsOf
  <2>5. share["priority"] = inFlight[s].priority /\ share["general"] = inFlight[s].general
    BY <2>2, <2>4 DEF Pools
  <2> QED
    BY <2>5
<1>10. /\ budget' \in Budgets /\ budget'.last = b.last
       /\ PriorityCredit(budget') <= PriorityCredit(b) + share.priority * Minute
       /\ GeneralCredit(budget') <= GeneralCredit(b) + share.general * Minute
       /\ PriorityCredit(budget')
            >= Least(PriorityCap * Minute, PriorityCredit(b) + share.priority * Minute)
       /\ GeneralCredit(budget')
            >= Least(GeneralCap * Minute, GeneralCredit(b) + share.general * Minute)
  BY <1>2, <1>4, <1>8, <1>9, GiveBackFacts
<1>11. RateInv' /\ CreditInv' /\ charged' \in Int /\ ideal' \in [Pools -> Int]
  BY <1>1, <1>2, <1>4, <1>5, <1>8, <1>9, <1>10, RefundStep
<1>12. charged' = charged - (inFlight[s].priority + inFlight[s].general)
  BY <1>4, <1>9 DEF GivenBack
<1>13. up + ug <= charged /\ queued \subseteq Jobs
  BY <1>6, <1>7, ShapeFacts
<1>14. (up - inFlight[s].priority) + (ug - inFlight[s].general) <= charged'
  BY <1>2, <1>8, <1>12, <1>13
<1> QED
  BY <1>2, <1>5, <1>8, <1>10, <1>11, <1>13, <1>14, CallKeepsInv

(* shutdown gives back what all leases took.                               *)
LEMMA ShutdownKeeps ==
  ASSUME BudgetInv, Shutdown
  PROVE  BudgetInv'
<1>1. PICK b : b = Refill
  OBVIOUS
<1>2. b \in Budgets /\ b.last = wall /\ charged \in Int
  BY <1>1, Refilled
<1>3. PICK held : held = {s \in Slots : inFlight[s] # Free}
  OBVIOUS
<1>4. PICK share : share = [p \in Pools |-> Cardinality(Units(held, p))]
  OBVIOUS
<1>5. /\ budget' = GiveBack(b, share)
      /\ GivenBack(share.priority + share.general, share)
  BY <1>1, <1>3, <1>4 DEF Shutdown, Release
<1>6. /\ queued' = {} /\ inFlight' = [s \in Slots |-> Free] /\ UNCHANGED <<wall, real, setBack>>
  BY DEF Shutdown
<1>7. PICK up : up = Cardinality(UnitsOf(inFlight, Slots, "priority"))
  OBVIOUS
<1>8. PICK ug : ug = Cardinality(UnitsOf(inFlight, Slots, "general"))
  OBVIOUS
<1>9. up \in Nat /\ ug \in Nat
  BY <1>7, <1>8, UnitsAreCounted DEF Pools
<1>10. share.priority = up /\ share.general = ug
  <2>1. \A p \in Pools : UnitsOf(inFlight, held, p) = UnitsOf(inFlight, Slots, p)
    BY <1>3, ShapeFacts, UnitsOfHeld
  <2>2. \A p \in Pools : share[p] = Cardinality(UnitsOf(inFlight, Slots, p))
    BY <1>4, <2>1 DEF Units, UnitsOf
  <2>3. share["priority"] = up /\ share["general"] = ug
    BY <1>7, <1>8, <2>2 DEF Pools
  <2> QED
    BY <2>3
<1>11. /\ budget' \in Budgets /\ budget'.last = b.last
       /\ PriorityCredit(budget') <= PriorityCredit(b) + share.priority * Minute
       /\ GeneralCredit(budget') <= GeneralCredit(b) + share.general * Minute
       /\ PriorityCredit(budget')
            >= Least(PriorityCap * Minute, PriorityCredit(b) + share.priority * Minute)
       /\ GeneralCredit(budget')
            >= Least(GeneralCap * Minute, GeneralCredit(b) + share.general * Minute)
  BY <1>2, <1>5, <1>9, <1>10, GiveBackFacts
<1>12. RateInv' /\ CreditInv' /\ charged' \in Int /\ ideal' \in [Pools -> Int]
  BY <1>1, <1>2, <1>5, <1>6, <1>9, <1>10, <1>11, RefundStep
<1>13. charged' = charged - (up + ug)
  BY <1>5, <1>10 DEF GivenBack
<1>14. up + ug <= charged
  BY <1>7, <1>8, ShapeFacts
<1>15. \A s \in Slots : inFlight'[s] = Free
  BY <1>6
<1>16. /\ Cardinality(UnitsOf(inFlight', Slots, "priority")) = 0
       /\ Cardinality(UnitsOf(inFlight', Slots, "general")) = 0
  BY <1>15, NoUnits DEF Pools
<1>17. inFlight' \in LeaseTable
  BY <1>6 DEF LeaseTable
<1>18. LeasesPaid'
  BY <1>15 DEF LeasesPaid
<1>19. 0 + 0 <= charged'
  BY <1>2, <1>9, <1>13, <1>14
<1>20. queued' \subseteq Jobs
  BY <1>6
<1> QED
  BY <1>2, <1>6, <1>11, <1>12, <1>16, <1>17, <1>18, <1>19, <1>20, CallKeepsInv

(* A backoff is a number of ticks.                                         *)
LEMMA BackoffFacts ==
  ASSUME NEW n \in 1..5, NEW d \in Backoffs(n)
  PROVE  d \in Int
<1>1. PICK factor : factor = <<2, 4, 8, 16, 32>>[n]
  OBVIOUS
<1>2. n = 1 \/ n = 2 \/ n = 3 \/ n = 4 \/ n = 5
  OBVIOUS
<1>3. factor \in Nat
  BY <1>1, <1>2
<1> QED
  BY <1>1, <1>3 DEF Backoffs

(* on_429 empties the pools and keeps the charge.                          *)
LEMMA On429Keeps ==
  ASSUME BudgetInv, NEW s \in Slots, On429(s)
  PROVE  BudgetInv'
<1>1. PICK b : b = Refill
  OBVIOUS
<1>2. /\ b \in Budgets /\ b.last = wall /\ charged \in Int /\ wall \in Nat
      /\ real \in Nat /\ PriorityCredit(b) \in Nat /\ GeneralCredit(b) \in Nat
      /\ PriorityCredit(b) + GeneralCredit(b) + charged * Minute <= Envelope * (Minute + real)
  BY <1>1, Refilled
<1>3. /\ HasFields(b) /\ b.last \in Nat /\ b.failures \in 0..5
  BY <1>2, BudgetsHaveFields
<1>4. PICK failures : failures = Least(5, b.failures + 1)
  OBVIOUS
<1>5. failures \in 1..5 /\ failures \in 0..5
  BY <1>3, <1>4 DEF Least
<1>6. PICK d \in Backoffs(failures) :
        budget' = [b EXCEPT !.priority = 0, !.general = 0, !.priorityRest = 0,
                            !.generalRest = 0, !.failures = failures, !.until = wall + d]
  BY <1>1, <1>4, Zenon DEF On429
<1>7. d \in Int
  BY <1>5, BackoffFacts
<1>8. /\ inFlight[s] # Free /\ queued' = queued \cup {inFlight[s].job}
      /\ inFlight' = [inFlight EXCEPT ![s] = Free]
      /\ ideal' = [p \in Pools |-> 0]
      /\ UNCHANGED <<wall, real, setBack, charged>>
  BY Zenon DEF On429
<1>9. /\ HasFields(budget') /\ budget'.priority = 0 /\ budget'.general = 0
      /\ budget'.priorityRest = 0 /\ budget'.generalRest = 0
      /\ budget'.failures = failures /\ budget'.until = wall + d /\ budget'.last = b.last
  BY <1>3, <1>6, Zenon DEF HasFields, BudgetFields
<1>10. /\ PriorityCap \in Nat /\ GeneralCap \in Nat /\ Minute \in Nat /\ Minute >= 1
       /\ Envelope \in Nat
  BY CapFacts
<1>11. PICK after : after = budget'
  OBVIOUS
<1>12. /\ HasFields(after) /\ after.priority = 0 /\ after.general = 0
       /\ after.priorityRest = 0 /\ after.generalRest = 0
       /\ after.failures = failures /\ after.until = wall + d /\ after.last = b.last
  BY <1>9, <1>11, Zenon
<1>13. /\ after.priority \in 0..PriorityCap /\ after.general \in 0..GeneralCap
       /\ after.priorityRest \in 0..Minute - 1 /\ after.generalRest \in 0..Minute - 1
       /\ after.last \in Nat /\ after.until \in Int /\ after.failures \in 0..5
  <2> HIDE <1>6
  <2> QED
    BY <1>2, <1>3, <1>5, <1>7, <1>10, <1>12
<1>14. after \in Budgets
  BY <1>12, <1>13, FieldsMakeABudget, Zenon
<1>15. PriorityCredit(after) = 0 /\ GeneralCredit(after) = 0
  BY <1>10, <1>12 DEF PriorityCredit, GeneralCredit
<1>16. Credit(budget') + charged' * Minute <= Envelope * (Minute + real)
  <2>1. charged * Minute \in Int /\ Envelope * (Minute + real) \in Int
    BY <1>2, <1>10
  <2>2. 0 + 0 + charged * Minute <= Envelope * (Minute + real)
    BY <1>2, <2>1
  <2> QED
    BY <1>8, <1>11, <1>15, <2>2 DEF Credit
<1>17. /\ ideal' \in [Pools -> Int] /\ ideal'["priority"] = 0 /\ ideal'["general"] = 0
  BY <1>8 DEF Pools
<1>18. /\ ideal'["priority"] <= PriorityCap * Minute /\ ideal'["general"] <= GeneralCap * Minute
  BY <1>10, <1>17
<1>19. /\ PriorityCredit(budget') >= ideal'["priority"]
       /\ GeneralCredit(budget') >= ideal'["general"]
  BY <1>11, <1>15, <1>17
<1>20. /\ budget' \in Budgets /\ budget'.last = wall /\ charged' \in Int
  BY <1>2, <1>8, <1>11, <1>12, <1>14
<1>21. RateInv' /\ CreditInv'
  BY <1>8, <1>16, <1>17, <1>18, <1>19, <1>20, Settled
<1>22. /\ inFlight' \in LeaseTable /\ LeasesPaid'
       /\ Cardinality(UnitsOf(inFlight', Slots, "priority"))
            + Cardinality(UnitsOf(inFlight', Slots, "general")) <= charged'
  <2>1. PICK up : up = Cardinality(UnitsOf(inFlight, Slots, "priority"))
    OBVIOUS
  <2>2. PICK ug : ug = Cardinality(UnitsOf(inFlight, Slots, "general"))
    OBVIOUS
  <2>3. /\ inFlight' \in LeaseTable /\ LeasesPaid' /\ up \in Nat /\ ug \in Nat
        /\ Cardinality(UnitsOf(inFlight', Slots, "priority")) = up - inFlight[s].priority
        /\ Cardinality(UnitsOf(inFlight', Slots, "general")) = ug - inFlight[s].general
        /\ inFlight[s].priority \in Nat /\ inFlight[s].general \in Nat
    BY <1>8, <2>1, <2>2, SlotFreed
  <2>4. up + ug <= charged
    BY <2>1, <2>2, ShapeFacts
  <2>5. (up - inFlight[s].priority) + (ug - inFlight[s].general) <= charged'
    BY <1>2, <1>8, <2>3, <2>4
  <2> QED
    BY <2>3, <2>5
<1>23. queued' \subseteq Jobs
  BY <1>8, HeldLease, ShapeFacts
<1> QED
  BY <1>8, <1>17, <1>20, <1>21, <1>22, <1>23, CallKeepsInv

(* The clocks move: what is held stays.                                    *)
LEMMA ClockKeepsLeases ==
  ASSUME BudgetInv, UNCHANGED <<inFlight, charged>>
  PROVE  LentInv'
BY DEF BudgetInv, LentInv, LeasesPaid, Lent, Units

(* A tick adds the cap to the exact bucket and to what is due.             *)
LEMMA TimePassesKeeps ==
  ASSUME BudgetInv, TimePasses
  PROVE  BudgetInv'
<1>1. /\ ShapeInv /\ RateInv /\ NoCreditLost /\ (\A p \in Pools : ideal[p] <= Cap[p] * Minute)
  BY DEF BudgetInv, CreditInv
<1>2. /\ PriorityCap \in Nat /\ GeneralCap \in Nat /\ Minute \in Nat /\ Envelope \in Nat
  BY CapFacts
<1>3. /\ budget \in Budgets /\ wall \in Nat /\ real \in Nat /\ charged \in Int
      /\ (setBack = 0 => budget.last <= wall) /\ ideal \in [Pools -> Int]
      /\ setBack \in 0..MaxSteps
  BY <1>1, BudgetAssumption DEF ShapeInv
<1>4. /\ budget.last \in Nat
  BY <1>3, BudgetsHaveFields
<1>5. /\ real < MaxReal /\ real' = real + 1 /\ wall' = wall + 1
      /\ ideal' = [p \in Pools |-> Least(Cap[p] * Minute, ideal[p] + Cap[p])]
      /\ UNCHANGED <<budget, queued, inFlight, setBack, charged>>
  BY DEF TimePasses
<1>6. ideal' \in [Pools -> Int] /\ \A p \in Pools : ideal'[p] <= Cap[p] * Minute
  <2>1. \A p \in Pools : Cap[p] \in Nat /\ Cap[p] * Minute \in Int /\ ideal[p] \in Int
    BY <1>2, <1>3, PoolCaps
  <2> QED
    BY <1>5, <2>1 DEF Least
<1>7. ShapeInv'
  BY <1>1, <1>3, <1>4, <1>5, <1>6, BudgetAssumption DEF ShapeInv
<1>8. RateInv'
  <2>1. Due \in Nat /\ Due' \in Nat /\ Due' <= Due + 1
    BY <1>3, <1>4, <1>5 DEF Due
  <2>2. Envelope * Due' <= Envelope * (Due + 1)
    <3>1. Due + 1 \in Nat
      BY <2>1
    <3> QED
      BY <1>2, <2>1, <3>1, TimesMonotone
  <2>3. Envelope * (Due + 1) = Envelope * Due + Envelope
    BY <1>2, <2>1
  <2>4. Envelope * (Minute + real') = Envelope * (Minute + real) + Envelope
    BY <1>2, <1>3, <1>5
  <2>5. /\ Envelope * Due \in Int /\ Envelope * Due' \in Int /\ charged * Minute \in Int
        /\ Envelope * (Minute + real) \in Int
    BY <1>2, <1>3, <2>1
  <2>6. PICK credit : credit = Credit(budget)
    OBVIOUS
  <2>7. credit \in Int
    BY <1>2, <1>3, <2>6, BudgetsHaveFields DEF Credit, PriorityCredit, GeneralCredit
  <2>8. credit + Envelope * Due + charged * Minute <= Envelope * (Minute + real)
    BY <1>1, <2>6 DEF RateInv
  <2>9. credit + Envelope * Due' + charged * Minute <= Envelope * (Minute + real')
    BY <1>2, <2>2, <2>3, <2>4, <2>5, <2>7, <2>8
  <2> QED
    BY <1>5, <2>6, <2>9 DEF RateInv, Credit, PriorityCredit, GeneralCredit
<1>9. NoCreditLost'
  <2>1. SUFFICES ASSUME setBack' = 0, NEW p \in Pools
                 PROVE  Least(Cap[p] * Minute,
                              HeldCredit'[p] + Cap[p] * (wall' - budget'.last)) >= ideal'[p]
    BY DEF NoCreditLost
  <2>2. HeldCredit' = HeldCredit
    BY <1>5 DEF HeldCredit
  <2>3. HeldCredit[p] \in Int
    BY <1>2, <1>3, BudgetsHaveFields DEF HeldCredit, Pools
  <2>4. Cap[p] \in Nat /\ Cap[p] * Minute \in Int /\ ideal[p] \in Int
    BY <1>2, <1>3, PoolCaps
  <2>5. Cap[p] * (wall' - budget'.last) = Cap[p] * (wall - budget.last) + Cap[p]
        /\ Cap[p] * (wall - budget.last) \in Int
    <3>1. PICK e : e = wall - budget.last
      OBVIOUS
    <3>2. PICK k : k = Cap[p]
      OBVIOUS
    <3>3. e \in Int /\ wall' - budget'.last = e + 1 /\ k \in Nat
      BY <1>3, <1>4, <1>5, <2>4, <3>1, <3>2
    <3>4. k * (e + 1) = k * e + k /\ k * e \in Int
      BY <3>3
    <3> QED
      BY <3>1, <3>2, <3>3, <3>4
  <2>6. Least(Cap[p] * Minute, HeldCredit[p] + Cap[p] * (wall - budget.last)) >= ideal[p]
    BY <1>1, <1>5, <2>1 DEF NoCreditLost
  <2>7. ideal'[p] = Least(Cap[p] * Minute, ideal[p] + Cap[p])
    BY <1>5
  <2> QED
    BY <2>2, <2>3, <2>4, <2>5, <2>6, <2>7 DEF Least
<1>10. LentInv'
  BY <1>5, ClockKeepsLeases
<1> QED
  BY <1>6, <1>7, <1>8, <1>9, <1>10 DEF BudgetInv, CreditInv

(* A clock set back takes from what is due.                                *)
LEMMA ClockSetBackKeeps ==
  ASSUME BudgetInv, ClockSetBack
  PROVE  BudgetInv'
<1>1. ShapeInv /\ RateInv /\ CreditInv
  BY DEF BudgetInv
<1>2. /\ Minute \in Nat /\ Envelope \in Nat /\ PriorityCap \in Nat /\ GeneralCap \in Nat
  BY CapFacts
<1>3. /\ budget \in Budgets /\ wall \in Nat /\ real \in Nat /\ charged \in Int
      /\ setBack \in 0..MaxSteps
  BY <1>1, BudgetAssumption DEF ShapeInv
<1>4. budget.last \in Nat
  BY <1>3, BudgetsHaveFields
<1>5. /\ setBack < MaxSteps /\ setBack' = setBack + 1 /\ wall' = wall - 1
      /\ UNCHANGED <<budget, queued, inFlight, real, charged, ideal>>
  BY DEF ClockSetBack
<1>6. ShapeInv'
  BY <1>1, <1>3, <1>5, BudgetAssumption DEF ShapeInv
<1>7. RateInv'
  <2>1. Due \in Nat /\ Due' \in Nat /\ Due' <= Due
    BY <1>3, <1>4, <1>5 DEF Due
  <2>2. Envelope * Due' <= Envelope * Due
    BY <1>2, <2>1, TimesMonotone
  <2>3. /\ Envelope * Due \in Int /\ Envelope * Due' \in Int /\ charged * Minute \in Int
        /\ Envelope * (Minute + real) \in Int
    BY <1>2, <1>3, <2>1
  <2>4. PICK credit : credit = Credit(budget)
    OBVIOUS
  <2>5. credit \in Int
    BY <1>2, <1>3, <2>4, BudgetsHaveFields DEF Credit, PriorityCredit, GeneralCredit
  <2>6. credit + Envelope * Due + charged * Minute <= Envelope * (Minute + real)
    BY <1>1, <2>4 DEF RateInv
  <2>7. credit + Envelope * Due' + charged * Minute <= Envelope * (Minute + real)
    BY <2>2, <2>3, <2>5, <2>6
  <2> QED
    BY <1>5, <2>4, <2>7 DEF RateInv, Credit, PriorityCredit, GeneralCredit
<1>8. CreditInv'
  <2>1. setBack' # 0
    BY <1>3, <1>5
  <2> QED
    BY <1>1, <1>5, <2>1 DEF CreditInv, NoCreditLost
<1>9. LentInv'
  BY <1>5, ClockKeepsLeases
<1> QED
  BY <1>6, <1>7, <1>8, <1>9 DEF BudgetInv

(* The inductive invariant of the budget and its scheduler: reserve,       *)
(* complete, release, on_429, shutdown and a clock that is set back keep   *)
(* the pools, the leases and what was charged in step.                     *)
THEOREM BudgetInvariant == BudgetSpec => []BudgetInv
<1>1. BudgetInit => BudgetInv
  BY InitInv
<1>2. BudgetInv /\ [BudgetNext]_requestVars => BudgetInv'
  <2>1. SUFFICES ASSUME BudgetInv, [BudgetNext]_requestVars PROVE BudgetInv'
    OBVIOUS
  <2>2. CASE \E j \in Jobs : Enqueue(j)
    BY <2>1, <2>2, EnqueueKeeps
  <2>3. CASE \E s \in Slots : Dispatch(s) \/ Cancel(s) \/ On429(s)
    BY <2>1, <2>3, DispatchKeeps, CancelKeeps, On429Keeps
  <2>4. CASE \E s \in Slots, actual \in 0..MaxWeight : Complete(s, actual)
    BY <2>1, <2>4, CompleteKeeps
  <2>5. CASE Shutdown
    BY <2>1, <2>5, ShutdownKeeps
  <2>6. CASE TimePasses
    BY <2>1, <2>6, TimePassesKeeps
  <2>7. CASE ClockSetBack
    BY <2>1, <2>7, ClockSetBackKeeps
  <2>8. CASE UNCHANGED requestVars
    BY <2>1, <2>8
       DEF requestVars, BudgetInv, ShapeInv, LentInv, Lent, Units, LeasesPaid, RateInv, Credit,
           PriorityCredit, GeneralCredit, Due, CreditInv, NoCreditLost, HeldCredit
  <2> QED
    BY <2>1, <2>2, <2>3, <2>4, <2>5, <2>6, <2>7, <2>8 DEF BudgetNext
<1> QED
  BY <1>1, <1>2, PTL DEF BudgetSpec

(* reserve, refund, charge_extra and refill, for every ceiling, split, job *)
(* list and number of slots: the weight charged and left never exceeds a   *)
(* full envelope plus what time has added, calling often loses no credit,  *)
(* and a lease was paid in full from the pools its class may use.          *)
THEOREM BudgetIsSafe == BudgetSpec => []BudgetSafe
<1>1. BudgetInv => BudgetSafe
  <2>1. SUFFICES ASSUME BudgetInv PROVE BudgetSafe
    OBVIOUS
  <2>2. /\ Minute \in Nat /\ Envelope \in Nat /\ PriorityCap \in Nat /\ GeneralCap \in Nat
    BY CapFacts
  <2>3. /\ budget \in Budgets /\ queued \subseteq Jobs /\ inFlight \in LeaseTable
        /\ wall \in Nat /\ real \in 0..MaxReal /\ setBack \in 0..MaxSteps
        /\ charged \in Int /\ LeasesPaid
    BY <2>1, ShapeFacts
  <2>4. /\ budget.priority \in 0..PriorityCap /\ budget.general \in 0..GeneralCap
        /\ budget.priorityRest \in 0..Minute - 1 /\ budget.generalRest \in 0..Minute - 1
        /\ budget.last \in Nat /\ budget.until \in Int /\ budget.failures \in 0..5
    BY <2>3, BudgetsHaveFields
  <2>5. charged \in Nat
    <3>1. PICK up : up = Cardinality(UnitsOf(inFlight, Slots, "priority"))
      OBVIOUS
    <3>2. PICK ug : ug = Cardinality(UnitsOf(inFlight, Slots, "general"))
      OBVIOUS
    <3>3. up \in Nat /\ ug \in Nat
      BY <3>1, <3>2, UnitsAreCounted DEF Pools
    <3>4. up + ug <= charged
      BY <2>1, <3>1, <3>2, ShapeFacts
    <3> QED
      BY <2>3, <3>3, <3>4
  <2>6. BudgetTypeOK
    BY <2>1, <2>3, <2>4, <2>5 DEF BudgetTypeOK, LeaseTable, BudgetInv, ShapeInv
  <2>7. RateBounded
    <3>1. Due \in Nat
      BY <2>3, <2>4 DEF Due
    <3>2. /\ Envelope * Due \in Nat /\ charged * Minute \in Int
          /\ Envelope * (Minute + real) \in Int
      BY <2>2, <2>3, <3>1, BudgetAssumption
    <3>3. PICK credit : credit = Credit(budget)
      OBVIOUS
    <3>4. credit \in Int
      BY <2>2, <2>4, <3>3 DEF Credit, PriorityCredit, GeneralCredit
    <3>5. credit + Envelope * Due + charged * Minute <= Envelope * (Minute + real)
      BY <2>1, <3>3 DEF BudgetInv, RateInv
    <3>6. credit + charged * Minute <= Envelope * (Minute + real)
      BY <3>2, <3>4, <3>5
    <3> QED
      BY <3>3, <3>6 DEF RateBounded, HeldCredit, Credit, PriorityCredit, GeneralCredit
  <2> QED
    BY <2>1, <2>3, <2>6, <2>7 DEF BudgetSafe, BudgetInv, CreditInv
<1> QED
  BY <1>1, BudgetInvariant, PTL

-----------------------------------------------------------------------------
(* The capture of a WebSocket connection.                                  *)

Classes == {"SnapshotReplace", "DuplicateSnapshot"}
Items == Frames \X Classes

Listed(list, n) == \E i \in 1..Len(list) : list[i] = n
Ascends(list) == \A i, j \in 1..Len(list) : i < j => list[i] < list[j]

(* A list of frames that were received and are in the archive.             *)
FrameList(list) ==
  /\ list \in Seq(Frames) /\ Ascends(list)
  /\ \A i \in 1..Len(list) : list[i] <= Latest /\ received[list[i]] \in wsArchive

Walking == wsStep \in {"fan", "commit", "drop"}

WsTyped ==
  /\ received \in Seq(FrameBodies) /\ Latest <= MaxFrames
  /\ wsArchive \subseteq FrameBodies
  /\ wsStep \in {"idle", "archived", "fan", "commit", "drop"}
  /\ class \in Classes
  /\ snapshotHash \in [Subscriptions -> Snapshots \cup {NoSnapshot}]
  /\ readerState \in [Subscriptions -> Snapshots \cup {NoSnapshot}]
  /\ fanout \in Seq(Items) /\ Len(fanout) <= FanoutCapacity
  /\ \A i \in 1..Len(fanout) : fanout[i][1] <= Latest
  /\ pushed \in Seq(Frames) /\ \A i \in 1..Len(pushed) : pushed[i] <= Latest
  /\ owed \subseteq Frames
  /\ readFaults \in BOOLEAN

(* A saved frame is pushed or queued, on disk and in memory.               *)
QueueInv ==
  /\ FrameList(wsPending) /\ FrameList(wsSaved)
  /\ work \in Seq(Frames) /\ \A i \in 1..Len(work) : work[i] <= Latest
  /\ wsStep = "archived" =>
       /\ Latest # 0 /\ received[Latest] \in wsArchive
       /\ \A i \in 1..Len(wsPending) : wsPending[i] < Latest
  /\ wsStep \in {"commit", "drop"} => work # <<>> /\ Pushed(Head(work))
  /\ \A n \in owed : /\ n <= Latest /\ received[n] \in wsArchive
                     /\ Pushed(n) \/ Listed(wsSaved, n)
  /\ \A n \in Frames : Listed(wsSaved, n) => Pushed(n) \/ Listed(wsPending, n)

(* Unless reading the archive failed, a queued frame with a lower number   *)
(* than one that was pushed had been pushed before it.                     *)
OrderInv ==
  ~readFaults =>
    /\ Walking => work = wsPending
    /\ \A n \in Frames : Listed(wsPending, n) \/ Listed(wsSaved, n) =>
         \A i \in 1..Len(pushed) : n < pushed[i] => \E k \in 1..i : pushed[k] = n
    /\ FirstPushInOrder

Sub(i) == received[fanout[i][1]][1]
Body(i) == received[fanout[i][1]][2]

(* What the reader holds of subscription s once it has taken the first n   *)
(* items, if each is replaced or repeated.                                 *)
HeldAt(s, n, v) ==
  IF \E i \in 1..n : Sub(i) = s
  THEN \E i \in 1..n : Sub(i) = s /\ Body(i) = v /\ \A k \in i + 1..n : Sub(k) # s
  ELSE v = readerState[s]

(* What the session remembers when commit_applied is done.                 *)
Remembered(s) ==
  IF wsStep = "commit" /\ received[Head(work)][1] = s THEN received[Head(work)][2]
  ELSE snapshotHash[s]

ReaderInv ==
  /\ \A i \in 1..Len(fanout) : fanout[i][2] = "DuplicateSnapshot" => HeldAt(Sub(i), i - 1, Body(i))
  /\ \A s \in Subscriptions : HeldAt(s, Len(fanout), Remembered(s))

WsInv == WsTyped /\ QueueInv /\ OrderInv /\ ReaderInv

-----------------------------------------------------------------------------
(* Lists of frames.                                                        *)
LEMMA ListFacts ==
  ASSUME NEW list \in Seq(Frames)
  PROVE  /\ Len(list) \in Nat /\ \A i \in 1..Len(list) : list[i] \in Frames /\ list[i] \in Nat \ {0}
         /\ list # <<>> => /\ Len(list) \in Nat \ {0} /\ Head(list) = list[1]
                           /\ Tail(list) \in Seq(Frames) /\ Len(Tail(list)) = Len(list) - 1
                           /\ \A i \in 1..Len(list) - 1 : Tail(list)[i] = list[i + 1]
<1>1. Len(list) \in Nat
  BY LenProperties
<1>2. \A i \in 1..Len(list) : list[i] \in Frames
  BY ElementOfSeq
<1>3. Frames \subseteq Nat \ {0}
  BY WsAssumption DEF Frames
<1>4. ASSUME list # <<>>
      PROVE  /\ Len(list) \in Nat \ {0} /\ Head(list) = list[1]
             /\ Tail(list) \in Seq(Frames) /\ Len(Tail(list)) = Len(list) - 1
             /\ \A i \in 1..Len(list) - 1 : Tail(list)[i] = list[i + 1]
  <2>1. Len(list) \in Nat \ {0}
    BY <1>4, EmptySeq
  <2>2. /\ Tail(list) \in Seq(Frames) /\ Len(Tail(list)) = Len(list) - 1
        /\ \A i \in 1..Len(Tail(list)) : Tail(list)[i] = list[i + 1]
    BY <1>4, HeadTailProperties
  <2>3. Head(list) = list[1]
    OBVIOUS
  <2> QED
    BY <2>1, <2>2, <2>3
<1> QED
  BY <1>1, <1>2, <1>3, <1>4

(* A frame is added to a list.                                             *)
LEMMA AppendedList ==
  ASSUME NEW list \in Seq(Frames), NEW n \in Frames
  PROVE  /\ Append(list, n) \in Seq(Frames) /\ Len(Append(list, n)) = Len(list) + 1
         /\ \A i \in 1..Len(list) : Append(list, n)[i] = list[i]
         /\ Append(list, n)[Len(list) + 1] = n
         /\ \A x : Listed(Append(list, n), x) <=> Listed(list, x) \/ x = n
<1>1. /\ Append(list, n) \in Seq(Frames) /\ Len(Append(list, n)) = Len(list) + 1
      /\ \A i \in 1..Len(list) : Append(list, n)[i] = list[i]
      /\ Append(list, n)[Len(list) + 1] = n
  BY AppendProperties
<1>2. Len(list) \in Nat
  BY ListFacts
<1>3. \A i \in 1..Len(list) + 1 : i \in 1..Len(list) \/ i = Len(list) + 1
  BY <1>2
<1>4. \A i \in 1..Len(list) : i \in 1..Len(list) + 1
  BY <1>2
<1>5. Len(list) + 1 \in 1..Len(list) + 1
  BY <1>2
<1> QED
  BY <1>1, <1>3, <1>4, <1>5 DEF Listed

(* retain of drop_pending.                                                 *)
LEMMA WithoutShape ==
  ASSUME NEW list \in Seq(Frames), NEW n, Listed(list, n)
  PROVE  \E i \in 1..Len(list) :
           /\ list[i] = n
           /\ Without(list, n) \in Seq(Frames) /\ Len(Without(list, n)) = Len(list) - 1
           /\ \A j \in 1..Len(list) - 1 :
                Without(list, n)[j] = IF j < i THEN list[j] ELSE list[j + 1]
<1> DEFINE i == CHOOSE k \in 1..Len(list) : list[k] = n
           a == SubSeq(list, 1, i - 1)
           b == SubSeq(list, i + 1, Len(list))
<1>1. i \in 1..Len(list) /\ list[i] = n
  BY DEF Listed
<1>2. Without(list, n) = a \o b
  BY DEF Without, Listed
<1>3. Len(list) \in Nat /\ \A j \in 1..Len(list) : list[j] \in Frames
  BY ListFacts
<1> HIDE DEF i
<1>4. /\ a \in Seq(Frames) /\ Len(a) = i - 1 /\ \A j \in 1..i - 1 : a[j] = list[j]
  <2>1. i - 1 \in Int /\ \A j \in 1..i - 1 : list[j] \in Frames
    BY <1>1, <1>3
  <2>2. /\ a \in Seq(Frames) /\ Len(a) = IF 1 <= i - 1 THEN i - 1 - 1 + 1 ELSE 0
        /\ \A j \in 1..i - 1 - 1 + 1 : a[j] = list[1 + j - 1]
    BY <2>1, SubSeqProperties
  <2> QED
    BY <1>1, <1>3, <2>2
<1>5. /\ b \in Seq(Frames) /\ Len(b) = Len(list) - i /\ \A j \in 1..Len(list) - i : b[j] = list[i + j]
  <2>1. i + 1 \in Int /\ Len(list) \in Int /\ \A j \in i + 1..Len(list) : list[j] \in Frames
    BY <1>1, <1>3
  <2>2. /\ b \in Seq(Frames) /\ Len(b) = IF i + 1 <= Len(list) THEN Len(list) - (i + 1) + 1 ELSE 0
        /\ \A j \in 1..Len(list) - (i + 1) + 1 : b[j] = list[(i + 1) + j - 1]
    BY <2>1, SubSeqProperties
  <2> QED
    BY <1>1, <1>3, <2>2
<1> HIDE DEF a, b
<1>6. /\ a \o b \in Seq(Frames) /\ Len(a \o b) = Len(a) + Len(b)
      /\ \A j \in 1..Len(a) + Len(b) : (a \o b)[j] = IF j <= Len(a) THEN a[j] ELSE b[j - Len(a)]
  BY <1>4, <1>5, ConcatProperties
<1>7. ASSUME NEW j \in 1..Len(list) - 1
      PROVE  (a \o b)[j] = IF j < i THEN list[j] ELSE list[j + 1]
  <2>1. CASE j < i
    BY <1>1, <1>3, <1>4, <1>5, <1>6, <2>1
  <2>2. CASE ~(j < i)
    <3>1. (a \o b)[j] = b[j - (i - 1)]
      BY <1>1, <1>3, <1>4, <1>5, <1>6, <2>2
    <3>2. PICK k : k = j - (i - 1)
      OBVIOUS
    <3>3. i \in Int /\ j \in Int /\ Len(list) \in Int
      BY <1>1, <1>3
    <3>4. k \in 1..Len(list) - i /\ i + k = j + 1
      BY <1>1, <2>2, <3>2, <3>3
    <3>5. b[k] = list[i + k]
      BY <1>5, <3>4
    <3> QED
      BY <2>2, <3>1, <3>2, <3>4, <3>5
  <2> QED
    BY <2>1, <2>2
<1>8. Len(a \o b) = Len(list) - 1
  BY <1>1, <1>3, <1>4, <1>5, <1>6
<1> QED
  BY <1>1, <1>2, <1>6, <1>7, <1>8

(* A frame is taken from a list.                                           *)
LEMMA WithoutFacts ==
  ASSUME NEW list \in Seq(Frames), NEW n, Ascends(list)
  PROVE  /\ Without(list, n) \in Seq(Frames) /\ Ascends(Without(list, n))
         /\ \A x : Listed(Without(list, n), x) => Listed(list, x)
         /\ \A x : x # n /\ Listed(list, x) => Listed(Without(list, n), x)
         /\ list # <<>> /\ n = Head(list) => Without(list, n) = Tail(list)
<1>1. CASE ~Listed(list, n)
  <2>1. Without(list, n) = list
    BY <1>1 DEF Without, Listed
  <2>2. list # <<>> => Listed(list, Head(list))
    BY ListFacts DEF Listed
  <2> QED
    BY <1>1, <2>1, <2>2
<1>2. CASE Listed(list, n)
  <2> DEFINE new == Without(list, n)
  <2>1. PICK i \in 1..Len(list) :
           /\ list[i] = n /\ new \in Seq(Frames) /\ Len(new) = Len(list) - 1
           /\ \A j \in 1..Len(list) - 1 : new[j] = IF j < i THEN list[j] ELSE list[j + 1]
    BY <1>2, WithoutShape
  <2>2. Len(list) \in Nat \ {0} /\ \A j \in 1..Len(list) : list[j] \in Nat
    BY <2>1, ListFacts
  <2> HIDE DEF new
  <2>3. Ascends(new)
    <3> SUFFICES ASSUME NEW j \in 1..Len(new), NEW k \in 1..Len(new), j < k PROVE new[j] < new[k]
      BY DEF Ascends
    <3> DEFINE p == IF j < i THEN j ELSE j + 1
               q == IF k < i THEN k ELSE k + 1
    <3>1. p \in 1..Len(list) /\ q \in 1..Len(list) /\ p < q
      BY <2>1, <2>2
    <3>2. new[j] = list[p] /\ new[k] = list[q]
      BY <2>1, <2>2
    <3> QED
      BY <3>1, <3>2 DEF Ascends
  <2>4. \A x : Listed(new, x) => Listed(list, x)
    <3> SUFFICES ASSUME NEW x, NEW j \in 1..Len(new), new[j] = x PROVE Listed(list, x)
      BY DEF Listed
    <3>1. PICK p \in 1..Len(list) : new[j] = list[p]
      BY <2>1, <2>2
    <3> QED
      BY <3>1 DEF Listed
  <2>5. \A x : x # n /\ Listed(list, x) => Listed(new, x)
    <3> SUFFICES ASSUME NEW x, x # n, NEW j \in 1..Len(list), list[j] = x PROVE Listed(new, x)
      BY DEF Listed
    <3>1. CASE j < i
      <4>1. j \in 1..Len(new) /\ new[j] = x
        BY <2>1, <2>2, <3>1
      <4> QED
        BY <4>1 DEF Listed
    <3>2. CASE j > i
      <4>1. j - 1 \in 1..Len(new) /\ new[j - 1] = list[(j - 1) + 1] /\ (j - 1) + 1 = j
        BY <2>1, <2>2, <3>2
      <4> QED
        BY <4>1 DEF Listed
    <3> QED
      BY <2>1, <2>2, <3>1, <3>2
  <2>6. ASSUME list # <<>>, n = Head(list) PROVE new = Tail(list)
    <3>1. /\ Head(list) = list[1] /\ Tail(list) \in Seq(Frames) /\ Len(Tail(list)) = Len(list) - 1
          /\ \A j \in 1..Len(list) - 1 : Tail(list)[j] = list[j + 1]
      BY <2>6, ListFacts
    <3>2. i = 1
      <4>1. 1 \in 1..Len(list) /\ list[1] = list[i]
        BY <2>1, <2>2, <2>6, <3>1
      <4>2. 1 < i => list[1] < list[i]
        BY <4>1 DEF Ascends
      <4> QED
        BY <2>2, <4>1, <4>2
    <3>3. \A j \in 1..Len(new) : new[j] = Tail(list)[j]
      BY <2>1, <2>2, <3>1, <3>2
    <3> QED
      BY <2>1, <3>1, <3>3, SeqEqual
  <2> QED
    BY <2>1, <2>3, <2>4, <2>5, <2>6 DEF new
<1> QED
  BY <1>1, <1>2

(* What the lists of the checkpoint hold when more is received.            *)
LEMMA TypeFacts ==
  ASSUME WsTyped
  PROVE  /\ Latest \in Nat /\ \A n \in 1..Latest : n \in Frames /\ received[n] \in FrameBodies
         /\ Len(fanout) \in Nat /\ Len(pushed) \in Nat
         /\ \A i \in 1..Len(fanout) : /\ fanout[i] \in Items /\ fanout[i][1] \in 1..Latest
                                       /\ fanout[i][2] \in Classes
                                       /\ Sub(i) \in Subscriptions /\ Body(i) \in Snapshots
         /\ \A i \in 1..Len(pushed) : pushed[i] \in Frames /\ pushed[i] \in 1..Latest
<1>1. Latest \in Nat
  BY LenProperties DEF WsTyped, Latest
<1>2. \A n \in 1..Latest : n \in Frames /\ received[n] \in FrameBodies
  <2>1. \A n \in 1..Latest : received[n] \in FrameBodies
    BY ElementOfSeq DEF WsTyped, Latest
  <2> QED
    BY <1>1, <2>1, WsAssumption DEF WsTyped, Frames
<1>3. Len(fanout) \in Nat /\ Len(pushed) \in Nat
  BY LenProperties DEF WsTyped
<1>4. ASSUME NEW i \in 1..Len(fanout)
      PROVE  /\ fanout[i] \in Items /\ fanout[i][1] \in 1..Latest /\ fanout[i][2] \in Classes
             /\ Sub(i) \in Subscriptions /\ Body(i) \in Snapshots
  <2>1. fanout[i] \in Items
    BY ElementOfSeq DEF WsTyped
  <2>2. fanout[i][1] \in Frames /\ fanout[i][2] \in Classes /\ fanout[i][1] <= Latest
    BY <2>1 DEF Items, WsTyped
  <2>3. fanout[i][1] \in 1..Latest
    BY <1>1, <2>2, WsAssumption DEF Frames
  <2>4. received[fanout[i][1]] \in FrameBodies
    BY <1>2, <2>3
  <2> QED
    BY <2>1, <2>2, <2>3, <2>4 DEF FrameBodies, Sub, Body
<1>5. ASSUME NEW i \in 1..Len(pushed) PROVE pushed[i] \in Frames /\ pushed[i] \in 1..Latest
  <2>1. pushed[i] \in Frames
    BY ElementOfSeq DEF WsTyped
  <2>2. pushed[i] <= Latest
    BY DEF WsTyped
  <2> QED
    BY <1>1, <2>1, <2>2, WsAssumption DEF Frames
<1> QED
  BY <1>1, <1>2, <1>3, <1>4, <1>5

(* Nothing is received at first.                                           *)
LEMMA WsInitHolds == ASSUME WsInit PROVE WsInv
<1>1. /\ Latest = 0 /\ Len(<<>>) = 0 /\ received = <<>> /\ wsPending = <<>> /\ wsSaved = <<>>
      /\ work = <<>> /\ fanout = <<>> /\ pushed = <<>> /\ owed = {} /\ wsStep = "idle"
  BY DEF WsInit, Latest
<1>2. WsTyped
  <2>1. snapshotHash \in [Subscriptions -> Snapshots \cup {NoSnapshot}]
        /\ readerState \in [Subscriptions -> Snapshots \cup {NoSnapshot}]
    BY DEF WsInit
  <2>2. received \in Seq(FrameBodies) /\ fanout \in Seq(Items) /\ pushed \in Seq(Frames)
    BY <1>1, EmptySeq
  <2>3. Latest <= MaxFrames /\ Len(fanout) <= FanoutCapacity
    BY <1>1, WsAssumption
  <2>4. wsArchive = {} /\ class \in Classes
    BY DEF WsInit, Classes
  <2>5. readFaults \in BOOLEAN
    BY DEF WsInit
  <2> QED
    BY <1>1, <2>1, <2>2, <2>3, <2>4, <2>5 DEF WsTyped
<1>3. QueueInv
  BY <1>1 DEF QueueInv, FrameList, Ascends, Listed
<1>4. OrderInv
  BY <1>1 DEF OrderInv, Walking, Listed, FirstPushInOrder
<1>5. ReaderInv
  BY <1>1 DEF WsInit, ReaderInv, HeldAt, Remembered
<1> QED
  BY <1>2, <1>3, <1>4, <1>5 DEF WsInv

-----------------------------------------------------------------------------
(* Frames stay what they are when another is received.                     *)
LEMMA FrameListGrows ==
  ASSUME NEW list, FrameList(list), Latest \in Nat, Latest' \in Nat, Latest <= Latest',
         \A n \in 1..Latest : received'[n] = received[n], wsArchive \subseteq wsArchive'
  PROVE  FrameList(list)'
<1>1. \A i \in 1..Len(list) : list[i] \in Nat \ {0}
  BY ListFacts DEF FrameList
<1>2. \A i \in 1..Len(list) : list[i] <= Latest /\ received[list[i]] \in wsArchive
  BY DEF FrameList
<1>3. \A i \in 1..Len(list) : list[i] \in 1..Latest /\ list[i] <= Latest'
  BY <1>1, <1>2
<1> QED
  BY <1>2, <1>3 DEF FrameList

(* The reader and the session, as far as the first n items go.             *)
LEMMA HeldStable ==
  ASSUME NEW n \in Nat, \A i \in 1..n : Sub(i)' = Sub(i) /\ Body(i)' = Body(i),
         readerState' = readerState, NEW s, NEW v
  PROVE  HeldAt(s, n, v)' <=> HeldAt(s, n, v)
<1>1. \A i \in 1..n : \A k \in i + 1..n : Sub(k)' = Sub(k)
  OBVIOUS
<1> QED
  BY <1>1 DEF HeldAt

(* A reader stays right while fan-out and session do.                      *)
LEMMA ReaderUnchanged ==
  ASSUME WsTyped, ReaderInv, UNCHANGED <<fanout, readerState, snapshotHash>>,
         \A n \in 1..Latest : received'[n] = received[n],
         wsStep # "commit", wsStep' # "commit"
  PROVE  ReaderInv'
<1>1. Len(fanout) \in Nat /\ \A i \in 1..Len(fanout) : fanout[i][1] \in 1..Latest
  BY TypeFacts
<1>2. \A i \in 1..Len(fanout) : Sub(i)' = Sub(i) /\ Body(i)' = Body(i)
  BY <1>1 DEF Sub, Body
<1>3. \A s : Remembered(s)' = Remembered(s)
  BY DEF Remembered
<1>4. \A s, v : \A n \in 0..Len(fanout) : HeldAt(s, n, v)' <=> HeldAt(s, n, v)
  <2> SUFFICES ASSUME NEW s, NEW v, NEW n \in 0..Len(fanout) PROVE HeldAt(s, n, v)' <=> HeldAt(s, n, v)
    OBVIOUS
  <2>1. n \in Nat /\ \A i \in 1..n : Sub(i)' = Sub(i) /\ Body(i)' = Body(i)
    BY <1>1, <1>2
  <2> QED
    BY <2>1, HeldStable
<1>5. ASSUME NEW i \in 1..Len(fanout'), fanout'[i][2] = "DuplicateSnapshot"
      PROVE  HeldAt(Sub(i), i - 1, Body(i))'
  <2>1. i \in 1..Len(fanout) /\ i - 1 \in 0..Len(fanout)
    BY <1>1
  <2>2. HeldAt(Sub(i), i - 1, Body(i))
    BY <1>5, <2>1 DEF ReaderInv
  <2>3. Sub(i)' = Sub(i) /\ Body(i)' = Body(i)
    BY <1>2, <2>1
  <2> QED
    BY <1>4, <2>1, <2>2, <2>3
<1>6. ASSUME NEW s \in Subscriptions PROVE HeldAt(s, Len(fanout), Remembered(s))'
  <2>1. HeldAt(s, Len(fanout), Remembered(s)) /\ Len(fanout) \in 0..Len(fanout)
    BY <1>1 DEF ReaderInv
  <2>2. Len(fanout)' = Len(fanout)
    OBVIOUS
  <2> QED
    BY <1>3, <1>4, <2>1, <2>2
<1> QED
  BY <1>5, <1>6 DEF ReaderInv

(* ingest.                                                                 *)
LEMMA IngestFrameKeeps == ASSUME WsInv, IngestFrame PROVE WsInv'
<1>0. WsTyped /\ QueueInv /\ OrderInv /\ ReaderInv
  BY DEF WsInv
<1>1. PICK b \in FrameBodies :
        /\ received' = Append(received, b)
        /\ \/ wsArchive' = wsArchive \cup {b} /\ wsStep' = "archived"
           \/ wsArchive' = wsArchive /\ wsStep' = wsStep
  BY DEF IngestFrame
<1>2. /\ wsStep = "idle" /\ Latest < MaxFrames
      /\ UNCHANGED <<wsPending, work, class, snapshotHash, fanout, wsSaved, readerState, pushed, owed, readFaults>>
  BY DEF IngestFrame
<1>3. /\ received' \in Seq(FrameBodies) /\ Latest' = Latest + 1 /\ received'[Latest + 1] = b
      /\ \A n \in 1..Latest : received'[n] = received[n]
  BY <1>0, <1>1, AppendProperties DEF WsTyped, Latest
<1>4. Latest \in Nat /\ Latest' \in Nat /\ Latest <= Latest' /\ wsArchive \subseteq wsArchive'
      /\ Latest' <= MaxFrames
  BY <1>0, <1>1, <1>2, <1>3, TypeFacts, WsAssumption
<1>5. WsTyped'
  <2>1. \A i \in 1..Len(fanout) : fanout[i][1] <= Latest'
    BY <1>0, <1>3, <1>4, TypeFacts
  <2>2. \A i \in 1..Len(pushed) : pushed[i] <= Latest'
    BY <1>0, <1>3, <1>4, TypeFacts
  <2> QED
    BY <1>0, <1>1, <1>2, <1>3, <1>4, <2>1, <2>2 DEF WsTyped
<1>6. QueueInv'
  <2>1. FrameList(wsPending)' /\ FrameList(wsSaved)'
    <3>1. FrameList(wsPending) /\ FrameList(wsSaved)
      BY <1>0 DEF QueueInv
    <3> QED
      BY <1>2, <1>3, <1>4, <3>1, FrameListGrows DEF FrameList
  <2>2. work \in Seq(Frames) /\ \A i \in 1..Len(work) : work[i] <= Latest'
    <3>1. work \in Seq(Frames) /\ \A i \in 1..Len(work) : work[i] <= Latest
      BY <1>0 DEF QueueInv
    <3>2. \A i \in 1..Len(work) : work[i] \in Nat
      BY <3>1, ListFacts
    <3> QED
      BY <1>3, <1>4, <3>1, <3>2
  <2>3. ASSUME wsStep' = "archived"
        PROVE  /\ Latest' # 0 /\ received'[Latest'] \in wsArchive'
               /\ \A i \in 1..Len(wsPending) : wsPending[i] < Latest'
    <3>1. received'[Latest'] = b /\ b \in wsArchive'
      BY <1>1, <1>2, <1>3, <2>3
    <3>2. \A i \in 1..Len(wsPending) : wsPending[i] \in Nat /\ wsPending[i] <= Latest
      BY <1>0, ListFacts DEF QueueInv, FrameList
    <3> QED
      BY <1>3, <1>4, <3>1, <3>2
  <2>4. ASSUME NEW n \in owed
        PROVE  n <= Latest' /\ received'[n] \in wsArchive' /\ (Pushed(n)' \/ Listed(wsSaved, n))
    <3>1. n \in Frames /\ n <= Latest /\ received[n] \in wsArchive /\ (Pushed(n) \/ Listed(wsSaved, n))
      BY <1>0 DEF QueueInv, WsTyped
    <3>2. n \in 1..Latest
      BY <1>4, <3>1, WsAssumption DEF Frames
    <3> QED
      BY <1>2, <1>3, <1>4, <3>1, <3>2 DEF Pushed
  <2>5. \A n \in Frames : Listed(wsSaved, n) => Pushed(n)' \/ Listed(wsPending, n)
    BY <1>0, <1>2 DEF QueueInv, Pushed
  <2>6. wsStep' \in {"idle", "archived"}
    BY <1>1, <1>2
  <2> QED
    BY <1>2, <2>1, <2>2, <2>3, <2>4, <2>5, <2>6 DEF QueueInv
<1>7. OrderInv'
  <2>1. ~Walking'
    BY <1>1, <1>2 DEF Walking
  <2> QED
    BY <1>0, <1>2, <2>1 DEF OrderInv, FirstPushInOrder
<1>8. ReaderInv'
  <2>1. wsStep # "commit" /\ wsStep' # "commit"
    BY <1>1, <1>2
  <2> QED
    BY <1>0, <1>2, <1>3, <2>1, ReaderUnchanged
<1> QED
  BY <1>5, <1>6, <1>7, <1>8 DEF WsInv

(* The frame is queued, in memory and, unless the save fails, on disk.     *)
LEMMA QueueFrameKeeps == ASSUME WsInv, QueueFrame PROVE WsInv'
<1> DEFINE list == wsPending'
<1>0. WsTyped /\ QueueInv /\ OrderInv /\ ReaderInv
  BY DEF WsInv
<1>1. /\ wsStep = "archived" /\ list = Append(wsPending, Latest)
      /\ UNCHANGED <<received, wsArchive, class, snapshotHash, fanout, readerState, pushed, readFaults>>
  BY DEF QueueFrame
<1>2. \/ /\ wsSaved' = list /\ wsStep' = "fan" /\ work' = list
         /\ owed' = owed \cup {list[i] : i \in 1..Len(list)}
      \/ wsStep' = "idle" /\ UNCHANGED <<wsSaved, work, owed>>
  BY DEF QueueFrame
<1>3. /\ FrameList(wsPending) /\ FrameList(wsSaved) /\ Latest # 0 /\ received[Latest] \in wsArchive
      /\ \A i \in 1..Len(wsPending) : wsPending[i] < Latest
      /\ wsPending \in Seq(Frames)
  BY <1>0, <1>1 DEF QueueInv, FrameList
<1>4. Latest' = Latest /\ Latest \in Nat /\ Latest \in Frames
  <2>1. Latest' = Latest
    BY <1>1 DEF Latest
  <2>2. Latest \in Nat /\ \A n \in 1..Latest : n \in Frames
    BY <1>0, TypeFacts
  <2> QED
    BY <1>3, <2>1, <2>2
<1>5. /\ list \in Seq(Frames) /\ Len(list) = Len(wsPending) + 1 /\ Len(wsPending) \in Nat
      /\ \A i \in 1..Len(wsPending) : list[i] = wsPending[i]
      /\ list[Len(wsPending) + 1] = Latest
      /\ \A x : Listed(list, x) <=> Listed(wsPending, x) \/ x = Latest
  BY <1>1, <1>3, <1>4, AppendedList, ListFacts
<1> HIDE DEF list
<1>6. FrameList(list)
  <2>1. Ascends(list)
    <3> SUFFICES ASSUME NEW i \in 1..Len(list), NEW j \in 1..Len(list), i < j PROVE list[i] < list[j]
      BY DEF Ascends
    <3>1. i \in 1..Len(wsPending)
      BY <1>5
    <3>2. CASE j \in 1..Len(wsPending)
      BY <1>3, <1>5, <3>1, <3>2 DEF FrameList, Ascends
    <3>3. CASE j = Len(wsPending) + 1
      BY <1>3, <1>5, <3>1, <3>3
    <3> QED
      BY <1>5, <3>2, <3>3
  <2>2. \A i \in 1..Len(list) : list[i] <= Latest /\ received[list[i]] \in wsArchive
    <3> SUFFICES ASSUME NEW i \in 1..Len(list) PROVE list[i] <= Latest /\ received[list[i]] \in wsArchive
      OBVIOUS
    <3>1. CASE i \in 1..Len(wsPending)
      BY <1>3, <1>5, <3>1 DEF FrameList
    <3>2. CASE i = Len(wsPending) + 1
      BY <1>3, <1>4, <1>5, <3>2
    <3> QED
      BY <1>5, <3>1, <3>2
  <2> QED
    BY <1>5, <2>1, <2>2 DEF FrameList
<1>7. FrameList(wsPending)' /\ FrameList(wsSaved)'
  <2>1. \A l : FrameList(l) => /\ l \in Seq(Frames) /\ Ascends(l)
                              /\ \A i \in 1..Len(l) : l[i] <= Latest' /\ received'[l[i]] \in wsArchive'
    BY <1>1, <1>4 DEF FrameList
  <2>2. wsPending' = list /\ (wsSaved' = list \/ wsSaved' = wsSaved)
    BY <1>2 DEF list
  <2> QED
    BY <1>3, <1>6, <2>1, <2>2 DEF FrameList
<1>8. WsTyped'
  <2>1. {list[i] : i \in 1..Len(list)} \subseteq Frames
    BY <1>5, ListFacts
  <2> QED
    BY <1>0, <1>1, <1>2, <1>4, <2>1 DEF WsTyped
<1>9. QueueInv'
  <2>0. \A n : Pushed(n)' <=> Pushed(n)
    BY <1>1 DEF Pushed
  <2>1. ASSUME NEW n \in owed'
        PROVE  n <= Latest /\ received[n] \in wsArchive /\ (Pushed(n) \/ Listed(wsSaved', n))
    <3>1. CASE n \in owed
      <4>1. n \in Frames /\ n <= Latest /\ received[n] \in wsArchive /\ (Pushed(n) \/ Listed(wsSaved, n))
        BY <1>0, <3>1 DEF QueueInv, WsTyped
      <4>2. Pushed(n) \/ (Listed(wsSaved, n) /\ Listed(wsPending, n))
        BY <1>0, <4>1 DEF QueueInv
      <4> QED
        BY <1>2, <1>5, <4>1, <4>2
    <3>2. CASE n \notin owed
      <4>1. /\ wsSaved' = list
            /\ \E i \in 1..Len(list) : n = list[i]
        BY <1>2, <3>2
      <4> QED
        BY <1>6, <4>1 DEF FrameList, Listed
    <3> QED
      BY <3>1, <3>2
  <2>2. ASSUME NEW n \in Frames, Listed(wsSaved', n) PROVE Pushed(n) \/ Listed(list, n)
    <3>1. CASE wsSaved' = list
      BY <2>2, <3>1
    <3>2. CASE wsSaved' = wsSaved
      BY <1>0, <1>5, <2>2, <3>2 DEF QueueInv
    <3> QED
      BY <1>2, <3>1, <3>2
  <2>3. work' \in Seq(Frames) /\ \A i \in 1..Len(work') : work'[i] <= Latest
    <3>1. CASE work' = list
      BY <1>6, <3>1 DEF FrameList
    <3>2. CASE work' = work
      BY <1>0, <3>2 DEF QueueInv
    <3> QED
      BY <1>2, <3>1, <3>2
  <2>4. wsPending' = list
    BY DEF list
  <2> QED
    BY <1>1, <1>2, <1>4, <1>7, <2>0, <2>1, <2>2, <2>3, <2>4 DEF QueueInv
<1>10. OrderInv'
  <2>1. Walking' => work' = wsPending'
    BY <1>2 DEF Walking, list
  <2>2. ASSUME ~readFaults, NEW n \in Frames, Listed(list, n) \/ Listed(wsSaved', n),
               NEW i \in 1..Len(pushed), n < pushed[i]
        PROVE  \E k \in 1..i : pushed[k] = n
    <3>1. Listed(wsPending, n) \/ n = Latest \/ Listed(wsSaved, n)
      BY <1>2, <1>5, <2>2
    <3>2. n # Latest
      <4>1. pushed[i] \in 1..Latest
        BY <1>0, TypeFacts
      <4> QED
        BY <1>4, <2>2, <4>1
    <3> QED
      BY <1>0, <2>2, <3>1, <3>2 DEF OrderInv
  <2>3. wsPending' = list
    BY DEF list
  <2>4. ~readFaults => FirstPushInOrder'
    BY <1>0, <1>1 DEF OrderInv, FirstPushInOrder
  <2> QED
    BY <1>1, <2>1, <2>2, <2>3, <2>4 DEF OrderInv
<1>11. ReaderInv'
  <2>1. wsStep # "commit" /\ wsStep' # "commit"
    BY <1>1, <1>2
  <2> QED
    BY <1>0, <1>1, <2>1, ReaderUnchanged
<1> QED
  BY <1>8, <1>9, <1>10, <1>11 DEF WsInv

(* Steps that change neither the lists nor what was pushed.                *)
LEMMA ListsUnchanged ==
  ASSUME QueueInv, OrderInv,
         UNCHANGED <<received, wsArchive, wsPending, wsSaved, pushed, owed>>,
         work' \in Seq(Frames), \A i \in 1..Len(work') : work'[i] <= Latest,
         wsStep' # "archived",
         wsStep' \in {"commit", "drop"} => work' # <<>> /\ Pushed(Head(work')),
         readFaults' = readFaults \/ readFaults' = TRUE,
         ~readFaults' /\ wsStep' \in {"fan", "commit", "drop"} => work' = wsPending
  PROVE  QueueInv' /\ OrderInv'
<1>1. Latest' = Latest /\ (\A n : Pushed(n)' <=> Pushed(n))
  BY DEF Latest, Pushed
<1>2. FrameList(wsPending)' /\ FrameList(wsSaved)'
  BY <1>1 DEF QueueInv, FrameList
<1>3. Pushed(Head(work))' <=> Pushed(Head(work'))
  BY DEF Pushed
<1>4. QueueInv'
  BY <1>1, <1>2, <1>3 DEF QueueInv
<1>5. FirstPushInOrder' \/ readFaults'
  BY DEF OrderInv, FirstPushInOrder
<1>6. OrderInv'
  BY <1>5 DEF OrderInv, Walking
<1> QED
  BY <1>4, <1>6

(* replay_pending, a frame that cannot be read, the end of the walk.       *)
LEMMA WalkStepKeeps == ASSUME WsInv, ReplayFrames \/ SkipFrame \/ FanOutDone PROVE WsInv'
<1>0. WsTyped /\ QueueInv /\ OrderInv /\ ReaderInv
  BY DEF WsInv
<1>1. /\ UNCHANGED <<received, wsArchive, wsPending, wsSaved, pushed, owed, class, snapshotHash, fanout, readerState>>
      /\ wsStep # "commit" /\ wsStep' \in {"fan", "idle"}
      /\ readFaults' = readFaults \/ readFaults' = TRUE
      /\ work' = work \/ (work # <<>> /\ work' = Tail(work) /\ readFaults' = TRUE) \/ work' = wsPending
      /\ ~readFaults' /\ wsStep' \in {"fan", "commit", "drop"} => work' = wsPending
  <2>1. CASE ReplayFrames
    BY <2>1 DEF ReplayFrames
  <2>2. CASE SkipFrame
    BY <2>2 DEF SkipFrame
  <2>3. CASE FanOutDone
    BY <2>3 DEF FanOutDone
  <2> QED
    BY <2>1, <2>2, <2>3
<1>2. work' \in Seq(Frames) /\ \A i \in 1..Len(work') : work'[i] <= Latest
  <2>1. CASE work' = work
    BY <1>0, <2>1 DEF QueueInv
  <2>2. CASE work' = wsPending
    BY <1>0, <2>2 DEF QueueInv, FrameList
  <2>3. CASE work # <<>> /\ work' = Tail(work)
    <3>1. work \in Seq(Frames) /\ \A i \in 1..Len(work) : work[i] <= Latest
      BY <1>0 DEF QueueInv
    <3> QED
      BY <2>3, <3>1, ListFacts
  <2> QED
    BY <1>1, <2>1, <2>2, <2>3
<1>3. QueueInv' /\ OrderInv'
  BY <1>0, <1>1, <1>2, ListsUnchanged
<1>4. ReaderInv'
  BY <1>0, <1>1, ReaderUnchanged
<1>5. WsTyped'
  <2>1. readFaults' \in BOOLEAN
    BY <1>0, <1>1 DEF WsTyped
  <2>2. Latest' = Latest
    BY <1>1 DEF Latest
  <2> QED
    BY <1>0, <1>1, <2>1, <2>2 DEF WsTyped
<1> QED
  BY <1>3, <1>4, <1>5 DEF WsInv

(* commit_applied.                                                         *)
LEMMA CommitAppliedKeeps == ASSUME WsInv, CommitApplied PROVE WsInv'
<1>0. WsTyped /\ QueueInv /\ OrderInv /\ ReaderInv
  BY DEF WsInv
<1>1. /\ wsStep = "commit" /\ wsStep' = "drop"
      /\ snapshotHash' = [snapshotHash EXCEPT ![received[Head(work)][1]] = received[Head(work)][2]]
      /\ UNCHANGED <<received, wsArchive, wsPending, work, class, fanout, wsSaved, readerState,
                     pushed, owed, readFaults>>
  BY DEF CommitApplied
<1>2. /\ work \in Seq(Frames) /\ work # <<>> /\ Pushed(Head(work))
      /\ \A i \in 1..Len(work) : work[i] <= Latest
  BY <1>0, <1>1 DEF QueueInv
<1>3. received[Head(work)] \in FrameBodies
  <2>1. Head(work) \in 1..Latest
    BY <1>0, <1>2, ListFacts, TypeFacts
  <2> QED
    BY <1>0, <2>1, TypeFacts
<1>4. QueueInv' /\ OrderInv'
  <2>1. ~readFaults => work = wsPending
    BY <1>0, <1>1 DEF OrderInv, Walking
  <2> QED
    BY <1>0, <1>1, <1>2, <2>1, ListsUnchanged
<1>5. snapshotHash \in [Subscriptions -> Snapshots \cup {NoSnapshot}]
  BY <1>0 DEF WsTyped
<1>6. /\ received[Head(work)][1] \in Subscriptions /\ received[Head(work)][2] \in Snapshots
  BY <1>3 DEF FrameBodies
<1>7. WsTyped'
  <2>1. snapshotHash' \in [Subscriptions -> Snapshots \cup {NoSnapshot}]
    BY <1>1, <1>5, <1>6
  <2>2. Latest' = Latest
    BY <1>1 DEF Latest
  <2> QED
    BY <1>0, <1>1, <2>1, <2>2 DEF WsTyped
<1>8. ReaderInv'
  <2>1. \A s \in Subscriptions : Remembered(s)' = Remembered(s)
    BY <1>1, <1>5, <1>6 DEF Remembered
  <2>2. \A i : Sub(i)' = Sub(i) /\ Body(i)' = Body(i)
    BY <1>1 DEF Sub, Body
  <2>3. \A s, n, v : HeldAt(s, n, v)' <=> HeldAt(s, n, v)
    BY <1>1, <2>2 DEF HeldAt
  <2> QED
    BY <1>0, <1>1, <2>1, <2>2, <2>3 DEF ReaderInv
<1> QED
  BY <1>4, <1>7, <1>8 DEF WsInv

(* drop_pending: only a frame that was pushed leaves the list.             *)
LEMMA DropFrameKeeps == ASSUME WsInv, DropFrame PROVE WsInv'
<1>0. WsTyped /\ QueueInv /\ OrderInv /\ ReaderInv
  BY DEF WsInv
<1>a. PICK list : list = wsPending'
  OBVIOUS
<1>b. PICK h : h = Head(work)
  OBVIOUS
<1>1. /\ wsStep = "drop" /\ list = Without(wsPending, h)
      /\ UNCHANGED <<received, wsArchive, class, snapshotHash, fanout, readerState, pushed, readFaults>>
  BY <1>a, <1>b DEF DropFrame
<1>2. \/ /\ wsSaved' = list /\ wsStep' = "fan" /\ work' = Tail(work)
         /\ owed' = owed \cup {list[i] : i \in 1..Len(list)}
      \/ wsStep' = "idle" /\ work' = <<>> /\ UNCHANGED <<wsSaved, owed>>
  BY <1>a DEF DropFrame
<1>3. /\ FrameList(wsPending) /\ FrameList(wsSaved) /\ wsPending \in Seq(Frames) /\ Ascends(wsPending)
      /\ work \in Seq(Frames) /\ work # <<>> /\ Pushed(h)
      /\ \A i \in 1..Len(work) : work[i] <= Latest
  BY <1>0, <1>1, <1>b DEF QueueInv, FrameList
<1>4. Latest' = Latest /\ (\A n : Pushed(n)' <=> Pushed(n))
  BY <1>1 DEF Latest, Pushed
<1>5. /\ list \in Seq(Frames) /\ Ascends(list)
      /\ \A x : Listed(list, x) => Listed(wsPending, x)
      /\ \A x : x # h /\ Listed(wsPending, x) => Listed(list, x)
      /\ wsPending # <<>> /\ h = Head(wsPending) => list = Tail(wsPending)
  BY <1>1, <1>3, WithoutFacts
<1>6. FrameList(list)
  <2>1. \A i \in 1..Len(list) : Listed(wsPending, list[i])
    BY <1>5 DEF Listed
  <2>2. \A x : Listed(wsPending, x) => x <= Latest /\ received[x] \in wsArchive
    BY <1>3 DEF Listed, FrameList
  <2> QED
    BY <1>5, <2>1, <2>2 DEF FrameList
<1>7. FrameList(wsPending)' /\ FrameList(wsSaved)'
  <2>1. \A l : FrameList(l) => /\ l \in Seq(Frames) /\ Ascends(l)
                              /\ \A i \in 1..Len(l) : l[i] <= Latest' /\ received'[l[i]] \in wsArchive'
    BY <1>1, <1>4 DEF FrameList
  <2>2. wsPending' = list /\ (wsSaved' = list \/ wsSaved' = wsSaved)
    BY <1>2, <1>a
  <2> QED
    BY <1>3, <1>6, <2>1, <2>2 DEF FrameList
<1>8. WsTyped'
  <2>1. {list[i] : i \in 1..Len(list)} \subseteq Frames
    BY <1>5, ListFacts
  <2> QED
    BY <1>0, <1>1, <1>2, <1>4, <2>1 DEF WsTyped
<1>9. \A n \in Frames : Listed(wsSaved, n) => Pushed(n) \/ Listed(list, n)
  BY <1>0, <1>3, <1>5 DEF QueueInv
<1>10. QueueInv'
  <2>1. ASSUME NEW n \in owed'
        PROVE  n <= Latest /\ received[n] \in wsArchive /\ (Pushed(n) \/ Listed(wsSaved', n))
    <3>1. CASE n \in owed
      <4>1. n \in Frames /\ n <= Latest /\ received[n] \in wsArchive /\ (Pushed(n) \/ Listed(wsSaved, n))
        BY <1>0, <3>1 DEF QueueInv, WsTyped
      <4> QED
        BY <1>2, <1>9, <4>1
    <3>2. CASE n \notin owed
      <4>1. /\ wsSaved' = list
            /\ \E i \in 1..Len(list) : n = list[i]
        BY <1>2, <3>2
      <4> QED
        BY <1>6, <4>1 DEF FrameList, Listed
    <3> QED
      BY <3>1, <3>2
  <2>2. ASSUME NEW n \in Frames, Listed(wsSaved', n) PROVE Pushed(n) \/ Listed(list, n)
    <3>1. CASE wsSaved' = list
      BY <2>2, <3>1
    <3>2. CASE wsSaved' = wsSaved
      BY <1>9, <2>2, <3>2
    <3> QED
      BY <1>2, <3>1, <3>2
  <2>3. work' \in Seq(Frames) /\ \A i \in 1..Len(work') : work'[i] <= Latest
    <3>1. CASE work' = Tail(work)
      BY <1>3, <3>1, ListFacts
    <3>2. CASE work' = <<>>
      BY <3>2, EmptySeq
    <3> QED
      BY <1>2, <3>1, <3>2
  <2> QED
    BY <1>a, <1>1, <1>2, <1>4, <1>7, <2>1, <2>2, <2>3 DEF QueueInv
<1>11. OrderInv'
  <2>1. ASSUME ~readFaults, Walking' PROVE work' = list
    <3>1. work = wsPending /\ work' = Tail(work)
      BY <1>0, <1>1, <1>2, <2>1 DEF OrderInv, Walking
    <3> QED
      BY <1>b, <1>3, <1>5, <3>1
  <2>2. ASSUME ~readFaults, NEW n \in Frames, Listed(list, n) \/ Listed(wsSaved', n),
               NEW i \in 1..Len(pushed), n < pushed[i]
        PROVE  \E k \in 1..i : pushed[k] = n
    <3>1. Listed(wsPending, n) \/ Listed(wsSaved, n)
      BY <1>2, <1>5, <2>2
    <3> QED
      BY <1>0, <2>2, <3>1 DEF OrderInv
  <2>3. ~readFaults => FirstPushInOrder'
    BY <1>0, <1>1 DEF OrderInv, FirstPushInOrder
  <2> QED
    BY <1>a, <1>1, <2>1, <2>2, <2>3 DEF OrderInv
<1>12. ReaderInv'
  <2>1. wsStep # "commit" /\ wsStep' # "commit"
    BY <1>1, <1>2
  <2> QED
    BY <1>0, <1>1, <2>1, ReaderUnchanged
<1> QED
  BY <1>8, <1>10, <1>11, <1>12 DEF WsInv

(* One frame of fan_out_pending: pushed in its place, with the class that  *)
(* the reader needs.                                                       *)
LEMMA PushFrameKeeps == ASSUME WsInv, PushFrame PROVE WsInv'
<1>0. WsTyped /\ QueueInv /\ OrderInv /\ ReaderInv
  BY DEF WsInv
<1>a. PICK h : h = Head(work)
  OBVIOUS
<1>b. PICK s, body : s = received[h][1] /\ body = received[h][2]
  OBVIOUS
<1>1. /\ wsStep = "fan" /\ work # <<>> /\ class' = Classify(s, body)
      /\ UNCHANGED <<received, wsArchive, wsPending, snapshotHash, wsSaved, readerState, owed, readFaults>>
  BY <1>a, <1>b DEF PushFrame
<1>2. \/ /\ Len(fanout) < FanoutCapacity /\ fanout' = Append(fanout, <<h, Classify(s, body)>>)
         /\ pushed' = Append(pushed, h) /\ wsStep' = "commit" /\ UNCHANGED work
      \/ wsStep' = "idle" /\ work' = <<>> /\ UNCHANGED <<fanout, pushed>>
  BY <1>a, <1>b DEF PushFrame
<1>3. /\ work \in Seq(Frames) /\ \A i \in 1..Len(work) : work[i] <= Latest
      /\ FrameList(wsPending) /\ FrameList(wsSaved)
  BY <1>0 DEF QueueInv
<1>4. h \in 1..Latest /\ h \in Frames /\ s \in Subscriptions /\ body \in Snapshots
      /\ Latest \in Nat /\ Latest' = Latest
  <2>1. h \in Frames /\ h \in Nat \ {0} /\ h <= Latest /\ Latest \in Nat
    BY <1>0, <1>a, <1>1, <1>3, ListFacts, TypeFacts
  <2>2. h \in 1..Latest
    BY <2>1
  <2>3. received[h] \in FrameBodies
    BY <1>0, <2>2, TypeFacts
  <2>4. Latest' = Latest
    BY <1>1 DEF Latest
  <2> QED
    BY <1>b, <2>1, <2>2, <2>3, <2>4 DEF FrameBodies
<1>5. Classify(s, body) \in Classes
  BY DEF Classify, Classes
<1>6. CASE wsStep' = "idle" /\ work' = <<>> /\ UNCHANGED <<fanout, pushed>>
  <2>1. QueueInv' /\ OrderInv'
    <3>1. Len(<<>>) = 0 /\ <<>> \in Seq(Frames)
      BY EmptySeq
    <3> QED
      BY <1>0, <1>1, <1>6, <3>1, ListsUnchanged
  <2>2. ReaderInv'
    BY <1>0, <1>1, <1>6, ReaderUnchanged
  <2>3. WsTyped'
    BY <1>0, <1>1, <1>4, <1>5, <1>6 DEF WsTyped
  <2> QED
    BY <2>1, <2>2, <2>3 DEF WsInv
<1>7. CASE /\ Len(fanout) < FanoutCapacity /\ fanout' = Append(fanout, <<h, Classify(s, body)>>)
           /\ pushed' = Append(pushed, h) /\ wsStep' = "commit" /\ UNCHANGED work
  <2>0. fanout \in Seq(Items) /\ <<h, Classify(s, body)>> \in Items /\ pushed \in Seq(Frames)
        /\ Len(fanout) \in Nat /\ Len(pushed) \in Nat
    BY <1>0, <1>4, <1>5, TypeFacts DEF WsTyped, Items
  <2>1. /\ fanout' \in Seq(Items) /\ Len(fanout') = Len(fanout) + 1
        /\ fanout'[Len(fanout) + 1] = <<h, Classify(s, body)>>
        /\ \A i \in 1..Len(fanout) : fanout'[i] = fanout[i]
    BY <1>7, <2>0, AppendProperties
  <2>2. /\ pushed' \in Seq(Frames) /\ Len(pushed') = Len(pushed) + 1
        /\ pushed'[Len(pushed) + 1] = h
        /\ \A i \in 1..Len(pushed) : pushed'[i] = pushed[i]
        /\ \A n : Listed(pushed', n) <=> Listed(pushed, n) \/ n = h
    BY <1>4, <1>7, <2>0, AppendedList
  <2>3. \A n : Pushed(n)' <=> Pushed(n) \/ n = h
    BY <2>2 DEF Pushed, Listed
  <2>4. WsTyped'
    <3>1. ASSUME NEW i \in 1..Len(fanout') PROVE fanout'[i][1] <= Latest
      <4>1. CASE i \in 1..Len(fanout)
        BY <1>0, <2>1, <4>1 DEF WsTyped
      <4>2. CASE i = Len(fanout) + 1
        BY <1>4, <2>1, <4>2
      <4> QED
        BY <2>0, <2>1, <4>1, <4>2
    <3>2. ASSUME NEW i \in 1..Len(pushed') PROVE pushed'[i] <= Latest
      <4>1. CASE i \in 1..Len(pushed)
        BY <1>0, <2>2, <4>1 DEF WsTyped
      <4>2. CASE i = Len(pushed) + 1
        BY <1>4, <2>2, <4>2
      <4> QED
        BY <2>0, <2>2, <4>1, <4>2
    <3>3. Len(fanout') <= FanoutCapacity
      BY <1>7, <2>0, <2>1, WsAssumption
    <3> QED
      BY <1>0, <1>1, <1>4, <1>5, <1>7, <2>1, <2>2, <3>1, <3>2, <3>3 DEF WsTyped
  <2>5. QueueInv'
    <3>1. FrameList(wsPending)' /\ FrameList(wsSaved)'
      BY <1>1, <1>3, <1>4 DEF FrameList
    <3>2. Pushed(Head(work))'
      BY <1>a, <1>7, <2>3
    <3> QED
      BY <1>0, <1>1, <1>3, <1>4, <1>7, <2>3, <3>1, <3>2 DEF QueueInv
  <2>6. OrderInv'
    <3> SUFFICES ASSUME ~readFaults PROVE OrderInv'
      BY <1>1 DEF OrderInv
    <3>1. /\ work = wsPending
          /\ \A n \in Frames : Listed(wsPending, n) \/ Listed(wsSaved, n) =>
               \A i \in 1..Len(pushed) : n < pushed[i] => \E k \in 1..i : pushed[k] = n
          /\ FirstPushInOrder
      BY <1>0, <1>1 DEF OrderInv, Walking
    <3>2. Listed(wsPending, h) /\ \A n : Listed(wsPending, n) => h <= n
      <4>1. /\ Len(wsPending) \in Nat \ {0} /\ wsPending[1] = h
            /\ \A i \in 1..Len(wsPending) : wsPending[i] \in Nat
        BY <1>a, <1>1, <1>3, <3>1, ListFacts
      <4>2. \A i \in 1..Len(wsPending) : 1 < i => wsPending[1] < wsPending[i]
        <5>1. 1 \in 1..Len(wsPending)
          BY <4>1
        <5> QED
          BY <1>3, <5>1 DEF FrameList, Ascends
      <4>3. \A i \in 1..Len(wsPending) : h <= wsPending[i]
        BY <4>1, <4>2
      <4> QED
        BY <4>1, <4>3 DEF Listed
    <3>3. ASSUME NEW n \in Frames, Listed(wsPending, n) \/ Listed(wsSaved, n),
                 NEW i \in 1..Len(pushed'), n < pushed'[i]
          PROVE  \E k \in 1..i : pushed'[k] = n
      <4>1. CASE i \in 1..Len(pushed)
        <5>1. PICK k \in 1..i : pushed[k] = n
          BY <2>2, <3>1, <3>3, <4>1
        <5>2. k \in 1..Len(pushed)
          BY <2>0, <4>1
        <5> QED
          BY <2>2, <5>1, <5>2
      <4>2. CASE i = Len(pushed) + 1
        <5>1. n < h /\ n \in Nat /\ h \in Nat
          BY <1>4, <2>2, <3>3, <4>2, WsAssumption DEF Frames
        <5>2. ~Listed(wsPending, n)
          BY <3>2, <5>1
        <5>3. Pushed(n)
          BY <1>0, <3>3, <5>2 DEF QueueInv
        <5>4. PICK k \in 1..Len(pushed) : pushed[k] = n
          BY <5>3 DEF Pushed
        <5> QED
          BY <2>0, <2>2, <4>2, <5>4
      <4> QED
        BY <2>0, <2>2, <4>1, <4>2
    <3>4. ASSUME NEW i \in 1..Len(pushed'), NEW j \in 1..Len(pushed'), i < j, pushed'[j] < pushed'[i]
          PROVE  \E k \in 1..i : pushed'[k] = pushed'[j]
      <4>0. i \in 1..Len(pushed) /\ pushed'[i] = pushed[i]
        BY <2>0, <2>2, <3>4
      <4>1. PICK k \in 1..i : pushed[k] = pushed'[j]
        <5>1. CASE j \in 1..Len(pushed)
          BY <2>2, <3>1, <3>4, <4>0, <5>1 DEF FirstPushInOrder
        <5>2. CASE j = Len(pushed) + 1
          BY <1>4, <2>2, <3>1, <3>2, <3>4, <4>0, <5>2
        <5> QED
          BY <2>0, <2>2, <5>1, <5>2
      <4>2. k \in 1..Len(pushed)
        BY <2>0, <4>0
      <4> QED
        BY <2>2, <4>1, <4>2
    <3>5. FirstPushInOrder'
      BY <3>4 DEF FirstPushInOrder
    <3> QED
      BY <1>1, <1>7, <3>1, <3>3, <3>5 DEF OrderInv
  <2>7. ReaderInv'
    <3>1. \A i \in 1..Len(fanout) : Sub(i)' = Sub(i) /\ Body(i)' = Body(i)
      BY <1>1, <2>1 DEF Sub, Body
    <3>a. PICK n : n = Len(fanout)
      OBVIOUS
    <3>2. Sub(n + 1)' = s /\ Body(n + 1)' = body /\ n \in Nat
      BY <1>b, <1>1, <2>0, <2>1, <3>a DEF Sub, Body
    <3>3. \A t, v : \A k \in 0..n : HeldAt(t, k, v)' <=> HeldAt(t, k, v)
      <4> SUFFICES ASSUME NEW t, NEW v, NEW k \in 0..n PROVE HeldAt(t, k, v)' <=> HeldAt(t, k, v)
        OBVIOUS
      <4>1. k \in Nat /\ \A i \in 1..k : Sub(i)' = Sub(i) /\ Body(i)' = Body(i)
        BY <3>1, <3>2, <3>a
      <4> QED
        BY <1>1, <4>1, HeldStable
    <3>4. ASSUME NEW i \in 1..Len(fanout'), fanout'[i][2] = "DuplicateSnapshot"
          PROVE  HeldAt(Sub(i), i - 1, Body(i))'
      <4>1. CASE i \in 1..n
        <5>1. HeldAt(Sub(i), i - 1, Body(i)) /\ i - 1 \in 0..n
          BY <1>0, <2>1, <3>4, <3>a, <3>2, <4>1 DEF ReaderInv
        <5>2. Sub(i)' = Sub(i) /\ Body(i)' = Body(i)
          BY <3>1, <3>a, <4>1
        <5> QED
          BY <3>3, <5>1, <5>2
      <4>2. CASE i = n + 1
        <5>1. Classify(s, body) = "DuplicateSnapshot"
          BY <2>1, <3>4, <3>a, <4>2
        <5>2. snapshotHash[s] = body
          BY <5>1 DEF Classify
        <5>3. HeldAt(s, n, snapshotHash[s])
          BY <1>0, <1>1, <1>4, <3>a DEF ReaderInv, Remembered
        <5>4. HeldAt(s, n, body)' /\ i - 1 = n
          BY <3>2, <3>3, <4>2, <5>2, <5>3
        <5> QED
          BY <3>2, <4>2, <5>4
      <4> QED
        BY <2>1, <3>2, <3>a, <4>1, <4>2
    <3>5. ASSUME NEW t \in Subscriptions PROVE HeldAt(t, Len(fanout), Remembered(t))'
      <4>1. CASE t = s
        <5>1. Remembered(t)' = body
          BY <1>a, <1>b, <1>1, <1>7, <4>1 DEF Remembered
        <5>2. HeldAt(t, n + 1, body)'
          <6>1. n + 1 \in 1..n + 1 /\ \A k \in n + 1 + 1..n + 1 : Sub(k)' # t
            BY <3>2
          <6> QED
            BY <3>2, <4>1, <6>1 DEF HeldAt
        <5> QED
          BY <2>1, <3>a, <5>1, <5>2
      <4>2. CASE t # s
        <5>1. Remembered(t)' = snapshotHash[t]
          BY <1>a, <1>b, <1>1, <1>7, <4>2 DEF Remembered
        <5>2. HeldAt(t, n, snapshotHash[t])'
          <6>1. HeldAt(t, n, snapshotHash[t])
            BY <1>0, <1>1, <3>a DEF ReaderInv, Remembered
          <6> QED
            BY <1>1, <3>2, <3>3, <6>1
        <5>v. PICK v : v = snapshotHash[t] /\ v = snapshotHash'[t]
          BY <1>1
        <5>3. HeldAt(t, n, v)'
          BY <5>2, <5>v
        <5>4. HeldAt(t, n + 1, v)'
          <6>1. \A k \in 1..n + 1 : k \in 1..n \/ k = n + 1
            BY <3>2
          <6>2. \A k \in 1..n : k \in 1..n + 1
            BY <3>2
          <6>3. \A k \in 1..n : \A m \in k + 1..n + 1 : m \in k + 1..n \/ m = n + 1
            BY <3>2
          <6> QED
            BY <1>1, <3>2, <4>2, <5>3, <6>1, <6>2, <6>3 DEF HeldAt
        <5> QED
          BY <2>1, <3>a, <5>1, <5>v, <5>4
      <4> QED
        BY <4>1, <4>2
    <3> QED
      BY <3>4, <3>5 DEF ReaderInv
  <2> QED
    BY <2>4, <2>5, <2>6, <2>7 DEF WsInv
<1> QED
  BY <1>2, <1>6, <1>7

(* The reader takes an item: it may do so before commit_applied.           *)
LEMMA ReaderTakesKeeps == ASSUME WsInv, ReaderTakes PROVE WsInv'
<1>0. WsTyped /\ QueueInv /\ OrderInv /\ ReaderInv
  BY DEF WsInv
<1>1. /\ fanout # <<>> /\ fanout' = Tail(fanout)
      /\ readerState' = IF fanout[1][2] = "SnapshotReplace"
                        THEN [readerState EXCEPT ![Sub(1)] = Body(1)] ELSE readerState
      /\ UNCHANGED <<received, wsArchive, wsStep, wsPending, work, class, snapshotHash, wsSaved,
                     pushed, owed, readFaults>>
  BY DEF ReaderTakes, Sub, Body
<1>a. PICK n : n = Len(fanout)
  OBVIOUS
<1>2. /\ n \in Nat \ {0} /\ fanout' \in Seq(Items) /\ Len(fanout') = n - 1
      /\ \A i \in 1..n - 1 : fanout'[i] = fanout[i + 1]
  <2>1. fanout \in Seq(Items)
    BY <1>0 DEF WsTyped
  <2>2. n \in Nat \ {0}
    BY <1>a, <1>1, <2>1, EmptySeq
  <2>3. /\ Tail(fanout) \in Seq(Items) /\ Len(Tail(fanout)) = Len(fanout) - 1
        /\ \A i \in 1..Len(Tail(fanout)) : Tail(fanout)[i] = fanout[i + 1]
    BY <1>1, <2>1, HeadTailProperties
  <2> QED
    BY <1>a, <1>1, <2>2, <2>3
<1>3. /\ \A i \in 1..n - 1 : Sub(i)' = Sub(i + 1) /\ Body(i)' = Body(i + 1)
      /\ \A i \in 1..n - 1 : i + 1 \in 1..n
  BY <1>1, <1>2 DEF Sub, Body
<1>4. /\ Sub(1) \in Subscriptions /\ Body(1) \in Snapshots /\ fanout[1][2] \in Classes
      /\ 1 \in 1..n
  BY <1>0, <1>2, <1>a, TypeFacts
<1>5. readerState \in [Subscriptions -> Snapshots \cup {NoSnapshot}]
  BY <1>0 DEF WsTyped
<1>6. WsTyped'
  <2>1. readerState' \in [Subscriptions -> Snapshots \cup {NoSnapshot}]
    BY <1>1, <1>4, <1>5
  <2>2. ASSUME NEW i \in 1..Len(fanout') PROVE fanout'[i][1] <= Latest
    BY <1>0, <1>2, <1>3, <1>a DEF WsTyped
  <2>3. Len(fanout') <= FanoutCapacity
    BY <1>0, <1>2, <1>a, WsAssumption DEF WsTyped
  <2>4. Latest' = Latest
    BY <1>1 DEF Latest
  <2> QED
    BY <1>0, <1>1, <1>2, <2>1, <2>2, <2>3, <2>4 DEF WsTyped
<1>7. QueueInv'
  <2>1. Latest' = Latest /\ (\A x : Pushed(x)' <=> Pushed(x))
    BY <1>1 DEF Latest, Pushed
  <2>2. FrameList(wsPending)' /\ FrameList(wsSaved)'
    BY <1>0, <1>1, <2>1 DEF QueueInv, FrameList
  <2>3. Pushed(Head(work))' <=> Pushed(Head(work))
    BY <1>1 DEF Pushed
  <2> QED
    BY <1>0, <1>1, <2>1, <2>2, <2>3 DEF QueueInv
<1>8. OrderInv'
  BY <1>0, <1>1 DEF OrderInv, Walking, FirstPushInOrder
<1>9. (* The first item is what the reader now has of its subscription.    *)
      readerState'[Sub(1)] = Body(1) /\ \A s \in Subscriptions \ {Sub(1)} : readerState'[s] = readerState[s]
  <2>1. CASE fanout[1][2] = "SnapshotReplace"
    BY <1>1, <1>4, <1>5, <2>1
  <2>2. CASE fanout[1][2] = "DuplicateSnapshot"
    <3>1. HeldAt(Sub(1), 1 - 1, Body(1))
      BY <1>0, <1>4, <1>a, <2>2 DEF ReaderInv
    <3>2. 1 - 1 = 0 /\ 1..0 = {}
      OBVIOUS
    <3>3. Body(1) = readerState[Sub(1)]
      BY <3>1, <3>2 DEF HeldAt
    <3> QED
      BY <1>1, <2>2, <3>3
  <2> QED
    BY <1>4, <2>1, <2>2 DEF Classes
<1>10. ASSUME NEW s \in Subscriptions, NEW k \in 0..n - 1, NEW v, HeldAt(s, k + 1, v)
       PROVE  HeldAt(s, k, v)'
  <2>0. k \in Nat /\ k + 1 \in 1..n /\ n \in Nat
    BY <1>2
  <2>1. CASE \E i \in 1..k : Sub(i)' = s
    <3>1. PICK i \in 1..k + 1 : Sub(i) = s /\ Body(i) = v /\ \A j \in i + 1..k + 1 : Sub(j) # s
      <4>1. PICK i \in 1..k : Sub(i)' = s
        BY <2>1
      <4>2. i + 1 \in 1..k + 1 /\ Sub(i + 1) = s
        BY <1>2, <1>3, <2>0, <4>1
      <4> QED
        BY <1>10, <4>2 DEF HeldAt
    <3>2. i # 1
      <4>1. PICK j \in 1..k : Sub(j)' = s
        BY <2>1
      <4>2. j + 1 \in 1 + 1..k + 1 /\ Sub(j + 1) = s
        BY <1>2, <1>3, <2>0, <4>1
      <4> QED
        BY <3>1, <4>2
    <3>a. PICK m : m = i - 1
      OBVIOUS
    <3>3. m \in 1..k /\ m \in 1..n - 1 /\ m + 1 = i
      BY <2>0, <3>1, <3>2, <3>a
    <3>4. Sub(m)' = s /\ Body(m)' = v
      BY <1>3, <3>1, <3>3
    <3>5. ASSUME NEW j \in m + 1..k PROVE Sub(j)' # s
      <4>1. j + 1 \in i + 1..k + 1 /\ j \in 1..n - 1
        BY <2>0, <3>3
      <4> QED
        BY <1>3, <3>1, <4>1
    <3> QED
      BY <2>1, <3>3, <3>4, <3>5 DEF HeldAt
  <2>2. CASE ~\E i \in 1..k : Sub(i)' = s
    <3>1. \A i \in 1..k + 1 : i # 1 => Sub(i) # s
      <4> SUFFICES ASSUME NEW i \in 1..k + 1, i # 1 PROVE Sub(i) # s
        OBVIOUS
      <4>a. PICK m : m = i - 1
        OBVIOUS
      <4>1. m \in 1..k /\ m \in 1..n - 1 /\ m + 1 = i
        BY <2>0, <4>a
      <4> QED
        BY <1>3, <2>2, <4>1
    <3>2. v = readerState'[s]
      <4>1. CASE Sub(1) = s
        <5>1. PICK i \in 1..k + 1 : Sub(i) = s /\ Body(i) = v
          <6>1. 1 \in 1..k + 1
            BY <2>0
          <6> QED
            BY <1>10, <4>1, <6>1 DEF HeldAt
        <5> QED
          BY <1>9, <3>1, <4>1, <5>1
      <4>2. CASE Sub(1) # s
        <5>1. v = readerState[s]
          BY <1>10, <3>1, <4>2 DEF HeldAt
        <5> QED
          BY <1>9, <4>2, <5>1
      <4> QED
        BY <4>1, <4>2
    <3> QED
      BY <2>2, <3>2 DEF HeldAt
  <2> QED
    BY <2>1, <2>2
<1>11. ASSUME NEW i \in 1..Len(fanout'), fanout'[i][2] = "DuplicateSnapshot"
       PROVE  HeldAt(Sub(i), i - 1, Body(i))'
  <2>1. i \in 1..n - 1 /\ i + 1 \in 1..n /\ fanout[i + 1][2] = "DuplicateSnapshot"
    BY <1>2, <1>3, <1>11
  <2>2. HeldAt(Sub(i + 1), (i + 1) - 1, Body(i + 1))
    BY <1>0, <1>a, <2>1 DEF ReaderInv
  <2>a. PICK t, v : t = Sub(i + 1) /\ v = Body(i + 1)
    OBVIOUS
  <2>b. PICK k : k = i - 1
    OBVIOUS
  <2>3. k \in 0..n - 1 /\ k + 1 = (i + 1) - 1
    BY <1>2, <2>1, <2>b
  <2>4. t \in Subscriptions
    BY <1>0, <1>a, <2>1, <2>a, TypeFacts
  <2>5. HeldAt(t, k, v)'
    BY <1>10, <2>2, <2>3, <2>4, <2>a
  <2>6. Sub(i)' = t /\ Body(i)' = v
    BY <1>3, <2>1, <2>a
  <2> QED
    BY <2>5, <2>6, <2>b
<1>12. ASSUME NEW s \in Subscriptions PROVE HeldAt(s, Len(fanout), Remembered(s))'
  <2>a. PICK v : v = Remembered(s)
    OBVIOUS
  <2>b. PICK k : k = n - 1
    OBVIOUS
  <2>1. k \in 0..n - 1 /\ k + 1 = n /\ Len(fanout') = k
    BY <1>2, <2>b
  <2>2. HeldAt(s, k + 1, v)
    BY <1>0, <1>a, <2>1, <2>a DEF ReaderInv
  <2>3. HeldAt(s, k, v)'
    BY <1>10, <2>1, <2>2
  <2>4. Remembered(s)' = v
    BY <1>1, <2>a DEF Remembered
  <2> QED
    BY <2>1, <2>3, <2>4
<1>13. ReaderInv'
  BY <1>11, <1>12 DEF ReaderInv
<1> QED
  BY <1>6, <1>7, <1>8, <1>13 DEF WsInv

(* A crash at any step: the list on disk holds what is owed.               *)
LEMMA WsCrashKeeps == ASSUME WsInv, WsCrash PROVE WsInv'
<1>0. WsTyped /\ QueueInv /\ OrderInv
  BY DEF WsInv
<1>1. /\ wsStep' = "idle" /\ work' = <<>> /\ class' = "SnapshotReplace" /\ fanout' = <<>>
      /\ snapshotHash' = [s \in Subscriptions |-> NoSnapshot]
      /\ readerState' = [s \in Subscriptions |-> NoSnapshot]
      /\ wsPending' = wsSaved
      /\ UNCHANGED <<received, wsArchive, wsSaved, pushed, owed, readFaults>>
  BY DEF WsCrash
<1>2. Len(<<>>) = 0 /\ <<>> \in Seq(Frames) /\ <<>> \in Seq(Items)
  BY EmptySeq
<1>3. Latest' = Latest /\ (\A n : Pushed(n)' <=> Pushed(n))
  BY <1>1 DEF Latest, Pushed
<1>4. WsTyped'
  <2>1. Len(fanout') <= FanoutCapacity
    BY <1>1, <1>2, WsAssumption
  <2>2. /\ snapshotHash' \in [Subscriptions -> Snapshots \cup {NoSnapshot}]
        /\ readerState' \in [Subscriptions -> Snapshots \cup {NoSnapshot}]
    BY <1>1
  <2>3. \A i \in 1..Len(fanout') : fanout'[i][1] <= Latest
    BY <1>1, <1>2
  <2> QED
    BY <1>0, <1>1, <1>2, <1>3, <2>1, <2>2, <2>3 DEF WsTyped, Classes
<1>5. QueueInv'
  <2>1. FrameList(wsPending)' /\ FrameList(wsSaved)'
    BY <1>0, <1>1, <1>3 DEF QueueInv, FrameList
  <2> QED
    BY <1>0, <1>1, <1>2, <1>3, <2>1 DEF QueueInv
<1>6. OrderInv'
  BY <1>0, <1>1 DEF OrderInv, Walking, FirstPushInOrder
<1>7. ReaderInv'
  BY <1>1, <1>2 DEF ReaderInv, HeldAt, Remembered
<1> QED
  BY <1>4, <1>5, <1>6, <1>7 DEF WsInv

-----------------------------------------------------------------------------
(* What holds of the lists, the fan-out and its reader at every step of    *)
(* ingest and fan_out_pending, whatever fails in between.                  *)
THEOREM WsInvariant == WsSpec => []WsInv
<1>1. WsInv /\ [WsNext]_wsVars => WsInv'
  <2> SUFFICES ASSUME WsInv, [WsNext]_wsVars PROVE WsInv'
    OBVIOUS
  <2>1. CASE UNCHANGED wsVars
    <3>0. UNCHANGED <<received, wsArchive, wsStep, wsPending, work, class, snapshotHash, fanout, wsSaved,
                      readerState, pushed, owed, readFaults>>
      BY <2>1 DEF wsVars, sessionMemory
    <3>1. Latest' = Latest /\ (\A n : Pushed(n)' <=> Pushed(n))
      BY <3>0 DEF Latest, Pushed
    <3>2. WsTyped'
      BY <3>0, <3>1 DEF WsInv, WsTyped
    <3>3. QueueInv'
      <4>1. FrameList(wsPending)' /\ FrameList(wsSaved)'
        BY <3>0, <3>1 DEF WsInv, QueueInv, FrameList
      <4>2. Pushed(Head(work))' <=> Pushed(Head(work))
        BY <3>0 DEF Pushed
      <4> QED
        BY <3>0, <3>1, <4>1, <4>2 DEF WsInv, QueueInv
    <3>4. OrderInv'
      BY <3>0 DEF WsInv, OrderInv, Walking, FirstPushInOrder
    <3>5. ReaderInv'
      <4>1. \A i : Sub(i)' = Sub(i) /\ Body(i)' = Body(i)
        BY <3>0 DEF Sub, Body
      <4>2. \A s, n, v : HeldAt(s, n, v)' <=> HeldAt(s, n, v)
        BY <3>0, <4>1 DEF HeldAt
      <4>3. \A s : Remembered(s)' = Remembered(s)
        BY <3>0 DEF Remembered
      <4> QED
        BY <3>0, <4>1, <4>2, <4>3 DEF WsInv, ReaderInv
    <3> QED
      BY <3>2, <3>3, <3>4, <3>5 DEF WsInv
  <2> QED
    BY <2>1, IngestFrameKeeps, QueueFrameKeeps, WalkStepKeeps, PushFrameKeeps, CommitAppliedKeeps,
       DropFrameKeeps, ReaderTakesKeeps, WsCrashKeeps DEF WsNext
<1> QED
  BY <1>1, WsInitHolds, PTL DEF WsSpec

(* ingest, fan_out_pending and replay_pending together, for any number of  *)
(* frames, faults and crashes: no saved frame is lost between archive and  *)
(* fan-out, frames go out in order unless a read failed, and the reader    *)
(* can trust the class a frame is pushed with.                             *)
THEOREM WsIsSafe == WsSpec => []WsSafe
<1>1. WsInv => WsSafe
  <2> SUFFICES ASSUME WsInv PROVE WsSafe
    OBVIOUS
  <2>0. WsTyped /\ QueueInv /\ OrderInv /\ ReaderInv
    BY DEF WsInv
  <2>1. WsTypeOK
    BY <2>0 DEF WsTyped, QueueInv, FrameList, WsTypeOK, Classes
  <2>2. SavedFramesKept
    BY <2>0 DEF QueueInv, SavedFramesKept, Listed
  <2>3. ReaderFollows
    <3> SUFFICES ASSUME fanout = <<>>, wsStep # "commit", NEW s \in Subscriptions
                 PROVE  snapshotHash[s] = readerState[s]
      BY DEF ReaderFollows
    <3>1. Len(fanout) = 0 /\ 1..0 = {}
      OBVIOUS
    <3>2. HeldAt(s, 0, snapshotHash[s])
      BY <2>0, <3>1 DEF ReaderInv, Remembered
    <3> QED
      BY <3>1, <3>2 DEF HeldAt
  <2>4. FirstPushInOrder
    BY <2>0 DEF OrderInv, FirstPushInOrder
  <2> QED
    BY <2>1, <2>2, <2>3, <2>4 DEF WsSafe
<1> QED
  BY <1>1, WsInvariant, PTL
=============================================================================
