---------------------------- MODULE InfoCapture ----------------------------
(***************************************************************************)
(* Crawling a time-paged /info endpoint (crawl_time_pages, TimePageCursor) *)
(* and capturing its pages (capture_time_pages): every response is         *)
(* archived and queued in the job's checkpoint before it is interpreted,   *)
(* the checkpoint's start moves when the crawl ends, and the queued        *)
(* references are published last.  A page that could not be archived, or   *)
(* whose reference could not be saved, is interpreted all the same, and    *)
(* the capture fails once the crawl has ended.                             *)
(*                                                                         *)
(* Abstractions.  The venue's records are numbered in the order it lists   *)
(* them; a record's number is its stable identity and venue[i] its         *)
(* millisecond.  A response body is the set of records on the page, or     *)
(* Drift for one that does not parse.  What the budget answers is any of   *)
(* its answers (RequestBudget is about which); the commit of a page's      *)
(* weight cannot fail because the weight is capped at what is left.        *)
(***************************************************************************)
EXTENDS Integers, Sequences, FiniteSets

CONSTANTS
  MaxMillis,       \* bound: record times are 0..MaxMillis
  MaxVenue,        \* bound: number of records
  PageLimit,       \* page_limit of the endpoint
  Overlap,         \* overlap_millis of the cursor
  MaxTimePages,    \* MAX_TIME_PAGES
  MaxInfoFaults,   \* bound: refusals, failed calls, archive puts and saves
  MaxInfoCrashes   \* bound: crashes

ASSUME InfoAssumption ==
  /\ {MaxMillis, MaxVenue, MaxInfoFaults, MaxInfoCrashes} \subseteq Nat
  /\ {PageLimit, Overlap, MaxTimePages} \subseteq Nat \ {0}

Drift == {0}      \* the body that does not parse
None == -1        \* last_time_millis: None

VARIABLES
  venue,          \* millisecond of each record of the venue
  crawl,          \* "idle", "fetch", "save", "apply", "finish", "publish" or "drop"
  page,           \* body of the response in hand
  listed,         \* records the venue had when it served that page
  pageCursor,     \* TimePageCursor
  collected,      \* records kept by the crawl, in order
  pages,          \* pages asked for
  stop,           \* TimePageStopReason of the last finished crawl
  broken,         \* ArchivingInfoTransport.last_error is set
  checkpoint,     \* InfoJobCheckpoint: next_start_millis, pending_publish_refs
  savedCheckpoint,\* the checkpoint on disk
  marked,         \* bodies this process has marked published
  publications,   \* publications[b]: how often body b was published
  infoFaults,     \* faults so far
  infoCrashes     \* crashes so far

crawlVars == <<crawl, page, listed, pageCursor, collected, pages, stop, broken>>
infoVars == <<venue, crawlVars, checkpoint, savedCheckpoint, marked, publications,
              infoFaults, infoCrashes>>

Listing == 1..MaxVenue
PageBodies == {a..b : a \in Listing, b \in Listing} \cup {{}, Drift}
CompleteStops == {"Exhausted", "EndOfStream", "EmptyVenue"}
PartialStops == {"SameMillisecondBurst", "Truncated", "BudgetExhausted", "Incomplete"}
Checkpoints == [next : 0..MaxMillis, pending : Seq(PageBodies)]

NewCursor(start) == [start |-> start, last |-> None, at |-> {}]

InfoTypeOK ==
  /\ venue \in Seq(0..MaxMillis) /\ Len(venue) <= MaxVenue
  /\ crawl \in {"idle", "fetch", "save", "apply", "finish", "publish", "drop"}
  /\ page \in PageBodies /\ listed \in 0..Len(venue)
  /\ pageCursor.start \in 0..MaxMillis /\ pageCursor.last \in None..MaxMillis
  /\ pageCursor.at \subseteq Listing
  /\ collected \in Seq(Listing) /\ pages \in 0..MaxTimePages
  /\ stop \in CompleteStops \cup PartialStops \cup {"none"}
  /\ broken \in BOOLEAN
  /\ checkpoint \in Checkpoints /\ savedCheckpoint \in Checkpoints
  /\ marked \subseteq PageBodies /\ publications \in [PageBodies -> Nat]

InfoInit ==
  /\ venue = <<>>
  /\ crawl = "idle" /\ page = {} /\ listed = 0
  /\ pageCursor = NewCursor(0) /\ collected = <<>> /\ pages = 0
  /\ stop = "none" /\ broken = FALSE
  /\ checkpoint = [next |-> 0, pending |-> <<>>] /\ savedCheckpoint = checkpoint
  /\ marked = {} /\ publications = [b \in PageBodies |-> 0]
  /\ infoFaults = 0 /\ infoCrashes = 0

Fault == infoFaults < MaxInfoFaults /\ infoFaults' = infoFaults + 1

-----------------------------------------------------------------------------
(* The venue lists records in time order.                                  *)
RecordArrives ==
  /\ Len(venue) < MaxVenue
  /\ \E t \in 0..MaxMillis :
       /\ venue # <<>> => t >= venue[Len(venue)]
       /\ venue' = Append(venue, t)
  /\ UNCHANGED <<crawlVars, checkpoint, savedCheckpoint, marked, publications,
                 infoFaults, infoCrashes>>

(* The oldest PageLimit records from start on.                             *)
VenuePage(start) ==
  LET from == {i \in 1..Len(venue) : venue[i] >= start}
  IN {i \in from : Cardinality({j \in from : j <= i}) <= PageLimit}

(* next_query_start_millis.                                                *)
NextQueryStart(c) ==
  IF c.last = None \/ c.last - Overlap < c.start THEN c.start ELSE c.last - Overlap

(* capture_time_pages begins with the cursor the checkpoint resumes at.    *)
BeginCrawl ==
  /\ crawl = "idle"
  /\ crawl' = "fetch" /\ pageCursor' = NewCursor(checkpoint.next)
  /\ collected' = <<>> /\ pages' = 0 /\ stop' = "none" /\ broken' = FALSE
  /\ UNCHANGED <<venue, page, listed, checkpoint, savedCheckpoint, marked,
                 publications, infoFaults, infoCrashes>>

(* take_progress: what was collected is kept, an empty crawl is an error.  *)
TakeProgress(reason) ==
  /\ crawl' = IF collected = <<>> THEN "idle" ELSE "finish"
  /\ stop' = IF collected = <<>> THEN "none" ELSE reason

(* The page limit of one crawl is reached.                                 *)
Truncate ==
  /\ crawl = "fetch" /\ pages >= MaxTimePages
  /\ crawl' = "finish" /\ stop' = "Truncated"
  /\ UNCHANGED <<venue, page, listed, pageCursor, collected, pages, broken, checkpoint,
                 savedCheckpoint, marked, publications, infoFaults, infoCrashes>>

(* The budget refuses the page, or the call fails or is rate-limited.      *)
FetchRefused ==
  /\ crawl = "fetch" /\ pages < MaxTimePages /\ Fault
  /\ \E reason \in {"BudgetExhausted", "Incomplete"} : TakeProgress(reason)
  /\ pages' = pages + 1
  /\ UNCHANGED <<venue, page, listed, pageCursor, collected, broken, checkpoint,
                 savedCheckpoint, marked, publications, infoCrashes>>

(* The inner transport answers 200 with a body within max_body.            *)
FetchPage ==
  /\ crawl = "fetch" /\ pages < MaxTimePages
  /\ pages' = pages + 1 /\ crawl' = "save" /\ listed' = Len(venue)
  /\ \/ page' = VenuePage(NextQueryStart(pageCursor)) /\ UNCHANGED infoFaults
     \/ page' = Drift /\ Fault
  /\ UNCHANGED <<venue, pageCursor, collected, stop, broken, checkpoint, savedCheckpoint,
                 marked, publications, infoCrashes>>

(* queue_pending: a body is queued once.                                   *)
QueuePending(c, b) ==
  IF \E i \in 1..Len(c.pending) : c.pending[i] = b THEN c
  ELSE [c EXCEPT !.pending = Append(@, b)]

(* The body is put in the archive and queued in the checkpoint, and the    *)
(* checkpoint saved.  A save that fails leaves it queued in memory, an     *)
(* archive that fails leaves it nowhere; either error is remembered and    *)
(* the response is used all the same.  A body that does not parse ends the *)
(* crawl.                                                                  *)
SavePending ==
  /\ crawl = "save"
  /\ \/ /\ checkpoint' = QueuePending(checkpoint, page)
        /\ \/ savedCheckpoint' = checkpoint' /\ UNCHANGED <<broken, infoFaults>>
           \/ Fault /\ broken' = TRUE /\ UNCHANGED savedCheckpoint
     \/ Fault /\ broken' = TRUE /\ UNCHANGED <<checkpoint, savedCheckpoint>>
  /\ \/ page # Drift /\ crawl' = "apply" /\ UNCHANGED stop
     \/ page = Drift /\ TakeProgress("Incomplete")
  /\ UNCHANGED <<venue, page, listed, pageCursor, collected, pages, marked, publications,
                 infoCrashes>>

(* Mutant: identities seen at the last millisecond are forgotten.          *)
IsAfterCursor_LaterOnly(c, i) == c.last = None \/ venue[i] > c.last

(* is_after_cursor.                                                        *)
IsAfterCursor(c, i) ==
  c.last = None \/ venue[i] > c.last \/ (venue[i] = c.last /\ i \notin c.at)

(* apply_page on what is kept: the cursor moves to the last time kept and  *)
(* collects the identities seen in that millisecond.                       *)
Advance(c, kept) ==
  LET last == CHOOSE t \in {venue[i] : i \in kept} : \A i \in kept : venue[i] <= t
      at == {i \in kept : venue[i] = last}
  IN [c EXCEPT !.last = last, !.at = IF c.last = last THEN @ \cup at ELSE at]

(* The records of a set in ascending order.                                *)
Ascending(s) ==
  [n \in 1..Cardinality(s) |-> CHOOSE i \in s : Cardinality({j \in s : j <= i}) = n]

(* The page goes into the crawl, or ends it.                               *)
ApplyPage ==
  /\ crawl = "apply"
  /\ LET kept == {i \in page : IsAfterCursor(pageCursor, i)}
         full == Cardinality(page) >= PageLimit
         ended == IF page = {} THEN "EmptyVenue"
                  ELSE IF kept = {}
                       THEN IF full THEN "SameMillisecondBurst" ELSE "EndOfStream"
                  ELSE IF full THEN "none" ELSE "Exhausted"
     IN /\ collected' = collected \o Ascending(kept)
        /\ pageCursor' = IF kept = {} THEN pageCursor ELSE Advance(pageCursor, kept)
        /\ stop' = ended
        /\ crawl' = IF ended = "none" THEN "fetch" ELSE "finish"
  /\ UNCHANGED <<venue, page, listed, pages, broken, checkpoint, savedCheckpoint, marked,
                 publications, infoFaults, infoCrashes>>

(* The crawl returned.  With a failed archive or save capture_time_pages   *)
(* stops with that error; otherwise the checkpoint moves and is saved.     *)
FinishCrawl ==
  /\ crawl = "finish"
  /\ \/ broken /\ crawl' = "idle" /\ UNCHANGED <<checkpoint, savedCheckpoint, infoFaults>>
     \/ /\ ~broken
        /\ checkpoint' = [checkpoint EXCEPT !.next = NextQueryStart(pageCursor)]
        /\ \/ savedCheckpoint' = checkpoint' /\ crawl' = "publish" /\ UNCHANGED infoFaults
           \/ Fault /\ crawl' = "idle" /\ UNCHANGED savedCheckpoint
  /\ UNCHANGED <<venue, page, listed, pageCursor, collected, pages, stop, broken, marked,
                 publications, infoCrashes>>

(* replay_pending: the first queued body is published and marked, unless   *)
(* this process has done so, or quarantined when it does not parse.        *)
PublishPending ==
  /\ crawl = "publish" /\ checkpoint.pending # <<>>
  /\ LET b == Head(checkpoint.pending)
         publish == b \notin marked /\ b # Drift
     IN /\ publications' = IF publish THEN [publications EXCEPT ![b] = @ + 1] ELSE publications
        /\ marked' = IF publish THEN marked \cup {b} ELSE marked
  /\ crawl' = "drop"
  /\ UNCHANGED <<venue, page, listed, pageCursor, collected, pages, stop, broken, checkpoint,
                 savedCheckpoint, infoFaults, infoCrashes>>

(* drop_pending and the save after it; a failed save ends the replay.      *)
DropPending ==
  /\ crawl = "drop"
  /\ checkpoint' = [checkpoint EXCEPT !.pending = Tail(@)]
  /\ \/ savedCheckpoint' = checkpoint' /\ crawl' = "publish" /\ UNCHANGED infoFaults
     \/ Fault /\ crawl' = "idle" /\ UNCHANGED savedCheckpoint
  /\ UNCHANGED <<venue, page, listed, pageCursor, collected, pages, stop, broken, marked,
                 publications, infoCrashes>>

PublishDone ==
  /\ crawl = "publish" /\ checkpoint.pending = <<>>
  /\ crawl' = "idle"
  /\ UNCHANGED <<venue, page, listed, pageCursor, collected, pages, stop, broken, checkpoint,
                 savedCheckpoint, marked, publications, infoFaults, infoCrashes>>

(* The process ends; the next one loads the checkpoint from disk.          *)
InfoCrash ==
  /\ infoCrashes < MaxInfoCrashes
  /\ infoCrashes' = infoCrashes + 1
  /\ crawl' = "idle" /\ page' = {} /\ listed' = 0 /\ pageCursor' = NewCursor(0)
  /\ collected' = <<>> /\ pages' = 0 /\ stop' = "none" /\ broken' = FALSE
  /\ checkpoint' = savedCheckpoint /\ marked' = {}
  /\ UNCHANGED <<venue, savedCheckpoint, publications, infoFaults>>

InfoNext ==
  \/ RecordArrives \/ BeginCrawl \/ Truncate \/ FetchRefused \/ FetchPage
  \/ SavePending \/ ApplyPage \/ FinishCrawl
  \/ PublishPending \/ DropPending \/ PublishDone \/ InfoCrash

InfoSpec == InfoInit /\ [][InfoNext]_infoVars

-----------------------------------------------------------------------------
(* A crawl that says it reached the end has every record the venue listed  *)
(* from its start on, in order and once: pages that split a millisecond,   *)
(* records arriving while it runs and the re-read overlap lose and repeat  *)
(* nothing.  A crawl that stops early has a prefix of them.                *)
CrawlExact ==
  LET from == {i \in 1..listed : venue[i] >= pageCursor.start}
  IN crawl = "finish" =>
       /\ \A n \in 1..Len(collected) - 1 : collected[n + 1] = collected[n] + 1
       /\ {collected[n] : n \in 1..Len(collected)} \subseteq from
       /\ stop \in CompleteStops => Len(collected) = Cardinality(from)
       /\ collected # <<>> => \A i \in from : i >= collected[1]

(* The checkpoint never runs ahead of what was kept: a record below the    *)
(* saved start is in a body that was published or is still queued on disk, *)
(* whatever crash, failed archive or failed save comes between.            *)
StartBehindCapture ==
  \A i \in 1..Len(venue) : venue[i] < savedCheckpoint.next =>
    \E b \in PageBodies \ {Drift} :
      /\ i \in b
      /\ publications[b] > 0 \/ \E n \in 1..Len(savedCheckpoint.pending) :
                                  savedCheckpoint.pending[n] = b

(* A body is published again only by a process that lost the memory of     *)
(* having published it.                                                    *)
RepublishedAfterCrash ==
  \A b \in PageBodies : publications[b] <= 1 + infoCrashes

(* A captured crawl is complete, its checkpoint never runs ahead of it, and*)
(* no process publishes a body twice (capture_time_pages, replay_pending). *)
InfoSafe == InfoTypeOK /\ CrawlExact /\ StartBehindCapture /\ RepublishedAfterCrash
=============================================================================
