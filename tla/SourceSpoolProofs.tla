-------------------------- MODULE SourceSpoolProofs --------------------------
(***************************************************************************)
(* Proofs about the byte-offset spool, for every set of epochs, largest    *)
(* offset, set of bodies and number of segments, and every crash.          *)
(*                                                                         *)
(* SpoolSafe is not inductive: the numbers that AckedHeld and RepliesName  *)
(* speak of are recomputed from the manifests on every open, so they stay  *)
(* only if each manifest carries on where the one before it ended.         *)
(* SpoolInv(b) says so of a directory that continues the baseline b: the   *)
(* chain of the manifests (ChainInv), the order of the cursors within and  *)
(* between segments (OrderInv), the count of the records (CountInv), what  *)
(* an open spool keeps in memory and what the operation in progress has    *)
(* established (MemoryInv), and the records acknowledged (AckInv).  Each   *)
(* step is a change of the directory (a manifest, a segment or a record    *)
(* more, a tail cut off) and of the memory; the lemmas about the former    *)
(* say what is read off the directory afterwards, and a crash inside a     *)
(* stage is one of those changes with the memory gone.                     *)
(***************************************************************************)
EXTENDS SourceSpool, FiniteSetTheorems, SequenceTheorems, WellFoundedInduction, TLAPS

(***************************************************************************)
(* The invariant of a spool directory that continues a baseline b: the     *)
(* segments after b.seq, of which b.seq itself may be left over.           *)
(***************************************************************************)
Hashes    == [seq : Nat, recs : Seq(Observations)]
Segments  == [hdr : BOOLEAN, recs : Seq(Observations), torn : BOOLEAN]
Manifests == [tmp : BOOLEAN, seq : Nat, prev : Hashes, first : Nat, last : Nat,
              recs : Seq(Observations)]
Baselines == [seq : 0..MaxSegments, hash : Hashes, cursor : Cursors \cup {NoCursor}, local : Nat]
SpoolFields == {"writer", "count", "last", "local", "closed", "retained", "tip"}
HasFields(r) == r = [f \in SpoolFields |-> r[f]]
Stages == [at : {"idle", "close", "create", "write"}, obs : Observations \cup {NoObs},
           next : 0..MaxSegments]

FilesTyped ==
    /\ DOMAIN segs \subseteq 1..MaxSegments /\ segs \in [DOMAIN segs -> Segments]
    /\ DOMAIN mans \subseteq DOMAIN segs /\ mans \in [DOMAIN mans -> Manifests]
    /\ \A s \in DOMAIN mans : mans[s].seq = s
    /\ \A s \in DOMAIN segs : ~segs[s].hdr => segs[s].recs = <<>>

FieldsTyped ==
    /\ up \in BOOLEAN /\ stage \in Stages
    /\ HasFields(sp)
    /\ sp.writer \in 0..MaxSegments /\ sp.count \in Nat /\ sp.local \in Nat
    /\ sp.last \in Cursors \cup {NoCursor} /\ sp.tip \in Hashes

Live(b) == {s \in DOMAIN segs : s > b.seq}
LiveClosed(b) == {s \in Closed : s > b.seq}
Size(s) == Len(segs[s].recs)
FirstRec(s) == segs[s].recs[1]
LastRec(s) == segs[s].recs[Len(segs[s].recs)]
Full(b) == {s \in Live(b) : Size(s) # 0}
LivePositions(b) == {p \in Positions : p[1] > b.seq}

(* The local sequence before segment s, and the hash its manifest names.   *)
Before(s, b) == IF s = b.seq + 1 THEN b.local ELSE mans[s - 1].last
Link(s, b)   == IF s = b.seq + 1 THEN b.hash ELSE Hash(mans[s - 1])

ChainInv(b) ==
    /\ \A s \in DOMAIN segs : s >= b.seq /\ \A u \in b.seq + 1 .. s - 1 : u \in Closed
    /\ \A s \in LiveClosed(b) :
         /\ segs[s].hdr /\ ~segs[s].torn /\ Size(s) # 0 /\ mans[s].recs = segs[s].recs
         /\ mans[s].prev = Link(s, b)
         /\ mans[s].first = Before(s, b) + 1
         /\ mans[s].last = Before(s, b) + Size(s)
    /\ b.seq \in Closed => Hash(mans[b.seq]) = b.hash /\ mans[b.seq].last = b.local
    /\ \A s \in Live(b) : b.local <= Before(s, b)
    /\ \A s, t \in Live(b) : s < t => mans[s].last <= Before(t, b)

(* Within a segment one epoch and rising offsets; between segments the     *)
(* same, and an epoch that was left does not come back.                    *)
Rising(r) == \A i, j \in 1..Len(r) : i < j => r[i].epoch = r[j].epoch /\ r[i].off < r[j].off

OrderInv(b) ==
    /\ \A s \in Live(b) : Rising(segs[s].recs)
    /\ \A s, t \in Full(b) :
         s < t /\ FirstRec(s).epoch = FirstRec(t).epoch => LastRec(s).off < FirstRec(t).off
    /\ \A s, t, u \in Full(b) :
         s < u /\ u < t /\ FirstRec(s).epoch = FirstRec(t).epoch => FirstRec(u).epoch = FirstRec(s).epoch
    /\ b.seq + 1 \in Full(b) /\ b.cursor # NoCursor
         => Successor(Cursor(FirstRec(b.seq + 1)), b.cursor, TRUE)

(* The number and the cursor of the last record.                           *)
EndsAt(n, b) ==
    IF Live(b) = {} THEN n = b.local
    ELSE \E s \in Live(b) : (\A t \in Live(b) : t <= s) /\ n = Before(s, b) + Size(s)

EndsWith(c, b) ==
    IF Full(b) = {} THEN c = b.cursor
    ELSE \E s \in Full(b) : (\A t \in Full(b) : t <= s) /\ c = Cursor(LastRec(s))

CountInv(b) ==
    IsFiniteSet(LivePositions(b)) /\ EndsAt(b.local + Cardinality(LivePositions(b)), b)

(* What an open spool keeps in memory.                                     *)
IndexInv(b) ==
    /\ DOMAIN sp.retained = Full(b)
    /\ \A s \in Full(b) :
         sp.retained[s] = [epoch |-> FirstRec(s).epoch, min |-> FirstRec(s).off,
                           max |-> LastRec(s).off, first |-> Before(s, b) + 1]

(* What an operation in progress has established.                          *)
StageFits(st) ==
    /\ st.obs # NoObs => ~Regression(st.obs)
    /\ st.at = "idle" => st = SpoolIdle
    /\ st.at = "close" =>
         sp.count > 0 /\ st.next \in {0, sp.writer + 1} /\ (st.next = 0 => st.obs = NoObs)
    /\ st.at = "write" =>
         st.obs # NoObs /\ st.next = 0 /\ (EpochChanged(st.obs) => sp.count = 0)

WriterInv(b) ==
    /\ sp.writer \in Live(b) \ DOMAIN mans /\ sp.count = Size(sp.writer)
    /\ sp.closed = LiveClosed(b) /\ sp.tip = Link(sp.writer, b)

CreateInv(b) ==
    /\ stage.next > b.seq /\ \A s \in DOMAIN segs : s < stage.next
    /\ stage.next = b.seq + 1 \/ stage.next - 1 \in LiveClosed(b)
    /\ Live(b) \subseteq Closed
    /\ IF sp.writer = 0 THEN stage.obs = NoObs /\ sp.closed = LiveClosed(b)
       ELSE sp.writer = stage.next - 1 /\ sp.writer > b.seq
            /\ sp.closed = LiveClosed(b) \ {sp.writer}
    /\ sp.tip = Link(stage.next, b)

(* The parts of the memory that do not depend on the stage.                *)
OpenMemory(b) ==
    /\ \A s \in DOMAIN mans : ~mans[s].tmp
    /\ \A s \in Live(b) : segs[s].hdr /\ ~segs[s].torn
    /\ EndsAt(sp.local, b) /\ EndsWith(sp.last, b)
    /\ IndexInv(b)

MemoryInv(b) ==
    IF up THEN /\ OpenMemory(b) /\ StageFits(stage)
               /\ IF stage.at = "create" THEN CreateInv(b) ELSE WriterInv(b)
    ELSE sp = Down /\ stage = SpoolIdle

AckInv(b) ==
    /\ ackedRecs \in Seq([obs : Observations, local : Nat])
    /\ AckedHeld(b)

SpoolInv(b) ==
    /\ FilesTyped /\ FieldsTyped
    /\ ChainInv(b) /\ OrderInv(b) /\ CountInv(b) /\ MemoryInv(b) /\ AckInv(b)

SpoolOnlyInv == SpoolInv(NoBaseline) /\ RepliesName

-----------------------------------------------------------------------------
(* The files of a spool.                                                   *)

(* Every set of naturals that is not empty has a least member.             *)
LEMMA LeastExists ==
    ASSUME NEW S, S \subseteq Nat, S # {}
    PROVE  \E x \in S : \A y \in S : x <= y
<1> DEFINE LessThan == {ss \in Nat \X Nat : ss[1] < ss[2]}
<1>1. OpToRel(<, Nat) = LessThan
    BY Zenon DEF OpToRel
<1>2. \E x \in S : \A y \in S : ~(<<y, x>> \in LessThan)
    BY <1>1, NatLessThanWellFounded, WFMin
<1>3. PICK x \in S : \A y \in S : <<y, x>> \notin LessThan
    BY <1>2
<1>4. ASSUME NEW y \in S PROVE x <= y
  <2>1. x \in Nat /\ y \in Nat
      OBVIOUS
  <2>2. ~(y < x)
      BY <1>3, <2>1
  <2> QED
      BY <2>1, <2>2
<1> QED
    BY <1>3, <1>4

(* The greatest member of a set of numbers, and the least.                 *)
LEMMA MaxIs ==
    ASSUME NEW S, S \subseteq Int, NEW m \in S, \A x \in S : x <= m
    PROVE  Max(S) = m
<1>1. \A k \in S : (\A x \in S : k >= x) => k = m
    BY SMT
<1>2. m \in S /\ \A x \in S : m >= x
    BY SMT
<1> QED
    BY <1>1, <1>2 DEF Max

(* The least member of a set is its Min.                                   *)
LEMMA MinIs ==
    ASSUME NEW S, S \subseteq Int, NEW m \in S, \A x \in S : m <= x
    PROVE  Min(S) = m
<1>1. \A k \in S : (\A x \in S : k <= x) => k = m
    BY SMT
<1>2. m \in S /\ \A x \in S : m <= x
    BY SMT
<1> QED
    BY <1>1, <1>2 DEF Min

(* A bounded set of numbers has a greatest member, which is its Max.       *)
LEMMA MaxExists ==
    ASSUME NEW S, S \subseteq Nat, S # {}, NEW k \in Nat, \A x \in S : x <= k
    PROVE  Max(S) \in S /\ \A x \in S : x <= Max(S)
<1>1. PICK F : F = {k - s : s \in S}
    OBVIOUS
<1>2. F \subseteq Nat /\ F # {}
  <2>1. \A s \in S : s \in Nat /\ s <= k
      OBVIOUS
  <2>2. \A s \in S : k - s \in Nat
      BY <2>1
  <2> QED
      BY <1>1, <2>2
<1>3. PICK x \in F : \A y \in F : x <= y
    BY <1>2, LeastExists
<1>4. PICK m \in S : x = k - m
    BY <1>1
<1>5. \A t \in S : t <= m
  <2> TAKE t \in S
  <2>1. k - t \in F
      BY <1>1
  <2>2. t \in Nat /\ m \in Nat
      OBVIOUS
  <2> QED
      BY <1>3, <1>4, <2>1, <2>2
<1>6. S \subseteq Int
    OBVIOUS
<1>7. Max(S) = m
    BY <1>5, <1>6, MaxIs
<1> QED
    BY <1>5, <1>7

(* The types of segments and manifests.                                    *)
LEMMA FileFacts ==
    ASSUME FilesTyped
    PROVE  /\ MaxSegments \in Nat
           /\ Closed \subseteq DOMAIN mans /\ Closed \subseteq DOMAIN segs
           /\ \A s \in DOMAIN segs :
                /\ s \in Nat /\ 1 <= s /\ s <= MaxSegments
                /\ segs[s].hdr \in BOOLEAN /\ segs[s].torn \in BOOLEAN
                /\ segs[s].recs \in Seq(Observations) /\ Size(s) \in Nat
                /\ \A j \in 1..Size(s) : segs[s].recs[j] \in Observations
           /\ \A s \in DOMAIN mans :
                /\ s \in DOMAIN segs /\ mans[s].tmp \in BOOLEAN /\ mans[s].seq = s
                /\ mans[s].prev \in Hashes /\ mans[s].first \in Nat /\ mans[s].last \in Nat
                /\ mans[s].recs \in Seq(Observations) /\ Len(mans[s].recs) \in Nat
<1>1. MaxSegments \in Nat
    BY SpoolConstants
<1>2. Closed \subseteq DOMAIN mans /\ Closed \subseteq DOMAIN segs
    BY DEF FilesTyped, Closed
<1>3. ASSUME NEW s \in DOMAIN segs
      PROVE  /\ s \in Nat /\ 1 <= s /\ s <= MaxSegments
             /\ segs[s].hdr \in BOOLEAN /\ segs[s].torn \in BOOLEAN
             /\ segs[s].recs \in Seq(Observations) /\ Size(s) \in Nat
             /\ \A j \in 1..Size(s) : segs[s].recs[j] \in Observations
  <2>1. segs[s] \in Segments /\ s \in 1..MaxSegments
      BY DEF FilesTyped
  <2> QED
      BY <1>1, <2>1 DEF Segments, Size
<1>4. ASSUME NEW s \in DOMAIN mans
      PROVE  /\ s \in DOMAIN segs /\ mans[s].tmp \in BOOLEAN /\ mans[s].seq = s
             /\ mans[s].prev \in Hashes /\ mans[s].first \in Nat /\ mans[s].last \in Nat
             /\ mans[s].recs \in Seq(Observations) /\ Len(mans[s].recs) \in Nat
  <2>1. mans[s] \in Manifests /\ s \in DOMAIN segs /\ mans[s].seq = s
      BY DEF FilesTyped
  <2> QED
      BY <2>1 DEF Manifests
<1> QED
    BY <1>1, <1>2, <1>3, <1>4

(* The fields of an observation and of its cursor.                         *)
LEMMA ObservationFacts ==
    ASSUME NEW o \in Observations
    PROVE  /\ o.epoch \in Epochs /\ o.off \in Nat /\ o.off >= 1 /\ o.body \in Bodies
           /\ o # NoObs /\ Cursor(o) \in Cursors /\ Cursor(o) # NoCursor
           /\ Cursor(o).epoch = o.epoch /\ Cursor(o).off = o.off
BY SpoolConstants DEF Observations, Cursors, Cursor, NoCursor, NoObs

(* The fields of a baseline.                                               *)
LEMMA BaselineFacts ==
    ASSUME NEW b \in Baselines
    PROVE  /\ b.seq \in Nat /\ b.seq <= MaxSegments /\ b.hash \in Hashes /\ b.local \in Nat
           /\ b.cursor \in Cursors \cup {NoCursor} /\ MaxSegments \in Nat
BY SpoolConstants DEF Baselines

(* A segment with records has a first and a last one.                      *)
LEMMA FullFacts ==
    ASSUME FilesTyped, NEW b, NEW s \in Full(b)
    PROVE  /\ s \in Live(b) /\ s \in DOMAIN segs /\ s \in Nat /\ Size(s) \in Nat /\ Size(s) >= 1
           /\ FirstRec(s) \in Observations /\ LastRec(s) \in Observations
           /\ segs[s].recs # <<>>
<1>1. s \in Live(b) /\ s \in DOMAIN segs /\ Size(s) # 0
    BY DEF Full, Live
<1>2. Size(s) \in Nat /\ s \in Nat /\ segs[s].recs \in Seq(Observations)
    BY <1>1, FileFacts
<1>3. 1 \in 1..Size(s) /\ Size(s) \in 1..Size(s) /\ Size(s) >= 1
    BY <1>1, <1>2
<1> QED
    BY <1>1, <1>2, <1>3, FileFacts DEF FirstRec, LastRec, Size

(* A segment after the first has a closed one before it.                   *)
LEMMA BeforeFacts ==
    ASSUME NEW b \in Baselines, FilesTyped, ChainInv(b), NEW s \in Live(b)
    PROVE  /\ s \in Nat /\ s > b.seq /\ s \in DOMAIN segs
           /\ s # b.seq + 1 => s - 1 \in LiveClosed(b) /\ s - 1 \in Nat
           /\ Before(s, b) \in Nat /\ Link(s, b) \in Hashes
<1>1. s \in Nat /\ b.seq \in Nat /\ s > b.seq /\ s \in DOMAIN segs /\ b.local \in Nat /\ b.hash \in Hashes
    BY FileFacts, BaselineFacts DEF Live
<1>2. ASSUME s # b.seq + 1 PROVE s - 1 \in LiveClosed(b) /\ s - 1 \in Nat
  <2>1. s - 1 \in b.seq + 1 .. s - 1
      BY <1>1, <1>2
  <2> QED
      BY <1>1, <2>1 DEF ChainInv, LiveClosed
<1>3. CASE s = b.seq + 1
    BY <1>1, <1>3 DEF Before, Link
<1>4. CASE s # b.seq + 1
  <2>1. s - 1 \in DOMAIN mans
      BY <1>2, <1>4, FileFacts DEF LiveClosed
  <2>2. mans[s - 1].last \in Nat /\ mans[s - 1].seq \in Nat /\ mans[s - 1].recs \in Seq(Observations)
      BY <2>1, FileFacts
  <2> QED
      BY <1>1, <1>2, <1>4, <2>2 DEF Before, Link, Hash, Hashes
<1> QED
    BY <1>1, <1>2, <1>3, <1>4

(* What the chain leaves for a segment that comes next.                    *)
LEMMA PreviousIs ==
    ASSUME NEW b \in Baselines, FilesTyped, ChainInv(b), NEW s \in Nat, s > b.seq,
           \A u \in b.seq + 1 .. s - 1 : u \in Closed
    PROVE  Previous(s, b) = [seq |-> s - 1, hash |-> Link(s, b), local |-> Before(s, b)]
<1>1. b.seq \in Nat /\ Closed \subseteq Nat /\ Closed \subseteq DOMAIN segs
    BY FileFacts, BaselineFacts
<1>2. PICK earlier : earlier = {t \in Closed : t < s}
    OBVIOUS
<1>3. earlier \subseteq Int
  <2>1. \A t \in earlier : t \in Nat
      BY <1>1, <1>2
  <2> QED
      BY <2>1
<1>4. Previous(s, b) = IF earlier = {} THEN [seq |-> b.seq, hash |-> b.hash, local |-> b.local]
                       ELSE [seq |-> Max(earlier), hash |-> Hash(mans[Max(earlier)]),
                             local |-> mans[Max(earlier)].last]
    BY <1>2 DEF Previous
<1>5. CASE s # b.seq + 1
  <2>1. s - 1 \in earlier /\ \A t \in earlier : t <= s - 1
      BY <1>1, <1>2, <1>5
  <2>2. Max(earlier) = s - 1
      BY <1>3, <2>1, MaxIs
  <2> QED
      BY <1>4, <1>5, <2>1, <2>2 DEF Link, Before
<1>6. CASE s = b.seq + 1 /\ earlier = {}
    BY <1>1, <1>4, <1>6 DEF Link, Before
<1>7. CASE s = b.seq + 1 /\ earlier # {}
  <2>1. \A t \in earlier : t = b.seq
    <3> TAKE t \in earlier
    <3>1. t \in Nat /\ t >= b.seq /\ t < s
        BY <1>1, <1>2 DEF ChainInv
    <3> QED
        BY <1>1, <1>7, <3>1
  <2>2. b.seq \in earlier /\ \A t \in earlier : t <= b.seq
      BY <1>1, <1>7, <2>1
  <2>3. Max(earlier) = b.seq
      BY <1>3, <2>2, MaxIs
  <2>4. Hash(mans[b.seq]) = b.hash /\ mans[b.seq].last = b.local
      BY <1>2, <2>2 DEF ChainInv
  <2> QED
      BY <1>1, <1>4, <1>7, <2>3, <2>4 DEF Link, Before
<1> QED
    BY <1>5, <1>6, <1>7

(* Records by segment and place.                                           *)
LEMMA PositionFacts ==
    ASSUME FilesTyped
    PROVE  /\ \A s \in DOMAIN segs : \A j \in 1..Size(s) : <<s, j>> \in Positions
           /\ \A p \in Positions :
                /\ p[1] \in DOMAIN segs /\ p[2] \in 1..Size(p[1]) /\ p = <<p[1], p[2]>>
                /\ p[1] \in Nat /\ p[2] \in Nat /\ Rec(p) \in Observations
<1>1. \A s \in DOMAIN segs : \A j \in 1..Size(s) : <<s, j>> \in Positions
    BY DEF Positions, Size
<1>2. ASSUME NEW p \in Positions
      PROVE  /\ p[1] \in DOMAIN segs /\ p[2] \in 1..Size(p[1]) /\ p = <<p[1], p[2]>>
             /\ p[1] \in Nat /\ p[2] \in Nat /\ Rec(p) \in Observations
  <2>1. PICK s \in DOMAIN segs : p \in {<<s, j>> : j \in 1..Size(s)}
      BY DEF Positions, Size
  <2>2. PICK j \in 1..Size(s) : p = <<s, j>>
      BY <2>1
  <2>3. p[1] = s /\ p[2] = j
      BY <2>2
  <2>4. s \in Nat /\ j \in Nat /\ segs[s].recs[j] \in Observations
      BY FileFacts
  <2> QED
      BY <2>2, <2>3, <2>4 DEF Rec
<1> QED
    BY <1>1, <1>2

(* The number of a record after the baseline.                              *)
LEMMA NumberIs ==
    ASSUME NEW b \in Baselines, FilesTyped, ChainInv(b), NEW p \in LivePositions(b)
    PROVE  /\ p[1] \in Live(b) /\ p[2] \in 1..Size(p[1]) /\ p = <<p[1], p[2]>>
           /\ p[1] \in Nat /\ p[2] \in Nat /\ Before(p[1], b) \in Nat
           /\ Number(p, b) = Before(p[1], b) + p[2] /\ Number(p, b) \in Nat
           /\ b.local < Number(p, b)
<1>1. p \in Positions /\ p[1] > b.seq
    BY DEF LivePositions
<1>2. p[1] \in Live(b) /\ p[2] \in 1..Size(p[1]) /\ p = <<p[1], p[2]>> /\ p[1] \in Nat /\ p[2] \in Nat
    BY <1>1, PositionFacts DEF Live
<1>3. Before(p[1], b) \in Nat /\ b.local <= Before(p[1], b) /\ b.local \in Nat
    BY <1>2, BeforeFacts, BaselineFacts DEF ChainInv
<1>4. \A u \in b.seq + 1 .. p[1] - 1 : u \in Closed
    BY <1>2 DEF ChainInv, Live
<1>5. Previous(p[1], b).local = Before(p[1], b)
    BY <1>1, <1>2, <1>4, PreviousIs
<1>6. p[2] \in Nat /\ p[2] >= 1
    BY <1>2, <1>1, PositionFacts, FileFacts
<1> QED
    BY <1>2, <1>3, <1>5, <1>6 DEF Number

(* The records of a segment come before those of the next.                 *)
LEMMA SpanFacts ==
    ASSUME NEW b \in Baselines, FilesTyped, ChainInv(b), NEW s \in Live(b), NEW t \in Live(b), s < t
    PROVE  s \in LiveClosed(b) /\ Before(s, b) + Size(s) <= Before(t, b)
<1>1. s \in Nat /\ t \in Nat /\ b.seq \in Nat /\ s > b.seq /\ t > b.seq
    BY BeforeFacts, BaselineFacts
<1>2. s \in b.seq + 1 .. t - 1
    BY <1>1
<1>3. s \in LiveClosed(b)
    BY <1>1, <1>2 DEF ChainInv, LiveClosed, Live
<1>4. mans[s].last = Before(s, b) + Size(s) /\ mans[s].last <= Before(t, b)
    BY <1>3 DEF ChainInv
<1> QED
    BY <1>3, <1>4

(* Numbers rise with the records.                                          *)
LEMMA NumbersRise ==
    ASSUME NEW b \in Baselines, FilesTyped, ChainInv(b),
           NEW p \in LivePositions(b), NEW q \in LivePositions(b), p # q
    PROVE  /\ Precedes(p, q) \/ Precedes(q, p)
           /\ Number(p, b) # Number(q, b)
           /\ Precedes(p, q) <=> Number(p, b) < Number(q, b)
<1>1. /\ p[1] \in Live(b) /\ p[1] \in Nat /\ p[2] \in Nat /\ p = <<p[1], p[2]>> /\ Before(p[1], b) \in Nat
      /\ Number(p, b) = Before(p[1], b) + p[2] /\ p[2] \in 1..Size(p[1]) /\ Size(p[1]) \in Nat
    BY NumberIs, FileFacts DEF Live
<1>2. /\ q[1] \in Live(b) /\ q[1] \in Nat /\ q[2] \in Nat /\ q = <<q[1], q[2]>> /\ Before(q[1], b) \in Nat
      /\ Number(q, b) = Before(q[1], b) + q[2] /\ q[2] \in 1..Size(q[1]) /\ Size(q[1]) \in Nat
    BY NumberIs, FileFacts DEF Live
<1>3. CASE p[1] = q[1]
  <2>1. p[2] # q[2]
      BY <1>1, <1>2, <1>3
  <2> QED
      BY <1>1, <1>2, <1>3, <2>1 DEF Precedes
<1>4. CASE p[1] < q[1]
  <2>1. Before(p[1], b) + Size(p[1]) <= Before(q[1], b)
      BY <1>1, <1>2, <1>4, SpanFacts
  <2> QED
      BY <1>1, <1>2, <1>4, <2>1 DEF Precedes
<1>5. CASE q[1] < p[1]
  <2>1. Before(q[1], b) + Size(q[1]) <= Before(p[1], b)
      BY <1>1, <1>2, <1>5, SpanFacts
  <2> QED
      BY <1>1, <1>2, <1>5, <2>1 DEF Precedes
<1> QED
    BY <1>1, <1>2, <1>3, <1>4, <1>5

(* No number is beyond the last.                                           *)
LEMMA NumbersEnd ==
    ASSUME NEW b \in Baselines, FilesTyped, ChainInv(b), NEW e, EndsAt(e, b)
    PROVE  /\ e \in Nat /\ b.local <= e
           /\ \A p \in LivePositions(b) : Number(p, b) <= e
<1>1. CASE Live(b) = {}
    BY <1>1, NumberIs, BaselineFacts DEF EndsAt
<1>2. CASE Live(b) # {}
  <2>1. PICK s \in Live(b) : (\A t \in Live(b) : t <= s) /\ e = Before(s, b) + Size(s)
      BY <1>2 DEF EndsAt
  <2>2. s \in Nat /\ Before(s, b) \in Nat /\ Size(s) \in Nat /\ b.local <= Before(s, b) /\ b.local \in Nat
      BY BeforeFacts, FileFacts, BaselineFacts DEF ChainInv, Live
  <2>3. ASSUME NEW p \in LivePositions(b) PROVE Number(p, b) <= e
    <3>1. /\ p[1] \in Live(b) /\ p[1] \in Nat /\ p[2] \in 1..Size(p[1]) /\ Before(p[1], b) \in Nat
          /\ Number(p, b) = Before(p[1], b) + p[2] /\ Size(p[1]) \in Nat
        BY NumberIs, FileFacts DEF Live
    <3>2. CASE p[1] = s
        BY <2>1, <2>2, <3>1, <3>2
    <3>3. CASE p[1] < s
      <4>1. Before(p[1], b) + Size(p[1]) <= Before(s, b)
          BY <3>1, <3>3, SpanFacts
      <4>2. Number(p, b) <= Before(p[1], b) + Size(p[1])
          BY <3>1
      <4>3. Number(p, b) \in Nat /\ Before(p[1], b) + Size(p[1]) \in Nat
          BY <3>1
      <4> QED
          BY <2>1, <2>2, <4>1, <4>2, <4>3
    <3> QED
        BY <2>1, <2>2, <3>1, <3>2, <3>3
  <2> QED
      BY <2>1, <2>2, <2>3
<1> QED
    BY <1>1, <1>2

-----------------------------------------------------------------------------
(* Changes of the directory.                                               *)

DirInv(b) == FilesTyped /\ ChainInv(b) /\ OrderInv(b) /\ CountInv(b)

(* What is read off the directory stays.                                   *)
SamePlaces(b) ==
    /\ Closed' = Closed /\ LiveClosed(b)' = LiveClosed(b) /\ Full(b)' = Full(b)
    /\ Positions' = Positions /\ LivePositions(b)' = LivePositions(b)
    /\ \A p \in Positions : Rec(p)' = Rec(p)
    /\ \A s \in DOMAIN segs : Size(s)' = Size(s) /\ FirstRec(s)' = FirstRec(s) /\ LastRec(s)' = LastRec(s)
    /\ \A s : Before(s, b)' = Before(s, b) /\ Link(s, b)' = Link(s, b)
    /\ \A s : Previous(s, b)' = Previous(s, b)
    /\ \A n : EndsAt(n, b)' <=> EndsAt(n, b)
    /\ \A c : EndsWith(c, b)' <=> EndsWith(c, b)
    /\ \A n : Held(n, b)' = Held(n, b)

(* The records of the segments stay, their tails may be cut off.           *)
SameRecords ==
    /\ DOMAIN segs' = DOMAIN segs /\ segs' \in [DOMAIN segs' -> Segments] /\ mans' = mans
    /\ \A s \in DOMAIN segs :
         /\ segs'[s].recs = segs[s].recs /\ segs'[s].hdr = segs[s].hdr
         /\ segs'[s].torn \in {segs[s].torn, FALSE} \/ s \notin Closed

(* The number of a record is known in every state with such a chain.       *)
NumbersKnown ==
    \A b \in Baselines : FilesTyped /\ ChainInv(b) =>
        \A p \in LivePositions(b) : Number(p, b) = Before(p[1], b) + p[2]

(* The same in the next state.                                             *)
LEMMA NumbersNext == NumbersKnown /\ NumbersKnown'
<1>1. NumbersKnown
    BY NumberIs DEF NumbersKnown
<1> QED
    BY <1>1, PTL

(* A number names what it named when no segment is renumbered.             *)
LEMMA HeldSame ==
    ASSUME NEW b \in Baselines, FilesTyped, ChainInv(b), FilesTyped', ChainInv(b)',
           LivePositions(b)' = LivePositions(b), \A p \in LivePositions(b) : Rec(p)' = Rec(p),
           \A s \in Live(b) : Before(s, b)' = Before(s, b)
    PROVE  \A n : Held(n, b)' = Held(n, b)
<1>1. ASSUME NEW p \in LivePositions(b) PROVE Number(p, b)' = Number(p, b)
  <2>1. Number(p, b) = Before(p[1], b) + p[2] /\ p[1] \in Live(b)
      BY NumberIs
  <2>2. Number(p, b)' = Before(p[1], b)' + p[2]
      BY NumbersNext DEF NumbersKnown
  <2> QED
      BY <2>1, <2>2
<1> TAKE n
<1>2. {q \in Positions : q[1] > b.seq /\ Number(q, b) = n} = {q \in LivePositions(b) : Number(q, b) = n}
    BY DEF LivePositions
<1>3. {q \in Positions' : q[1] > b.seq /\ Number(q, b)' = n} = {q \in LivePositions(b)' : Number(q, b)' = n}
    BY DEF LivePositions
<1>4. {q \in LivePositions(b)' : Number(q, b)' = n} = {q \in LivePositions(b) : Number(q, b) = n}
    BY <1>1
<1> QED
    BY <1>2, <1>3, <1>4 DEF Held

(* What is read off the directory stays when only tails are cut off.       *)
LEMMA SamePlacesHold ==
    ASSUME FilesTyped, SameRecords, NEW b
    PROVE  SamePlaces(b) /\ Live(b)' = Live(b)
<1>0. \A s \in DOMAIN segs : Size(s)' = Size(s) /\ FirstRec(s)' = FirstRec(s) /\ LastRec(s)' = LastRec(s)
    BY DEF SameRecords, Size, FirstRec, LastRec
<1>1. Closed' = Closed
    BY DEF SameRecords, Closed
<1>2. Live(b)' = Live(b) /\ LiveClosed(b)' = LiveClosed(b) /\ Full(b)' = Full(b)
    BY <1>0, <1>1 DEF SameRecords, Live, LiveClosed, Full
<1>3. Positions' = Positions
  <2>1. \A s \in DOMAIN segs : {<<s, j>> : j \in 1..Len(segs'[s].recs)} = {<<s, j>> : j \in 1..Len(segs[s].recs)}
      BY DEF SameRecords
  <2> QED
      BY <2>1 DEF SameRecords, Positions
<1>4. LivePositions(b)' = LivePositions(b)
    BY <1>3 DEF LivePositions
<1>5. \A p \in Positions : Rec(p)' = Rec(p)
    BY PositionFacts DEF SameRecords, Rec
<1>6. \A s : Before(s, b)' = Before(s, b) /\ Link(s, b)' = Link(s, b)
    BY DEF SameRecords, Before, Link
<1>7. \A s : Previous(s, b)' = Previous(s, b)
    BY <1>1 DEF SameRecords, Previous
<1>8. \A n : EndsAt(n, b)' <=> EndsAt(n, b)
    BY <1>0, <1>2, <1>6 DEF EndsAt, Live
<1>9. \A c : EndsWith(c, b)' <=> EndsWith(c, b)
    BY <1>0, <1>2 DEF EndsWith, Full, Live
<1>10. \A n : Held(n, b)' = Held(n, b)
  <2> TAKE n
  <2>1. \A p \in Positions : Number(p, b)' = Number(p, b)
      BY <1>7 DEF Number
  <2>2. {q \in Positions' : q[1] > b.seq /\ Number(q, b)' = n} = {q \in Positions : q[1] > b.seq /\ Number(q, b) = n}
      BY <1>3, <2>1
  <2> QED
      BY <1>5, <2>2 DEF Held
<1> QED
    BY <1>0, <1>1, <1>2, <1>3, <1>4, <1>5, <1>6, <1>7, <1>8, <1>9, <1>10 DEF SamePlaces

(* Cutting off tails keeps the directory in order.                         *)
LEMMA SameDirectory ==
    ASSUME NEW b, DirInv(b), SameRecords
    PROVE  DirInv(b)' /\ SamePlaces(b) /\ Live(b)' = Live(b)
<1>1. SamePlaces(b) /\ Live(b)' = Live(b)
    BY SamePlacesHold DEF DirInv
<1>2. FilesTyped'
    BY DEF SameRecords, FilesTyped, DirInv
<1>3. ChainInv(b)'
  <2>1. \A s \in LiveClosed(b) : ~segs'[s].torn
      BY DEF SameRecords, LiveClosed, DirInv, ChainInv, FilesTyped, Closed
  <2>2. \A s \in LiveClosed(b) : s \in DOMAIN segs
      BY FileFacts DEF LiveClosed, DirInv
  <2>3. Closed' = Closed /\ DOMAIN segs' = DOMAIN segs /\ mans' = mans /\ Live(b)' = Live(b) /\ LiveClosed(b)' = LiveClosed(b)
      BY <1>1 DEF SameRecords, SamePlaces
  <2>4. \A s : Before(s, b)' = Before(s, b) /\ Link(s, b)' = Link(s, b)
      BY <1>1 DEF SamePlaces
  <2>5. \A s \in DOMAIN segs : segs'[s].recs = segs[s].recs /\ segs'[s].hdr = segs[s].hdr /\ Size(s)' = Size(s)
      BY <1>1 DEF SameRecords, SamePlaces
  <2>6. (\A s \in DOMAIN segs : s >= b.seq /\ \A u \in b.seq + 1 .. s - 1 : u \in Closed)'
      BY <2>3 DEF DirInv, ChainInv
  <2>7. (\A s \in LiveClosed(b) :
         /\ segs[s].hdr /\ ~segs[s].torn /\ Size(s) # 0 /\ mans[s].recs = segs[s].recs
         /\ mans[s].prev = Link(s, b)
         /\ mans[s].first = Before(s, b) + 1
         /\ mans[s].last = Before(s, b) + Size(s))'
      BY <2>1, <2>2, <2>3, <2>4, <2>5 DEF DirInv, ChainInv
  <2>8. (b.seq \in Closed => Hash(mans[b.seq]) = b.hash /\ mans[b.seq].last = b.local)'
      BY <2>3 DEF DirInv, ChainInv
  <2>9. (\A s \in Live(b) : b.local <= Before(s, b))'
      BY <2>3, <2>4 DEF DirInv, ChainInv
  <2>10. (\A s, t \in Live(b) : s < t => mans[s].last <= Before(t, b))'
      BY <2>3, <2>4 DEF DirInv, ChainInv
  <2> QED
      BY <2>6, <2>7, <2>8, <2>9, <2>10 DEF ChainInv
<1>4. OrderInv(b)'
  <2>1. \A s \in Live(b) : segs'[s].recs = segs[s].recs
      BY DEF SameRecords, Live
  <2>2. Live(b)' = Live(b) /\ Full(b)' = Full(b) /\ \A s \in Full(b) : s \in DOMAIN segs
      BY <1>1 DEF SamePlaces, Full, Live
  <2>3. \A s \in Full(b) : FirstRec(s)' = FirstRec(s) /\ LastRec(s)' = LastRec(s)
      BY <1>1, <2>2 DEF SamePlaces
  <2>4. (\A s \in Live(b) : Rising(segs[s].recs))'
      BY <2>1, <2>2 DEF DirInv, OrderInv, Rising
  <2>5. (\A s, t \in Full(b) :
         s < t /\ FirstRec(s).epoch = FirstRec(t).epoch => LastRec(s).off < FirstRec(t).off)'
      BY <2>2, <2>3 DEF DirInv, OrderInv
  <2>6. (\A s, t, u \in Full(b) :
         s < u /\ u < t /\ FirstRec(s).epoch = FirstRec(t).epoch => FirstRec(u).epoch = FirstRec(s).epoch)'
      BY <2>2, <2>3 DEF DirInv, OrderInv
  <2>7. (b.seq + 1 \in Full(b) /\ b.cursor # NoCursor
         => Successor(Cursor(FirstRec(b.seq + 1)), b.cursor, TRUE))'
      BY <2>2, <2>3 DEF DirInv, OrderInv, Successor, Cursor
  <2> QED
      BY <2>4, <2>5, <2>6, <2>7 DEF OrderInv
<1>5. CountInv(b)'
    BY <1>1 DEF SamePlaces, DirInv, CountInv
<1> QED
    BY <1>1, <1>2, <1>3, <1>4, <1>5 DEF DirInv

(* A segment may be created with number n.                                 *)
NextFits(n, b) ==
    /\ n \in 1..MaxSegments /\ n > b.seq /\ \A s \in DOMAIN segs : s < n
    /\ n = b.seq + 1 \/ n - 1 \in LiveClosed(b)
    /\ Live(b) \subseteq Closed

NewSegment(n, h) == segs' = With(segs, n, Segment(h, <<>>, FALSE)) /\ mans' = mans

(* The files after a segment is created.                                   *)
LEMMA NewSegmentFile ==
    ASSUME NEW b \in Baselines, FilesTyped, NEW n, NextFits(n, b), NEW h \in BOOLEAN, NewSegment(n, h)
    PROVE  /\ FilesTyped' /\ DOMAIN segs' = DOMAIN segs \cup {n} /\ n \notin DOMAIN segs
           /\ \A s \in DOMAIN segs : segs'[s] = segs[s]
           /\ segs'[n].hdr = h /\ ~segs'[n].torn /\ segs'[n].recs = <<>> /\ Size(n)' = 0
<1>1. DOMAIN segs' = DOMAIN segs \cup {n} /\ mans' = mans
    BY DEF NewSegment, With
<1>2. n \notin DOMAIN segs /\ n \in 1..MaxSegments
    BY FileFacts DEF NextFits
<1>3. \A s \in DOMAIN segs : segs'[s] = segs[s]
    BY <1>2 DEF NewSegment, With
<1>4. segs'[n] = [hdr |-> h, recs |-> <<>>, torn |-> FALSE]
    BY DEF NewSegment, With, Segment
<1>5. segs'[n] \in Segments /\ segs'[n].hdr = h /\ ~segs'[n].torn /\ segs'[n].recs = <<>>
    BY <1>4 DEF Segments
<1>6. Size(n)' = 0
    BY <1>5 DEF Size
<1>7. segs' \in [DOMAIN segs' -> Segments]
  <2>1. segs' = [i \in DOMAIN segs \cup {n} |-> IF i = n THEN Segment(h, <<>>, FALSE) ELSE segs[i]]
      BY DEF NewSegment, With
  <2>2. \A i \in DOMAIN segs \cup {n} : segs'[i] \in Segments
      BY <1>3, <1>5 DEF FilesTyped
  <2> QED
      BY <1>1, <2>1, <2>2
<1>8. DOMAIN segs' \subseteq 1..MaxSegments /\ DOMAIN mans' \subseteq DOMAIN segs' /\ mans' \in [DOMAIN mans' -> Manifests]
      /\ \A s \in DOMAIN mans' : mans'[s].seq = s
    BY <1>1, <1>2 DEF FilesTyped
<1>9. \A s \in DOMAIN segs' : ~segs'[s].hdr => segs'[s].recs = <<>>
    BY <1>1, <1>3, <1>5 DEF FilesTyped
<1> QED
    BY <1>1, <1>2, <1>3, <1>5, <1>6, <1>7, <1>8, <1>9 DEF FilesTyped

(* The segments below n are closed, and the last of them is n - 1.         *)
LEMMA NextFitsFacts ==
    ASSUME NEW b \in Baselines, DirInv(b), NEW n, NextFits(n, b)
    PROVE  /\ n \in Nat /\ b.seq \in Nat /\ b.seq < n
           /\ \A u \in b.seq + 1 .. n - 1 : u \in Closed
           /\ n = b.seq + 1 => Live(b) = {} /\ Before(n, b) = b.local
           /\ n # b.seq + 1 => n - 1 \in LiveClosed(b) /\ n - 1 \in Live(b) /\ (\A s \in Live(b) : s <= n - 1)
                               /\ Before(n, b) = mans[n - 1].last
                               /\ Before(n, b) = Before(n - 1, b) + Size(n - 1)
           /\ Before(n, b) \in Nat
           /\ \A e : EndsAt(e, b) <=> e = Before(n, b)
<1>1. n \in Nat /\ b.seq \in Nat /\ b.seq < n /\ b.local \in Nat
    BY BaselineFacts DEF NextFits
<1>2. FilesTyped /\ ChainInv(b)
    BY DEF DirInv
<1>3. \A s \in Live(b) : s \in Nat /\ b.seq < s /\ s < n
    BY <1>1, <1>2, BeforeFacts, FileFacts DEF NextFits, Live
<1>4. CASE n = b.seq + 1
  <2>1. Live(b) = {}
      BY <1>1, <1>3, <1>4
  <2> QED
      BY <1>1, <1>4, <2>1 DEF EndsAt, Before
<1>5. CASE n # b.seq + 1
  <2>1. n - 1 \in LiveClosed(b)
      BY <1>5 DEF NextFits
  <2>2. n - 1 \in Live(b) /\ n - 1 \in DOMAIN segs
      BY <2>1, <1>2, FileFacts DEF LiveClosed, Live
  <2>3. \A s \in Live(b) : s <= n - 1
      BY <1>1, <1>3
  <2>4. \A u \in b.seq + 1 .. n - 1 : u \in Closed
    <3> TAKE u \in b.seq + 1 .. n - 1
    <3>1. u = n - 1 \/ u \in b.seq + 1 .. (n - 1) - 1
        BY <1>1
    <3> QED
        BY <1>2, <2>1, <2>2, <3>1 DEF ChainInv, LiveClosed
  <2>5. Before(n, b) = mans[n - 1].last /\ Before(n, b) = Before(n - 1, b) + Size(n - 1) /\ Before(n - 1, b) \in Nat
      BY <1>1, <1>2, <1>5, <2>1, <2>2, BeforeFacts DEF ChainInv, Before
  <2>6. Size(n - 1) \in Nat
      BY <1>2, <2>2, FileFacts
  <2>7. \A e : EndsAt(e, b) <=> e = Before(n, b)
    <3>1. \A s \in Live(b) : (\A t \in Live(b) : t <= s) => s = n - 1
        BY <1>1, <1>3, <2>2, <2>3
    <3> QED
        BY <2>2, <2>3, <2>5, <3>1 DEF EndsAt
  <2> QED
      BY <1>1, <1>5, <2>1, <2>2, <2>3, <2>4, <2>5, <2>6, <2>7
<1> QED
    BY <1>4, <1>5

(* A new segment leaves what is read off the directory.                    *)
LEMMA NewSegmentDirectory ==
    ASSUME NEW b \in Baselines, DirInv(b), NEW n, NextFits(n, b), NEW h \in BOOLEAN, NewSegment(n, h)
    PROVE  DirInv(b)' /\ SamePlaces(b) /\ Live(b)' = Live(b) \cup {n}
<1>1. /\ FilesTyped' /\ DOMAIN segs' = DOMAIN segs \cup {n} /\ n \notin DOMAIN segs /\ mans' = mans
      /\ \A s \in DOMAIN segs : segs'[s] = segs[s]
      /\ segs'[n].recs = <<>> /\ Size(n)' = 0
    BY NewSegmentFile DEF DirInv, NewSegment
<1>2. /\ n \in Nat /\ b.seq \in Nat /\ b.seq < n
      /\ \A u \in b.seq + 1 .. n - 1 : u \in Closed
      /\ n = b.seq + 1 => Live(b) = {} /\ Before(n, b) = b.local
      /\ n # b.seq + 1 => n - 1 \in LiveClosed(b) /\ n - 1 \in Live(b) /\ (\A s \in Live(b) : s <= n - 1)
                          /\ Before(n, b) = mans[n - 1].last
      /\ Before(n, b) \in Nat
      /\ \A e : EndsAt(e, b) <=> e = Before(n, b)
    BY NextFitsFacts
<1>3. FilesTyped /\ ChainInv(b) /\ OrderInv(b) /\ CountInv(b)
    BY DEF DirInv
<1>4. Closed' = Closed /\ Closed \subseteq DOMAIN segs /\ LiveClosed(b)' = LiveClosed(b)
    BY <1>1, <1>3, FileFacts DEF Closed, LiveClosed
<1>5. Live(b)' = Live(b) \cup {n} /\ n \notin Live(b)
    BY <1>1, <1>2 DEF Live
<1>6. \A s \in DOMAIN segs : Size(s)' = Size(s) /\ FirstRec(s)' = FirstRec(s) /\ LastRec(s)' = LastRec(s)
    BY <1>1 DEF Size, FirstRec, LastRec
<1>7. Full(b)' = Full(b)
    BY <1>1, <1>5, <1>6 DEF Full, Live
<1>8. Positions' = Positions
  <2>1. \A s \in DOMAIN segs : {<<s, j>> : j \in 1..Len(segs'[s].recs)} = {<<s, j>> : j \in 1..Len(segs[s].recs)}
      BY <1>1
  <2>2. {<<n, j>> : j \in 1..Len(segs'[n].recs)} = {}
    <3>1. Len(segs'[n].recs) = 0
        BY <1>1 DEF Size
    <3> QED
        BY <3>1
  <2> QED
      BY <1>1, <2>1, <2>2 DEF Positions
<1>9. LivePositions(b)' = LivePositions(b) /\ \A p \in Positions : Rec(p)' = Rec(p)
    BY <1>1, <1>3, <1>8, PositionFacts DEF LivePositions, Rec
<1>10. \A s : Before(s, b)' = Before(s, b) /\ Link(s, b)' = Link(s, b) /\ Previous(s, b)' = Previous(s, b)
    BY <1>1, <1>4 DEF Before, Link, Previous
<1>11. \A e : EndsAt(e, b)' <=> EndsAt(e, b)
  <2> TAKE e
  <2>1. \A s \in Live(b) : s < n
      BY <1>1 DEF NextFits, Live
  <2>2. EndsAt(e, b)' <=> e = Before(n, b)
    <3>1. \A s \in Live(b)' : (\A t \in Live(b)' : t <= s) <=> s = n
      <4> TAKE s \in Live(b)'
      <4>1. \A t \in Live(b)' : t = n \/ (t \in Nat /\ t < n)
          BY <1>2, <1>3, <1>5, <2>1, BeforeFacts
      <4> QED
          BY <1>2, <1>5, <4>1
    <3>2. Before(n, b)' + Size(n)' = Before(n, b)
        BY <1>1, <1>2, <1>10
    <3> QED
        BY <1>5, <3>1, <3>2 DEF EndsAt
  <2> QED
      BY <1>2, <2>2
<1>12. \A c : EndsWith(c, b)' <=> EndsWith(c, b)
  <2>1. \A s \in Full(b) : LastRec(s)' = LastRec(s)
      BY <1>6 DEF Full, Live
  <2> QED
      BY <1>7, <2>1 DEF EndsWith
<1>13. ChainInv(b)'
  <2>1. (\A s \in DOMAIN segs : s >= b.seq /\ \A u \in b.seq + 1 .. s - 1 : u \in Closed)'
      BY <1>1, <1>2, <1>3, <1>4 DEF ChainInv
  <2>2. (\A s \in LiveClosed(b) :
         /\ segs[s].hdr /\ ~segs[s].torn /\ Size(s) # 0 /\ mans[s].recs = segs[s].recs
         /\ mans[s].prev = Link(s, b)
         /\ mans[s].first = Before(s, b) + 1
         /\ mans[s].last = Before(s, b) + Size(s))'
    <3>1. \A s \in LiveClosed(b) : s \in DOMAIN segs
        BY <1>4 DEF LiveClosed
    <3> QED
        BY <1>1, <1>3, <1>4, <1>6, <1>10, <3>1 DEF ChainInv
  <2>3. (b.seq \in Closed => Hash(mans[b.seq]) = b.hash /\ mans[b.seq].last = b.local)'
      BY <1>1, <1>3, <1>4 DEF ChainInv
  <2>4. (\A s \in Live(b) : b.local <= Before(s, b))'
    <3>1. b.local <= Before(n, b)
      <4>1. n # b.seq + 1 => b.local <= mans[n - 1].last
        <5>1. ASSUME n # b.seq + 1 PROVE b.local <= mans[n - 1].last
          <6>1. mans[n - 1].last = Before(n - 1, b) + Size(n - 1) /\ b.local <= Before(n - 1, b)
              BY <1>2, <1>3, <5>1 DEF ChainInv
          <6>2. Before(n - 1, b) \in Nat /\ Size(n - 1) \in Nat /\ b.local \in Nat
              BY <1>2, <1>3, <5>1, BeforeFacts, FileFacts, BaselineFacts
          <6> QED
              BY <6>1, <6>2
        <5> QED
            BY <5>1
      <4> QED
          BY <1>2, <4>1, BaselineFacts
    <3> QED
        BY <1>3, <1>5, <1>10, <3>1 DEF ChainInv
  <2>5. (\A s, t \in Live(b) : s < t => mans[s].last <= Before(t, b))'
    <3>1. ASSUME NEW s \in Live(b) PROVE mans[s].last <= Before(n, b)
      <4>1. n # b.seq + 1 /\ s <= n - 1 /\ s \in Nat
          BY <1>2, <1>3, BeforeFacts
      <4>2. CASE s = n - 1
        <5>1. mans[n - 1].last \in Nat
            BY <1>2, <4>1
        <5> QED
            BY <1>2, <4>1, <4>2, <5>1
      <4>3. CASE s < n - 1
        <5>1. mans[s].last <= Before(n - 1, b) /\ Before(n, b) = Before(n - 1, b) + Size(n - 1)
            BY <1>2, <1>3, <4>1, <4>3 DEF ChainInv, Before
        <5>2. Before(n - 1, b) \in Nat /\ Size(n - 1) \in Nat
            BY <1>2, <1>3, <4>1, BeforeFacts, FileFacts
        <5>3. s \in LiveClosed(b)
            BY <1>2, <1>3, <4>1, <4>3, SpanFacts
        <5>4. mans[s].last \in Nat
            BY <1>3, <5>3, FileFacts DEF LiveClosed
        <5> QED
            BY <5>1, <5>2, <5>4
      <4> QED
          BY <1>2, <4>1, <4>2, <4>3
    <3>2. \A s \in Live(b) : s \in Nat /\ s < n
        BY <1>3, BeforeFacts DEF NextFits, Live
    <3>3. ASSUME NEW s \in Live(b)', NEW t \in Live(b)', s < t PROVE mans'[s].last <= Before(t, b)'
      <4>1. s \in Live(b)
          BY <1>2, <1>5, <3>2, <3>3
      <4>2. CASE t = n
          BY <1>1, <1>10, <3>1, <4>1, <4>2
      <4>3. CASE t \in Live(b)
          BY <1>1, <1>3, <1>10, <3>3, <4>1, <4>3 DEF ChainInv
      <4> QED
          BY <1>5, <4>2, <4>3
    <3> QED
        BY <3>3
  <2> QED
      BY <2>1, <2>2, <2>3, <2>4, <2>5 DEF ChainInv
<1>14. OrderInv(b)'
  <2>1. \A s \in Full(b) : FirstRec(s)' = FirstRec(s) /\ LastRec(s)' = LastRec(s)
      BY <1>6 DEF Full, Live
  <2>2. (\A s \in Live(b) : Rising(segs[s].recs))'
    <3>1. Rising(segs'[n].recs)
      <4>1. Len(segs'[n].recs) = 0
          BY <1>1 DEF Size
      <4> QED
          BY <4>1 DEF Rising
    <3>2. \A s \in Live(b) : Rising(segs'[s].recs)
        BY <1>1, <1>3 DEF OrderInv, Live
    <3> QED
        BY <1>5, <3>1, <3>2 DEF Rising
  <2>3. (\A s, t \in Full(b) :
         s < t /\ FirstRec(s).epoch = FirstRec(t).epoch => LastRec(s).off < FirstRec(t).off)'
      BY <1>3, <1>7, <2>1 DEF OrderInv
  <2>4. (\A s, t, u \in Full(b) :
         s < u /\ u < t /\ FirstRec(s).epoch = FirstRec(t).epoch => FirstRec(u).epoch = FirstRec(s).epoch)'
      BY <1>3, <1>7, <2>1 DEF OrderInv
  <2>5. (b.seq + 1 \in Full(b) /\ b.cursor # NoCursor
         => Successor(Cursor(FirstRec(b.seq + 1)), b.cursor, TRUE))'
      BY <1>3, <1>7, <2>1 DEF OrderInv, Successor, Cursor
  <2> QED
      BY <2>2, <2>3, <2>4, <2>5 DEF OrderInv
<1>15. CountInv(b)'
    BY <1>3, <1>9, <1>11 DEF CountInv
<1>16. \A e : Held(e, b)' = Held(e, b)
    BY <1>1, <1>3, <1>9, <1>10, <1>13, HeldSame DEF LivePositions
<1> QED
    BY <1>1, <1>4, <1>5, <1>6, <1>7, <1>8, <1>9, <1>10, <1>11, <1>12, <1>13, <1>14, <1>15, <1>16 DEF DirInv, SamePlaces

(* A manifest is written for the open segment w: under its temporary name, *)
(* or published, and then it says what close_writer writes.                *)
Vouches(m, w, b) ==
    /\ m \in Manifests /\ m.seq = w
    /\ ~m.tmp => /\ segs[w].hdr /\ ~segs[w].torn /\ Size(w) # 0 /\ m.recs = segs[w].recs
                 /\ m.prev = Link(w, b) /\ m.first = Before(w, b) + 1
                 /\ m.last = Before(w, b) + Size(w)

NewManifestOf(w, m) == mans' = With(mans, w, m) /\ segs' = segs

(* A segment without a manifest is the last.                               *)
LEMMA OpenIsLast ==
    ASSUME NEW b \in Baselines, FilesTyped, ChainInv(b), NEW w \in Live(b) \ Closed
    PROVE  /\ w \in Nat /\ b.seq \in Nat /\ w > b.seq /\ w \in DOMAIN segs
           /\ \A s \in DOMAIN segs : s \in Nat /\ s <= w /\ b.seq <= s
           /\ \A s \in Live(b) : s # w => s \in LiveClosed(b)
           /\ \A e : EndsAt(e, b) <=> e = Before(w, b) + Size(w)
<1>1. w \in Nat /\ b.seq \in Nat /\ w > b.seq /\ w \in DOMAIN segs
    BY BeforeFacts, BaselineFacts
<1>2. ASSUME NEW s \in DOMAIN segs PROVE s \in Nat /\ s <= w /\ b.seq <= s
  <2>1. s \in Nat /\ b.seq <= s
      BY FileFacts, BaselineFacts DEF ChainInv
  <2>2. CASE s > w
    <3>1. w \in b.seq + 1 .. s - 1
        BY <1>1, <2>1, <2>2
    <3> QED
        BY <3>1 DEF ChainInv
  <2> QED
      BY <1>1, <2>1, <2>2
<1>3. ASSUME NEW s \in Live(b), s # w PROVE s \in LiveClosed(b)
  <2>1. s \in Nat /\ s < w /\ s > b.seq
      BY <1>1, <1>2, <1>3, BeforeFacts
  <2> QED
      BY <2>1, SpanFacts
<1>4. ASSUME NEW e PROVE EndsAt(e, b) <=> e = Before(w, b) + Size(w)
  <2>1. \A s \in Live(b) : s \in Nat /\ s <= w
      BY <1>2, BeforeFacts
  <2>2. \A s \in Live(b) : (\A t \in Live(b) : t <= s) <=> s = w
      BY <1>1, <2>1
  <2> QED
      BY <2>2 DEF EndsAt
<1> QED
    BY <1>1, <1>2, <1>3, <1>4

(* The files after a manifest is written.                                  *)
LEMMA NewManifestFile ==
    ASSUME NEW b \in Baselines, FilesTyped, NEW w \in Live(b) \ DOMAIN mans, NEW m, Vouches(m, w, b),
           NewManifestOf(w, m)
    PROVE  /\ FilesTyped' /\ DOMAIN mans' = DOMAIN mans \cup {w}
           /\ mans'[w] = m /\ \A s \in DOMAIN mans : mans'[s] = mans[s]
           /\ Closed' = IF m.tmp THEN Closed ELSE Closed \cup {w}
<1>1. DOMAIN mans' = DOMAIN mans \cup {w} /\ mans'[w] = m /\ \A s \in DOMAIN mans : mans'[s] = mans[s]
    BY DEF NewManifestOf, With
<1>2. mans' \in [DOMAIN mans' -> Manifests]
  <2>1. mans' = [i \in DOMAIN mans \cup {w} |-> IF i = w THEN m ELSE mans[i]]
      BY DEF NewManifestOf, With
  <2>2. \A i \in DOMAIN mans \cup {w} : mans'[i] \in Manifests
      BY <1>1 DEF FilesTyped, Vouches
  <2> QED
      BY <1>1, <2>1, <2>2
<1>3. \A s \in DOMAIN mans' : mans'[s].seq = s /\ s \in DOMAIN segs
    BY <1>1 DEF FilesTyped, Vouches, Live
<1>4. FilesTyped'
    BY <1>2, <1>3 DEF FilesTyped, NewManifestOf
<1>5. Closed' = IF m.tmp THEN Closed ELSE Closed \cup {w}
    BY <1>1 DEF Closed
<1> QED
    BY <1>1, <1>4, <1>5

(* What a new manifest of w leaves of the directory.                       *)
SameFiles(b) ==
    /\ Live(b)' = Live(b) /\ Full(b)' = Full(b)
    /\ Positions' = Positions /\ LivePositions(b)' = LivePositions(b)
    /\ \A p \in Positions : Rec(p)' = Rec(p)
    /\ \A s : Size(s)' = Size(s) /\ FirstRec(s)' = FirstRec(s) /\ LastRec(s)' = LastRec(s)
    /\ \A s \in Live(b) : Before(s, b)' = Before(s, b) /\ Link(s, b)' = Link(s, b)
    /\ \A n : EndsAt(n, b)' <=> EndsAt(n, b)
    /\ \A c : EndsWith(c, b)' <=> EndsWith(c, b)
    /\ \A n : Held(n, b)' = Held(n, b)

(* A manifest that vouches for the open segment, published or under its    *)
(* temporary name, keeps the directory in order and every number.          *)
LEMMA NewManifestDirectory ==
    ASSUME NEW b \in Baselines, DirInv(b), NEW w \in Live(b) \ DOMAIN mans, NEW m, Vouches(m, w, b),
           NewManifestOf(w, m)
    PROVE  DirInv(b)' /\ SameFiles(b)
<1>1. FilesTyped /\ ChainInv(b) /\ OrderInv(b) /\ CountInv(b) /\ segs' = segs
    BY DEF DirInv, NewManifestOf
<1>2. /\ FilesTyped' /\ DOMAIN mans' = DOMAIN mans \cup {w} /\ mans'[w] = m
      /\ \A s \in DOMAIN mans : mans'[s] = mans[s]
      /\ Closed' = IF m.tmp THEN Closed ELSE Closed \cup {w}
    BY <1>1, NewManifestFile
<1>3. w \in Live(b) \ Closed /\ Closed \subseteq DOMAIN mans
    BY DEF Closed
<1>4. /\ w \in Nat /\ b.seq \in Nat /\ w > b.seq /\ w \in DOMAIN segs
      /\ \A s \in DOMAIN segs : s \in Nat /\ s <= w /\ b.seq <= s
      /\ \A s \in Live(b) : s # w => s \in LiveClosed(b)
    BY <1>1, <1>3, OpenIsLast
<1>5. Live(b)' = Live(b) /\ Full(b)' = Full(b) /\ Positions' = Positions /\ LivePositions(b)' = LivePositions(b)
    BY <1>1 DEF Live, Full, Positions, LivePositions, Size
<1>6. /\ \A p \in Positions : Rec(p)' = Rec(p)
      /\ \A s : Size(s)' = Size(s) /\ FirstRec(s)' = FirstRec(s) /\ LastRec(s)' = LastRec(s)
    BY <1>1 DEF Rec, Size, FirstRec, LastRec
<1>7. ASSUME NEW s \in Live(b) PROVE Before(s, b)' = Before(s, b) /\ Link(s, b)' = Link(s, b)
  <2>1. s # b.seq + 1 => s - 1 \in DOMAIN mans
      BY <1>1, <1>3, BeforeFacts DEF LiveClosed
  <2> QED
      BY <1>2, <2>1 DEF Before, Link
<1>8. \A n : EndsAt(n, b)' <=> EndsAt(n, b)
    BY <1>5, <1>6, <1>7 DEF EndsAt
<1>9. \A c : EndsWith(c, b)' <=> EndsWith(c, b)
    BY <1>5, <1>6 DEF EndsWith
<1>10. LiveClosed(b)' \subseteq LiveClosed(b) \cup {w} /\ (w \in Closed' => ~m.tmp)
    BY <1>2, <1>3 DEF LiveClosed
<1>11. ChainInv(b)'
  <2>1. (\A s \in DOMAIN segs : s >= b.seq /\ \A u \in b.seq + 1 .. s - 1 : u \in Closed)'
      BY <1>1, <1>2 DEF ChainInv
  <2>2. (\A s \in LiveClosed(b) :
         /\ segs[s].hdr /\ ~segs[s].torn /\ Size(s) # 0 /\ mans[s].recs = segs[s].recs
         /\ mans[s].prev = Link(s, b)
         /\ mans[s].first = Before(s, b) + 1
         /\ mans[s].last = Before(s, b) + Size(s))'
    <3>1. ASSUME NEW s \in LiveClosed(b)
          PROVE /\ segs'[s].hdr /\ ~segs'[s].torn /\ Size(s)' # 0 /\ mans'[s].recs = segs'[s].recs
                /\ mans'[s].prev = Link(s, b)'
                /\ mans'[s].first = Before(s, b)' + 1
                /\ mans'[s].last = Before(s, b)' + Size(s)'
      <4>1. s \in DOMAIN mans /\ s \in Live(b)
          BY <1>1, <1>3, FileFacts DEF LiveClosed, Live
      <4>2. mans'[s] = mans[s] /\ Before(s, b)' = Before(s, b) /\ Link(s, b)' = Link(s, b) /\ Size(s)' = Size(s)
          BY <1>2, <1>6, <1>7, <4>1
      <4> QED
          BY <1>1, <4>2 DEF ChainInv
    <3>2. ASSUME w \in LiveClosed(b)'
          PROVE /\ segs'[w].hdr /\ ~segs'[w].torn /\ Size(w)' # 0 /\ mans'[w].recs = segs'[w].recs
                /\ mans'[w].prev = Link(w, b)'
                /\ mans'[w].first = Before(w, b)' + 1
                /\ mans'[w].last = Before(w, b)' + Size(w)'
      <4>1. ~m.tmp
          BY <1>10, <3>2 DEF LiveClosed
      <4>2. mans'[w] = m /\ Before(w, b)' = Before(w, b) /\ Link(w, b)' = Link(w, b) /\ Size(w)' = Size(w)
          BY <1>2, <1>6, <1>7
      <4> QED
          BY <1>1, <4>1, <4>2 DEF Vouches
    <3> QED
        BY <1>10, <3>1, <3>2
  <2>3. (b.seq \in Closed => Hash(mans[b.seq]) = b.hash /\ mans[b.seq].last = b.local)'
    <3>1. b.seq # w
        BY <1>4
    <3>2. b.seq \in Closed' => b.seq \in Closed /\ mans'[b.seq] = mans[b.seq]
        BY <1>2, <1>3, <3>1
    <3> QED
        BY <1>1, <3>2 DEF ChainInv, Hash
  <2>4. (\A s \in Live(b) : b.local <= Before(s, b))'
      BY <1>1, <1>5, <1>7 DEF ChainInv
  <2>5. (\A s, t \in Live(b) : s < t => mans[s].last <= Before(t, b))'
    <3>1. ASSUME NEW s \in Live(b), NEW t \in Live(b), s < t PROVE mans'[s].last <= Before(t, b)'
      <4>1. s # w
          BY <1>4, <3>1 DEF Live
      <4>2. s \in DOMAIN mans
          BY <1>3, <1>4, <4>1 DEF LiveClosed
      <4> QED
          BY <1>1, <1>2, <1>7, <3>1, <4>2 DEF ChainInv
    <3> QED
        BY <1>5, <3>1
  <2> QED
      BY <2>1, <2>2, <2>3, <2>4, <2>5 DEF ChainInv
<1>12. OrderInv(b)'
  <2>1. (\A s \in Live(b) : Rising(segs[s].recs))'
      BY <1>1, <1>5 DEF OrderInv, Rising
  <2>2. (\A s, t \in Full(b) :
         s < t /\ FirstRec(s).epoch = FirstRec(t).epoch => LastRec(s).off < FirstRec(t).off)'
      BY <1>1, <1>5, <1>6 DEF OrderInv
  <2>3. (\A s, t, u \in Full(b) :
         s < u /\ u < t /\ FirstRec(s).epoch = FirstRec(t).epoch => FirstRec(u).epoch = FirstRec(s).epoch)'
      BY <1>1, <1>5, <1>6 DEF OrderInv
  <2>4. (b.seq + 1 \in Full(b) /\ b.cursor # NoCursor
         => Successor(Cursor(FirstRec(b.seq + 1)), b.cursor, TRUE))'
      BY <1>1, <1>5, <1>6 DEF OrderInv, Successor, Cursor
  <2> QED
      BY <2>1, <2>2, <2>3, <2>4 DEF OrderInv
<1>13. CountInv(b)'
    BY <1>1, <1>5, <1>8 DEF CountInv
<1>14. \A e : Held(e, b)' = Held(e, b)
    BY <1>1, <1>2, <1>5, <1>6, <1>7, <1>11, HeldSame DEF LivePositions
<1> QED
    BY <1>1, <1>2, <1>5, <1>6, <1>7, <1>8, <1>9, <1>11, <1>12, <1>13, <1>14 DEF DirInv, SameFiles

(* The record o is appended to the open segment w.                         *)
RecordAdded(w, o) ==
    /\ mans' = mans /\ DOMAIN segs' = DOMAIN segs /\ segs' \in [DOMAIN segs' -> Segments]
    /\ \A s \in DOMAIN segs : s # w => segs'[s] = segs[s]
    /\ segs'[w].recs = Append(segs[w].recs, o)
    /\ segs'[w].hdr = segs[w].hdr /\ segs'[w].torn = segs[w].torn

(* The cursor of o continues the last one: append_byte_offset lets it by.  *)
Fits(o, w, b) ==
    /\ o \in Observations
    /\ \E c : /\ EndsWith(c, b)
              /\ c # NoCursor => \/ c.epoch = o.epoch /\ o.off > c.off
                                 \/ /\ c.epoch # o.epoch /\ Size(w) = 0
                                    /\ \A s \in Full(b) : FirstRec(s).epoch # o.epoch

(* What is read off the directory afterwards.                              *)
OneMore(w, o, b) ==
    /\ Closed' = Closed /\ Live(b)' = Live(b) /\ LiveClosed(b)' = LiveClosed(b)
    /\ Full(b)' = Full(b) \cup {w}
    /\ \A s \in DOMAIN segs : s # w =>
         Size(s)' = Size(s) /\ FirstRec(s)' = FirstRec(s) /\ LastRec(s)' = LastRec(s)
    /\ Size(w)' = Size(w) + 1 /\ LastRec(w)' = o
    /\ FirstRec(w)' = IF Size(w) = 0 THEN o ELSE FirstRec(w)
    /\ \A s : Before(s, b)' = Before(s, b) /\ Link(s, b)' = Link(s, b) /\ Previous(s, b)' = Previous(s, b)
    /\ Positions' = Positions \cup {<<w, Size(w) + 1>>}
    /\ LivePositions(b)' = LivePositions(b) \cup {<<w, Size(w) + 1>>}
    /\ <<w, Size(w) + 1>> \notin Positions
    /\ \A p \in Positions : Rec(p)' = Rec(p)
    /\ \A n : n = Size(w) + 1 => Rec(<<w, n>>)' = o

(* What one more record changes of the directory.                          *)
LEMMA OneMoreHolds ==
    ASSUME NEW b \in Baselines, FilesTyped, ChainInv(b), NEW w \in Live(b) \ Closed, segs[w].hdr,
           NEW o \in Observations, RecordAdded(w, o)
    PROVE  FilesTyped' /\ OneMore(w, o, b)
<1>1. /\ DOMAIN segs' = DOMAIN segs /\ mans' = mans /\ w \in DOMAIN segs /\ w \in Nat
      /\ \A s \in DOMAIN segs : s # w => segs'[s] = segs[s]
      /\ w > b.seq /\ Size(w) \in Nat /\ segs[w].recs \in Seq(Observations)
    BY OpenIsLast, FileFacts DEF RecordAdded
<1>2. FilesTyped'
    BY <1>1 DEF FilesTyped, RecordAdded
<1>3. Closed' = Closed /\ Live(b)' = Live(b) /\ LiveClosed(b)' = LiveClosed(b)
    BY <1>1 DEF Closed, Live, LiveClosed
<1>4. \A s \in DOMAIN segs : s # w =>
         Size(s)' = Size(s) /\ FirstRec(s)' = FirstRec(s) /\ LastRec(s)' = LastRec(s)
    BY <1>1 DEF Size, FirstRec, LastRec
<1>5. /\ Size(w)' = Size(w) + 1 /\ LastRec(w)' = o
      /\ FirstRec(w)' = IF Size(w) = 0 THEN o ELSE FirstRec(w)
      /\ \A j \in 1..Size(w) : segs'[w].recs[j] = segs[w].recs[j]
      /\ segs'[w].recs[Size(w) + 1] = o
  <2>1. segs'[w].recs = Append(segs[w].recs, o)
      BY DEF RecordAdded
  <2>2. Len(segs'[w].recs) = Len(segs[w].recs) + 1 /\ segs'[w].recs[Len(segs[w].recs) + 1] = o
        /\ \A j \in 1..Len(segs[w].recs) : segs'[w].recs[j] = segs[w].recs[j]
      BY <1>1, <2>1
  <2>3. Size(w)' = Size(w) + 1 /\ LastRec(w)' = o
      BY <2>2 DEF Size, LastRec
  <2>4. Size(w) # 0 => 1 \in 1..Size(w)
      BY <1>1
  <2> QED
      BY <2>2, <2>3, <2>4 DEF FirstRec, Size
<1>6. Full(b)' = Full(b) \cup {w}
  <2>1. Size(w)' # 0
      BY <1>1, <1>5
  <2> QED
      BY <1>3, <1>4, <2>1 DEF Full, Live
<1>7. \A s : Before(s, b)' = Before(s, b) /\ Link(s, b)' = Link(s, b) /\ Previous(s, b)' = Previous(s, b)
    BY <1>1, <1>3 DEF Before, Link, Previous
<1>8. <<w, Size(w) + 1>> \notin Positions
  <2>1. ~(Size(w) + 1 \in 1..Size(w))
      BY <1>1
  <2> QED
      BY <2>1, PositionFacts
<1>9. Positions' = Positions \cup {<<w, Size(w) + 1>>}
  <2>1. \A s \in DOMAIN segs : s # w => {<<s, j>> : j \in 1..Len(segs'[s].recs)} = {<<s, j>> : j \in 1..Len(segs[s].recs)}
      BY <1>1
  <2>2. {<<w, j>> : j \in 1..Len(segs'[w].recs)} = {<<w, j>> : j \in 1..Len(segs[w].recs)} \cup {<<w, Size(w) + 1>>}
    <3>1. 1..Len(segs'[w].recs) = 1..Len(segs[w].recs) \cup {Size(w) + 1}
        BY <1>1, <1>5 DEF Size
    <3> QED
        BY <3>1
  <2> QED
      BY <1>1, <2>1, <2>2 DEF Positions
<1>10. LivePositions(b)' = LivePositions(b) \cup {<<w, Size(w) + 1>>}
  <2>1. <<w, Size(w) + 1>>[1] = w
      OBVIOUS
  <2> QED
      BY <1>1, <1>9, <2>1 DEF LivePositions
<1>11. ASSUME NEW p \in Positions PROVE Rec(p)' = Rec(p)
  <2>1. p[1] \in DOMAIN segs /\ p[2] \in 1..Size(p[1])
      BY PositionFacts
  <2> QED
      BY <1>1, <1>5, <2>1 DEF Rec
<1>12. \A n : n = Size(w) + 1 => Rec(<<w, n>>)' = o
    BY <1>5 DEF Rec
<1> QED
    BY <1>2, <1>3, <1>4, <1>5, <1>6, <1>7, <1>8, <1>9, <1>10, <1>11, <1>12 DEF OneMore

(* The chain stays: the open segment is the last.                          *)
LEMMA OneMoreChain ==
    ASSUME NEW b \in Baselines, FilesTyped, ChainInv(b), NEW w \in Live(b) \ Closed,
           NEW o \in Observations, RecordAdded(w, o), OneMore(w, o, b)
    PROVE  ChainInv(b)'
<1>1. /\ Closed' = Closed /\ Live(b)' = Live(b) /\ LiveClosed(b)' = LiveClosed(b)
      /\ DOMAIN segs' = DOMAIN segs /\ mans' = mans
      /\ \A s : Before(s, b)' = Before(s, b) /\ Link(s, b)' = Link(s, b)
    BY DEF RecordAdded, OneMore
<1>2. \A s \in LiveClosed(b) : s \in DOMAIN segs /\ s # w
    BY FileFacts DEF LiveClosed
<1>3. \A s \in LiveClosed(b) : segs'[s] = segs[s] /\ Size(s)' = Size(s)
    BY <1>2 DEF RecordAdded, OneMore
<1>4. (\A s \in DOMAIN segs : s >= b.seq /\ \A u \in b.seq + 1 .. s - 1 : u \in Closed)'
    BY <1>1 DEF ChainInv
<1>5. (\A s \in LiveClosed(b) :
         /\ segs[s].hdr /\ ~segs[s].torn /\ Size(s) # 0 /\ mans[s].recs = segs[s].recs
         /\ mans[s].prev = Link(s, b)
         /\ mans[s].first = Before(s, b) + 1
         /\ mans[s].last = Before(s, b) + Size(s))'
    BY <1>1, <1>3 DEF ChainInv
<1>6. (b.seq \in Closed => Hash(mans[b.seq]) = b.hash /\ mans[b.seq].last = b.local)'
    BY <1>1 DEF ChainInv, Hash
<1>7. (\A s \in Live(b) : b.local <= Before(s, b))'
    BY <1>1 DEF ChainInv
<1>8. (\A s, t \in Live(b) : s < t => mans[s].last <= Before(t, b))'
    BY <1>1 DEF ChainInv
<1> QED
    BY <1>4, <1>5, <1>6, <1>7, <1>8 DEF ChainInv

(* A record beyond the last keeps a segment rising.                        *)
LEMMA RisingAppend ==
    ASSUME NEW r \in Seq(Observations), Rising(r), NEW o \in Observations,
           Len(r) # 0 => r[Len(r)].epoch = o.epoch /\ r[Len(r)].off < o.off
    PROVE  Rising(Append(r, o))
<1>1. /\ Len(Append(r, o)) = Len(r) + 1 /\ Append(r, o)[Len(r) + 1] = o /\ Len(r) \in Nat
      /\ \A i \in 1..Len(r) : Append(r, o)[i] = r[i] /\ r[i] \in Observations
    OBVIOUS
<1>2. PICK q : q = Append(r, o)
    OBVIOUS
<1>3. ASSUME NEW i \in 1..Len(q), NEW j \in 1..Len(q), i < j
      PROVE  q[i].epoch = q[j].epoch /\ q[i].off < q[j].off
  <2>1. i \in 1..Len(r) /\ j \in 1..Len(r) + 1 /\ q[i] = r[i] /\ r[i] \in Observations /\ r[i].off \in Nat
      BY <1>1, <1>2, <1>3, ObservationFacts
  <2>2. CASE j \in 1..Len(r)
    <3>1. q[j] = r[j]
        BY <1>1, <1>2, <2>2
    <3> QED
        BY <1>3, <2>1, <2>2, <3>1 DEF Rising
  <2>3. CASE j = Len(r) + 1
    <3>1. q[j] = o /\ Len(r) \in 1..Len(r) /\ Len(r) # 0 /\ Len(r) \in Nat
        BY <1>1, <1>2, <2>1, <2>3
    <3>2. i = Len(r) \/ (r[i].epoch = r[Len(r)].epoch /\ r[i].off < r[Len(r)].off)
        BY <2>1, <3>1 DEF Rising
    <3>3. r[Len(r)].off \in Nat /\ o.off \in Nat
        BY <1>1, <3>1, ObservationFacts
    <3> QED
        BY <2>1, <3>1, <3>2, <3>3
  <2> QED
      BY <1>1, <2>1, <2>2, <2>3
<1>4. Rising(q)
    BY <1>3 DEF Rising
<1> QED
    BY <1>2, <1>4

(* The order of the records stays: o comes last and fits.                  *)
LEMMA OneMoreOrder ==
    ASSUME NEW b \in Baselines, FilesTyped, ChainInv(b), OrderInv(b), NEW w \in Live(b) \ Closed,
           NEW o, Fits(o, w, b), RecordAdded(w, o), OneMore(w, o, b)
    PROVE  OrderInv(b)'
<1>1. /\ Live(b)' = Live(b) /\ Full(b)' = Full(b) \cup {w} /\ w \in DOMAIN segs /\ w \in Nat
      /\ \A s \in DOMAIN segs : s \in Nat /\ s <= w
      /\ o \in Observations /\ LastRec(w)' = o
      /\ FirstRec(w)' = IF Size(w) = 0 THEN o ELSE FirstRec(w)
      /\ b.seq \in Nat
    BY OpenIsLast DEF OneMore, Fits
<1>2. \A s \in Full(b) : /\ s \in Live(b) /\ s \in DOMAIN segs /\ s \in Nat /\ s <= w /\ s > b.seq
                         /\ FirstRec(s) \in Observations /\ LastRec(s) \in Observations
                         /\ FirstRec(s).off \in Nat /\ LastRec(s).off \in Nat
    BY <1>1, FullFacts, ObservationFacts DEF Live
<1>3. \A s \in Full(b) : s # w => FirstRec(s)' = FirstRec(s) /\ LastRec(s)' = LastRec(s)
    BY <1>2 DEF OneMore
<1>4. w \in Full(b) <=> Size(w) # 0
    BY DEF Full
<1>5. PICK c : /\ EndsWith(c, b)
               /\ c # NoCursor => \/ c.epoch = o.epoch /\ o.off > c.off
                                  \/ /\ c.epoch # o.epoch /\ Size(w) = 0
                                     /\ \A s \in Full(b) : FirstRec(s).epoch # o.epoch
    BY DEF Fits
<1>6. o.off \in Nat /\ o.off >= 1
    BY <1>1, ObservationFacts
\* Within a segment the epoch is one.
<1>7. ASSUME NEW s \in Full(b) PROVE LastRec(s).epoch = FirstRec(s).epoch /\ FirstRec(s).off <= LastRec(s).off
  <2>1. Rising(segs[s].recs) /\ Size(s) \in Nat /\ Size(s) >= 1
      BY FullFacts DEF OrderInv
  <2>2. CASE Size(s) = 1
    <3>1. LastRec(s) = FirstRec(s)
        BY <2>2 DEF LastRec, FirstRec, Size
    <3> QED
        BY <1>2, <3>1
  <2>3. CASE Size(s) > 1
    <3>1. 1 \in 1..Size(s) /\ Size(s) \in 1..Size(s)
        BY <2>1
    <3>2. segs[s].recs[1].epoch = segs[s].recs[Size(s)].epoch /\ segs[s].recs[1].off < segs[s].recs[Size(s)].off
        BY <2>1, <2>3, <3>1 DEF Rising, Size
    <3> QED
        BY <1>2, <3>2 DEF LastRec, FirstRec, Size
  <2> QED
      BY <2>1, <2>2, <2>3
\* The last of the segments with records, and what its last record says.
<1>8. ASSUME Full(b) # {}
      PROVE  \E t \in Full(b) :
               /\ \A s \in Full(b) : s <= t
               /\ \/ FirstRec(t).epoch = o.epoch /\ LastRec(t).off < o.off
                  \/ Size(w) = 0 /\ \A s \in Full(b) : FirstRec(s).epoch # o.epoch
  <2>1. PICK t \in Full(b) : (\A s \in Full(b) : s <= t) /\ c = Cursor(LastRec(t))
      BY <1>5, <1>8 DEF EndsWith
  <2>2. c # NoCursor /\ c.epoch = LastRec(t).epoch /\ c.off = LastRec(t).off /\ LastRec(t).off \in Nat
      BY <1>2, <2>1, ObservationFacts
  <2>3. LastRec(t).epoch = FirstRec(t).epoch
      BY <1>7
  <2>4. CASE c.epoch = o.epoch /\ o.off > c.off
      BY <1>6, <2>1, <2>2, <2>3, <2>4
  <2>5. CASE Size(w) = 0 /\ \A s \in Full(b) : FirstRec(s).epoch # o.epoch
      BY <2>1, <2>5
  <2> QED
      BY <1>5, <2>2, <2>4, <2>5
<1>9. ASSUME Size(w) # 0 PROVE FirstRec(w).epoch = o.epoch /\ LastRec(w).off < o.off /\ LastRec(w).epoch = o.epoch
  <2>1. PICK t \in Full(b) :
               /\ \A s \in Full(b) : s <= t
               /\ \/ FirstRec(t).epoch = o.epoch /\ LastRec(t).off < o.off
                  \/ Size(w) = 0 /\ \A s \in Full(b) : FirstRec(s).epoch # o.epoch
      BY <1>4, <1>8, <1>9
  <2>2. t = w
      BY <1>1, <1>2, <1>4, <1>9, <2>1
  <2> QED
      BY <1>4, <1>7, <1>9, <2>1, <2>2
\* A segment before w with the epoch of o ends before o.
<1>10. ASSUME NEW s \in Full(b), s < w, FirstRec(s).epoch = o.epoch
       PROVE  LastRec(s).off < FirstRec(w)'.off
  <2>1. CASE Size(w) # 0
    <3>1. LastRec(s).off < FirstRec(w).off
        BY <1>4, <1>9, <1>10, <2>1 DEF OrderInv
    <3> QED
        BY <1>1, <2>1, <3>1
  <2>2. CASE Size(w) = 0
    <3>1. PICK t \in Full(b) :
               /\ \A u \in Full(b) : u <= t
               /\ \/ FirstRec(t).epoch = o.epoch /\ LastRec(t).off < o.off
                  \/ Size(w) = 0 /\ \A u \in Full(b) : FirstRec(u).epoch # o.epoch
        BY <1>8
    <3>2. FirstRec(t).epoch = o.epoch /\ LastRec(t).off < o.off
        BY <1>10, <3>1
    <3>3. s = t \/ s < t
        BY <1>2, <3>1
    <3>4. s < t => LastRec(s).off < FirstRec(t).off
        BY <1>10, <3>2 DEF OrderInv
    <3>5. FirstRec(t).off <= LastRec(t).off
        BY <1>7
    <3>6. LastRec(s).off < o.off
        BY <1>2, <1>6, <3>2, <3>3, <3>4, <3>5
    <3> QED
        BY <1>1, <2>2, <3>6
  <2> QED
      BY <2>1, <2>2
<1>11. FirstRec(w)'.epoch = o.epoch
    BY <1>1, <1>9
<1>12. (\A s \in Live(b) : Rising(segs[s].recs))'
  <2>1. ASSUME NEW s \in Live(b) PROVE Rising(segs'[s].recs)
    <3>1. CASE s = w
      <4>1. segs[w].recs \in Seq(Observations) /\ segs'[w].recs = Append(segs[w].recs, o) /\ Rising(segs[w].recs)
          BY <1>1, <3>1, FileFacts DEF RecordAdded, OrderInv
      <4>2. Len(segs[w].recs) # 0 => segs[w].recs[Len(segs[w].recs)].epoch = o.epoch /\ segs[w].recs[Len(segs[w].recs)].off < o.off
          BY <1>9 DEF Size, LastRec
      <4> QED
          BY <1>1, <3>1, <4>1, <4>2, RisingAppend
    <3>2. CASE s # w
        BY <3>2 DEF RecordAdded, OrderInv, Live
    <3> QED
        BY <3>1, <3>2
  <2> QED
      BY <1>1, <2>1 DEF Rising
<1>13. (\A s, t \in Full(b) :
         s < t /\ FirstRec(s).epoch = FirstRec(t).epoch => LastRec(s).off < FirstRec(t).off)'
  <2>1. ASSUME NEW s \in Full(b)', NEW t \in Full(b)', s < t, FirstRec(s)'.epoch = FirstRec(t)'.epoch
        PROVE  LastRec(s)'.off < FirstRec(t)'.off
    <3>1. s \in Full(b) /\ s # w /\ FirstRec(s)' = FirstRec(s) /\ LastRec(s)' = LastRec(s)
        BY <1>1, <1>2, <1>3, <2>1
    <3>2. CASE t = w
        BY <1>10, <1>11, <2>1, <3>1, <3>2
    <3>3. CASE t # w
        BY <1>1, <1>3, <2>1, <3>1, <3>3 DEF OrderInv
    <3> QED
        BY <3>2, <3>3
  <2> QED
      BY <2>1
<1>14. (\A s, t, u \in Full(b) :
         s < u /\ u < t /\ FirstRec(s).epoch = FirstRec(t).epoch => FirstRec(u).epoch = FirstRec(s).epoch)'
  <2>1. ASSUME NEW s \in Full(b)', NEW t \in Full(b)', NEW u \in Full(b)', s < u, u < t,
               FirstRec(s)'.epoch = FirstRec(t)'.epoch
        PROVE  FirstRec(u)'.epoch = FirstRec(s)'.epoch
    <3>1. s \in Full(b) /\ s # w /\ FirstRec(s)' = FirstRec(s) /\ u \in Full(b) /\ u # w /\ FirstRec(u)' = FirstRec(u)
        BY <1>1, <1>2, <1>3, <2>1
    <3>2. CASE t # w
        BY <1>1, <1>3, <2>1, <3>1, <3>2 DEF OrderInv
    <3>3. CASE t = w /\ Size(w) # 0
        BY <1>1, <1>4, <2>1, <3>1, <3>3 DEF OrderInv
    <3>4. CASE t = w /\ Size(w) = 0
      <4>1. PICK v \in Full(b) :
               /\ \A x \in Full(b) : x <= v
               /\ \/ FirstRec(v).epoch = o.epoch /\ LastRec(v).off < o.off
                  \/ Size(w) = 0 /\ \A x \in Full(b) : FirstRec(x).epoch # o.epoch
          BY <1>8, <3>1
      <4>2. FirstRec(s).epoch = o.epoch
          BY <1>11, <2>1, <3>1, <3>4
      <4>3. FirstRec(v).epoch = o.epoch
          BY <3>1, <4>1, <4>2
      <4>4. u = v \/ u < v
          BY <1>2, <3>1, <4>1
      <4> QED
          BY <2>1, <3>1, <4>2, <4>3, <4>4 DEF OrderInv
    <3> QED
        BY <3>2, <3>3, <3>4
  <2> QED
      BY <2>1
<1>15. (b.seq + 1 \in Full(b) /\ b.cursor # NoCursor
         => Successor(Cursor(FirstRec(b.seq + 1)), b.cursor, TRUE))'
  <2>1. ASSUME b.seq + 1 \in Full(b)', b.cursor # NoCursor
        PROVE  Successor(Cursor(FirstRec(b.seq + 1)'), b.cursor, TRUE)
    <3>1. CASE b.seq + 1 \in Full(b)
      <4>1. FirstRec(b.seq + 1)' = FirstRec(b.seq + 1)
          BY <1>1, <1>3, <1>4, <3>1
      <4> QED
          BY <2>1, <3>1, <4>1 DEF OrderInv, Successor, Cursor
    <3>2. CASE b.seq + 1 \notin Full(b)
      <4>1. w = b.seq + 1 /\ Size(w) = 0
          BY <1>1, <1>4, <2>1, <3>2
      <4>2. Full(b) = {}
          BY <1>1, <1>2, <1>4, <4>1
      <4>3. c = b.cursor
          BY <1>5, <4>2 DEF EndsWith
      <4>4. FirstRec(b.seq + 1)' = o
          BY <1>1, <4>1
      <4> QED
          BY <1>1, <1>5, <2>1, <4>3, <4>4, ObservationFacts DEF Successor
    <3> QED
        BY <3>1, <3>2
  <2> QED
      BY <2>1 DEF Successor, Cursor
<1> QED
    BY <1>12, <1>13, <1>14, <1>15 DEF OrderInv

(* The records end with o, one number further, and its number names it.    *)
EndsOneFurther(w, o, b) ==
    /\ \A e : EndsAt(e, b) => EndsAt(e + 1, b)'
    /\ EndsWith(Cursor(o), b)'
    /\ \A e : EndsAt(e, b) => \A n : Held(n, b)' = IF n = e + 1 THEN {o} ELSE Held(n, b)

(* A record that fits keeps the directory in order and gets the next       *)
(* number.                                                                 *)
LEMMA OneMoreDirectory ==
    ASSUME NEW b \in Baselines, DirInv(b), NEW w \in Live(b) \ Closed, segs[w].hdr,
           NEW o, Fits(o, w, b), RecordAdded(w, o)
    PROVE  DirInv(b)' /\ OneMore(w, o, b) /\ EndsOneFurther(w, o, b)
<1>1. FilesTyped /\ ChainInv(b) /\ OrderInv(b) /\ CountInv(b) /\ o \in Observations
    BY DEF DirInv, Fits
<1>2. FilesTyped' /\ OneMore(w, o, b)
    BY <1>1, OneMoreHolds
<1>3. ChainInv(b)'
    BY <1>1, <1>2, OneMoreChain
<1>4. OrderInv(b)'
    BY <1>1, <1>2, OneMoreOrder
<1>5. /\ w \in Nat /\ w \in DOMAIN segs
      /\ \A s \in DOMAIN segs : s \in Nat /\ s <= w
      /\ \A e : EndsAt(e, b) <=> e = Before(w, b) + Size(w)
      /\ Before(w, b) \in Nat /\ Size(w) \in Nat
    BY <1>1, OpenIsLast, BeforeFacts, FileFacts
<1>6. ASSUME NEW e, EndsAt(e, b) PROVE EndsAt(e + 1, b)'
  <2>1. e = Before(w, b) + Size(w) /\ Live(b)' = Live(b) /\ Before(w, b)' = Before(w, b) /\ Size(w)' = Size(w) + 1
      BY <1>2, <1>5, <1>6 DEF OneMore
  <2>2. e + 1 = Before(w, b)' + Size(w)'
      BY <1>5, <2>1
  <2>3. \A t \in Live(b)' : t <= w
      BY <1>5, <2>1 DEF Live
  <2> QED
      BY <2>1, <2>2, <2>3 DEF EndsAt
<1>7. EndsWith(Cursor(o), b)'
  <2>1. w \in Full(b)' /\ LastRec(w)' = o
      BY <1>2 DEF OneMore
  <2>2. \A t \in Full(b)' : t <= w
      BY <1>2, <1>5 DEF OneMore, Full, Live
  <2> QED
      BY <2>1, <2>2 DEF EndsWith, Cursor
<1>8. PICK e : EndsAt(e, b) /\ e = b.local + Cardinality(LivePositions(b)) /\ IsFiniteSet(LivePositions(b))
    BY <1>1 DEF CountInv
<1>9. CountInv(b)'
  <2>1. PICK L : L = LivePositions(b)
      OBVIOUS
  <2>2. PICK x : x = <<w, Size(w) + 1>>
      OBVIOUS
  <2>3. LivePositions(b)' = L \cup {x} /\ x \notin L
      BY <1>2, <2>1, <2>2 DEF OneMore, LivePositions
  <2>4. IsFiniteSet(L \cup {x}) /\ Cardinality(L \cup {x}) = Cardinality(L) + 1 /\ Cardinality(L) \in Nat
      BY <1>8, <2>1, <2>3, FS_AddElement, FS_CardinalityType
  <2>5. b.local + (Cardinality(L) + 1) = e + 1
      BY <1>8, <2>1, <2>4, BaselineFacts
  <2>6. EndsAt(e + 1, b)' /\ e + 1 = b.local + Cardinality(L \cup {x})
      BY <1>6, <1>8, <2>4, <2>5
  <2> QED
      BY <2>3, <2>4, <2>6 DEF CountInv
<1>10. ASSUME NEW p \in LivePositions(b) PROVE Number(p, b)' = Number(p, b) /\ Number(p, b) \in Nat /\ Number(p, b) <= e
  <2>1. Number(p, b) = Before(p[1], b) + p[2] /\ Number(p, b) \in Nat
      BY <1>1, NumberIs
  <2>2. p \in LivePositions(b)'
      BY <1>2 DEF OneMore
  <2>3. Number(p, b)' = Before(p[1], b)' + p[2]
      BY <1>2, <1>3, <2>2, NumbersNext DEF NumbersKnown
  <2>4. Number(p, b) <= e
      BY <1>1, <1>8, NumbersEnd
  <2> QED
      BY <1>2, <2>1, <2>3, <2>4 DEF OneMore
<1>11. PICK x : x = <<w, Size(w) + 1>>
    OBVIOUS
<1>12. Number(x, b)' = e + 1 /\ Rec(x)' = o /\ LivePositions(b)' = LivePositions(b) \cup {x}
  <2>1. x \in LivePositions(b)' /\ x[1] = w /\ x[2] = Size(w) + 1
      BY <1>2, <1>11 DEF OneMore
  <2>2. Number(x, b)' = Before(w, b)' + (Size(w) + 1)
      BY <1>2, <1>3, <2>1, NumbersNext DEF NumbersKnown
  <2>3. Before(w, b)' = Before(w, b) /\ e = Before(w, b) + Size(w)
      BY <1>2, <1>5, <1>8 DEF OneMore
  <2> QED
      BY <1>2, <1>5, <1>11, <2>2, <2>3 DEF OneMore
<1>13. e \in Nat
    BY <1>1, <1>8, NumbersEnd
<1>14. ASSUME NEW n PROVE Held(n, b)' = IF n = e + 1 THEN {o} ELSE Held(n, b)
  <2>1. Held(n, b) = {Rec(p) : p \in {q \in LivePositions(b) : Number(q, b) = n}}
      BY DEF Held, LivePositions
  <2>2. Held(n, b)' = {Rec(p)' : p \in {q \in LivePositions(b)' : Number(q, b)' = n}}
    <3>1. {q \in Positions' : q[1] > b.seq /\ Number(q, b)' = n} = {q \in LivePositions(b)' : Number(q, b)' = n}
        BY DEF LivePositions
    <3> QED
        BY <3>1 DEF Held
  <2>3. \A p \in LivePositions(b) : Rec(p)' = Rec(p)
      BY <1>2 DEF OneMore, LivePositions
  <2>4. CASE n = e + 1
    <3>1. {q \in LivePositions(b)' : Number(q, b)' = n} = {x}
        BY <1>10, <1>12, <1>13, <2>4
    <3> QED
        BY <1>12, <2>2, <2>4, <3>1
  <2>5. CASE n # e + 1
    <3>1. {q \in LivePositions(b)' : Number(q, b)' = n} = {q \in LivePositions(b) : Number(q, b) = n}
        BY <1>10, <1>12, <2>5
    <3> QED
        BY <2>1, <2>2, <2>3, <2>5, <3>1
  <2> QED
      BY <2>4, <2>5
<1>15. \A f : EndsAt(f, b) => f = e
    BY <1>5, <1>8
<1> QED
    BY <1>2, <1>3, <1>4, <1>6, <1>7, <1>9, <1>14, <1>15 DEF DirInv, EndsOneFurther

-----------------------------------------------------------------------------
(* The steps of the spool.                                                 *)

(* Files that do not change stay in order.                                 *)
LEMMA SameFilesDirectory ==
    ASSUME NEW b, DirInv(b), UNCHANGED <<segs, mans>>
    PROVE  DirInv(b)' /\ SamePlaces(b) /\ Live(b)' = Live(b)
<1>1. SameRecords
    BY DEF SameRecords, DirInv, FilesTyped
<1> QED
    BY <1>1, SameDirectory

(* Acknowledged records stay while numbers name what they named.           *)
LEMMA AckedStay ==
    ASSUME NEW b, AckInv(b), ackedRecs' = ackedRecs, \A n : Held(n, b)' = Held(n, b)
    PROVE  AckInv(b)'
<1>1. ASSUME NEW i \in 1..Len(ackedRecs), ackedRecs[i].local > b.local
      PROVE  Held(ackedRecs[i].local, b)' = {ackedRecs[i].obs}
  <2>1. PICK n : n = ackedRecs[i].local
      OBVIOUS
  <2>2. Held(n, b)' = {ackedRecs[i].obs}
      BY <1>1, <2>1 DEF AckInv, AckedHeld
  <2>3. Held(ackedRecs[i].local, b)' = Held(n, b)'
      BY <2>1 DEF Held
  <2> QED
      BY <2>2, <2>3
<1>2. AckedHeld(b)'
    BY <1>1 DEF AckedHeld
<1> QED
    BY <1>2 DEF AckInv

(* The memory of an open spool stays true while nothing changes.           *)
LEMMA OpenMemorySame ==
    ASSUME NEW b, OpenMemory(b), SamePlaces(b), Live(b)' = Live(b), UNCHANGED <<segs, mans, sp>>
    PROVE  OpenMemory(b)'
<1>1. /\ Full(b)' = Full(b)
      /\ \A s : Before(s, b)' = Before(s, b)
      /\ \A n : EndsAt(n, b)' <=> EndsAt(n, b)
      /\ \A c : EndsWith(c, b)' <=> EndsWith(c, b)
    BY DEF SamePlaces
<1>2. EndsAt(sp.local, b)'
  <2>1. PICK n : n = sp.local
      OBVIOUS
  <2>2. EndsAt(n, b)' /\ n = sp'.local
      BY <1>1, <2>1 DEF OpenMemory
  <2> QED
      BY <2>2 DEF EndsAt
<1>3. EndsWith(sp.last, b)'
  <2>1. PICK c : c = sp.last
      OBVIOUS
  <2>2. EndsWith(c, b)' /\ c = sp'.last
      BY <1>1, <2>1 DEF OpenMemory
  <2> QED
      BY <2>2 DEF EndsWith
<1>4. IndexInv(b)'
    BY <1>1 DEF OpenMemory, IndexInv, FirstRec, LastRec
<1> QED
    BY <1>2, <1>3, <1>4 DEF OpenMemory

(* So does what is known of the open segment.                              *)
LEMMA WriterSame ==
    ASSUME NEW b, WriterInv(b), SamePlaces(b), Live(b)' = Live(b), UNCHANGED <<segs, mans, sp>>
    PROVE  WriterInv(b)'
<1>1. LiveClosed(b)' = LiveClosed(b) /\ \A s : Link(s, b)' = Link(s, b)
    BY DEF SamePlaces
<1>2. PICK w : w = sp.writer
    OBVIOUS
<1>3. w = sp'.writer /\ Link(w, b)' = Link(w, b) /\ Link(sp.writer, b)' = Link(w, b)'
    BY <1>1, <1>2 DEF Link
<1>4. sp'.count = Size(sp.writer)'
    BY DEF WriterInv, Size
<1> QED
    BY <1>1, <1>2, <1>3, <1>4 DEF WriterInv

(* What a stage has established depends on the fields only.                *)
LEMMA StageSame ==
    ASSUME NEW st, StageFits(st), sp' = sp, stage' = st
    PROVE  StageFits(stage)'
BY DEF StageFits, Regression, EpochChanged

(* Nothing but the reply changes.                                          *)
LEMMA SpoolSame ==
    ASSUME NEW b, SpoolInv(b), UNCHANGED <<segs, mans, up, sp, stage, ackedRecs>>
    PROVE  SpoolInv(b)'
<1>1. DirInv(b) /\ FieldsTyped /\ MemoryInv(b) /\ AckInv(b)
    BY DEF SpoolInv, DirInv
<1>2. DirInv(b)' /\ SamePlaces(b) /\ Live(b)' = Live(b)
    BY <1>1, SameFilesDirectory
<1>3. AckInv(b)'
    BY <1>1, <1>2, AckedStay DEF SamePlaces
<1>4. FieldsTyped'
    BY <1>1 DEF FieldsTyped, HasFields
<1>5. MemoryInv(b)'
  <2>1. CASE ~up
      BY <1>1, <2>1 DEF MemoryInv
  <2>2. CASE up
    <3>1. OpenMemory(b) /\ StageFits(stage)
        BY <1>1, <2>2 DEF MemoryInv
    <3>2. OpenMemory(b)'
        BY <1>2, <3>1, OpenMemorySame
    <3>3. StageFits(stage)'
        BY <3>1 DEF StageFits, Regression, EpochChanged
    <3>4. stage.at # "create" => WriterInv(b)'
        BY <1>1, <1>2, <2>2, WriterSame DEF MemoryInv
    <3>5. stage.at = "create" => CreateInv(b)'
      <4>1. LiveClosed(b)' = LiveClosed(b) /\ Link(stage.next, b)' = Link(stage.next, b) /\ Closed' = Closed
          BY <1>2 DEF SamePlaces, Link
      <4> QED
          BY <1>1, <1>2, <2>2, <4>1 DEF MemoryInv, CreateInv
    <3> QED
        BY <2>2, <3>2, <3>3, <3>4, <3>5 DEF MemoryInv
  <2> QED
      BY <1>1, <2>1, <2>2 DEF FieldsTyped
<1> QED
    BY <1>2, <1>3, <1>4, <1>5 DEF SpoolInv, DirInv

(* An idle spool begins something: only the stage changes.                 *)
LEMMA SpoolBegins ==
    ASSUME NEW b, SpoolInv(b), up, stage.at # "create", UNCHANGED <<segs, mans, up, sp, ackedRecs>>,
           NEW st \in Stages, StageFits(st), st.at # "create", stage' = st
    PROVE  SpoolInv(b)'
<1>1. DirInv(b) /\ FieldsTyped /\ AckInv(b) /\ OpenMemory(b) /\ WriterInv(b)
    BY DEF SpoolInv, DirInv, MemoryInv
<1>2. DirInv(b)' /\ SamePlaces(b) /\ Live(b)' = Live(b)
    BY <1>1, SameFilesDirectory
<1>3. AckInv(b)'
    BY <1>1, <1>2, AckedStay DEF SamePlaces
<1>4. FieldsTyped'
    BY <1>1 DEF FieldsTyped, HasFields
<1>5. MemoryInv(b)'
    BY <1>1, <1>2, OpenMemorySame, WriterSame, StageSame DEF MemoryInv
<1> QED
    BY <1>2, <1>3, <1>4, <1>5 DEF SpoolInv, DirInv

(* The task ends with files that are in order.                             *)
LEMMA SpoolEnds ==
    ASSUME NEW b, DirInv(b)', AckInv(b)', up' = FALSE, sp' = Down, stage' = SpoolIdle
    PROVE  SpoolInv(b)'
<1>1. FieldsTyped'
  <2>1. HasFields(sp)'
      BY DEF HasFields, SpoolFields, Down
  <2>2. Down.writer = 0 /\ Down.count = 0 /\ Down.local = 0 /\ Down.last = NoCursor /\ Down.tip = NoHash
      BY DEF Down
  <2>3. NoHash \in Hashes
      BY DEF NoHash, Hashes
  <2>4. SpoolIdle \in Stages
      BY SpoolConstants DEF SpoolIdle, Stages
  <2>5. /\ sp'.writer \in 0..MaxSegments /\ sp'.count \in Nat /\ sp'.local \in Nat
        /\ sp'.last \in Cursors \cup {NoCursor} /\ sp'.tip \in Hashes
      BY <2>2, <2>3, SpoolConstants
  <2> QED
      BY <2>1, <2>5, <2>4 DEF FieldsTyped
<1>2. MemoryInv(b)'
    BY DEF MemoryInv
<1> QED
    BY <1>1, <1>2 DEF SpoolInv, DirInv

(* The fields of the idle stage.                                           *)
LEMMA IdleStage == SpoolIdle.at = "idle" /\ SpoolIdle.obs = NoObs /\ SpoolIdle.next = 0
BY DEF SpoolIdle

(* append begins: the stage knows that the record fits.                    *)
LEMMA AppendBeginKeeps ==
    ASSUME NEW b, SpoolInv(b), NEW o \in Observations, NEW due \in BOOLEAN, AppendBegin(o, due)
    PROVE  SpoolInv(b)'
<1>1. FieldsTyped /\ up /\ stage = SpoolIdle /\ ~Regression(o) /\ o # NoObs
    BY ObservationFacts DEF SpoolInv, AppendBegin
<1>2. sp.writer \in 0..MaxSegments /\ MaxSegments \in Nat /\ sp.count \in Nat
    BY <1>1, SpoolConstants DEF FieldsTyped
<1>3. PICK st : st = stage'
    OBVIOUS
<1>4. CASE RotatesFor(o, due)
  <2>1. st = [at |-> "close", obs |-> o, next |-> sp.writer + 1] /\ sp.writer < MaxSegments /\ sp.count > 0
      BY <1>3, <1>4 DEF AppendBegin, RotatesFor
  <2>2. st \in Stages
      BY <1>2, <2>1 DEF Stages
  <2>3. StageFits(st)
      BY <1>1, <1>2, <2>1 DEF StageFits
  <2> QED
      BY <1>1, <1>3, <2>1, <2>2, <2>3, IdleStage, SpoolBegins DEF AppendBegin
<1>5. CASE ~RotatesFor(o, due)
  <2>1. st = [at |-> "write", obs |-> o, next |-> 0] /\ (EpochChanged(o) => sp.count = 0)
      BY <1>2, <1>3, <1>5 DEF AppendBegin, RotatesFor
  <2>2. st \in Stages
      BY <1>2, <2>1 DEF Stages
  <2>3. StageFits(st)
      BY <1>1, <1>2, <2>1 DEF StageFits
  <2> QED
      BY <1>1, <1>3, <2>1, <2>2, <2>3, IdleStage, SpoolBegins DEF AppendBegin
<1> QED
    BY <1>4, <1>5

(* seal_active begins.                                                     *)
LEMMA SealActiveKeeps ==
    ASSUME NEW b, SpoolInv(b), SealActive
    PROVE  SpoolInv(b)'
<1>1. FieldsTyped /\ up /\ stage = SpoolIdle /\ sp.count > 0 /\ sp.writer < MaxSegments
    BY DEF SpoolInv, SealActive
<1>2. sp.writer \in 0..MaxSegments /\ MaxSegments \in Nat /\ sp.count \in Nat
    BY <1>1, SpoolConstants DEF FieldsTyped
<1>3. PICK st : st = [at |-> "close", obs |-> NoObs, next |-> sp.writer + 1]
    OBVIOUS
<1>4. stage' = st
    BY <1>3 DEF SealActive, SpoolIdle
<1>5. st \in Stages /\ StageFits(st) /\ st.at = "close"
    BY <1>1, <1>2, <1>3 DEF Stages, StageFits
<1> QED
    BY <1>1, <1>4, <1>5, IdleStage, SpoolBegins DEF SealActive

(* shutdown begins, or ends at once.                                       *)
LEMMA ShutdownKeeps ==
    ASSUME NEW b, SpoolInv(b), ShutdownBegin \/ ShutdownEmpty
    PROVE  SpoolInv(b)'
<1>1. CASE ShutdownBegin
  <2>1. FieldsTyped /\ up /\ stage = SpoolIdle /\ sp.count > 0
      BY <1>1 DEF SpoolInv, ShutdownBegin
  <2>2. sp.writer \in 0..MaxSegments /\ MaxSegments \in Nat /\ sp.count \in Nat
      BY <2>1, SpoolConstants DEF FieldsTyped
  <2>3. PICK st : st = [at |-> "close", obs |-> NoObs, next |-> 0]
      OBVIOUS
  <2>4. stage' = st
      BY <1>1, <2>3 DEF ShutdownBegin, SpoolIdle
  <2>5. st \in Stages /\ StageFits(st) /\ st.at = "close"
      BY <2>1, <2>2, <2>3 DEF Stages, StageFits
  <2> QED
      BY <1>1, <2>1, <2>4, <2>5, IdleStage, SpoolBegins DEF ShutdownBegin
<1>2. CASE ShutdownEmpty
  <2>1. DirInv(b) /\ AckInv(b)
      BY DEF SpoolInv, DirInv
  <2>2. DirInv(b)' /\ SamePlaces(b)
      BY <1>2, <2>1, SameFilesDirectory DEF ShutdownEmpty
  <2>3. AckInv(b)'
      BY <1>2, <2>1, <2>2, AckedStay DEF ShutdownEmpty, SamePlaces
  <2> QED
      BY <1>2, <2>2, <2>3, SpoolEnds DEF ShutdownEmpty
<1> QED
    BY <1>1, <1>2

(* The type of a manifest.                                                 *)
LEMMA ManifestTyped ==
    ASSUME NEW t \in BOOLEAN, NEW w \in Nat, NEW h \in Hashes, NEW f \in Nat, NEW e \in Nat,
           NEW r \in Seq(Observations)
    PROVE  [tmp |-> t, seq |-> w, prev |-> h, first |-> f, last |-> e, recs |-> r] \in Manifests
BY DEF Manifests

(* The manifest the writer would publish vouches for its segment.          *)
LEMMA ManifestVouches ==
    ASSUME NEW b \in Baselines, SpoolInv(b), up, stage.at = "close", NEW t \in BOOLEAN, NEW m,
           m = NewManifest(t)
    PROVE  /\ Vouches(m, sp.writer, b) /\ m.tmp = t
           /\ Hash(m) = [seq |-> sp.writer, recs |-> segs[sp.writer].recs]
           /\ sp.writer \in Live(b) \ DOMAIN mans
<1>1. DirInv(b) /\ OpenMemory(b) /\ WriterInv(b) /\ StageFits(stage) /\ FieldsTyped
    BY DEF SpoolInv, DirInv, MemoryInv
<1>2. PICK w : w = sp.writer
    OBVIOUS
<1>3. w \in Live(b) \ DOMAIN mans /\ sp.count = Size(w) /\ sp.count > 0 /\ sp.tip = Link(w, b) /\ sp.count \in Nat
    BY <1>1, <1>2 DEF WriterInv, StageFits, FieldsTyped
<1>4. w \in Full(b) /\ segs[w].hdr /\ ~segs[w].torn
    BY <1>1, <1>3 DEF Full, OpenMemory
<1>5. sp.retained[w].first = Before(w, b) + 1
  <2>1. sp.retained[w] = [epoch |-> FirstRec(w).epoch, min |-> FirstRec(w).off,
                          max |-> LastRec(w).off, first |-> Before(w, b) + 1]
      BY <1>1, <1>4 DEF OpenMemory, IndexInv
  <2> QED
      BY <2>1
<1>6. Before(w, b) \in Nat /\ Link(w, b) \in Hashes /\ w \in Nat /\ segs[w].recs \in Seq(Observations)
    BY <1>1, <1>3, BeforeFacts, FileFacts DEF DirInv
<1>7. m = [tmp |-> t, seq |-> w, prev |-> Link(w, b), first |-> Before(w, b) + 1,
           last |-> Before(w, b) + 1 + sp.count - 1, recs |-> segs[w].recs]
    BY <1>2, <1>3, <1>5 DEF NewManifest
<1>8. m \in Manifests /\ m.last = Before(w, b) + Size(w)
  <2>1. Before(w, b) + 1 + sp.count - 1 = Before(w, b) + Size(w) /\ Before(w, b) + Size(w) \in Nat
      BY <1>3, <1>6
  <2>2. PICK e \in Nat : e = Before(w, b) + Size(w)
      BY <2>1
  <2>3. PICK f \in Nat : f = Before(w, b) + 1
      BY <1>6
  <2>4. PICK h \in Hashes : h = Link(w, b)
      BY <1>6
  <2>5. PICK r \in Seq(Observations) : r = segs[w].recs
      BY <1>6
  <2>6. m = [tmp |-> t, seq |-> w, prev |-> h, first |-> f, last |-> e, recs |-> r]
      BY <1>7, <2>1, <2>2, <2>3, <2>4, <2>5
  <2>7. m \in Manifests
      BY <1>6, <2>6, ManifestTyped
  <2> QED
      BY <2>2, <2>6, <2>7
<1>9. Vouches(m, w, b)
    BY <1>3, <1>4, <1>7, <1>8 DEF Vouches
<1> QED
    BY <1>2, <1>3, <1>7, <1>9 DEF Hash, NewManifest

(* What the memory was read from stays.                                    *)
SameReading(b) ==
    /\ Full(b)' = Full(b)
    /\ \A s \in Full(b) : FirstRec(s)' = FirstRec(s) /\ LastRec(s)' = LastRec(s) /\ Before(s, b)' = Before(s, b)
    /\ \A n : EndsAt(n, b)' <=> EndsAt(n, b)
    /\ \A c : EndsWith(c, b)' <=> EndsWith(c, b)

SameMemory == sp'.local = sp.local /\ sp'.last = sp.last /\ sp'.retained = sp.retained

(* The memory stays true while what it was read from does.                 *)
LEMMA OpenMemoryKept ==
    ASSUME NEW b, OpenMemory(b), SameReading(b), SameMemory,
           \A s \in DOMAIN mans' : ~mans'[s].tmp,
           \A s \in Live(b)' : segs'[s].hdr /\ ~segs'[s].torn
    PROVE  OpenMemory(b)'
<1>2. EndsAt(sp.local, b)'
  <2>1. PICK n : n = sp.local
      OBVIOUS
  <2>2. EndsAt(n, b)' /\ n = sp'.local
      BY <2>1 DEF OpenMemory, SameReading, SameMemory
  <2> QED
      BY <2>2 DEF EndsAt
<1>3. EndsWith(sp.last, b)'
  <2>1. PICK c : c = sp.last
      OBVIOUS
  <2>2. EndsWith(c, b)' /\ c = sp'.last
      BY <2>1 DEF OpenMemory, SameReading, SameMemory
  <2> QED
      BY <2>2 DEF EndsWith
<1>4. IndexInv(b)'
    BY DEF OpenMemory, IndexInv, SameReading, SameMemory
<1> QED
    BY <1>2, <1>3, <1>4 DEF OpenMemory

(* What append_byte_offset refuses depends on the memory only.             *)
LEMMA RegressionSame ==
    ASSUME SameMemory, NEW o
    PROVE  (Regression(o) <=> Regression(o)') /\ (EpochChanged(o) <=> EpochChanged(o)')
BY DEF SameMemory, Regression, EpochChanged

(* publish_manifest, by a rotation or a shutdown.                          *)
LEMMA PublishManifestKeeps ==
    ASSUME NEW b \in Baselines, SpoolInv(b), PublishManifest
    PROVE  SpoolInv(b)'
<1>1. DirInv(b) /\ OpenMemory(b) /\ WriterInv(b) /\ StageFits(stage) /\ FieldsTyped /\ AckInv(b) /\ up /\ stage.at = "close"
    BY DEF SpoolInv, DirInv, MemoryInv, PublishManifest
<1>2. PICK w : w = sp.writer
    OBVIOUS
<1>3. PICK m : m = NewManifest(FALSE)
    OBVIOUS
<1>4. /\ Vouches(m, w, b) /\ ~m.tmp /\ Hash(m) = [seq |-> w, recs |-> segs[w].recs]
      /\ w \in Live(b) \ DOMAIN mans
    BY <1>1, <1>2, <1>3, ManifestVouches
<1>5. NewManifestOf(w, m)
    BY <1>2, <1>3 DEF PublishManifest, NewManifestOf
<1>6. DirInv(b)' /\ SameFiles(b)
    BY <1>1, <1>4, <1>5, NewManifestDirectory
<1>7. AckInv(b)'
    BY <1>1, <1>6, AckedStay DEF PublishManifest, SameFiles
<1>8. CASE stage.next = 0
    BY <1>6, <1>7, <1>8, SpoolEnds DEF PublishManifest
<1>9. CASE stage.next # 0
  <2>1. /\ sp' = [sp EXCEPT !.tip = Hash(m)] /\ stage' = [stage EXCEPT !.at = "create"] /\ up' = up
        /\ segs' = segs
      BY <1>3, <1>9 DEF PublishManifest
  <2>2. HasFields(sp)
      BY <1>1 DEF FieldsTyped
  <2>3. /\ HasFields(sp)' /\ sp'.tip = Hash(m) /\ sp'.writer = sp.writer /\ sp'.count = sp.count
        /\ sp'.local = sp.local /\ sp'.last = sp.last /\ sp'.closed = sp.closed /\ sp'.retained = sp.retained
      BY <2>1, <2>2, Zenon DEF HasFields, SpoolFields
  <2>4. stage' \in Stages /\ stage'.at = "create" /\ stage'.obs = stage.obs /\ stage'.next = stage.next
      BY <1>1, <2>1 DEF Stages, FieldsTyped
  <2>5. Hash(m) \in Hashes
      BY <1>4 DEF Vouches, Manifests, Hash, Hashes
  <2>6. FieldsTyped'
      BY <1>1, <2>1, <2>3, <2>4, <2>5 DEF FieldsTyped
  <2>7. SameMemory
      BY <2>3 DEF SameMemory
  <2>8. SameReading(b)
    <3>1. \A s \in Full(b) : s \in Live(b)
        BY DEF Full
    <3> QED
        BY <1>6, <3>1 DEF SameFiles, SameReading
  <2>9. FilesTyped /\ ChainInv(b) /\ w \in Live(b) \ Closed /\ Closed \subseteq DOMAIN mans
      BY <1>1, <1>4 DEF DirInv, Closed
  <2>10. /\ DOMAIN mans' = DOMAIN mans \cup {w} /\ mans'[w] = m /\ (\A s \in DOMAIN mans : mans'[s] = mans[s])
         /\ Closed' = Closed \cup {w}
      BY <1>4, <1>5, <2>9, NewManifestFile
  <2>11. OpenMemory(b)'
    <3>1. \A s \in DOMAIN mans' : ~mans'[s].tmp
        BY <1>1, <1>4, <2>10 DEF OpenMemory
    <3>2. \A s \in Live(b)' : segs'[s].hdr /\ ~segs'[s].torn
        BY <1>1, <1>6, <2>1 DEF OpenMemory, SameFiles
    <3> QED
        BY <1>1, <2>7, <2>8, <3>1, <3>2, OpenMemoryKept
  <2>12. StageFits(stage)'
    <3>1. PICK o : o = stage.obs
        OBVIOUS
    <3>2. o # NoObs => ~Regression(o)'
        BY <1>1, <2>7, <3>1, RegressionSame DEF StageFits
    <3>3. Regression(o)' <=> Regression(stage.obs)'
        BY <2>4, <3>1 DEF Regression, EpochChanged
    <3> QED
        BY <2>4, <3>1, <3>2, <3>3 DEF StageFits
  <2>13. CreateInv(b)'
    <3>1. /\ w \in Nat /\ b.seq \in Nat /\ w > b.seq
          /\ \A s \in DOMAIN segs : s \in Nat /\ s <= w
          /\ \A s \in Live(b) : s # w => s \in LiveClosed(b)
        BY <2>9, OpenIsLast
    <3>2. PICK n : n = stage.next
        OBVIOUS
    <3>3. n = w + 1 /\ stage'.next = n
        BY <1>1, <1>2, <1>9, <2>4, <3>2 DEF StageFits
    <3>4. w \in LiveClosed(b)' /\ LiveClosed(b)' \ {w} = LiveClosed(b)
        BY <2>9, <2>10, <3>1 DEF LiveClosed
    <3>5. Link(n, b)' = Hash(m)
        BY <2>10, <3>1, <3>3 DEF Link, Hash
    <3>6. Link(stage.next, b)' = Link(n, b)'
        BY <3>3 DEF Link
    <3>7. sp'.writer = w /\ sp'.closed = LiveClosed(b)' \ {w} /\ sp'.tip = Link(stage.next, b)' /\ w # 0
        BY <1>1, <1>2, <2>3, <3>1, <3>4, <3>5, <3>6 DEF WriterInv
    <3>8. stage'.next > b.seq /\ \A s \in DOMAIN segs' : s < stage'.next
        BY <2>1, <3>1, <3>3
    <3>9. Live(b)' \subseteq Closed'
        BY <1>6, <2>10, <3>1 DEF SameFiles, LiveClosed
    <3>10. w = stage'.next - 1
        BY <3>1, <3>3
    <3> QED
        BY <3>1, <3>4, <3>7, <3>8, <3>9, <3>10 DEF CreateInv
  <2>14. MemoryInv(b)'
      BY <1>1, <2>1, <2>4, <2>11, <2>12, <2>13 DEF MemoryInv
  <2> QED
      BY <1>6, <1>7, <2>6, <2>14 DEF SpoolInv, DirInv
<1> QED
    BY <1>8, <1>9

(* The segment to be created is the next one.                              *)
LEMMA CreateFits ==
    ASSUME NEW b \in Baselines, SpoolInv(b), up, stage.at = "create", NEW n, n = stage.next
    PROVE  NextFits(n, b)
<1>1. CreateInv(b) /\ FieldsTyped /\ FilesTyped
    BY DEF SpoolInv, MemoryInv
<1>2. n \in 0..MaxSegments /\ n > b.seq /\ b.seq \in Nat /\ MaxSegments \in Nat
    BY <1>1, BaselineFacts DEF CreateInv, FieldsTyped, Stages
<1>3. n \in 1..MaxSegments
    BY <1>2
<1> QED
    BY <1>1, <1>2, <1>3 DEF CreateInv, NextFits

(* SpoolWriter::create, by a rotation or by open.                          *)
LEMMA CreateSegmentKeeps ==
    ASSUME NEW b \in Baselines, SpoolInv(b), CreateSegment
    PROVE  SpoolInv(b)'
<1>1. /\ DirInv(b) /\ FilesTyped /\ OpenMemory(b) /\ CreateInv(b) /\ StageFits(stage) /\ FieldsTyped
      /\ AckInv(b) /\ up /\ stage.at = "create"
    BY DEF SpoolInv, DirInv, MemoryInv, CreateSegment
<1>2. PICK n : n = stage.next
    OBVIOUS
<1>3. NextFits(n, b)
    BY <1>1, <1>2, CreateFits
<1>4. NewSegment(n, TRUE) /\ mans' = mans /\ up' = up
    BY <1>2 DEF CreateSegment, NewSegment
<1>5. DirInv(b)' /\ SamePlaces(b) /\ Live(b)' = Live(b) \cup {n}
    BY <1>1, <1>3, <1>4, NewSegmentDirectory
<1>6. /\ DOMAIN segs' = DOMAIN segs \cup {n} /\ n \notin DOMAIN segs
      /\ \A s \in DOMAIN segs : segs'[s] = segs[s]
      /\ segs'[n].hdr /\ ~segs'[n].torn /\ Size(n)' = 0
    BY <1>1, <1>3, <1>4, NewSegmentFile
<1>7. AckInv(b)'
    BY <1>1, <1>5, AckedStay DEF CreateSegment, SamePlaces
<1>8. HasFields(sp) /\ n \in 1..MaxSegments
    BY <1>1, <1>3 DEF FieldsTyped, NextFits
<1>9. PICK C : C = IF sp.writer = 0 THEN sp.closed ELSE sp.closed \cup {sp.writer}
    OBVIOUS
<1>10. sp' = [sp EXCEPT !.writer = n, !.count = 0, !.closed = C]
    BY <1>2, <1>9 DEF CreateSegment
<1>11. /\ HasFields(sp)' /\ sp'.writer = n /\ sp'.count = 0 /\ sp'.closed = C /\ sp'.tip = sp.tip
       /\ sp'.local = sp.local /\ sp'.last = sp.last /\ sp'.retained = sp.retained
    BY <1>8, <1>10, Zenon DEF HasFields, SpoolFields
<1>12. PICK o : o = stage.obs
    OBVIOUS
<1>13. \/ stage' = SpoolIdle /\ stage' \in Stages
       \/ stage' = [at |-> "write", obs |-> o, next |-> 0] /\ stage' \in Stages /\ o # NoObs
  <2>1. CASE o = NoObs
      BY <1>12, <2>1, SpoolConstants DEF CreateSegment, SpoolIdle, Stages
  <2>2. CASE o # NoObs
      BY <1>1, <1>12, <2>2, SpoolConstants DEF CreateSegment, Stages, FieldsTyped
  <2> QED
      BY <2>1, <2>2
<1>14. FieldsTyped'
  <2>1. stage' \in Stages
      BY <1>13
  <2>2. n \in 0..MaxSegments /\ 0 \in Nat
      BY <1>8, SpoolConstants
  <2> QED
      BY <1>1, <1>4, <1>11, <2>1, <2>2 DEF FieldsTyped
<1>15. SameMemory
    BY <1>11 DEF SameMemory
<1>16. SameReading(b)
  <2>1. \A s \in Full(b) : s \in DOMAIN segs
      BY DEF Full, Live
  <2> QED
      BY <1>5, <2>1 DEF SamePlaces, SameReading
<1>17. OpenMemory(b)'
  <2>1. \A s \in Live(b)' : segs'[s].hdr /\ ~segs'[s].torn
      BY <1>1, <1>5, <1>6 DEF OpenMemory, Live
  <2> QED
      BY <1>1, <1>4, <1>15, <1>16, <2>1, OpenMemoryKept DEF OpenMemory
<1>18. StageFits(stage)' /\ stage'.at # "create"
  <2>1. CASE stage' = SpoolIdle
      BY <2>1, IdleStage DEF StageFits
  <2>2. CASE stage' = [at |-> "write", obs |-> o, next |-> 0] /\ o # NoObs
    <3>1. ~Regression(o)'
        BY <1>1, <1>12, <1>15, <2>2, RegressionSame DEF StageFits
    <3>2. Regression(o)' <=> Regression(stage.obs)'
        BY <2>2 DEF Regression, EpochChanged
    <3> QED
        BY <1>11, <2>2, <3>1, <3>2 DEF StageFits
  <2> QED
      BY <1>13, <2>1, <2>2
<1>19. WriterInv(b)'
  <2>1. n \in Live(b)' \ DOMAIN mans'
      BY <1>1, <1>4, <1>5, <1>6 DEF FilesTyped
  <2>2. LiveClosed(b)' = LiveClosed(b) /\ Link(n, b)' = Link(n, b)
      BY <1>5 DEF SamePlaces
  <2>3. C = LiveClosed(b)
    <3>1. CASE sp.writer = 0
        BY <1>1, <1>9, <3>1 DEF CreateInv
    <3>2. CASE sp.writer # 0
      <4>1. sp.writer = n - 1 /\ sp.writer > b.seq /\ sp.closed = LiveClosed(b) \ {sp.writer} /\ n \in Nat /\ b.seq \in Nat
          BY <1>1, <1>2, <1>8, <3>2, BaselineFacts DEF CreateInv
      <4>2. sp.writer \in LiveClosed(b)
          BY <1>3, <4>1 DEF NextFits
      <4> QED
          BY <1>9, <3>2, <4>1, <4>2
    <3> QED
        BY <3>1, <3>2
  <2>4. sp.tip = Link(n, b)
      BY <1>1, <1>2 DEF CreateInv
  <2>5. Link(sp.writer, b)' = Link(n, b)' /\ Size(sp.writer)' = Size(n)'
      BY <1>11 DEF Link, Size
  <2> QED
      BY <1>6, <1>11, <2>1, <2>2, <2>3, <2>4, <2>5 DEF WriterInv
<1>20. MemoryInv(b)'
    BY <1>1, <1>4, <1>17, <1>18, <1>19 DEF MemoryInv
<1> QED
    BY <1>5, <1>7, <1>14, <1>20 DEF SpoolInv, DirInv

(* The record to be written fits the directory.                            *)
LEMMA WriteFits ==
    ASSUME NEW b \in Baselines, SpoolInv(b), up, stage.at = "write", NEW o, o = stage.obs
    PROVE  Fits(o, sp.writer, b) /\ sp.writer \in Live(b) \ Closed /\ segs[sp.writer].hdr /\ sp.writer \in DOMAIN segs
<1>1. /\ DirInv(b) /\ FilesTyped /\ OpenMemory(b) /\ WriterInv(b) /\ StageFits(stage) /\ FieldsTyped
    BY DEF SpoolInv, DirInv, MemoryInv
<1>2. sp.writer \in Live(b) \ Closed /\ segs[sp.writer].hdr /\ sp.writer \in DOMAIN segs /\ sp.count = Size(sp.writer)
    BY <1>1 DEF WriterInv, OpenMemory, Closed, Live
<1>3. o # NoObs /\ ~Regression(o) /\ (EpochChanged(o) => sp.count = 0)
    BY <1>1 DEF StageFits
<1>4. o \in Observations
    BY <1>1, <1>3 DEF FieldsTyped, Stages
<1>5. PICK c : c = sp.last
    OBVIOUS
<1>6. EndsWith(c, b) /\ c \in Cursors \cup {NoCursor}
    BY <1>1, <1>5 DEF OpenMemory, FieldsTyped
<1>7. ASSUME c # NoCursor, c.epoch = o.epoch PROVE o.off > c.off
  <2>1. ~(o.off <= c.off)
      BY <1>3, <1>5, <1>7 DEF Regression
  <2>2. c.off \in Nat /\ o.off \in Nat
      BY <1>4, <1>6, <1>7, ObservationFacts, SpoolConstants DEF Cursors
  <2> QED
      BY <2>1, <2>2
<1>8. ASSUME c # NoCursor, c.epoch # o.epoch
      PROVE  Size(sp.writer) = 0 /\ \A s \in Full(b) : FirstRec(s).epoch # o.epoch
  <2>1. EpochChanged(o)
      BY <1>5, <1>8 DEF EpochChanged
  <2>2. \A s \in DOMAIN sp.retained : sp.retained[s].epoch # o.epoch
      BY <1>3, <2>1 DEF Regression
  <2>3. ASSUME NEW s \in Full(b) PROVE FirstRec(s).epoch # o.epoch
    <3>1. s \in DOMAIN sp.retained /\ sp.retained[s] = [epoch |-> FirstRec(s).epoch, min |-> FirstRec(s).off,
                           max |-> LastRec(s).off, first |-> Before(s, b) + 1]
        BY <1>1 DEF OpenMemory, IndexInv
    <3>2. sp.retained[s].epoch = FirstRec(s).epoch
        BY <3>1
    <3> QED
        BY <2>2, <3>1, <3>2
  <2> QED
      BY <1>2, <1>3, <2>1, <2>3
<1> QED
    BY <1>2, <1>4, <1>6, <1>7, <1>8 DEF Fits

(* Nothing is held beyond the last number.                                 *)
LEMMA HeldEnds ==
    ASSUME NEW b \in Baselines, FilesTyped, ChainInv(b), NEW e, EndsAt(e, b), NEW n, n > e, n \in Nat
    PROVE  Held(n, b) = {}
<1>1. e \in Nat /\ \A p \in LivePositions(b) : Number(p, b) <= e /\ Number(p, b) \in Nat
    BY NumbersEnd, NumberIs
<1>2. {q \in Positions : q[1] > b.seq /\ Number(q, b) = n} = {}
    BY <1>1 DEF LivePositions
<1> QED
    BY <1>2 DEF Held

(* A record is acknowledged under the number it is held with.              *)
LEMMA AckedOneMore ==
    ASSUME NEW b \in Baselines, FilesTyped, ChainInv(b), AckInv(b), NEW e, EndsAt(e, b),
           NEW w, NEW o \in Observations, EndsOneFurther(w, o, b),
           ackedRecs' = Append(ackedRecs, [obs |-> o, local |-> e + 1])
    PROVE  AckInv(b)'
<1>1. e \in Nat /\ ackedRecs \in Seq([obs : Observations, local : Nat])
    BY NumbersEnd DEF AckInv
<1>2. PICK a : a = [obs |-> o, local |-> e + 1]
    OBVIOUS
<1>3. a \in [obs : Observations, local : Nat] /\ a.obs = o /\ a.local = e + 1
    BY <1>1, <1>2
<1>4. /\ ackedRecs' \in Seq([obs : Observations, local : Nat]) /\ Len(ackedRecs') = Len(ackedRecs) + 1
      /\ ackedRecs'[Len(ackedRecs) + 1] = a /\ Len(ackedRecs) \in Nat
      /\ \A i \in 1..Len(ackedRecs) : ackedRecs'[i] = ackedRecs[i] /\ ackedRecs[i] \in [obs : Observations, local : Nat]
  <2>1. PICK A : A = [obs : Observations, local : Nat]
      OBVIOUS
  <2>2. ackedRecs \in Seq(A) /\ a \in A /\ ackedRecs' = Append(ackedRecs, a)
      BY <1>1, <1>2, <1>3, <2>1
  <2>3. /\ ackedRecs' \in Seq(A) /\ Len(ackedRecs') = Len(ackedRecs) + 1
        /\ ackedRecs'[Len(ackedRecs) + 1] = a /\ Len(ackedRecs) \in Nat
        /\ \A i \in 1..Len(ackedRecs) : ackedRecs'[i] = ackedRecs[i] /\ ackedRecs[i] \in A
      BY <2>2, AppendProperties
  <2> QED
      BY <2>1, <2>3
<1>5. \A n : Held(n, b)' = IF n = e + 1 THEN {o} ELSE Held(n, b)
    BY DEF EndsOneFurther
<1>6. ASSUME NEW i \in 1..Len(ackedRecs'), ackedRecs'[i].local > b.local
      PROVE  Held(ackedRecs[i].local, b)' = {ackedRecs'[i].obs}
  <2>1. PICK n : n = ackedRecs'[i].local
      OBVIOUS
  <2>2. Held(n, b)' = {ackedRecs'[i].obs}
    <3>1. CASE i = Len(ackedRecs) + 1
        BY <1>3, <1>4, <1>5, <2>1, <3>1
    <3>2. CASE i \in 1..Len(ackedRecs)
      <4>1. ackedRecs'[i] = ackedRecs[i] /\ n \in Nat
          BY <1>4, <2>1, <3>2
      <4>2. Held(n, b) = {ackedRecs[i].obs}
          BY <1>6, <2>1, <3>2, <4>1 DEF AckInv, AckedHeld
      <4>3. ~(n > e)
          BY <4>1, <4>2, HeldEnds
      <4>4. n # e + 1
          BY <1>1, <4>1, <4>3
      <4> QED
          BY <1>5, <4>1, <4>2, <4>4
    <3> QED
        BY <1>4, <3>1, <3>2
  <2>3. Held(ackedRecs[i].local, b)' = Held(n, b)'
      BY <2>1 DEF Held
  <2> QED
      BY <2>2, <2>3
<1>7. AckedHeld(b)'
    BY <1>6 DEF AckedHeld
<1> QED
    BY <1>4, <1>7 DEF AckInv

(* SpoolWriter::append adds one record.                                    *)
LEMMA AppendIsRecordAdded ==
    ASSUME FilesTyped, NEW w \in DOMAIN segs, NEW o \in Observations, mans' = mans,
           segs' = [segs EXCEPT ![w].recs = Append(@, o)]
    PROVE  RecordAdded(w, o)
<1>1. segs[w] \in Segments /\ segs \in [DOMAIN segs -> Segments] /\ segs[w].recs \in Seq(Observations)
    BY FileFacts DEF FilesTyped
<1>2. PICK r \in Seq(Observations) : r = Append(segs[w].recs, o)
  <2>1. PICK q \in Seq(Observations) : q = segs[w].recs
      BY <1>1
  <2>2. Append(q, o) \in Seq(Observations)
      BY AppendProperties
  <2> QED
      BY <2>1, <2>2
<1>3. segs' = [segs EXCEPT ![w] = [segs[w] EXCEPT !.recs = r]]
    BY <1>2
<1>4. [segs[w] EXCEPT !.recs = r] \in Segments
    BY <1>1 DEF Segments
<1>5. DOMAIN segs' = DOMAIN segs /\ segs' \in [DOMAIN segs' -> Segments] /\ segs'[w] = [segs[w] EXCEPT !.recs = r]
    BY <1>1, <1>3, <1>4
<1>6. segs'[w].recs = r /\ segs'[w].hdr = segs[w].hdr /\ segs'[w].torn = segs[w].torn
    BY <1>1, <1>5 DEF Segments
<1>7. \A s \in DOMAIN segs : s # w => segs'[s] = segs[s]
    BY <1>3
<1> QED
    BY <1>2, <1>5, <1>6, <1>7 DEF RecordAdded

(* extend_retained_segment keeps the index.                                *)
LEMMA IndexExtended ==
    ASSUME NEW b \in Baselines, DirInv(b), IndexInv(b), NEW w \in Live(b) \ Closed, NEW o \in Observations,
           OneMore(w, o, b), NEW n, n = Before(w, b) + 1 \/ Size(w) # 0,
           sp.writer = w, sp'.retained = ExtendRetained(o, n)
    PROVE  IndexInv(b)'
<1>1. /\ FilesTyped /\ ChainInv(b) /\ w \in Nat /\ w \in DOMAIN segs
      /\ \A s \in DOMAIN segs : s \in Nat /\ s <= w
    BY OpenIsLast DEF DirInv
<1>2. PICK R : R = sp.retained
    OBVIOUS
<1>3. DOMAIN R = Full(b) /\ \A s \in Full(b) : s \in DOMAIN segs /\ s \in Nat /\ s <= w
    BY <1>1, <1>2 DEF IndexInv, Full, Live
<1>4. /\ Full(b)' = Full(b) \cup {w} /\ LastRec(w)' = o
      /\ FirstRec(w)' = IF Size(w) = 0 THEN o ELSE FirstRec(w)
      /\ \A s : Before(s, b)' = Before(s, b)
      /\ \A s \in Full(b) : s # w => FirstRec(s)' = FirstRec(s) /\ LastRec(s)' = LastRec(s)
    BY <1>3 DEF OneMore
<1>5. \A s \in Full(b) : R[s] = [epoch |-> FirstRec(s).epoch, min |-> FirstRec(s).off,
                                 max |-> LastRec(s).off, first |-> Before(s, b) + 1]
    BY <1>2 DEF IndexInv
<1>6. CASE w \in Full(b)
  <2>1. Max(Full(b)) = w
    <3>1. PICK F : F = Full(b)
        OBVIOUS
    <3>2. F \subseteq Int /\ w \in F /\ \A x \in F : x <= w
        BY <1>3, <1>6, <3>1
    <3> QED
        BY <3>1, <3>2, MaxIs
  <2>2. sp'.retained = [R EXCEPT ![w].max = o.off]
      BY <1>2, <1>3, <1>6, <2>1 DEF ExtendRetained
  <2>3. PICK q : q = [epoch |-> FirstRec(w).epoch, min |-> FirstRec(w).off,
                      max |-> o.off, first |-> Before(w, b) + 1]
      OBVIOUS
  <2>4. [R[w] EXCEPT !.max = o.off] = q
    <3>1. R[w] = [epoch |-> FirstRec(w).epoch, min |-> FirstRec(w).off,
                  max |-> LastRec(w).off, first |-> Before(w, b) + 1]
        BY <1>5, <1>6
    <3> QED
        BY <2>3, <3>1
  <2>5. sp'.retained = [R EXCEPT ![w] = q]
      BY <2>2, <2>4
  <2>6. DOMAIN sp'.retained = Full(b) /\ sp'.retained[w] = q /\ \A s \in Full(b) : s # w => sp'.retained[s] = R[s]
      BY <1>3, <1>6, <2>5
  <2>7. Size(w) # 0
      BY <1>6 DEF Full
  <2>8. FirstRec(w)' = FirstRec(w) /\ Full(b)' = Full(b)
      BY <1>4, <1>6, <2>7
  <2>9. ASSUME NEW s \in Full(b)
        PROVE  sp'.retained[s] = [epoch |-> FirstRec(s)'.epoch, min |-> FirstRec(s)'.off,
                                  max |-> LastRec(s)'.off, first |-> Before(s, b)' + 1]
    <3>1. CASE s = w
        BY <1>4, <2>3, <2>6, <2>8, <3>1
    <3>2. CASE s # w
        BY <1>4, <1>5, <2>6, <3>2
    <3> QED
        BY <3>1, <3>2
  <2> QED
      BY <2>6, <2>8, <2>9 DEF IndexInv
<1>7. CASE w \notin Full(b)
  <2>1. Size(w) = 0 /\ n = Before(w, b) + 1
      BY <1>7 DEF Full
  <2>2. Full(b) # {} => Max(Full(b)) # w
    <3>1. PICK F : F = Full(b)
        OBVIOUS
    <3>2. F \subseteq Nat /\ \A x \in F : x <= w
        BY <1>3, <3>1
    <3>3. F # {} => Max(F) \in F
        BY <1>1, <3>2, MaxExists
    <3> QED
        BY <1>7, <3>1, <3>3
  <2>3. sp'.retained = With(R, w, [epoch |-> o.epoch, min |-> o.off, max |-> o.off, first |-> n])
      BY <1>2, <1>3, <2>2 DEF ExtendRetained
  <2>4. /\ DOMAIN sp'.retained = Full(b) \cup {w}
        /\ sp'.retained[w] = [epoch |-> o.epoch, min |-> o.off, max |-> o.off, first |-> n]
        /\ \A s \in Full(b) : sp'.retained[s] = R[s]
      BY <1>3, <1>7, <2>3 DEF With
  <2>5. ASSUME NEW s \in Full(b)'
        PROVE  sp'.retained[s] = [epoch |-> FirstRec(s)'.epoch, min |-> FirstRec(s)'.off,
                                  max |-> LastRec(s)'.off, first |-> Before(s, b)' + 1]
    <3>1. CASE s = w
        BY <1>4, <2>1, <2>4, <3>1
    <3>2. CASE s # w
        BY <1>4, <1>5, <2>4, <3>2
    <3> QED
        BY <3>1, <3>2
  <2> QED
      BY <1>4, <2>4, <2>5 DEF IndexInv
<1> QED
    BY <1>6, <1>7

(* A record written and not acknowledged changes no acknowledged one.      *)
LEMMA AckedWritten ==
    ASSUME NEW b \in Baselines, FilesTyped, ChainInv(b), AckInv(b), NEW e, EndsAt(e, b),
           NEW w, NEW o, EndsOneFurther(w, o, b), ackedRecs' = ackedRecs
    PROVE  AckInv(b)'
<1>1. e \in Nat /\ ackedRecs \in Seq([obs : Observations, local : Nat])
    BY NumbersEnd DEF AckInv
<1>2. \A n : Held(n, b)' = IF n = e + 1 THEN {o} ELSE Held(n, b)
    BY DEF EndsOneFurther
<1>3. ASSUME NEW i \in 1..Len(ackedRecs), ackedRecs[i].local > b.local
      PROVE  Held(ackedRecs[i].local, b)' = {ackedRecs[i].obs}
  <2>1. PICK n : n = ackedRecs[i].local
      OBVIOUS
  <2>2. ackedRecs[i] \in [obs : Observations, local : Nat]
    <3>1. PICK A : A = [obs : Observations, local : Nat]
        OBVIOUS
    <3>2. ackedRecs \in Seq(A)
        BY <1>1, <3>1
    <3>3. ackedRecs[i] \in A
        BY <3>2
    <3> QED
        BY <3>1, <3>3
  <2>3. Held(n, b) = {ackedRecs[i].obs} /\ n \in Nat
      BY <1>3, <2>1, <2>2 DEF AckInv, AckedHeld
  <2>4. ~(n > e)
      BY <2>3, HeldEnds
  <2>5. n # e + 1
      BY <1>1, <2>3, <2>4
  <2>6. Held(ackedRecs[i].local, b)' = Held(n, b)'
      BY <2>1 DEF Held
  <2> QED
      BY <1>2, <2>3, <2>5, <2>6
<1>4. AckedHeld(b)'
    BY <1>3 DEF AckedHeld
<1> QED
    BY <1>4 DEF AckInv

(* The record is written, indexed and acknowledged.                        *)
LEMMA WriteRecordKeeps ==
    ASSUME NEW b \in Baselines, SpoolInv(b), WriteRecord
    PROVE  SpoolInv(b)'
<1>1. /\ DirInv(b) /\ FilesTyped /\ ChainInv(b) /\ OpenMemory(b) /\ WriterInv(b) /\ FieldsTyped
      /\ AckInv(b) /\ up /\ stage.at = "write"
    BY DEF SpoolInv, DirInv, MemoryInv, WriteRecord
<1>2. PICK o : o = stage.obs
    OBVIOUS
<1>3. PICK w : w = sp.writer
    OBVIOUS
<1>4. PICK e : e = sp.local
    OBVIOUS
<1>5. Fits(o, w, b) /\ w \in Live(b) \ Closed /\ segs[w].hdr /\ w \in DOMAIN segs /\ o \in Observations
    BY <1>1, <1>2, <1>3, WriteFits DEF Fits
<1>6. RecordAdded(w, o) /\ mans' = mans /\ up' = up
    BY <1>1, <1>2, <1>3, <1>5, AppendIsRecordAdded DEF WriteRecord
<1>7. DirInv(b)' /\ OneMore(w, o, b) /\ EndsOneFurther(w, o, b)
    BY <1>1, <1>5, <1>6, OneMoreDirectory
<1>8. EndsAt(e, b) /\ e \in Nat /\ EndsAt(e + 1, b)'
    BY <1>1, <1>4, <1>7 DEF OpenMemory, FieldsTyped, EndsOneFurther
<1>9. AckInv(b)'
    BY <1>1, <1>2, <1>4, <1>5, <1>7, <1>8, AckedOneMore DEF WriteRecord
<1>10. HasFields(sp)
    BY <1>1 DEF FieldsTyped
<1>11. PICK R : R = ExtendRetained(o, e + 1)
    OBVIOUS
<1>12. PICK c : c = Cursor(o)
    OBVIOUS
<1>13. sp' = [sp EXCEPT !.count = @ + 1, !.last = c, !.local = @ + 1, !.retained = R]
    BY <1>2, <1>4, <1>11, <1>12 DEF WriteRecord
<1>14. /\ HasFields(sp)' /\ sp'.writer = sp.writer /\ sp'.count = sp.count + 1 /\ sp'.closed = sp.closed
       /\ sp'.tip = sp.tip /\ sp'.local = sp.local + 1 /\ sp'.last = c /\ sp'.retained = R
    BY <1>10, <1>13, Zenon DEF HasFields, SpoolFields
<1>15. stage' = SpoolIdle /\ stage' \in Stages
    BY SpoolConstants DEF WriteRecord, SpoolIdle, Stages
<1>16. FieldsTyped'
  <2>1. c \in Cursors /\ sp'.count \in Nat /\ sp'.local \in Nat
      BY <1>1, <1>5, <1>12, <1>14, ObservationFacts DEF FieldsTyped
  <2> QED
      BY <1>1, <1>6, <1>14, <1>15, <2>1 DEF FieldsTyped
<1>17. Before(w, b) \in Nat /\ Size(w) \in Nat /\ e = Before(w, b) + Size(w)
    BY <1>1, <1>5, <1>8, OpenIsLast, BeforeFacts, FileFacts
<1>18. OpenMemory(b)'
  <2>1. EndsAt(sp.local, b)'
    <3>1. sp'.local = e + 1
        BY <1>4, <1>14
    <3> QED
        BY <1>8, <3>1 DEF EndsAt
  <2>2. EndsWith(sp.last, b)'
    <3>1. EndsWith(c, b)' /\ sp'.last = c
        BY <1>7, <1>12, <1>14 DEF EndsOneFurther, EndsWith, Cursor
    <3> QED
        BY <3>1 DEF EndsWith
  <2>3. IndexInv(b)'
    <3>1. e + 1 = Before(w, b) + 1 \/ Size(w) # 0
        BY <1>17
    <3>2. PICK n : n = e + 1
        OBVIOUS
    <3>3. sp.writer = w /\ sp'.retained = ExtendRetained(o, n) /\ (n = Before(w, b) + 1 \/ Size(w) # 0)
        BY <1>3, <1>11, <1>14, <3>1, <3>2
    <3> QED
        BY <1>1, <1>5, <1>7, <3>3, IndexExtended DEF OpenMemory
  <2>4. \A s \in DOMAIN mans' : ~mans'[s].tmp
      BY <1>1, <1>6 DEF OpenMemory
  <2>5. \A s \in Live(b)' : segs'[s].hdr /\ ~segs'[s].torn
    <3>1. Live(b)' = Live(b)
        BY <1>7 DEF OneMore
    <3>2. \A s \in Live(b) : s \in DOMAIN segs /\ segs'[s].hdr = segs[s].hdr /\ segs'[s].torn = segs[s].torn
        BY <1>6 DEF RecordAdded, Live
    <3> QED
        BY <1>1, <3>1, <3>2 DEF OpenMemory
  <2> QED
      BY <2>1, <2>2, <2>3, <2>4, <2>5 DEF OpenMemory
<1>19. StageFits(stage)' /\ stage'.at # "create"
    BY <1>15, IdleStage DEF StageFits
<1>20. WriterInv(b)'
  <2>1. /\ Live(b)' = Live(b) /\ LiveClosed(b)' = LiveClosed(b) /\ Link(w, b)' = Link(w, b)
        /\ Size(w)' = Size(w) + 1 /\ sp'.writer = w
      BY <1>3, <1>7, <1>14 DEF OneMore
  <2>2. Link(sp.writer, b)' = Link(w, b)' /\ Size(sp.writer)' = Size(w)'
      BY <2>1 DEF Link, Size
  <2>3. w \in Live(b) \ DOMAIN mans /\ sp.count = Size(w) /\ sp.closed = LiveClosed(b) /\ sp.tip = Link(w, b)
      BY <1>1, <1>3 DEF WriterInv
  <2> QED
      BY <1>6, <1>14, <2>1, <2>2, <2>3 DEF WriterInv
<1>21. MemoryInv(b)'
    BY <1>1, <1>6, <1>18, <1>19, <1>20 DEF MemoryInv
<1> QED
    BY <1>7, <1>9, <1>16, <1>21 DEF SpoolInv, DirInv

(* The numbered records of the directory stay, or o joins them.            *)
SameLog(b) ==
    /\ \A n : Held(n, b)' = Held(n, b)
    /\ \A e : EndsAt(e, b)' <=> EndsAt(e, b)

LongerLog(o, b) ==
    \A e : EndsAt(e, b) =>
        /\ EndsAt(e + 1, b)'
        /\ \A n : Held(n, b)' = IF n = e + 1 THEN {o} ELSE Held(n, b)

(* A crash leaves the directory in order, whatever it interrupts; the      *)
(* record that was being written may be there.                             *)
LEMMA CrashKeeps ==
    ASSUME NEW b \in Baselines, SpoolInv(b), Crash
    PROVE  SpoolInv(b)' /\ (SameLog(b) \/ \E o \in Observations : o = stage.obs /\ LongerLog(o, b))
<1>1. /\ DirInv(b) /\ FilesTyped /\ ChainInv(b) /\ OpenMemory(b) /\ FieldsTyped /\ AckInv(b) /\ up
      /\ up' = FALSE /\ sp' = Down /\ stage' = SpoolIdle /\ ackedRecs' = ackedRecs
    BY DEF SpoolInv, DirInv, MemoryInv, Crash
<1>2. ASSUME UNCHANGED <<segs, mans>> PROVE SpoolInv(b)' /\ SameLog(b)
  <2>1. DirInv(b)' /\ SamePlaces(b)
      BY <1>1, <1>2, SameFilesDirectory
  <2>2. AckInv(b)'
      BY <1>1, <2>1, AckedStay DEF SamePlaces
  <2> QED
      BY <1>1, <2>1, <2>2, SpoolEnds DEF SamePlaces, SameLog
<1>3. CASE CrashInPublish
  <2>1. ASSUME NEW t \in BOOLEAN, mans' = With(mans, sp.writer, NewManifest(t)) PROVE SpoolInv(b)' /\ SameLog(b)
    <3>1. PICK w : w = sp.writer
        OBVIOUS
    <3>2. PICK m : m = NewManifest(t)
        OBVIOUS
    <3>3. Vouches(m, w, b) /\ w \in Live(b) \ DOMAIN mans
        BY <1>1, <1>3, <3>1, <3>2, ManifestVouches DEF CrashInPublish
    <3>4. NewManifestOf(w, m)
        BY <1>3, <2>1, <3>1, <3>2 DEF NewManifestOf, CrashInPublish
    <3>5. DirInv(b)' /\ SameFiles(b)
        BY <1>1, <3>3, <3>4, NewManifestDirectory
    <3>6. AckInv(b)'
        BY <1>1, <3>5, AckedStay DEF SameFiles
    <3> QED
        BY <1>1, <3>5, <3>6, SpoolEnds DEF SameFiles, SameLog
  <2>2. segs' = segs /\ (mans' = mans \/ \E t \in BOOLEAN : mans' = With(mans, sp.writer, NewManifest(t)))
      BY <1>3 DEF CrashInPublish
  <2> QED
      BY <1>2, <2>1, <2>2
<1>4. CASE CrashInCreate
  <2>1. ASSUME NEW h \in BOOLEAN, segs' = With(segs, stage.next, Segment(h, <<>>, FALSE)), mans' = mans
        PROVE  SpoolInv(b)' /\ SameLog(b)
    <3>1. PICK n : n = stage.next
        OBVIOUS
    <3>2. NextFits(n, b) /\ NewSegment(n, h)
        BY <1>1, <1>4, <2>1, <3>1, CreateFits DEF CrashInCreate, NewSegment
    <3>3. DirInv(b)' /\ SamePlaces(b)
        BY <1>1, <3>2, NewSegmentDirectory
    <3>4. AckInv(b)'
        BY <1>1, <3>3, AckedStay DEF SamePlaces
    <3> QED
        BY <1>1, <3>3, <3>4, SpoolEnds DEF SamePlaces, SameLog
  <2>2. mans' = mans /\ (segs' = segs \/ \E h \in BOOLEAN : segs' = With(segs, stage.next, Segment(h, <<>>, FALSE)))
      BY <1>4 DEF CrashInCreate
  <2> QED
      BY <1>2, <2>1, <2>2
<1>5. CASE CrashInWrite
  <2>1. PICK o : o = stage.obs
      OBVIOUS
  <2>2. PICK w : w = sp.writer
      OBVIOUS
  <2>3. Fits(o, w, b) /\ w \in Live(b) \ Closed /\ segs[w].hdr /\ w \in DOMAIN segs /\ o \in Observations
      BY <1>1, <1>5, <2>1, <2>2, WriteFits DEF Fits, CrashInWrite
  <2>4. mans' = mans /\ stage.at = "write"
      BY <1>5 DEF CrashInWrite
  <2>5. PICK r \in {segs[w], [segs[w] EXCEPT !.torn = TRUE], [segs[w] EXCEPT !.recs = Append(@, o)]} :
              segs' = [segs EXCEPT ![w] = r]
      BY <1>5, <2>1, <2>2 DEF CrashInWrite
  <2>6. segs[w] \in Segments /\ segs \in [DOMAIN segs -> Segments]
      BY <1>1, <2>3 DEF FilesTyped
  <2>7. CASE r = segs[w]
    <3>1. segs' = segs
        BY <2>3, <2>5, <2>6, <2>7
    <3> QED
        BY <1>2, <2>4, <3>1
  <2>8. CASE r = [segs[w] EXCEPT !.torn = TRUE]
    <3>1. r \in Segments /\ r.recs = segs[w].recs /\ r.hdr = segs[w].hdr
        BY <2>6, <2>8 DEF Segments
    <3>2. /\ DOMAIN segs' = DOMAIN segs /\ segs' \in [DOMAIN segs' -> Segments] /\ segs'[w] = r
          /\ \A s \in DOMAIN segs : s # w => segs'[s] = segs[s]
        BY <2>3, <2>5, <2>6, <3>1
    <3>3. SameRecords
        BY <2>3, <2>4, <3>1, <3>2 DEF SameRecords
    <3>4. DirInv(b)' /\ SamePlaces(b)
        BY <1>1, <3>3, SameDirectory
    <3>5. AckInv(b)'
        BY <1>1, <3>4, AckedStay DEF SamePlaces
    <3> QED
        BY <1>1, <3>4, <3>5, SpoolEnds DEF SamePlaces, SameLog
  <2>9. CASE r = [segs[w] EXCEPT !.recs = Append(@, o)]
    <3>1. segs' = [segs EXCEPT ![w].recs = Append(@, o)]
        BY <2>5, <2>9
    <3>2. RecordAdded(w, o)
        BY <1>1, <2>3, <2>4, <3>1, AppendIsRecordAdded
    <3>3. DirInv(b)' /\ EndsOneFurther(w, o, b)
        BY <1>1, <2>3, <3>2, OneMoreDirectory
    <3>4. PICK e : e = sp.local
        OBVIOUS
    <3>5. EndsAt(e, b)
        BY <1>1, <3>4 DEF OpenMemory
    <3>6. AckInv(b)'
        BY <1>1, <3>3, <3>5, AckedWritten
    <3>7. LongerLog(o, b)
        BY <3>3 DEF EndsOneFurther, LongerLog
    <3> QED
        BY <1>1, <2>1, <2>3, <3>3, <3>6, <3>7, SpoolEnds
  <2> QED
      BY <2>5, <2>7, <2>8, <2>9
<1>6. CASE CrashIdle
    BY <1>2, <1>6 DEF CrashIdle
<1> QED
    BY <1>3, <1>4, <1>5, <1>6 DEF Crash

(* The latest of a set of records.                                         *)
LEMMA LatestIs ==
    ASSUME FilesTyped, NEW P, P \subseteq Positions, NEW x \in P, \A q \in P \ {x} : Precedes(q, x)
    PROVE  Latest(P) = x
<1>1. \A p \in P : p[1] \in Nat /\ p[2] \in Nat /\ p = <<p[1], p[2]>>
    BY PositionFacts
<1>2. ASSUME NEW p \in P, \A q \in P \ {p} : Precedes(q, p) PROVE p = x
  <2>1. CASE p # x
    <3>1. Precedes(p, x) /\ Precedes(x, p)
        BY <1>2, <2>1
    <3> QED
        BY <1>1, <3>1 DEF Precedes
  <2> QED
      BY <2>1
<1> QED
    BY <1>2 DEF Latest

(* The cursor of the last record on disk, when no segment is left over.    *)
LEMMA LastCursorIs ==
    ASSUME NEW b \in Baselines, FilesTyped, DOMAIN segs = Live(b)
    PROVE  EndsWith(LastCursor(Positions, b), b)
<1>1. CASE Full(b) = {}
  <2>1. Positions = {}
    <3>1. ASSUME NEW p \in Positions PROVE FALSE
      <4>1. p[1] \in DOMAIN segs /\ p[2] \in 1..Size(p[1]) /\ Size(p[1]) \in Nat
          BY PositionFacts, FileFacts
      <4> QED
          BY <1>1, <4>1 DEF Full
    <3> QED
        BY <3>1
  <2> QED
      BY <1>1, <2>1 DEF EndsWith, LastCursor
<1>2. CASE Full(b) # {}
  <2>1. PICK F : F = Full(b)
      OBVIOUS
  <2>2. F \subseteq Nat /\ \A x \in F : x <= MaxSegments /\ MaxSegments \in Nat
      BY <2>1, FileFacts DEF Full, Live
  <2>3. PICK m \in F : \A x \in F : x <= m
      BY <1>2, <2>1, <2>2, MaxExists
  <2>4. m \in DOMAIN segs /\ m \in Nat /\ Size(m) \in Nat /\ Size(m) >= 1
      BY <2>1, FullFacts
  <2>5. PICK x : x = <<m, Size(m)>>
      OBVIOUS
  <2>6. x \in Positions /\ x[1] = m /\ x[2] = Size(m)
      BY <2>4, <2>5, PositionFacts
  <2>7. ASSUME NEW q \in Positions \ {x} PROVE Precedes(q, x)
    <3>1. /\ q[1] \in DOMAIN segs /\ q[1] \in Nat /\ q[2] \in 1..Size(q[1]) /\ Size(q[1]) \in Nat
          /\ q = <<q[1], q[2]>>
        BY PositionFacts, FileFacts
    <3>2. q[1] \in F /\ q[1] <= m
        BY <2>1, <2>3, <3>1 DEF Full
    <3>3. q[1] = m => q[2] # Size(m)
        BY <2>5, <3>1
    <3> QED
        BY <2>4, <2>6, <3>1, <3>2, <3>3 DEF Precedes
  <2>8. Latest(Positions) = x
    <3>1. PICK P : P = Positions
        OBVIOUS
    <3> QED
        BY <2>6, <2>7, <3>1, LatestIs
  <2>9. LastCursor(Positions, b) = Cursor(LastRec(m))
      BY <2>6, <2>8 DEF LastCursor, Rec, LastRec, Size
  <2> QED
      BY <2>1, <2>3, <2>9 DEF EndsWith
<1> QED
    BY <1>1, <1>2

(* A directory that open accepts has no segment left over.                 *)
LEMMA OpenableFacts ==
    ASSUME NEW b \in Baselines, FilesTyped, ChainInv(b), ChainIntact(b)
    PROVE  /\ DOMAIN segs = Live(b) /\ Closed = DOMAIN mans /\ LiveClosed(b) = Closed
           /\ \A s \in DOMAIN mans : ~mans[s].tmp
           /\ \A s \in Live(b) : segs[s].hdr
<1>1. Closed = DOMAIN mans /\ \A s \in DOMAIN mans : ~mans[s].tmp
    BY DEF ChainIntact, Closed
<1>2. ASSUME b.seq \in DOMAIN segs PROVE FALSE
  <2>1. b.seq \in Nat /\ b.seq # 0
      BY <1>2, FileFacts
  <2>2. {t \in Closed : t < b.seq} = {}
    <3>1. \A t \in Closed : t \in Nat /\ t >= b.seq
        BY FileFacts DEF ChainInv
    <3> QED
        BY <2>1, <3>1
  <2>3. Previous(b.seq, b).seq = b.seq
      BY <2>2 DEF Previous
  <2>4. InSequence(b.seq, b)
      BY <1>2 DEF ChainIntact, OpenSegments
  <2> QED
      BY <2>1, <2>3, <2>4 DEF InSequence
<1>3. DOMAIN segs = Live(b)
  <2>1. \A s \in DOMAIN segs : s \in Nat /\ s >= b.seq /\ s # b.seq /\ b.seq \in Nat
      BY <1>2, FileFacts, BaselineFacts DEF ChainInv
  <2> QED
      BY <2>1 DEF Live
<1>4. LiveClosed(b) = Closed
    BY <1>3, FileFacts DEF LiveClosed, Live
<1>5. \A s \in Live(b) : segs[s].hdr
    BY <1>3, <1>4 DEF ChainIntact, ChainInv, OpenSegments
<1> QED
    BY <1>1, <1>3, <1>4, <1>5

(* What the manifests leave for the next segment is read with the last.    *)
LEMMA TipIs ==
    ASSUME NEW b \in Baselines, FilesTyped, ChainInv(b), NEW s \in Nat, s > b.seq, s <= MaxSegments + 1,
           \A u \in b.seq + 1 .. s - 1 : u \in Closed, \A t \in Closed : t < s
    PROVE  Tip(b).hash = Link(s, b) /\ Tip(b).local = Before(s, b)
<1>1. {t \in Closed : t < MaxSegments + 1} = {t \in Closed : t < s}
  <2>1. \A t \in Closed : t < MaxSegments + 1
    <3> TAKE t \in Closed
    <3>1. t \in Nat /\ t <= MaxSegments /\ MaxSegments \in Nat
        BY FileFacts
    <3> QED
        BY <3>1
  <2> QED
      BY <2>1
<1>2. Tip(b) = Previous(s, b)
    BY <1>1 DEF Tip, Previous
<1>3. Previous(s, b) = [seq |-> s - 1, hash |-> Link(s, b), local |-> Before(s, b)]
    BY PreviousIs
<1> QED
    BY <1>2, <1>3

(* The index that open builds.                                             *)
LEMMA RetainedIndexIs ==
    ASSUME NEW b \in Baselines, FilesTyped, ChainInv(b), DOMAIN segs = Live(b)
    PROVE  /\ DOMAIN RetainedIndex(b) = Full(b)
           /\ \A s \in Full(b) :
                RetainedIndex(b)[s] = [epoch |-> FirstRec(s).epoch, min |-> FirstRec(s).off,
                                       max |-> LastRec(s).off, first |-> Before(s, b) + 1]
<1>1. ASSUME NEW s \in DOMAIN segs PROVE segs[s].recs # <<>> <=> Size(s) # 0
  <2>1. segs[s].recs \in Seq(Observations)
      BY FileFacts
  <2> QED
      BY <2>1, EmptySeq DEF Size
<1>2. {t \in DOMAIN segs : segs[t].recs # <<>>} = Full(b)
    BY <1>1 DEF Full
<1>3. ASSUME NEW s \in Full(b) PROVE Previous(s, b).local = Before(s, b)
  <2>1. s \in Nat /\ s > b.seq /\ s \in DOMAIN segs
      BY FullFacts, BeforeFacts
  <2>2. \A u \in b.seq + 1 .. s - 1 : u \in Closed
      BY <2>1 DEF ChainInv
  <2> QED
      BY <2>1, <2>2, PreviousIs
<1> QED
    BY <1>2, <1>3 DEF RetainedIndex, FirstRec, LastRec

(* What open reads, and where it goes on.                                  *)
OpensAt(b, w, n) ==
    IF w = 0 THEN NextFits(n, b) /\ OpenSegments = {} /\ n = LastSequence(b) + 1
    ELSE w \in Live(b) \ Closed /\ OpenSegments = {w}

(* The fields that open recovers, with and without an open segment.        *)
LEMMA RecoveredIs ==
    ASSUME NEW b \in Baselines, DirInv(b), Openable(b), OpenSegments = {} => LastSequence(b) < MaxSegments
    PROVE  /\ OpensAt(b, Recovered(b).writer, LastSequence(b) + 1)
           /\ Recovered(b).writer \in 0..MaxSegments
           /\ Recovered(b).writer = 0 => /\ Recovered(b).tip = Link(LastSequence(b) + 1, b)
                                         /\ Recovered(b).count = 0
           /\ Recovered(b).writer # 0 => /\ Recovered(b).tip = Link(Recovered(b).writer, b)
                                         /\ Recovered(b).count = Size(Recovered(b).writer)
           /\ EndsAt(Recovered(b).local, b) /\ EndsWith(Recovered(b).last, b)
<1>1. FilesTyped /\ ChainInv(b) /\ ChainIntact(b)
    BY DEF DirInv, Openable
<1>2. /\ DOMAIN segs = Live(b) /\ Closed = DOMAIN mans /\ LiveClosed(b) = Closed /\ Closed \subseteq DOMAIN segs
      /\ b.seq \in Nat /\ MaxSegments \in Nat
    BY <1>1, OpenableFacts, FileFacts, BaselineFacts
<1>3. EndsWith(Recovered(b).last, b)
  <2>1. Recovered(b).last = LastCursor(Positions, b)
      BY DEF Recovered
  <2> QED
      BY <1>1, <1>2, <2>1, LastCursorIs
<1>4. CASE OpenSegments = {}
  <2>1. Recovered(b).writer = 0 /\ Recovered(b).count = 0 /\ Recovered(b).tip = Tip(b).hash /\ Recovered(b).local = Tip(b).local + 0
      BY <1>4 DEF Recovered, OpenSegment, OpenCount
  <2>2. PICK n : n = LastSequence(b) + 1
      OBVIOUS
  <2>3. NextFits(n, b)
    <3>1. Live(b) \subseteq Closed
        BY <1>2, <1>4 DEF OpenSegments
    <3>2. CASE DOMAIN segs = {}
      <4>1. n = b.seq + 1 /\ b.seq < MaxSegments
          BY <1>4, <2>2, <3>2 DEF LastSequence
      <4> QED
          BY <1>2, <3>1, <3>2, <4>1 DEF NextFits
    <3>3. CASE DOMAIN segs # {}
      <4>1. PICK D : D = DOMAIN segs
          OBVIOUS
      <4>2. D \subseteq Nat /\ D # {} /\ \A x \in D : x <= MaxSegments
          BY <1>1, <3>3, <4>1, FileFacts
      <4>3. PICK m : m = Max(D)
          OBVIOUS
      <4>4. m \in D /\ \A x \in D : x <= m
          BY <1>2, <4>2, <4>3, MaxExists
      <4>5. n = m + 1 /\ m < MaxSegments
          BY <1>4, <2>2, <3>3, <4>1, <4>3 DEF LastSequence
      <4>6. m \in LiveClosed(b) /\ m \in Nat /\ m > b.seq
          BY <1>2, <3>1, <4>1, <4>2, <4>4 DEF Live
      <4>7. n \in 1..MaxSegments /\ n > b.seq /\ n - 1 = m /\ \A s \in DOMAIN segs : s < n
          BY <1>2, <4>1, <4>2, <4>4, <4>5, <4>6
      <4> QED
          BY <3>1, <4>6, <4>7 DEF NextFits
    <3> QED
        BY <3>2, <3>3
  <2>4. /\ n \in Nat /\ n > b.seq /\ (\A u \in b.seq + 1 .. n - 1 : u \in Closed)
        /\ Before(n, b) \in Nat
        /\ \A e : EndsAt(e, b) <=> e = Before(n, b)
      BY <2>3, NextFitsFacts
  <2>5. \A t \in Closed : t < n
      BY <1>2, <2>3 DEF NextFits
  <2>6. n <= MaxSegments + 1
      BY <1>2, <2>3 DEF NextFits
  <2>7. Tip(b).hash = Link(n, b) /\ Tip(b).local = Before(n, b)
      BY <1>1, <2>4, <2>5, <2>6, TipIs
  <2>8. Recovered(b).local = Before(n, b)
      BY <2>1, <2>4, <2>7
  <2> QED
      BY <1>2, <1>3, <1>4, <2>1, <2>2, <2>3, <2>4, <2>7, <2>8 DEF OpensAt
<1>5. CASE OpenSegments # {}
  <2>1. PICK w \in OpenSegments : TRUE
      BY <1>5
  <2>2. w \in Live(b) \ Closed
      BY <1>2, <2>1 DEF OpenSegments
  <2>3. /\ w \in Nat /\ w > b.seq /\ w \in DOMAIN segs /\ (\A s \in DOMAIN segs : s \in Nat /\ s <= w)
        /\ (\A s \in Live(b) : s # w => s \in LiveClosed(b))
        /\ \A e : EndsAt(e, b) <=> e = Before(w, b) + Size(w)
      BY <1>1, <2>2, OpenIsLast
  <2>4. OpenSegments = {w}
      BY <1>2, <2>1, <2>3 DEF OpenSegments
  <2>5. Max({w}) = w
    <3>1. PICK S : S = {w}
        OBVIOUS
    <3>2. S \subseteq Int /\ w \in S /\ \A x \in S : x <= w
        BY <2>3, <3>1
    <3> QED
        BY <3>1, <3>2, MaxIs
  <2>6. OpenSegment = w /\ OpenCount = Size(w)
      BY <2>4, <2>5 DEF OpenSegment, OpenCount, Size
  <2>7. Recovered(b).writer = w /\ Recovered(b).count = Size(w) /\ Recovered(b).tip = Tip(b).hash
        /\ Recovered(b).local = Tip(b).local + Size(w)
      BY <2>6 DEF Recovered
  <2>8. \A u \in b.seq + 1 .. w - 1 : u \in Closed
      BY <1>1, <2>3 DEF ChainInv
  <2>9. \A t \in Closed : t < w
    <3> TAKE t \in Closed
    <3>1. t \in DOMAIN segs /\ t # w
        BY <1>2, <2>2
    <3> QED
        BY <2>3, <3>1
  <2>10. w <= MaxSegments /\ w # 0
      BY <1>1, <1>2, <2>3, FileFacts
  <2>11. w <= MaxSegments + 1
      BY <1>2, <2>3, <2>10
  <2>12. Tip(b).hash = Link(w, b) /\ Tip(b).local = Before(w, b)
      BY <1>1, <2>3, <2>8, <2>9, <2>11, TipIs
  <2> QED
      BY <1>2, <1>3, <2>2, <2>3, <2>4, <2>7, <2>10, <2>12 DEF OpensAt
<1> QED
    BY <1>4, <1>5

(* open cuts off the tail of the open segment.                             *)
LEMMA CutTails ==
    ASSUME FilesTyped, segs' = [s \in DOMAIN segs |-> [segs[s] EXCEPT !.torn = FALSE]], mans' = mans
    PROVE  SameRecords /\ \A s \in DOMAIN segs : ~segs'[s].torn
<1>1. ASSUME NEW s \in DOMAIN segs
      PROVE  /\ segs'[s] \in Segments /\ segs'[s].recs = segs[s].recs /\ segs'[s].hdr = segs[s].hdr
             /\ segs'[s].torn = FALSE
  <2>1. segs[s] \in Segments
      BY DEF FilesTyped
  <2>2. segs'[s] = [segs[s] EXCEPT !.torn = FALSE]
      OBVIOUS
  <2> QED
      BY <2>1, <2>2 DEF Segments
<1>2. DOMAIN segs' = DOMAIN segs
    OBVIOUS
<1>3. segs' \in [DOMAIN segs' -> Segments]
    BY <1>1, <1>2
<1> QED
    BY <1>1, <1>2, <1>3 DEF SameRecords

(* SourceSpool::open.                                                      *)
LEMMA OpenKeeps ==
    ASSUME NEW b \in Baselines, SpoolInv(b), Open(b)
    PROVE  SpoolInv(b)'
<1>1. DirInv(b) /\ FilesTyped /\ ChainInv(b) /\ AckInv(b) /\ Openable(b) /\ ChainIntact(b)
    BY DEF SpoolInv, DirInv, Open, Openable
<1>2. SameRecords /\ \A s \in DOMAIN segs : ~segs'[s].torn
    BY <1>1, CutTails DEF Open
<1>3. DirInv(b)' /\ SamePlaces(b) /\ Live(b)' = Live(b)
    BY <1>1, <1>2, SameDirectory
<1>4. AckInv(b)'
    BY <1>1, <1>3, AckedStay DEF SamePlaces, Open
<1>5. PICK r : r = Recovered(b)
    OBVIOUS
<1>6. PICK n : n = LastSequence(b) + 1
    OBVIOUS
<1>7. OpenSegments = {} => LastSequence(b) < MaxSegments
    BY DEF Open
<1>8. /\ OpensAt(b, r.writer, n)
      /\ r.writer \in 0..MaxSegments
      /\ r.writer = 0 => r.tip = Link(n, b) /\ r.count = 0
      /\ r.writer # 0 => r.tip = Link(r.writer, b) /\ r.count = Size(r.writer)
      /\ EndsAt(r.local, b) /\ EndsWith(r.last, b)
    BY <1>1, <1>5, <1>6, <1>7, RecoveredIs
<1>9. /\ DOMAIN segs = Live(b) /\ Closed = DOMAIN mans /\ LiveClosed(b) = Closed
      /\ (\A s \in DOMAIN mans : ~mans[s].tmp) /\ (\A s \in Live(b) : segs[s].hdr)
    BY <1>1, OpenableFacts
<1>10. /\ DOMAIN RetainedIndex(b) = Full(b)
       /\ \A s \in Full(b) :
                RetainedIndex(b)[s] = [epoch |-> FirstRec(s).epoch, min |-> FirstRec(s).off,
                                       max |-> LastRec(s).off, first |-> Before(s, b) + 1]
    BY <1>1, <1>9, RetainedIndexIs
<1>11. HasFields(r) /\ r.closed = Closed /\ r.retained = RetainedIndex(b)
    BY <1>5 DEF Recovered, HasFields, SpoolFields
<1>12. up' = TRUE /\ sp' = r /\ mans' = mans
    BY <1>5 DEF Open
\* The stage after open.
<1>13. \/ r.writer = 0 /\ NextFits(n, b) /\ stage' = [at |-> "create", obs |-> NoObs, next |-> n] /\ n \in 0..MaxSegments
       \/ r.writer # 0 /\ r.writer \in Live(b) \ Closed /\ stage' = SpoolIdle
  <2>1. CASE r.writer = 0
    <3>1. NextFits(n, b) /\ OpenSegments = {}
        BY <1>8, <2>1 DEF OpensAt
    <3>2. n \in 0..MaxSegments
        BY <3>1, SpoolConstants DEF NextFits
    <3> QED
        BY <1>6, <2>1, <3>1, <3>2 DEF Open
  <2>2. CASE r.writer # 0
    <3>1. r.writer \in Live(b) \ Closed /\ OpenSegments # {}
        BY <1>8, <2>2 DEF OpensAt
    <3> QED
        BY <2>2, <3>1 DEF Open
  <2> QED
      BY <2>1, <2>2
<1>14. stage' \in Stages
    BY <1>13, SpoolConstants DEF Stages, SpoolIdle
<1>15. /\ r.local \in Nat
       /\ r.last \in Cursors \cup {NoCursor}
       /\ r.tip \in Hashes
       /\ r.count \in Nat
  <2>1. r.local \in Nat
      BY <1>1, <1>8, NumbersEnd
  <2>2. r.last \in Cursors \cup {NoCursor}
    <3>1. CASE Full(b) = {}
        BY <1>8, <3>1, BaselineFacts DEF EndsWith
    <3>2. CASE Full(b) # {}
        BY <1>1, <1>8, <3>2, FullFacts, ObservationFacts DEF EndsWith
    <3> QED
        BY <3>1, <3>2
  <2>3. CASE r.writer = 0
    <3>1. Link(n, b) \in Hashes
      <4>1. NextFits(n, b)
          BY <1>13, <2>3
      <4>2. n = b.seq + 1 \/ n - 1 \in LiveClosed(b)
          BY <4>1 DEF NextFits
      <4>3. n - 1 \in LiveClosed(b) => Hash(mans[n - 1]) \in Hashes
        <5>1. ASSUME n - 1 \in LiveClosed(b) PROVE Hash(mans[n - 1]) \in Hashes
          <6>1. n - 1 \in DOMAIN mans
              BY <1>9, <5>1
          <6>2. mans[n - 1].seq \in Nat /\ mans[n - 1].recs \in Seq(Observations)
              BY <1>1, <6>1, FileFacts
          <6> QED
              BY <6>2 DEF Hash, Hashes
        <5> QED
            BY <5>1
      <4> QED
          BY <4>2, <4>3, BaselineFacts DEF Link
    <3> QED
        BY <1>8, <2>1, <2>2, <2>3, <3>1
  <2>4. CASE r.writer # 0
    <3>1. r.writer \in Live(b) /\ r.writer \in DOMAIN segs
        BY <1>9, <1>13, <2>4
    <3>2. Link(r.writer, b) \in Hashes /\ Size(r.writer) \in Nat
        BY <1>1, <3>1, BeforeFacts, FileFacts
    <3> QED
        BY <1>8, <2>1, <2>2, <2>4, <3>2
  <2> QED
      BY <2>3, <2>4
<1>16. FieldsTyped'
  <2>1. HasFields(sp)'
      BY <1>11, <1>12 DEF HasFields
  <2> QED
      BY <1>8, <1>12, <1>14, <1>15, <2>1 DEF FieldsTyped
<1>17. OpenMemory(b)'
  <2>1. EndsAt(sp.local, b)'
    <3>1. PICK e : e = r.local
        OBVIOUS
    <3>2. EndsAt(e, b)' /\ sp'.local = e
        BY <1>3, <1>8, <1>12, <3>1 DEF SamePlaces
    <3> QED
        BY <3>2 DEF EndsAt
  <2>2. EndsWith(sp.last, b)'
    <3>1. PICK c : c = r.last
        OBVIOUS
    <3>2. EndsWith(c, b)' /\ sp'.last = c
        BY <1>3, <1>8, <1>12, <3>1 DEF SamePlaces
    <3> QED
        BY <3>2 DEF EndsWith
  <2>3. IndexInv(b)'
    <3>1. PICK R : R = RetainedIndex(b)
        OBVIOUS
    <3>2. sp'.retained = R
        BY <1>11, <1>12, <3>1
    <3>3. \A s \in Full(b) : FirstRec(s)' = FirstRec(s) /\ LastRec(s)' = LastRec(s) /\ Before(s, b)' = Before(s, b)
        BY <1>3 DEF SamePlaces, Full, Live
    <3>4. Full(b)' = Full(b)
        BY <1>3 DEF SamePlaces
    <3> QED
        BY <1>10, <3>1, <3>2, <3>3, <3>4 DEF IndexInv
  <2>4. \A s \in DOMAIN mans' : ~mans'[s].tmp
      BY <1>9, <1>12
  <2>5. \A s \in Live(b)' : segs'[s].hdr /\ ~segs'[s].torn
      BY <1>2, <1>3, <1>9 DEF SameRecords
  <2> QED
      BY <2>1, <2>2, <2>3, <2>4, <2>5 DEF OpenMemory
<1>18. StageFits(stage)'
    BY <1>13, IdleStage DEF StageFits
<1>19. CASE r.writer = 0
  <2>1. NextFits(n, b) /\ stage' = [at |-> "create", obs |-> NoObs, next |-> n]
      BY <1>13, <1>19
  <2>2. Closed' = Closed /\ LiveClosed(b)' = LiveClosed(b) /\ Link(n, b)' = Link(n, b) /\ DOMAIN segs' = DOMAIN segs
      BY <1>2, <1>3 DEF SamePlaces, SameRecords
  <2>3. Link(stage.next, b)' = Link(n, b)'
      BY <2>1 DEF Link
  <2>4. CreateInv(b)'
      BY <1>3, <1>8, <1>9, <1>11, <1>12, <1>19, <2>1, <2>2, <2>3 DEF CreateInv, NextFits
  <2>5. MemoryInv(b)'
      BY <1>12, <1>17, <1>18, <2>1, <2>4 DEF MemoryInv
  <2> QED
      BY <1>3, <1>4, <1>16, <2>5 DEF SpoolInv, DirInv
<1>20. CASE r.writer # 0
  <2>1. PICK w : w = r.writer
      OBVIOUS
  <2>2. w \in Live(b) \ Closed /\ stage' = SpoolIdle /\ w \in DOMAIN segs
      BY <1>9, <1>13, <1>20, <2>1
  <2>3. LiveClosed(b)' = LiveClosed(b) /\ Link(w, b)' = Link(w, b) /\ Size(w)' = Size(w)
      BY <1>3, <2>2 DEF SamePlaces
  <2>4. Link(sp.writer, b)' = Link(w, b)' /\ Size(sp.writer)' = Size(w)'
      BY <1>12, <2>1 DEF Link, Size
  <2>5. WriterInv(b)'
      BY <1>3, <1>8, <1>9, <1>11, <1>12, <1>20, <2>1, <2>2, <2>3, <2>4 DEF WriterInv
  <2>6. MemoryInv(b)'
      BY <1>12, <1>17, <1>18, <2>2, <2>5, IdleStage DEF MemoryInv
  <2> QED
      BY <1>3, <1>4, <1>16, <2>6 DEF SpoolInv, DirInv
<1> QED
    BY <1>19, <1>20

-----------------------------------------------------------------------------
(* find_retained and the replies.                                          *)

(* The entries of the index whose range holds the cursor of o.             *)
Hits(o, b) == {s \in Full(b) : FirstRec(s).epoch = o.epoch /\ FirstRec(s).off <= o.off /\ o.off <= LastRec(s).off}
At(s, o) == {j \in 1..Size(s) : Cursor(segs[s].recs[j]) = Cursor(o)}

(* find_retained by the hits of the index.                                 *)
LEMMA FindRetainedIs ==
    ASSUME NEW b \in Baselines, FilesTyped, ChainInv(b), IndexInv(b), NEW o \in Observations
    PROVE  /\ FindRetained(o) = IF Hits(o, b) = {} \/ At(Min(Hits(o, b)), o) = {} THEN [found |-> FALSE]
                                ELSE [found |-> TRUE, body |-> segs[Min(Hits(o, b))].recs[Min(At(Min(Hits(o, b)), o))].body,
                                      local |-> sp.retained[Min(Hits(o, b))].first + Min(At(Min(Hits(o, b)), o)) - 1]
           /\ Hits(o, b) # {} => Min(Hits(o, b)) \in Hits(o, b)
           /\ \A s \in Hits(o, b) : At(s, o) # {} => Min(At(s, o)) \in At(s, o)
<1>1. PICK H : H = {s \in DOMAIN sp.retained :
                   /\ sp.retained[s].epoch = o.epoch
                   /\ o.off \in sp.retained[s].min .. sp.retained[s].max}
    OBVIOUS
<1>2. ASSUME NEW s \in Full(b)
      PROVE  s \in DOMAIN sp.retained /\ sp.retained[s].epoch = FirstRec(s).epoch
             /\ sp.retained[s].min = FirstRec(s).off /\ sp.retained[s].max = LastRec(s).off
             /\ FirstRec(s).off \in Nat /\ LastRec(s).off \in Nat /\ o.off \in Nat
  <2>1. sp.retained[s] = [epoch |-> FirstRec(s).epoch, min |-> FirstRec(s).off,
                          max |-> LastRec(s).off, first |-> Before(s, b) + 1]
      BY DEF IndexInv
  <2>2. FirstRec(s).off \in Nat /\ LastRec(s).off \in Nat /\ o.off \in Nat
      BY FullFacts, ObservationFacts
  <2> QED
      BY <2>1, <2>2 DEF IndexInv
<1>3. H = Hits(o, b)
  <2>1. DOMAIN sp.retained = Full(b)
      BY DEF IndexInv
  <2>2. \A s \in Full(b) : s \in H <=> s \in Hits(o, b)
      BY <1>1, <1>2 DEF Hits
  <2>3. H \subseteq Full(b) /\ Hits(o, b) \subseteq Full(b)
      BY <1>1, <2>1 DEF Hits
  <2> QED
      BY <2>2, <2>3
<1>4. FindRetained(o) = IF H = {} \/ At(Min(H), o) = {} THEN [found |-> FALSE]
                        ELSE [found |-> TRUE, body |-> segs[Min(H)].recs[Min(At(Min(H), o))].body,
                              local |-> sp.retained[Min(H)].first + Min(At(Min(H), o)) - 1]
    BY <1>1 DEF FindRetained, At, Size
<1>5. ASSUME H # {} PROVE Min(H) \in H
  <2>1. H \subseteq Nat
      BY <1>3, FullFacts DEF Hits
  <2>2. PICK x \in H : \A y \in H : x <= y
      BY <1>5, <2>1, LeastExists
  <2>3. H \subseteq Int
      BY <2>1
  <2> QED
      BY <2>2, <2>3, MinIs
<1>6. ASSUME NEW s \in Hits(o, b), At(s, o) # {} PROVE Min(At(s, o)) \in At(s, o)
  <2>1. PICK A : A = At(s, o)
      OBVIOUS
  <2>2. A \subseteq Nat /\ A # {}
      BY <1>6, <2>1 DEF At
  <2>3. PICK x \in A : \A y \in A : x <= y
      BY <2>2, LeastExists
  <2>4. A \subseteq Int
      BY <2>2
  <2> QED
      BY <2>1, <2>3, <2>4, MinIs
<1> QED
    BY <1>3, <1>4, <1>5, <1>6

(* What is found is a record with this cursor, under its number.           *)
LEMMA FoundIs ==
    ASSUME NEW b \in Baselines, FilesTyped, ChainInv(b), IndexInv(b), NEW o \in Observations, FindRetained(o).found
    PROVE  \E p \in LivePositions(b) :
             /\ Cursor(Rec(p)) = Cursor(o) /\ FindRetained(o).body = Rec(p).body
             /\ FindRetained(o).local = Number(p, b)
<1>1. PICK s : s = Min(Hits(o, b))
    OBVIOUS
<1>2. PICK j : j = Min(At(s, o))
    OBVIOUS
<1>3. FindRetained(o) = IF Hits(o, b) = {} \/ At(s, o) = {} THEN [found |-> FALSE]
                        ELSE [found |-> TRUE, body |-> segs[s].recs[j].body, local |-> sp.retained[s].first + j - 1]
    BY <1>1, <1>2, FindRetainedIs
<1>4. Hits(o, b) # {} /\ At(s, o) # {}
    BY <1>3
<1>5. FindRetained(o) = [found |-> TRUE, body |-> segs[s].recs[j].body, local |-> sp.retained[s].first + j - 1]
    BY <1>3, <1>4
<1>6. s \in Hits(o, b) /\ s \in Full(b)
    BY <1>1, <1>4, FindRetainedIs DEF Hits
<1>7. j \in At(s, o)
    BY <1>2, <1>4, <1>6, FindRetainedIs
<1>8. j \in 1..Size(s) /\ Cursor(segs[s].recs[j]) = Cursor(o) /\ s \in DOMAIN segs /\ Size(s) \in Nat /\ j \in Nat
    BY <1>6, <1>7, FullFacts DEF At
<1>9. PICK p : p = <<s, j>>
    OBVIOUS
<1>10. p \in LivePositions(b) /\ p[1] = s /\ p[2] = j
    BY <1>6, <1>8, <1>9, PositionFacts DEF LivePositions, Full, Live
<1>11. Number(p, b) = Before(s, b) + j /\ Before(s, b) \in Nat
    BY <1>10, NumberIs
<1>12. sp.retained[s].first = Before(s, b) + 1
  <2>1. sp.retained[s] = [epoch |-> FirstRec(s).epoch, min |-> FirstRec(s).off,
                          max |-> LastRec(s).off, first |-> Before(s, b) + 1]
      BY <1>6 DEF IndexInv
  <2> QED
      BY <2>1
<1>13. Rec(p) = segs[s].recs[j]
    BY <1>10 DEF Rec
<1>14. FindRetained(o).local = Before(s, b) + 1 + j - 1 /\ FindRetained(o).body = segs[s].recs[j].body
    BY <1>5, <1>12
<1> QED
    BY <1>8, <1>10, <1>11, <1>13, <1>14

(* The offsets of a segment lie between those of its first and last.       *)
LEMMA RangeHolds ==
    ASSUME NEW b \in Baselines, FilesTyped, OrderInv(b), NEW s \in Full(b), NEW j \in 1..Size(s)
    PROVE  /\ segs[s].recs[j] \in Observations /\ segs[s].recs[j].epoch = FirstRec(s).epoch
           /\ FirstRec(s).off <= segs[s].recs[j].off /\ segs[s].recs[j].off <= LastRec(s).off
<1>1. /\ s \in Live(b) /\ s \in DOMAIN segs /\ Size(s) \in Nat /\ Size(s) >= 1 /\ 1 \in 1..Size(s)
      /\ Size(s) \in 1..Size(s) /\ FirstRec(s) \in Observations /\ LastRec(s) \in Observations
    BY FullFacts
<1>2. segs[s].recs[j] \in Observations
    BY <1>1, FileFacts
<1>3. FirstRec(s).off \in Nat /\ LastRec(s).off \in Nat /\ segs[s].recs[j].off \in Nat
    BY <1>1, <1>2, ObservationFacts
<1>4. Rising(segs[s].recs)
    BY <1>1 DEF OrderInv
<1>5. 1 < j => FirstRec(s).epoch = segs[s].recs[j].epoch /\ FirstRec(s).off < segs[s].recs[j].off
    BY <1>1, <1>4 DEF Rising, FirstRec, Size
<1>6. j < Size(s) => segs[s].recs[j].off < LastRec(s).off
    BY <1>1, <1>4 DEF Rising, LastRec, Size
<1>7. j = 1 => segs[s].recs[j] = FirstRec(s)
    BY DEF FirstRec
<1>8. j = Size(s) => segs[s].recs[j] = LastRec(s)
    BY DEF LastRec, Size
<1> QED
    BY <1>1, <1>2, <1>3, <1>5, <1>6, <1>7, <1>8

(* Every record is found by its cursor.                                    *)
LEMMA RetainedFound ==
    ASSUME NEW b \in Baselines, FilesTyped, ChainInv(b), OrderInv(b), IndexInv(b), NEW p \in LivePositions(b),
           NEW o \in Observations, Cursor(o) = Cursor(Rec(p))
    PROVE  FindRetained(o).found
<1>1. PICK s : s = p[1]
    OBVIOUS
<1>2. PICK j : j = p[2]
    OBVIOUS
<1>3. s \in Live(b) /\ j \in 1..Size(s) /\ s \in DOMAIN segs /\ Size(s) \in Nat /\ Rec(p) = segs[s].recs[j]
    BY <1>1, <1>2, NumberIs, FileFacts DEF Live, Rec
<1>4. s \in Full(b)
    BY <1>3 DEF Full
<1>5. o.epoch = Rec(p).epoch /\ o.off = Rec(p).off
    BY DEF Cursor
<1>6. s \in Hits(o, b)
    BY <1>3, <1>4, <1>5, RangeHolds DEF Hits
<1>7. ASSUME NEW t \in Hits(o, b) PROVE t = s
  <2>1. t \in Full(b) /\ t \in Nat /\ s \in Nat
      BY <1>4, FullFacts DEF Hits
  <2>2. FirstRec(t).epoch = FirstRec(s).epoch
      BY <1>6 DEF Hits
  <2>3. /\ FirstRec(t).off \in Nat /\ LastRec(t).off \in Nat /\ o.off \in Nat
        /\ FirstRec(s).off \in Nat /\ LastRec(s).off \in Nat
      BY <1>4, <2>1, FullFacts, ObservationFacts
  <2>4. /\ FirstRec(t).off <= o.off /\ o.off <= LastRec(t).off
        /\ FirstRec(s).off <= o.off /\ o.off <= LastRec(s).off
      BY <1>6 DEF Hits
  <2>5. t < s => LastRec(t).off < FirstRec(s).off
      BY <1>4, <2>1, <2>2 DEF OrderInv
  <2>6. s < t => LastRec(s).off < FirstRec(t).off
      BY <1>4, <2>1, <2>2 DEF OrderInv
  <2> QED
      BY <2>1, <2>3, <2>4, <2>5, <2>6
<1>8. Min(Hits(o, b)) = s
    BY <1>6, <1>7, FindRetainedIs
<1>9. j \in At(s, o)
    BY <1>3 DEF At
<1>10. FindRetained(o) = IF Hits(o, b) = {} \/ At(s, o) = {} THEN [found |-> FALSE]
                         ELSE [found |-> TRUE, body |-> segs[s].recs[Min(At(s, o))].body,
                               local |-> sp.retained[s].first + Min(At(s, o)) - 1]
    BY <1>8, FindRetainedIs
<1> QED
    BY <1>6, <1>9, <1>10

(* A number names one record.                                              *)
LEMMA HeldIs ==
    ASSUME NEW b \in Baselines, FilesTyped, ChainInv(b), NEW p \in LivePositions(b)
    PROVE  Held(Number(p, b), b) = {Rec(p)}
<1>1. \A q \in LivePositions(b) : Number(q, b) = Number(p, b) => q = p
    BY NumbersRise
<1>2. {q \in Positions : q[1] > b.seq /\ Number(q, b) = Number(p, b)} = {p}
    BY <1>1 DEF LivePositions
<1> QED
    BY <1>2 DEF Held

(* The baseline of a spool that never was pruned.                          *)
LEMMA NoBaselineIs == NoBaseline \in Baselines /\ NoBaseline.seq = 0 /\ NoBaseline.local = 0
                      /\ NoBaseline.cursor = NoCursor
BY SpoolConstants DEF NoBaseline, Baselines, NoHash, Hashes

(* Every segment comes after the empty baseline.                           *)
LEMMA AllLive ==
    ASSUME FilesTyped
    PROVE  DOMAIN segs = Live(NoBaseline) /\ LiveClosed(NoBaseline) = Closed
           /\ Positions = LivePositions(NoBaseline)
<1>1. \A s \in DOMAIN segs : s > 0
    BY FileFacts
<1> QED
    BY <1>1, NoBaselineIs, FileFacts, PositionFacts DEF Live, LiveClosed, LivePositions

(* A reply stays true while what it names stays.                           *)
LEMMA RepliesKept ==
    ASSUME RepliesName, reply' = reply, \A n : Held(n, NoBaseline)' = Held(n, NoBaseline),
           Positions' = Positions, \A p \in Positions : Rec(p)' = Rec(p)
    PROVE  RepliesName'
<1>1. ASSUME reply.kind = "Duplicate" PROVE Held(reply.local, NoBaseline)' = {reply.obs}
  <2>1. PICK n : n = reply.local
      OBVIOUS
  <2>2. Held(n, NoBaseline)' = {reply.obs}
      BY <1>1, <2>1 DEF RepliesName
  <2>3. Held(reply.local, NoBaseline)' = Held(n, NoBaseline)'
      BY <2>1 DEF Held
  <2> QED
      BY <2>2, <2>3
<1>2. ASSUME reply.kind = "CursorConflict"
      PROVE  \E p \in Positions' : Cursor(Rec(p))' = Cursor(reply.obs)' /\ Rec(p)' # reply.obs
  <2>1. PICK p \in Positions : Cursor(Rec(p)) = Cursor(reply.obs) /\ Rec(p) # reply.obs
      BY <1>2 DEF RepliesName
  <2>2. Rec(p)' = Rec(p) /\ p \in Positions'
      OBVIOUS
  <2> QED
      BY <2>1, <2>2 DEF Cursor
<1> QED
    BY <1>1, <1>2 DEF RepliesName

(* duplicate_append answers with the number under which this record, and   *)
(* no other, is held.                                                      *)
LEMMA KnownIsNamed ==
    ASSUME SpoolInv(NoBaseline), NEW o \in Observations, SpoolAppendKnown(o)
    PROVE  RepliesName'
<1>1. PICK b : b = NoBaseline
    OBVIOUS
<1>2. b \in Baselines /\ FilesTyped /\ ChainInv(b) /\ DirInv(b) /\ IndexInv(b) /\ FindRetained(o).found
    BY <1>1, NoBaselineIs DEF SpoolInv, DirInv, MemoryInv, OpenMemory, SpoolAppendKnown
<1>3. PICK p \in LivePositions(b) :
             /\ Cursor(Rec(p)) = Cursor(o) /\ FindRetained(o).body = Rec(p).body
             /\ FindRetained(o).local = Number(p, b)
    BY <1>2, FoundIs
<1>4. p \in Positions /\ Rec(p) \in Observations
    BY <1>2, PositionFacts DEF LivePositions
<1>5. UNCHANGED <<segs, mans>>
    BY DEF SpoolAppendKnown
<1>6. SamePlaces(b)
    BY <1>2, <1>5, SameFilesDirectory
<1>7. CASE Rec(p).body = o.body
  <2>1. Rec(p) = o
      BY <1>3, <1>4, <1>7 DEF Observations, Cursor
  <2>2. PICK n : n = Number(p, b)
      OBVIOUS
  <2>3. Held(n, b) = {o}
      BY <1>2, <2>1, <2>2, HeldIs
  <2>4. Held(n, b)' = {o}
      BY <1>6, <2>3 DEF SamePlaces
  <2>5. reply' = [kind |-> "Duplicate", obs |-> o, local |-> n]
      BY <1>3, <1>7, <2>2 DEF SpoolAppendKnown, Reply
  <2>6. Held(reply.local, NoBaseline)' = Held(n, b)'
      BY <1>1, <2>5 DEF Held
  <2> QED
      BY <2>4, <2>5, <2>6 DEF RepliesName
<1>8. CASE Rec(p).body # o.body
  <2>1. reply' = [kind |-> "CursorConflict", obs |-> o, local |-> 0]
      BY <1>3, <1>8 DEF SpoolAppendKnown, Reply
  <2>2. p \in Positions' /\ Rec(p)' = Rec(p)
      BY <1>4, <1>6 DEF SamePlaces
  <2>3. Cursor(Rec(p))' = Cursor(reply.obs)' /\ Rec(p)' # reply'.obs
      BY <1>3, <1>8, <2>1, <2>2 DEF Cursor
  <2> QED
      BY <2>1, <2>2, <2>3 DEF RepliesName
<1> QED
    BY <1>7, <1>8

(* Rotation changes no number and no record.                               *)
LEMMA StagesLog ==
    ASSUME NEW b \in Baselines, SpoolInv(b), PublishManifest \/ CreateSegment
    PROVE  SameLog(b) /\ Positions' = Positions /\ \A p \in Positions : Rec(p)' = Rec(p)
<1>1. DirInv(b)
    BY DEF SpoolInv, DirInv
<1>2. CASE PublishManifest
  <2>1. PICK w : w = sp.writer
      OBVIOUS
  <2>2. PICK m : m = NewManifest(FALSE)
      OBVIOUS
  <2>3. Vouches(m, w, b) /\ w \in Live(b) \ DOMAIN mans
      BY <1>2, <2>1, <2>2, ManifestVouches DEF PublishManifest
  <2>4. NewManifestOf(w, m)
      BY <1>2, <2>1, <2>2 DEF PublishManifest, NewManifestOf
  <2>5. SameFiles(b)
      BY <1>1, <2>3, <2>4, NewManifestDirectory
  <2> QED
      BY <2>5 DEF SameFiles, SameLog
<1>3. CASE CreateSegment
  <2>1. PICK n : n = stage.next
      OBVIOUS
  <2>2. NextFits(n, b)
      BY <1>3, <2>1, CreateFits DEF CreateSegment
  <2>3. NewSegment(n, TRUE)
      BY <1>3, <2>1 DEF CreateSegment, NewSegment
  <2>4. SamePlaces(b)
      BY <1>1, <2>2, <2>3, NewSegmentDirectory
  <2> QED
      BY <2>4 DEF SamePlaces, SameLog
<1> QED
    BY <1>2, <1>3

(* The empty directory.                                                    *)
LEMMA SpoolStarts ==
    ASSUME SpoolInit
    PROVE  SpoolInv(NoBaseline)
<1>1. PICK b : b = NoBaseline
    OBVIOUS
<1>2. b \in Baselines /\ b.seq = 0 /\ b.local = 0
    BY <1>1, NoBaselineIs
<1>3. DOMAIN segs = {} /\ DOMAIN mans = {}
    BY DEF SpoolInit
<1>4. FilesTyped
    BY <1>3 DEF SpoolInit, FilesTyped
<1>5. Closed = {} /\ Live(b) = {} /\ LiveClosed(b) = {} /\ Full(b) = {} /\ Positions = {} /\ LivePositions(b) = {}
    BY <1>3 DEF Closed, Live, LiveClosed, Full, Positions, LivePositions
<1>6. ChainInv(b)
    BY <1>3, <1>5 DEF ChainInv
<1>7. OrderInv(b)
    BY <1>5 DEF OrderInv
<1>8. CountInv(b)
    BY <1>2, <1>5, FS_EmptySet DEF CountInv, EndsAt
<1>9. AckInv(b)
    BY DEF SpoolInit, AckInv, AckedHeld
<1>10. FieldsTyped
  <2>1. HasFields(sp)
      BY DEF HasFields, SpoolFields, Down, SpoolInit
  <2>2. Down.writer = 0 /\ Down.count = 0 /\ Down.local = 0 /\ Down.last = NoCursor /\ Down.tip = NoHash
      BY DEF Down
  <2>3. NoHash \in Hashes
      BY DEF NoHash, Hashes
  <2>4. SpoolIdle \in Stages
      BY SpoolConstants DEF SpoolIdle, Stages
  <2>5. /\ sp.writer \in 0..MaxSegments /\ sp.count \in Nat /\ sp.local \in Nat
        /\ sp.last \in Cursors \cup {NoCursor} /\ sp.tip \in Hashes
      BY <2>2, <2>3, SpoolConstants DEF SpoolInit
  <2>6. up \in BOOLEAN /\ stage \in Stages
      BY <2>4 DEF SpoolInit
  <2> QED
      BY <2>1, <2>5, <2>6 DEF FieldsTyped
<1>11. MemoryInv(b)
    BY DEF MemoryInv, SpoolInit
<1> QED
    BY <1>1, <1>4, <1>6, <1>7, <1>8, <1>9, <1>10, <1>11 DEF SpoolInv

(* Every step of the spool keeps the invariant and the replies true.       *)
LEMMA SpoolSteps ==
    ASSUME SpoolInv(NoBaseline), RepliesName, [SpoolNext]_spoolVars
    PROVE  SpoolInv(NoBaseline)' /\ RepliesName'
<1> USE NoBaselineIs
<1>1. ASSUME UNCHANGED <<segs, mans, reply>> PROVE RepliesName'
  <2>1. DirInv(NoBaseline)
      BY DEF SpoolInv, DirInv
  <2>2. SamePlaces(NoBaseline)
      BY <1>1, <2>1, SameFilesDirectory
  <2> QED
      BY <1>1, <2>2, RepliesKept DEF SamePlaces
<1>2. CASE Open(NoBaseline)
    BY <1>2, OpenKeeps DEF Open, NoReply, RepliesName
<1>3. ASSUME NEW o \in Observations, SpoolAppendKnown(o) PROVE SpoolInv(NoBaseline)' /\ RepliesName'
    BY <1>3, SpoolSame, KnownIsNamed DEF SpoolAppendKnown
<1>4. ASSUME NEW o \in Observations, AppendRefused(o) PROVE SpoolInv(NoBaseline)' /\ RepliesName'
  <2>1. reply'.kind = "CursorRegression"
      BY <1>4 DEF AppendRefused, Reply
  <2> QED
      BY <1>4, <2>1, SpoolSame DEF AppendRefused, RepliesName
<1>5. ASSUME NEW o \in Observations, NEW due \in BOOLEAN, AppendBegin(o, due)
      PROVE  SpoolInv(NoBaseline)' /\ RepliesName'
    BY <1>1, <1>5, AppendBeginKeeps DEF AppendBegin
<1>6. CASE SealActive
    BY <1>1, <1>6, SealActiveKeeps DEF SealActive
<1>7. CASE ShutdownBegin \/ ShutdownEmpty
    BY <1>1, <1>7, ShutdownKeeps DEF ShutdownBegin, ShutdownEmpty
<1>8. CASE PublishManifest
    BY <1>8, PublishManifestKeeps, StagesLog, RepliesKept DEF SameLog, PublishManifest
<1>9. CASE CreateSegment
    BY <1>9, CreateSegmentKeeps, StagesLog, RepliesKept DEF SameLog, CreateSegment
<1>10. CASE WriteRecord
  <2>1. reply'.kind = "Appended"
      BY <1>10 DEF WriteRecord, Reply
  <2> QED
      BY <1>10, <2>1, WriteRecordKeeps DEF RepliesName
<1>11. CASE Crash
  <2>1. reply'.kind = "none"
      BY <1>11 DEF Crash, NoReply
  <2> QED
      BY <1>11, <2>1, CrashKeeps DEF RepliesName
<1>12. CASE UNCHANGED spoolVars
    BY <1>1, <1>12, SpoolSame DEF spoolVars
<1> QED
    BY <1>2, <1>3, <1>4, <1>5, <1>6, <1>7, <1>8, <1>9, <1>10, <1>11, <1>12 DEF SpoolNext, StageStep

(* The directory of a spool is in order in every state: the chain of       *)
(* manifests, the order of cursors and the numbering, with the memory of   *)
(* an open spool, the stage of the operation in progress and the records   *)
(* acknowledged so far, through every crash, rotation and reopening.       *)
THEOREM SpoolInvariant == SpoolSpec => []SpoolOnlyInv
<1>1. SpoolInit => SpoolOnlyInv
  <2>1. SpoolInit => RepliesName
    <3>1. SpoolInit => reply.kind = "none"
        BY DEF SpoolInit, NoReply
    <3> QED
        BY <3>1 DEF RepliesName
  <2> QED
      BY <2>1, SpoolStarts DEF SpoolOnlyInv
<1>2. SpoolOnlyInv /\ [SpoolNext]_spoolVars => SpoolOnlyInv'
    BY SpoolSteps DEF SpoolOnlyInv
<1> QED
    BY <1>1, <1>2, PTL DEF SpoolSpec

-----------------------------------------------------------------------------
(* What the invariant says of a spool.                                     *)

(* Cursors rise with the records, and an epoch that was left stays left.   *)
LEMMA CursorsRise ==
    ASSUME NEW b \in Baselines, FilesTyped, OrderInv(b),
           NEW p \in LivePositions(b), NEW q \in LivePositions(b), Precedes(p, q), Rec(p).epoch = Rec(q).epoch
    PROVE  /\ Rec(p).off < Rec(q).off
           /\ \A r \in LivePositions(b) :
                Precedes(p, r) /\ Precedes(r, q) => Rec(r).epoch = Rec(p).epoch
<1>1. ASSUME NEW r \in LivePositions(b)
      PROVE  /\ r[1] \in Full(b) /\ r[1] \in Nat /\ r[2] \in Nat /\ r[2] \in 1..Size(r[1])
             /\ Rec(r) = segs[r[1]].recs[r[2]] /\ Rec(r) \in Observations /\ Rec(r).off \in Nat
             /\ Rec(r).epoch = FirstRec(r[1]).epoch
             /\ FirstRec(r[1]).off \in Nat /\ LastRec(r[1]).off \in Nat
             /\ FirstRec(r[1]).off <= Rec(r).off /\ Rec(r).off <= LastRec(r[1]).off
  <2>1. r \in Positions /\ r[1] > b.seq
      BY DEF LivePositions
  <2>2. r[1] \in DOMAIN segs /\ r[2] \in 1..Size(r[1]) /\ r[1] \in Nat /\ r[2] \in Nat /\ Rec(r) \in Observations
      BY <2>1, PositionFacts
  <2>3. r[1] \in Full(b) /\ Rec(r) = segs[r[1]].recs[r[2]]
      BY <2>1, <2>2, FileFacts DEF Full, Live, Rec
  <2>4. /\ Rec(r).epoch = FirstRec(r[1]).epoch /\ Rec(r).off \in Nat
        /\ FirstRec(r[1]).off <= Rec(r).off /\ Rec(r).off <= LastRec(r[1]).off
      BY <2>2, <2>3, RangeHolds, ObservationFacts
  <2>5. FirstRec(r[1]).off \in Nat /\ LastRec(r[1]).off \in Nat
      BY <2>3, FullFacts, ObservationFacts
  <2> QED
      BY <2>2, <2>3, <2>4, <2>5
<1>2. Rec(p).off < Rec(q).off
  <2>1. CASE p[1] = q[1]
    <3>1. Rising(segs[p[1]].recs)
        BY <1>1 DEF OrderInv, Full
    <3>2. p[2] < q[2]
        BY <1>1, <2>1 DEF Precedes
    <3> QED
        BY <1>1, <2>1, <3>1, <3>2 DEF Rising, Size
  <2>2. CASE p[1] < q[1]
    <3>1. LastRec(p[1]).off < FirstRec(q[1]).off
        BY <1>1, <2>2 DEF OrderInv
    <3> QED
        BY <1>1, <3>1
  <2> QED
      BY <2>1, <2>2 DEF Precedes
<1>3. ASSUME NEW r \in LivePositions(b), Precedes(p, r), Precedes(r, q) PROVE Rec(r).epoch = Rec(p).epoch
  <2>1. p[1] <= r[1] /\ r[1] <= q[1]
      BY <1>1, <1>3 DEF Precedes
  <2>2. CASE p[1] = r[1] \/ r[1] = q[1]
      BY <1>1, <2>2
  <2>3. CASE p[1] < r[1] /\ r[1] < q[1]
    <3>1. FirstRec(p[1]).epoch = FirstRec(q[1]).epoch
        BY <1>1
    <3>2. FirstRec(r[1]).epoch = FirstRec(p[1]).epoch
        BY <1>1, <2>3, <3>1 DEF OrderInv
    <3> QED
        BY <1>1, <3>2
  <2> QED
      BY <1>1, <2>1, <2>2, <2>3
<1> QED
    BY <1>2, <1>3

(* The last record has one cursor.                                         *)
LEMMA EndsWithOne ==
    ASSUME NEW b, FilesTyped, NEW c, NEW d, EndsWith(c, b), EndsWith(d, b)
    PROVE  c = d
<1>1. CASE Full(b) = {}
    BY <1>1 DEF EndsWith
<1>2. CASE Full(b) # {}
  <2>1. PICK s \in Full(b) : (\A t \in Full(b) : t <= s) /\ c = Cursor(LastRec(s))
      BY <1>2 DEF EndsWith
  <2>2. PICK u \in Full(b) : (\A t \in Full(b) : t <= u) /\ d = Cursor(LastRec(u))
      BY <1>2 DEF EndsWith
  <2>3. s = u
      BY <2>1, <2>2, FullFacts
  <2> QED
      BY <2>1, <2>2, <2>3
<1> QED
    BY <1>1, <1>2

(* An idle open spool works from what is on disk.                          *)
LEMMA MemoryMatches ==
    ASSUME SpoolInv(NoBaseline)
    PROVE  MemoryMatchesDisk
<1> SUFFICES ASSUME up, stage = SpoolIdle
             PROVE  /\ sp.local = Cardinality(Positions)
                    /\ sp.last = LastCursor(Positions, NoBaseline)
                    /\ \A p \in Positions : FindRetained(Rec(p)).found
                    /\ sp.closed = Closed
    BY DEF MemoryMatchesDisk
<1>1. PICK b : b = NoBaseline
    OBVIOUS
<1>2. /\ b \in Baselines /\ b.local = 0 /\ FilesTyped /\ FieldsTyped /\ ChainInv(b) /\ OrderInv(b) /\ CountInv(b)
      /\ OpenMemory(b) /\ WriterInv(b)
    BY <1>1, NoBaselineIs, IdleStage DEF SpoolInv, MemoryInv
<1>3. DOMAIN segs = Live(b) /\ LiveClosed(b) = Closed /\ Positions = LivePositions(b)
    BY <1>1, <1>2, AllLive
<1>4. sp.local = Cardinality(Positions)
  <2>1. sp.writer \in Live(b) \ Closed
      BY <1>2 DEF WriterInv, Closed
  <2>2. \A e : EndsAt(e, b) <=> e = Before(sp.writer, b) + Size(sp.writer)
      BY <1>2, <2>1, OpenIsLast
  <2>3. IsFiniteSet(Positions) /\ EndsAt(b.local + Cardinality(Positions), b) /\ EndsAt(sp.local, b)
      BY <1>2, <1>3 DEF CountInv, OpenMemory
  <2>4. sp.local = 0 + Cardinality(Positions)
      BY <1>2, <2>2, <2>3
  <2>5. Cardinality(Positions) \in Nat
      BY <2>3, FS_CardinalityType
  <2> QED
      BY <2>4, <2>5
<1>5. sp.last = LastCursor(Positions, NoBaseline)
  <2>1. EndsWith(LastCursor(Positions, b), b)
      BY <1>2, <1>3, LastCursorIs
  <2>2. EndsWith(sp.last, b)
      BY <1>2 DEF OpenMemory
  <2> QED
      BY <1>1, <1>2, <2>1, <2>2, EndsWithOne
<1>6. ASSUME NEW p \in Positions PROVE FindRetained(Rec(p)).found
  <2>1. PICK o \in Observations : o = Rec(p)
      BY <1>2, PositionFacts
  <2>2. FindRetained(o).found
      BY <1>2, <1>3, <2>1, RetainedFound DEF OpenMemory
  <2> QED
      BY <2>1, <2>2
<1>7. sp.closed = Closed
    BY <1>2, <1>3 DEF WriterInv
<1> QED
    BY <1>4, <1>5, <1>6, <1>7

(* The invariant implies what the spool promises.                          *)
LEMMA SpoolInvSafe == SpoolOnlyInv => SpoolSafe
<1> SUFFICES ASSUME SpoolOnlyInv PROVE SpoolSafe
    OBVIOUS
<1>1. SpoolInv(NoBaseline) /\ RepliesName /\ FilesTyped /\ FieldsTyped /\ OrderInv(NoBaseline)
    BY DEF SpoolOnlyInv, SpoolInv
<1>2. SpoolTypeOK
  <2>1. \A s \in DOMAIN segs :
         /\ segs[s].hdr \in BOOLEAN /\ segs[s].torn \in BOOLEAN
         /\ \A j \in 1..Len(segs[s].recs) : segs[s].recs[j] \in Observations
      BY <1>1, FileFacts DEF Size
  <2>2. \A s \in DOMAIN mans : mans[s].tmp \in BOOLEAN /\ mans[s].seq = s
      BY <1>1, FileFacts
  <2>3. DOMAIN segs \subseteq 1..MaxSegments /\ DOMAIN mans \subseteq 1..MaxSegments
      BY <1>1 DEF FilesTyped
  <2>4. stage.at \in {"idle", "close", "create", "write"}
      BY <1>1 DEF FieldsTyped, Stages
  <2> QED
      BY <1>1, <2>1, <2>2, <2>3, <2>4 DEF FieldsTyped, SpoolTypeOK
<1>3. AckedHeld(NoBaseline)
    BY <1>1 DEF SpoolInv, AckInv
<1>4. CursorsAdvance
  <2>1. Positions = LivePositions(NoBaseline)
      BY <1>1, AllLive
  <2>2. ASSUME NEW p \in Positions, NEW q \in Positions, Precedes(p, q), Rec(p).epoch = Rec(q).epoch
        PROVE  /\ Rec(p).off < Rec(q).off
               /\ \A r \in Positions : Precedes(p, r) /\ Precedes(r, q) => Rec(r).epoch = Rec(p).epoch
      BY <1>1, <2>1, <2>2, NoBaselineIs, CursorsRise
  <2> QED
      BY <2>2 DEF CursorsAdvance
<1> QED
    BY <1>1, <1>2, <1>3, <1>4, MemoryMatches DEF SpoolSafe

(* Everything the spool acknowledged as durable stays on disk under the    *)
(* number it was acknowledged with; cursors only advance; a repeated       *)
(* append is answered truthfully; and what an open spool keeps in memory   *)
(* describes its files.                                                    *)
THEOREM SpoolIsSafe == SpoolSpec => []SpoolSafe
BY SpoolInvariant, SpoolInvSafe, PTL

-----------------------------------------------------------------------------
(* What open accepts.                                                      *)

(* A directory with no interrupted write and no segment left over.         *)
Whole(b) ==
    /\ DOMAIN segs = Live(b) /\ \A s \in DOMAIN mans : ~mans[s].tmp
    /\ \A s \in DOMAIN segs : segs[s].hdr

(* Its chain of manifests is intact.                                       *)
LEMMA WholeChain ==
    ASSUME NEW b \in Baselines, FilesTyped, ChainInv(b), Whole(b)
    PROVE  ChainIntact(b)
<1>1. DOMAIN segs = Live(b) /\ LiveClosed(b) = Closed /\ Closed \subseteq DOMAIN segs /\ b.seq \in Nat
    BY FileFacts, BaselineFacts DEF Whole, LiveClosed, Live
<1>2. ASSUME NEW s \in DOMAIN segs
      PROVE  Previous(s, b) = [seq |-> s - 1, hash |-> Link(s, b), local |-> Before(s, b)] /\ InSequence(s, b)
  <2>1. s \in Nat /\ s > b.seq
      BY <1>1, BeforeFacts
  <2>2. \A u \in b.seq + 1 .. s - 1 : u \in Closed
      BY DEF ChainInv
  <2>3. Previous(s, b) = [seq |-> s - 1, hash |-> Link(s, b), local |-> Before(s, b)]
      BY <2>1, <2>2, PreviousIs
  <2> QED
      BY <2>1, <2>3 DEF InSequence
<1>3. ASSUME NEW s \in Closed
      PROVE  /\ InSequence(s, b) /\ mans[s].prev = Previous(s, b).hash
             /\ ManifestHolds(s) /\ mans[s].first = Previous(s, b).local + 1
  <2>1. /\ segs[s].hdr /\ ~segs[s].torn /\ mans[s].recs = segs[s].recs /\ mans[s].prev = Link(s, b)
        /\ mans[s].first = Before(s, b) + 1 /\ mans[s].last = Before(s, b) + Size(s)
      BY <1>1 DEF ChainInv
  <2>2. Before(s, b) \in Nat /\ Size(s) \in Nat /\ s \in DOMAIN segs
      BY <1>1, BeforeFacts, FileFacts
  <2>3. mans[s].last = mans[s].first + Len(mans[s].recs) - 1
      BY <2>1, <2>2 DEF Size
  <2>4. ManifestHolds(s)
      BY <2>1, <2>2, <2>3 DEF ManifestHolds
  <2> QED
      BY <1>2, <2>1, <2>2, <2>4
<1>4. Cardinality(OpenSegments) <= 1
  <2>1. CASE OpenSegments = {}
      BY <2>1, FS_EmptySet
  <2>2. CASE OpenSegments # {}
    <3>1. PICK w \in OpenSegments : TRUE
        BY <2>2
    <3>2. w \in Live(b) \ Closed
        BY <1>1, <3>1 DEF OpenSegments
    <3>3. \A s \in Live(b) : s # w => s \in LiveClosed(b)
        BY <3>2, OpenIsLast
    <3>4. OpenSegments = {w}
        BY <1>1, <3>1, <3>3 DEF OpenSegments
    <3>5. Cardinality({w}) = 1
        BY FS_Singleton
    <3> QED
        BY <3>4, <3>5
  <2> QED
      BY <2>1, <2>2
<1>5. \A s \in OpenSegments : InSequence(s, b) /\ segs[s].hdr
    BY <1>2 DEF OpenSegments, Whole
<1> QED
    BY <1>3, <1>4, <1>5 DEF ChainIntact, Whole

(* The record before the one at p.                                         *)
LEMMA LatestBefore ==
    ASSUME NEW b \in Baselines, FilesTyped, ChainInv(b), DOMAIN segs = Live(b), NEW p \in Positions,
           NEW E, E = {q \in Positions : Precedes(q, p)}
    PROVE  /\ p[2] # 1 => E # {} /\ Latest(E) = <<p[1], p[2] - 1>>
           /\ p[2] = 1 /\ p[1] = b.seq + 1 => E = {}
           /\ p[2] = 1 /\ p[1] # b.seq + 1 =>
                E # {} /\ Latest(E) = <<p[1] - 1, Size(p[1] - 1)>> /\ p[1] - 1 \in Full(b)
<1>1. /\ p[1] \in DOMAIN segs /\ p[1] \in Live(b) /\ p[2] \in 1..Size(p[1]) /\ p[1] \in Nat /\ p[2] \in Nat
      /\ Size(p[1]) \in Nat /\ b.seq \in Nat
    BY PositionFacts, FileFacts, BaselineFacts
<1>2. ASSUME NEW q \in E
      PROVE  /\ q[1] \in DOMAIN segs /\ q[2] \in 1..Size(q[1]) /\ q[1] \in Nat /\ q[2] \in Nat
             /\ q = <<q[1], q[2]>> /\ Precedes(q, p) /\ Size(q[1]) \in Nat /\ q[1] > b.seq
    BY PositionFacts, FileFacts DEF Live
<1>3. CASE p[2] # 1
  <2>1. PICK x : x = <<p[1], p[2] - 1>>
      OBVIOUS
  <2>2. x \in E /\ x[1] = p[1] /\ x[2] = p[2] - 1
    <3>1. p[2] - 1 \in 1..Size(p[1])
        BY <1>1, <1>3
    <3>2. x \in Positions
        BY <1>1, <2>1, <3>1, PositionFacts
    <3> QED
        BY <1>1, <2>1, <3>2 DEF Precedes
  <2>3. ASSUME NEW q \in E \ {x} PROVE Precedes(q, x)
    <3>1. q[1] = p[1] => q[2] # p[2] - 1
        BY <1>2, <2>1
    <3> QED
        BY <1>1, <1>2, <2>2, <3>1 DEF Precedes
  <2>4. Latest(E) = x
      BY <2>2, <2>3, LatestIs
  <2> QED
      BY <1>3, <2>1, <2>2, <2>4
<1>4. CASE p[2] = 1 /\ p[1] = b.seq + 1
  <2>1. ASSUME NEW q \in E PROVE FALSE
      BY <1>1, <1>2, <1>4 DEF Precedes
  <2> QED
      BY <1>4, <2>1
<1>5. CASE p[2] = 1 /\ p[1] # b.seq + 1
  <2>1. PICK m : m = p[1] - 1
      OBVIOUS
  <2>2. m \in LiveClosed(b) /\ m \in Nat
      BY <1>1, <1>5, <2>1, BeforeFacts
  <2>3. m \in DOMAIN segs /\ Size(m) # 0 /\ m \in Full(b) /\ Size(m) \in Nat
      BY <2>2, FileFacts DEF ChainInv, LiveClosed, Full
  <2>4. PICK x : x = <<m, Size(m)>>
      OBVIOUS
  <2>5. x \in E /\ x[1] = m /\ x[2] = Size(m)
    <3>1. x \in Positions
        BY <2>3, <2>4, PositionFacts
    <3> QED
        BY <1>1, <2>1, <2>4, <3>1 DEF Precedes
  <2>6. ASSUME NEW q \in E \ {x} PROVE Precedes(q, x)
    <3>1. q[1] = m => q[2] # Size(m)
        BY <1>2, <2>4
    <3>2. q[1] <= m
        BY <1>1, <1>2, <1>5, <2>1 DEF Precedes
    <3> QED
        BY <1>2, <2>2, <2>3, <2>5, <3>1, <3>2 DEF Precedes
  <2>7. Latest(E) = x
      BY <2>5, <2>6, LatestIs
  <2> QED
      BY <1>5, <2>1, <2>3, <2>4, <2>5, <2>7
<1> QED
    BY <1>3, <1>4, <1>5

(* Its records are admissible, one after the other.                        *)
LEMMA WholeAdmissible ==
    ASSUME NEW b \in Baselines, DirInv(b), DOMAIN segs = Live(b)
    PROVE  RecordsAdmissible(b)
<1>1. FilesTyped /\ ChainInv(b) /\ OrderInv(b)
    BY DEF DirInv
<1>2. ASSUME NEW p \in Positions, NEW E, E = {q \in Positions : Precedes(q, p)}, NEW c, c = LastCursor(E, b)
      PROVE  /\ Successor(Cursor(Rec(p)), c, p[2] = 1)
             /\ (c # NoCursor /\ p[2] = 1 /\ c.epoch # Rec(p).epoch) => \A q \in E : Rec(q).epoch # Rec(p).epoch
  <2>1. PICK s : s = p[1]
      OBVIOUS
  <2>2. PICK j : j = p[2]
      OBVIOUS
  <2>3. /\ s \in DOMAIN segs /\ s \in Live(b) /\ j \in 1..Size(s) /\ s \in Nat /\ j \in Nat /\ Size(s) \in Nat
        /\ Rec(p) = segs[s].recs[j] /\ Rec(p) \in Observations /\ p = <<s, j>>
      BY <1>1, <2>1, <2>2, PositionFacts, FileFacts DEF Rec
  <2>4. s \in Full(b)
      BY <2>3 DEF Full
  <2>5. Cursor(Rec(p)).epoch = Rec(p).epoch /\ Cursor(Rec(p)).off = Rec(p).off /\ Rec(p).off \in Nat
        /\ Rec(p).epoch = FirstRec(s).epoch
      BY <1>1, <2>3, <2>4, ObservationFacts, RangeHolds
  <2>6. CASE j # 1
    <3>1. E # {} /\ Latest(E) = <<s, j - 1>>
        BY <1>1, <1>2, <2>1, <2>2, <2>6, LatestBefore
    <3>2. c = Cursor(segs[s].recs[j - 1])
        BY <1>2, <3>1 DEF LastCursor, Rec
    <3>3. j - 1 \in 1..Size(s) /\ j - 1 < j
        BY <2>3, <2>6
    <3>4. Rising(segs[s].recs)
        BY <1>1, <2>3 DEF OrderInv
    <3>5. segs[s].recs[j - 1].epoch = Rec(p).epoch /\ segs[s].recs[j - 1].off < Rec(p).off
          /\ segs[s].recs[j - 1] \in Observations
      <4>1. PICK r : r = segs[s].recs
          OBVIOUS
      <4>2. r[j - 1] \in Observations
          BY <1>1, <2>3, <3>3, <4>1, FileFacts
      <4>3. Len(r) = Size(s) /\ Rising(r) /\ Rec(p) = r[j]
          BY <2>3, <3>4, <4>1 DEF Size
      <4>4. j \in 1..Len(r) /\ j - 1 \in 1..Len(r)
          BY <2>3, <3>3, <4>3
      <4>5. r[j - 1].epoch = r[j].epoch /\ r[j - 1].off < r[j].off
          BY <3>3, <4>3, <4>4 DEF Rising
      <4> QED
          BY <4>1, <4>2, <4>3, <4>5
    <3>6. c.epoch = Rec(p).epoch /\ c.off < Rec(p).off /\ c.off \in Nat
        BY <3>2, <3>5, ObservationFacts
    <3>7. Successor(Cursor(Rec(p)), c, p[2] = 1)
        BY <2>5, <3>6 DEF Successor
    <3> QED
        BY <2>2, <2>6, <3>7
  <2>7. CASE j = 1 /\ s = b.seq + 1
    <3>1. E = {}
        BY <1>1, <1>2, <2>1, <2>2, <2>7, LatestBefore
    <3>2. c = b.cursor
        BY <1>2, <3>1 DEF LastCursor
    <3>3. Rec(p) = FirstRec(s)
        BY <2>3, <2>7 DEF FirstRec
    <3>4. c # NoCursor => Successor(Cursor(Rec(p)), c, TRUE)
        BY <1>1, <2>4, <2>7, <3>2, <3>3 DEF OrderInv
    <3>5. Successor(Cursor(Rec(p)), c, p[2] = 1)
        BY <2>2, <2>7, <3>4 DEF Successor
    <3> QED
        BY <3>1, <3>5
  <2>8. CASE j = 1 /\ s # b.seq + 1
    <3>1. PICK m : m = s - 1
        OBVIOUS
    <3>2. E # {} /\ Latest(E) = <<m, Size(m)>> /\ m \in Full(b)
        BY <1>1, <1>2, <2>1, <2>2, <2>8, <3>1, LatestBefore
    <3>3. m \in Nat /\ m < s /\ LastRec(m) \in Observations /\ FirstRec(m) \in Observations /\ Size(m) \in 1..Size(m)
        BY <1>1, <2>3, <3>1, <3>2, FullFacts
    <3>4. c = Cursor(LastRec(m))
        BY <1>2, <3>2 DEF LastCursor, Rec, LastRec, Size
    <3>5. c.epoch = FirstRec(m).epoch /\ c.off = LastRec(m).off /\ c.off \in Nat
      <4>1. c.epoch = LastRec(m).epoch /\ c.off = LastRec(m).off /\ c.off \in Nat
          BY <3>3, <3>4, ObservationFacts
      <4>2. LastRec(m).epoch = FirstRec(m).epoch
          BY <1>1, <3>2, <3>3, RangeHolds DEF LastRec, Size
      <4> QED
          BY <4>1, <4>2
    <3>6. Rec(p) = FirstRec(s)
        BY <2>3, <2>8 DEF FirstRec
    <3>7. c.epoch = Rec(p).epoch => Rec(p).off > c.off
        BY <1>1, <2>4, <2>5, <3>2, <3>3, <3>5, <3>6 DEF OrderInv
    <3>8. Successor(Cursor(Rec(p)), c, p[2] = 1)
        BY <2>2, <2>5, <2>8, <3>7 DEF Successor
    <3>9. ASSUME c.epoch # Rec(p).epoch, NEW q \in E PROVE Rec(q).epoch # Rec(p).epoch
      <4>1. /\ q[1] \in DOMAIN segs /\ q[2] \in 1..Size(q[1]) /\ q[1] \in Nat /\ q[2] \in Nat /\ Size(q[1]) \in Nat
            /\ Precedes(q, p) /\ Rec(q) = segs[q[1]].recs[q[2]]
          BY <1>1, <1>2, PositionFacts, FileFacts DEF Rec
      <4>2. q[1] \in Full(b) /\ q[1] < s
          BY <2>1, <2>2, <2>3, <2>8, <4>1 DEF Full, Precedes
      <4>3. Rec(q).epoch = FirstRec(q[1]).epoch
          BY <1>1, <4>1, <4>2, RangeHolds
      <4>4. CASE q[1] = m
          BY <3>5, <3>9, <4>3, <4>4
      <4>5. CASE q[1] # m
        <5>1. q[1] < m
            BY <2>3, <3>1, <4>1, <4>2, <4>5
        <5>2. FirstRec(q[1]).epoch = FirstRec(s).epoch => FirstRec(m).epoch = FirstRec(q[1]).epoch
            BY <1>1, <2>4, <3>2, <3>3, <4>2, <5>1 DEF OrderInv
        <5> QED
            BY <2>5, <3>5, <3>9, <4>3, <5>2
      <4> QED
          BY <4>4, <4>5
    <3> QED
        BY <3>8, <3>9
  <2> QED
      BY <2>6, <2>7, <2>8
<1> QED
    BY <1>2 DEF RecordsAdmissible

(* open accepts it.                                                        *)
LEMMA WholeOpens ==
    ASSUME NEW b \in Baselines, DirInv(b), Whole(b)
    PROVE  Openable(b)
BY WholeChain, WholeAdmissible DEF DirInv, Openable, Whole

(* The directory a crash leaves is one the next open accepts, unless the   *)
(* crash cut off a manifest publication or the writing of a header.        *)
THEOREM SpoolReopens == SpoolSpec => []ReopensUnlessInterrupted
<1>1. SpoolOnlyInv => ReopensUnlessInterrupted
  <2> SUFFICES ASSUME SpoolOnlyInv, ~Interrupted PROVE Openable(NoBaseline)
      BY DEF ReopensUnlessInterrupted
  <2>1. DirInv(NoBaseline) /\ FilesTyped
      BY DEF SpoolOnlyInv, SpoolInv, DirInv
  <2>2. Whole(NoBaseline)
      BY <2>1, AllLive DEF Interrupted, Whole
  <2> QED
      BY <2>1, <2>2, NoBaselineIs, WholeOpens
<1> QED
    BY <1>1, SpoolInvariant, PTL
=============================================================================
