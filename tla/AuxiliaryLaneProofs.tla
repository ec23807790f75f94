------------------------ MODULE AuxiliaryLaneProofs ------------------------
(***************************************************************************)
(* Proofs about the auxiliary lane, for every set of epochs and bodies,    *)
(* group size, number of segments, generations, lines and faults, and      *)
(* every interleaving of the task, the node that writes the file and       *)
(* crashes.                                                                *)
(*                                                                         *)
(* What the lane promises is about a stream that is kept in two places:    *)
(* the archive up to the checkpoint, the spool after it.  CapturedIn joins *)
(* them, and LaneAt(e, b) says of a lane whose checkpoint is the baseline  *)
(* b and which has captured e records: the spool directory continues b     *)
(* (SpoolInv of SourceSpoolProofs), the stream has one record per number,  *)
(* line after line, with every acknowledged one under its number (LogInv); *)
(* the archive holds no more than the segments up to the checkpoint and    *)
(* batches of the next one (ArchiveInv); the phase of the task says what   *)
(* is sealed, archived and pending (PhaseInv); and the source stands at    *)
(* the last record or at the start of a file (SourceInv).  Without         *)
(* SourceInv and the line in progress in LogInv the order of the lines is  *)
(* not inductive; without ArchiveInv a checkpoint could cover what the     *)
(* archive does not hold.                                                  *)
(*                                                                         *)
(* A step changes the stream in one of three ways: not at all, by one      *)
(* record at its end (an append, or a crash inside one), or by moving the  *)
(* border between the two places (a checkpoint), which renames nothing.    *)
(***************************************************************************)
EXTENDS AuxiliaryLane, SourceSpoolProofs

-----------------------------------------------------------------------------
(* What the lane has captured: up to the checkpoint what the archive holds *)
(* under the number, after it what the spool does.                         *)
CapturedIn(n, b) == IF n <= b.local THEN ArchivedAs(n) ELSE Held(n, b)

(* The records numbered 1 to e, one each, follow one another.              *)
Follows(n, o, b) ==
    \/ o.off = 1 /\ \A q \in CapturedIn(n - 1, b) : q.epoch # o.epoch
    \/ \E q \in CapturedIn(n - 1, b) : q.epoch = o.epoch /\ o.off = q.off + 1

EpochsOnce(e, b) ==
    \A i, j, k \in 1..e :
        i < k /\ k < j => \A o \in CapturedIn(i, b), q \in CapturedIn(j, b) :
            o.epoch = q.epoch => \A r \in CapturedIn(k, b) : r.epoch = o.epoch

Ordered(e, b) ==
    /\ CapturedIn(0, b) = {}
    /\ \A n \in 1..e : \E o \in Observations : CapturedIn(n, b) = {o} /\ Follows(n, o, b)
    /\ EpochsOnce(e, b)

AckedCaptured(b) ==
    \A i \in 1..Len(ackedRecs) : CapturedIn(ackedRecs[i].local, b) = {ackedRecs[i].obs}

KnownTo(C, e, b) == \A c \in C : \E n \in 1..e : \E q \in CapturedIn(n, b) : Cursor(q) = c

(* The line o continues what is captured up to e.                          *)
NextLine(o, e, b) ==
    \/ \E q \in CapturedIn(e, b) : q.epoch = o.epoch /\ o.off = q.off + 1
    \/ o.off = 1 /\ \A n \in 0..e : \A q \in CapturedIn(n, b) : q.epoch # o.epoch

LogInv(e, b) ==
    /\ Ordered(e, b) /\ AckedCaptured(b)
    /\ KnownTo(ToSet(pending), e, b) /\ KnownTo(srcAcked, b.local, b)
    /\ stage.obs # NoObs => NextLine(stage.obs, e, b)

(* The archive: batches up to the checkpoint and of the segment after it.  *)
BatchRecords == [hash : Hashes, first : Nat, recs : Seq(Observations)]

ArchiveInv(b) ==
    /\ archive \subseteq BatchRecords /\ ckpt.entries \subseteq archive
    /\ \A c \in archive :
         \/ c.first + Len(c.recs) - 1 <= b.local
         \/ b.seq + 1 \in Closed /\ c \in Batches(mans[b.seq + 1])
    /\ IF b.cursor = NoCursor THEN b.local = 0
       ELSE b.local # 0 /\ \E q \in Observations : ArchivedAs(b.local) = {q} /\ b.cursor = Cursor(q)

(* Where the task is.                                                      *)
PhaseInv(b) ==
    /\ phase \in {"stopped", "open"} => ~up
    /\ phase \notin {"stopped", "open", "clean"} => up
    /\ phase \notin {"stopped", "clean"} => b.seq \notin DOMAIN segs
    /\ stage.obs # NoObs => phase = "append"
    /\ stage.at = "close" => stage.next # 0
    /\ phase \in {"clean", "checkpoint", "source", "run", "ack", "closing"} => stage = SpoolIdle
    /\ phase \in {"clean", "archive", "checkpoint", "source", "ack", "closing"} /\ up /\ stage = SpoolIdle
         => sp.count = 0
    /\ phase \in {"source", "ack", "closing"} => sp.closed = {}
    /\ phase = "run" /\ pending = <<>> => sp.count = 0 /\ sp.closed = {}
    /\ ~up \/ phase \in {"source", "closing"} \/ mode = "startup" => pending = <<>>
    /\ ~up /\ phase # "stopped" => mode = "startup"
    /\ phase = "ack" => mode # "startup"
    /\ phase = "checkpoint" => sp.closed # {} /\ Batches(mans[b.seq + 1]) \subseteq archive

(* The source stands at the last record, or at the start of a file.        *)
Generations == [epoch : Epochs, lines : Seq(Bodies)]

SourceInv ==
    /\ gens \in Seq(Generations) /\ \A g \in 1..Len(gens) : Len(gens[g].lines) <= MaxLines
    /\ src \in [gen : Nat, off : Nat] /\ src.gen <= Len(gens)
    /\ ~up => src.gen = 0
    /\ phase \in {"run", "append"} \/ (phase \in {"seal", "archive", "checkpoint", "clean", "ack"} /\ mode = "group")
         => src.gen # 0 \/ ~up
    /\ src.gen # 0 /\ phase # "append" =>
         src.off = 0 \/ (sp.last # NoCursor /\ sp.last.epoch = gens[src.gen].epoch /\ src.off = sp.last.off)
    /\ phase = "append" =>
         stage.obs # NoObs /\ stage.obs.epoch = gens[src.gen].epoch /\ stage.obs.off = src.off

TaskTyped ==
    /\ phase \in {"stopped", "clean", "open", "seal", "archive", "checkpoint", "source",
                  "run", "append", "ack", "closing"}
    /\ mode \in {"startup", "group", "reopen", "stop"}
    /\ faults \in 0..MaxFaults
    /\ pending \in Seq(Cursors)

LaneAt(e, b) ==
    /\ b = Baseline /\ EndsAt(e, b) /\ SpoolInv(b)
    /\ TaskTyped /\ PhaseInv(b) /\ SourceInv /\ ArchiveInv(b) /\ LogInv(e, b)

LaneInv == \E b \in Baselines : \E e \in Nat : LaneAt(e, b)

-----------------------------------------------------------------------------
(* The batches of a segment.                                               *)

BatchEnd(r, i) == Min({j - 1 : j \in {k \in BatchStarts(r) : k > i}} \cup {Len(r)})

(* A batch ends before the next one starts, or with the segment.           *)
LEMMA BatchEndIs ==
    ASSUME NEW r \in Seq(Observations), NEW i \in BatchStarts(r)
    PROVE  /\ i \in 1..Len(r) /\ BatchEnd(r, i) \in i..Len(r)
           /\ BatchEnd(r, i) = Len(r) \/ BatchEnd(r, i) + 1 \in BatchStarts(r)
           /\ BatchEnd(r, i) + 1 > i
<1>1. BatchStarts(r) \subseteq 1..Len(r) /\ Len(r) \in Nat
    BY DEF BatchStarts
<1>2. i \in 1..Len(r) /\ i \in Nat /\ i >= 1 /\ i <= Len(r)
    BY <1>1
<1>3. PICK E : E = {j - 1 : j \in {k \in BatchStarts(r) : k > i}} \cup {Len(r)}
    OBVIOUS
<1>4. ASSUME NEW x \in E PROVE x \in i..Len(r) /\ (x = Len(r) \/ x + 1 \in BatchStarts(r))
  <2>1. CASE x = Len(r)
      BY <1>2, <2>1
  <2>2. CASE x # Len(r)
    <3>1. PICK j \in BatchStarts(r) : j > i /\ x = j - 1
        BY <1>3, <2>2
    <3>2. j \in Nat /\ j <= Len(r)
        BY <1>1
    <3>3. x + 1 = j /\ x \in i..Len(r)
        BY <1>1, <1>2, <3>1, <3>2
    <3> QED
        BY <3>3
  <2> QED
      BY <2>1, <2>2
<1>5. E \subseteq Nat /\ E # {}
  <2>1. \A x \in E : x \in Nat
      BY <1>2, <1>4
  <2> QED
      BY <1>3, <2>1
<1>6. PICK x \in E : \A y \in E : x <= y
    BY <1>5, LeastExists
<1>7. Min(E) = x
  <2>1. E \subseteq Int
      BY <1>5
  <2> QED
      BY <1>6, <2>1, MinIs
<1>8. BatchEnd(r, i) = x
    BY <1>3, <1>7 DEF BatchEnd
<1> QED
    BY <1>2, <1>4, <1>8

(* What a batch of the segment of m holds.                                 *)
BatchOf(c, m) ==
    /\ c \in BatchRecords /\ Len(c.recs) \in Nat
    /\ m.first <= c.first /\ c.first + Len(c.recs) - 1 <= m.first + Len(m.recs) - 1
    /\ \A n \in c.first .. (c.first + Len(c.recs) - 1) : c.recs[n - c.first + 1] = m.recs[n - m.first + 1]

(* A run of the records of a segment, under their numbers.                 *)
LEMMA BatchSpan ==
    ASSUME NEW f \in Nat, NEW r \in Seq(Observations), NEW h \in Hashes, NEW i \in Nat, NEW e \in Nat,
           i >= 1, i <= e, e <= Len(r),
           NEW t \in Seq(Observations), Len(t) = e - i + 1, \A k \in 1..Len(t) : t[k] = r[i + k - 1],
           NEW m, m.first = f, m.recs = r,
           NEW c, c = [hash |-> h, first |-> f + i - 1, recs |-> t]
    PROVE  BatchOf(c, m)
<1>1. PICK x \in Nat : x = f + i - 1
    OBVIOUS
<1>2. c = [hash |-> h, first |-> x, recs |-> t]
    BY <1>1
<1>3. c \in BatchRecords
    BY <1>2 DEF BatchRecords
<1>4. c.first = x /\ c.recs = t
    BY <1>2
<1>5. Len(r) \in Nat /\ Len(t) \in Nat
    OBVIOUS
<1>6. ASSUME NEW n \in x .. (x + Len(t) - 1) PROVE t[n - x + 1] = r[n - f + 1]
  <2>1. PICK l \in Nat : l = Len(t)
      BY <1>5
  <2>2. n \in Int /\ x <= n /\ n <= x + l - 1
      BY <2>1
  <2>3. PICK k \in Nat : k = n - x + 1
      BY <1>1, <2>2
  <2>4. k \in 1..Len(t) /\ i + k - 1 = n - f + 1
      BY <1>1, <2>1, <2>2, <2>3
  <2>5. t[k] = r[i + k - 1]
      BY <2>4
  <2> QED
      BY <2>3, <2>4, <2>5
<1>7. f <= x /\ x + Len(t) - 1 <= f + Len(r) - 1
  <2>1. PICK l \in Nat, k \in Nat : l = Len(t) /\ k = Len(r)
      BY <1>5
  <2>2. l = e - i + 1 /\ e <= k
      BY <2>1
  <2>3. f <= x /\ x + l - 1 <= f + k - 1
      BY <1>1, <2>2
  <2> QED
      BY <2>1, <2>3
<1> QED
    BY <1>3, <1>4, <1>5, <1>6, <1>7 DEF BatchOf

(* A batch is such a run.                                                  *)
LEMMA BatchIs ==
    ASSUME NEW m \in Manifests, NEW i \in BatchStarts(m.recs), NEW c,
           c = [hash |-> Hash(m), first |-> m.first + i - 1, recs |-> SubSeq(m.recs, i, BatchEnd(m.recs, i))]
    PROVE  BatchOf(c, m) /\ Len(c.recs) = BatchEnd(m.recs, i) - i + 1
<1>1. PICK r : r = m.recs
    OBVIOUS
<1>2. PICK f : f = m.first
    OBVIOUS
<1>3. PICK h : h = Hash(m)
    OBVIOUS
<1>4. r \in Seq(Observations) /\ f \in Nat /\ h \in Hashes /\ Len(r) \in Nat
  <2>1. m.recs \in Seq(Observations) /\ m.first \in Nat /\ Hash(m) \in Hashes
      BY DEF Manifests, Hash, Hashes
  <2> QED
      BY <1>1, <1>2, <1>3, <2>1
<1>5. PICK e : e = BatchEnd(r, i)
    OBVIOUS
<1>6. i \in 1..Len(r) /\ e \in i..Len(r) /\ i \in Nat /\ e \in Nat /\ i >= 1 /\ i <= e /\ e <= Len(r)
  <2>1. i \in 1..Len(r) /\ e \in i..Len(r)
      BY <1>1, <1>4, <1>5, BatchEndIs
  <2> QED
      BY <1>4, <2>1
<1>7. PICK t : t = SubSeq(r, i, e)
    OBVIOUS
<1>8. t \in Seq(Observations) /\ Len(t) = e - i + 1 /\ \A k \in 1..Len(t) : t[k] = r[i + k - 1]
  <2>1. \A j \in i..e : r[j] \in Observations
      BY <1>4, <1>6
  <2>2. /\ SubSeq(r, i, e) \in Seq(Observations)
        /\ Len(SubSeq(r, i, e)) = IF i <= e THEN e - i + 1 ELSE 0
        /\ \A k \in 1..e - i + 1 : SubSeq(r, i, e)[k] = r[i + k - 1]
    <3>1. i \in Int /\ e \in Int
        BY <1>6
    <3> QED
        BY <2>1, <3>1, SubSeqProperties
  <2>3. Len(t) = e - i + 1
      BY <1>6, <1>7, <2>2
  <2> QED
      BY <1>7, <2>2, <2>3
<1>9. c = [hash |-> h, first |-> f + i - 1, recs |-> t]
    BY <1>1, <1>2, <1>3, <1>5, <1>7
<1>10. BatchOf(c, m)
  <2>1. m.first = f /\ m.recs = r
      BY <1>1, <1>2
  <2>2. f \in Nat /\ r \in Seq(Observations) /\ h \in Hashes /\ i \in Nat /\ e \in Nat
        /\ i >= 1 /\ i <= e /\ e <= Len(r)
      BY <1>4, <1>6
  <2> HIDE <1>1, <1>2, <1>3, <1>5, <1>7
  <2> QED
      BY <1>8, <1>9, <2>1, <2>2, BatchSpan, ZenonT(60)
<1>11. c.recs = t
    BY <1>9
<1> QED
    BY <1>1, <1>5, <1>8, <1>10, <1>11

(* The batches of a segment.                                               *)
LEMMA BatchesAre ==
    ASSUME NEW m \in Manifests
    PROVE  /\ \A c \in Batches(m) : BatchOf(c, m)
           /\ \A n \in m.first .. (m.first + Len(m.recs) - 1) :
                \E c \in Batches(m) : n \in c.first .. (c.first + Len(c.recs) - 1)
<1>1. Batches(m) = {[hash |-> Hash(m), first |-> m.first + i - 1,
                     recs |-> SubSeq(m.recs, i, BatchEnd(m.recs, i))] : i \in BatchStarts(m.recs)}
    BY DEF Batches, BatchEnd
<1>2. ASSUME NEW c \in Batches(m) PROVE BatchOf(c, m)
  <2>1. PICK i \in BatchStarts(m.recs) :
          c = [hash |-> Hash(m), first |-> m.first + i - 1, recs |-> SubSeq(m.recs, i, BatchEnd(m.recs, i))]
      BY <1>1
  <2> QED
      BY <2>1, BatchIs
<1>3. ASSUME NEW n \in m.first .. (m.first + Len(m.recs) - 1)
      PROVE  \E c \in Batches(m) : n \in c.first .. (c.first + Len(c.recs) - 1)
  <2>1. PICK r \in Seq(Observations) : r = m.recs
      BY DEF Manifests
  <2>2. PICK f \in Nat : f = m.first
      BY DEF Manifests
  <2>3. PICK k : k = n - f + 1
      OBVIOUS
  <2>4. k \in 1..Len(r) /\ k \in Nat /\ n = f + k - 1 /\ Len(r) \in Nat
    <3>1. PICK l \in Nat : l = Len(r)
        BY <2>1
    <3>2. n \in f .. (f + l - 1)
        BY <1>3, <2>1, <2>2, <3>1
    <3>3. k \in 1..l /\ k \in Nat /\ n = f + k - 1
        BY <2>3, <3>2
    <3> QED
        BY <3>1, <3>3
  <2>5. PICK S : S = {s \in BatchStarts(r) : s <= k}
      OBVIOUS
  <2>6. S \subseteq Nat /\ S # {} /\ \A x \in S : x <= k
    <3>1. 1 \in BatchStarts(r)
        BY <2>4 DEF BatchStarts
    <3>2. \A x \in BatchStarts(r) : x \in Nat
        BY DEF BatchStarts
    <3> QED
        BY <2>4, <2>5, <3>1, <3>2
  <2>7. PICK i : i = Max(S)
      OBVIOUS
  <2>8. i \in S /\ \A x \in S : x <= i
      BY <2>4, <2>6, <2>7, MaxExists
  <2>9. i \in BatchStarts(r) /\ i <= k /\ i \in Nat
      BY <2>5, <2>6, <2>8
  <2>10. PICK e : e = BatchEnd(r, i)
      OBVIOUS
  <2>11. e \in i..Len(r) /\ (e = Len(r) \/ e + 1 \in BatchStarts(r)) /\ e + 1 > i /\ e \in Nat
      BY <2>9, <2>10, BatchEndIs
  <2>12. k <= e
    <3>1. CASE e = Len(r)
        BY <2>4, <3>1
    <3>2. CASE e + 1 \in BatchStarts(r)
      <4>1. ~(e + 1 <= k)
          BY <2>5, <2>8, <2>9, <2>11, <3>2
      <4> QED
          BY <2>4, <2>11, <4>1
    <3> QED
        BY <2>11, <3>1, <3>2
  <2>13. PICK c : c = [hash |-> Hash(m), first |-> m.first + i - 1,
                       recs |-> SubSeq(m.recs, i, BatchEnd(m.recs, i))]
      OBVIOUS
  <2>14. c \in Batches(m) /\ c.first = f + i - 1 /\ Len(c.recs) = e - i + 1
    <3>1. i \in BatchStarts(m.recs)
        BY <2>1, <2>9
    <3>2. Len(c.recs) = BatchEnd(m.recs, i) - i + 1
        BY <2>13, <3>1, BatchIs
    <3> QED
        BY <1>1, <2>1, <2>2, <2>10, <2>13, <3>1, <3>2
  <2>15. n \in c.first .. (c.first + Len(c.recs) - 1)
    <3>1. n = f + k - 1 /\ k \in Nat /\ i \in Nat /\ e \in Nat /\ i <= k /\ k <= e
        BY <2>4, <2>9, <2>11, <2>12
    <3>2. n \in (f + i - 1) .. (f + i - 1 + (e - i + 1) - 1)
        BY <3>1
    <3> QED
        BY <2>14, <3>2
  <2> QED
      BY <2>14, <2>15
<1> QED
    BY <1>2, <1>3

-----------------------------------------------------------------------------
(* What the archive holds.                                                 *)

(* The spool holds the records of m under its numbers.                     *)
HeldAs(m, b) ==
    \A n \in m.first .. (m.first + Len(m.recs) - 1) : Held(n, b) = {m.recs[n - m.first + 1]}

(* A closed segment holds its records under the numbers of its manifest.   *)
LEMMA ClosedHeld ==
    ASSUME NEW b \in Baselines, FilesTyped, ChainInv(b), NEW s \in LiveClosed(b), NEW m, m = mans[s]
    PROVE  /\ m \in Manifests /\ m.first = Before(s, b) + 1 /\ m.first > b.local /\ m.first \in Nat
           /\ m.last = m.first + Len(m.recs) - 1 /\ m.last \in Nat /\ m.recs \in Seq(Observations)
           /\ Len(m.recs) \in Nat /\ Len(m.recs) >= 1 /\ Len(m.recs) = Size(s) /\ m.recs = segs[s].recs
           /\ HeldAs(m, b)
<1>1. s \in Closed /\ s > b.seq /\ s \in DOMAIN segs /\ s \in DOMAIN mans /\ s \in Nat
    BY FileFacts DEF LiveClosed
<1>2. s \in Live(b) /\ b.local \in Nat
    BY <1>1, BaselineFacts DEF Live
<1>3. Before(s, b) \in Nat /\ b.local <= Before(s, b)
    BY <1>2, BeforeFacts DEF ChainInv
<1>4. Size(s) \in Nat /\ Size(s) # 0 /\ mans[s].recs = segs[s].recs
      /\ mans[s].first = Before(s, b) + 1 /\ mans[s].last = Before(s, b) + Size(s)
    BY <1>1, FileFacts DEF ChainInv
<1>5. m \in Manifests
    BY <1>1 DEF FilesTyped
<1>6. PICK r : r = segs[s].recs
    OBVIOUS
<1>7. PICK k \in Nat : k = Size(s)
    BY <1>4
<1>8. PICK f \in Nat : f = Before(s, b) + 1
    BY <1>3
<1>9. m.recs = r /\ Len(r) = k /\ m.first = f /\ m.last = f + k - 1 /\ k >= 1 /\ r \in Seq(Observations)
      /\ f > b.local
  <2>1. Len(r) = k /\ r \in Seq(Observations)
      BY <1>1, <1>6, <1>7, FileFacts DEF Size
  <2> QED
      BY <1>2, <1>3, <1>4, <1>6, <1>7, <1>8, <2>1
<1>10. ASSUME NEW n \in f .. (f + k - 1)
       PROVE  Held(n, b) = {r[n - f + 1]}
  <2>1. PICK j \in Nat : j = n - f + 1
      BY <1>7, <1>8
  <2>2. j \in 1..Size(s) /\ Before(s, b) + j = n
      BY <1>3, <1>7, <1>8, <2>1
  <2>3. PICK p : p = <<s, j>>
      OBVIOUS
  <2>4. p \in Positions /\ p[1] = s /\ p[2] = j
      BY <1>1, <2>2, <2>3, PositionFacts
  <2>5. p \in LivePositions(b)
      BY <1>1, <2>4 DEF LivePositions
  <2>6. Number(p, b) = n
      BY <2>2, <2>4, <2>5, NumberIs
  <2>7. Rec(p) = r[j]
      BY <1>6, <2>4 DEF Rec
  <2>8. Held(Number(p, b), b) = {Rec(p)}
      BY <2>5, HeldIs
  <2> QED
      BY <2>1, <2>6, <2>7, <2>8
<1>11. m.last \in Nat /\ Len(m.recs) = Size(s) /\ m.recs = segs[s].recs
    BY <1>4, <1>6, <1>7, <1>9
<1>12. HeldAs(m, b)
    BY <1>9, <1>10 DEF HeldAs
<1> QED
    BY <1>5, <1>7, <1>8, <1>9, <1>11, <1>12

(* The segment after the checkpoint is the oldest closed one.              *)
LEMMA NextClosed ==
    ASSUME NEW b \in Baselines, FilesTyped, ChainInv(b), NEW s \in LiveClosed(b)
    PROVE  b.seq + 1 \in LiveClosed(b) /\ \A t \in LiveClosed(b) : b.seq + 1 <= t
<1>1. b.seq \in Nat /\ \A t \in LiveClosed(b) : t \in Nat /\ t > b.seq /\ t \in Closed /\ t \in DOMAIN segs
    BY FileFacts, BaselineFacts DEF LiveClosed
<1>2. b.seq + 1 \in Closed
  <2>1. CASE s = b.seq + 1
      BY <1>1, <2>1
  <2>2. CASE s # b.seq + 1
    <3>1. b.seq + 1 \in b.seq + 1 .. s - 1
        BY <1>1, <2>2
    <3> QED
        BY <1>1, <3>1 DEF ChainInv
  <2> QED
      BY <2>1, <2>2
<1> QED
    BY <1>1, <1>2 DEF LiveClosed

(* What the batches of the next segment hold is what the spool holds.      *)
LEMMA BatchHeld ==
    ASSUME NEW b \in Baselines, FilesTyped, ChainInv(b), b.seq + 1 \in LiveClosed(b),
           NEW c \in Batches(mans[b.seq + 1])
    PROVE  /\ c \in BatchRecords /\ c.first \in Nat /\ c.first > b.local /\ Len(c.recs) \in Nat
           /\ c.first + Len(c.recs) - 1 <= mans[b.seq + 1].last
           /\ HeldAs(c, b)
<1>1. PICK m : m = mans[b.seq + 1]
    OBVIOUS
<1>2. /\ m \in Manifests /\ m.first > b.local /\ m.first \in Nat
      /\ m.last = m.first + Len(m.recs) - 1 /\ Len(m.recs) \in Nat
      /\ HeldAs(m, b)
    BY <1>1, ClosedHeld
<1>3. BatchOf(c, m)
    BY <1>1, <1>2, BatchesAre
<1>4. c \in BatchRecords /\ c.first \in Nat /\ Len(c.recs) \in Nat /\ b.local \in Nat
    BY <1>3, BaselineFacts DEF BatchOf, BatchRecords
<1>5. c.first > b.local /\ c.first + Len(c.recs) - 1 <= m.last
    BY <1>2, <1>3, <1>4 DEF BatchOf
<1>6. ASSUME NEW n \in c.first .. (c.first + Len(c.recs) - 1)
      PROVE  Held(n, b) = {c.recs[n - c.first + 1]}
  <2>1. m.first <= c.first /\ c.first + Len(c.recs) - 1 <= m.first + Len(m.recs) - 1
        /\ c.recs[n - c.first + 1] = m.recs[n - m.first + 1]
      BY <1>3 DEF BatchOf
  <2>2. PICK f \in Nat, k \in Nat : f = m.first /\ k = Len(m.recs)
      BY <1>2
  <2>3. PICK g \in Nat, l \in Nat : g = c.first /\ l = Len(c.recs)
      BY <1>4
  <2>4. n \in g .. (g + l - 1) /\ f <= g /\ g + l - 1 <= f + k - 1
      BY <2>1, <2>2, <2>3
  <2>5. n \in f .. (f + k - 1)
      BY <2>4
  <2>6. n \in m.first .. (m.first + Len(m.recs) - 1)
      BY <2>2, <2>5
  <2> QED
      BY <1>2, <2>1, <2>6 DEF HeldAs
<1>7. HeldAs(c, b)
    BY <1>6 DEF HeldAs
<1> QED
    BY <1>1, <1>4, <1>5, <1>7

(* The archive is never ahead of the spool with another record.            *)
LEMMA ArchivedAhead ==
    ASSUME NEW b \in Baselines, FilesTyped, ChainInv(b), ArchiveInv(b), NEW n \in Nat, n > b.local
    PROVE  ArchivedAs(n) \subseteq Held(n, b)
<1> SUFFICES ASSUME NEW x \in ArchivedAs(n) PROVE x \in Held(n, b)
    OBVIOUS
<1>1. PICK c \in archive : n \in c.first .. (c.first + Len(c.recs) - 1) /\ x = c.recs[n - c.first + 1]
    BY DEF ArchivedAs
<1>2. c.first \in Nat /\ Len(c.recs) \in Nat /\ b.local \in Nat
  <2>1. c \in BatchRecords
      BY DEF ArchiveInv
  <2> QED
      BY <2>1, BaselineFacts DEF BatchRecords
<1>3. b.seq + 1 \in Closed /\ c \in Batches(mans[b.seq + 1])
  <2>1. ~(c.first + Len(c.recs) - 1 <= b.local)
      BY <1>1, <1>2
  <2> QED
      BY <2>1 DEF ArchiveInv
<1>4. b.seq + 1 \in LiveClosed(b)
    BY <1>3, BaselineFacts DEF LiveClosed
<1> QED
    BY <1>1, <1>3, <1>4, BatchHeld DEF HeldAs

(* An archived segment is in the archive under its numbers.                *)
LEMMA ArchivedSegment ==
    ASSUME NEW b \in Baselines, FilesTyped, ChainInv(b), ArchiveInv(b), b.seq + 1 \in LiveClosed(b),
           Batches(mans[b.seq + 1]) \subseteq archive, NEW n \in Nat, n > b.local, n <= mans[b.seq + 1].last
    PROVE  ArchivedAs(n) = Held(n, b)
<1>1. PICK m : m = mans[b.seq + 1]
    OBVIOUS
<1>2. /\ m \in Manifests /\ m.first > b.local /\ m.first \in Nat
      /\ m.last = m.first + Len(m.recs) - 1 /\ Len(m.recs) \in Nat
    BY <1>1, ClosedHeld
<1>3. m.first = b.local + 1
  <2>1. m.first = Before(b.seq + 1, b) + 1
      BY <1>1, ClosedHeld
  <2> QED
      BY <2>1 DEF Before
<1>4. n \in m.first .. (m.first + Len(m.recs) - 1)
    BY <1>1, <1>2, <1>3, BaselineFacts
<1>5. PICK c \in Batches(m) : n \in c.first .. (c.first + Len(c.recs) - 1)
    BY <1>2, <1>4, BatchesAre
<1>6. Held(n, b) = {c.recs[n - c.first + 1]}
    BY <1>1, <1>5, BatchHeld DEF HeldAs
<1>7. c.recs[n - c.first + 1] \in ArchivedAs(n)
  <2>1. c \in archive
      BY <1>1, <1>5
  <2> QED
      BY <1>5, <2>1 DEF ArchivedAs
<1> QED
    BY <1>6, <1>7, ArchivedAhead

-----------------------------------------------------------------------------
(* The end of what is captured.                                            *)

(* The records end with the last segment that has any.                     *)
LEMMA EndIs ==
    ASSUME NEW b \in Baselines, FilesTyped, ChainInv(b), NEW e, EndsAt(e, b)
    PROVE  /\ e \in Nat
           /\ Full(b) = {} => e = b.local
           /\ \A s \in Full(b) : (\A t \in Full(b) : t <= s) => e = Before(s, b) + Size(s) /\ e > b.local
<1>1. e \in Nat /\ b.local <= e /\ b.local \in Nat /\ b.seq \in Nat
    BY NumbersEnd, BaselineFacts
<1>2. \A s \in LiveClosed(b) : s \in Full(b)
  <2> SUFFICES ASSUME NEW s \in LiveClosed(b) PROVE s \in Full(b)
      OBVIOUS
  <2>1. Size(s) # 0 /\ s \in Closed /\ s > b.seq /\ s \in DOMAIN segs
      BY FileFacts DEF ChainInv, LiveClosed
  <2> QED
      BY <2>1 DEF Full, Live
<1>3. CASE Live(b) = {}
  <2>1. Full(b) = {}
      BY <1>3 DEF Full
  <2>2. e = b.local
      BY <1>3 DEF EndsAt
  <2> QED
      BY <1>1, <2>1, <2>2
<1>4. CASE Live(b) # {}
  <2>1. PICK u \in Live(b) : (\A t \in Live(b) : t <= u) /\ e = Before(u, b) + Size(u)
      BY <1>4 DEF EndsAt
  <2>2. u \in Nat /\ u > b.seq /\ Before(u, b) \in Nat /\ Size(u) \in Nat
        /\ (u # b.seq + 1 => u - 1 \in LiveClosed(b) /\ u - 1 \in Nat)
    <3>1. u \in DOMAIN segs
        BY DEF Live
    <3> QED
        BY <3>1, BeforeFacts, FileFacts
  <2>3. Full(b) \subseteq Live(b)
      BY DEF Full
  <2>4. CASE u \in Full(b)
    <3>1. Size(u) # 0 /\ b.local <= Before(u, b)
        BY <2>4 DEF Full, ChainInv
    <3>2. e > b.local
        BY <1>1, <2>1, <2>2, <3>1
    <3>3. \A s \in Full(b) : (\A t \in Full(b) : t <= s) => s = u
      <4> SUFFICES ASSUME NEW s \in Full(b), \A t \in Full(b) : t <= s PROVE s = u
          OBVIOUS
      <4>1. s \in Nat /\ s <= u /\ u <= s
          BY <2>1, <2>3, <2>4, FullFacts
      <4> QED
          BY <2>2, <4>1
    <3> QED
        BY <1>1, <2>1, <2>4, <3>2, <3>3
  <2>5. CASE u \notin Full(b)
    <3>1. Size(u) = 0 /\ e = Before(u, b)
      <4>1. Size(u) = 0
          BY <2>5 DEF Full
      <4> QED
          BY <2>1, <2>2, <4>1
    <3>2. CASE u = b.seq + 1
      <4>1. e = b.local
          BY <3>1, <3>2 DEF Before
      <4>2. Full(b) = {}
        <5> SUFFICES ASSUME NEW s \in Full(b) PROVE FALSE
            OBVIOUS
        <5>1. s \in Nat /\ s <= u /\ s > b.seq /\ s # u
            BY <2>1, <2>3, <2>5, FullFacts DEF Live
        <5> QED
            BY <1>1, <3>2, <5>1
      <4> QED
          BY <1>1, <4>1, <4>2
    <3>3. CASE u # b.seq + 1
      <4>1. PICK v \in LiveClosed(b) : v = u - 1 /\ v \in Nat
          BY <2>2, <3>3
      <4>2. v \in Full(b) /\ v \in Live(b)
          BY <1>2, <2>3, <4>1
      <4>3. mans[v].last = Before(v, b) + Size(v)
          BY <4>1 DEF ChainInv
      <4>4. e = Before(v, b) + Size(v)
          BY <3>1, <3>3, <4>1, <4>3 DEF Before
      <4>5. Size(v) \in Nat /\ Size(v) # 0 /\ Before(v, b) \in Nat /\ b.local <= Before(v, b)
          BY <4>2, FullFacts, BeforeFacts DEF ChainInv
      <4>6. e > b.local
          BY <1>1, <4>4, <4>5
      <4>7. \A s \in Full(b) : (\A t \in Full(b) : t <= s) => s = v
        <5> SUFFICES ASSUME NEW s \in Full(b), \A t \in Full(b) : t <= s PROVE s = v
            OBVIOUS
        <5>1. s \in Nat /\ s <= u /\ v <= s /\ s # u
            BY <2>1, <2>3, <2>5, <4>2, FullFacts
        <5> QED
            BY <2>2, <4>1, <5>1
      <4> QED
          BY <1>1, <4>2, <4>4, <4>6, <4>7
    <3> QED
        BY <3>2, <3>3
  <2> QED
      BY <2>4, <2>5
<1> QED
    BY <1>3, <1>4

(* One of the segments with records is the last.                           *)
LEMMA LastFull ==
    ASSUME NEW b, FilesTyped, Full(b) # {}
    PROVE  \E s \in Full(b) : \A t \in Full(b) : t <= s
<1>1. MaxSegments \in Nat /\ \A s \in Full(b) : s \in Nat /\ s <= MaxSegments
    BY FullFacts, FileFacts
<1>2. Full(b) \subseteq Nat
    BY <1>1
<1> QED
    BY <1>1, <1>2, MaxExists

(* The records end at one number.                                          *)
LEMMA EndsAtOne ==
    ASSUME NEW b \in Baselines, FilesTyped, ChainInv(b), NEW e, EndsAt(e, b), NEW f, EndsAt(f, b)
    PROVE  e = f
<1>1. CASE Full(b) = {}
    BY <1>1, EndIs
<1>2. CASE Full(b) # {}
  <2>1. PICK s \in Full(b) : \A t \in Full(b) : t <= s
      BY <1>2, LastFull
  <2> QED
      BY <2>1, EndIs
<1> QED
    BY <1>1, <1>2

(* last_durable_cursor is the cursor of the last record captured, and      *)
(* there is none only when nothing was.                                    *)
LEMMA LastIs ==
    ASSUME NEW b \in Baselines, FilesTyped, ChainInv(b), ArchiveInv(b), NEW e, EndsAt(e, b), NEW c, EndsWith(c, b)
    PROVE  IF c = NoCursor THEN e = 0
           ELSE \E q \in Observations : CapturedIn(e, b) = {q} /\ Cursor(q) = c
<1>1. CASE Full(b) = {}
  <2>1. e = b.local /\ c = b.cursor
      BY <1>1, EndIs DEF EndsWith
  <2>2. CASE c = NoCursor
      BY <2>1, <2>2 DEF ArchiveInv
  <2>3. CASE c # NoCursor
    <3>1. PICK q \in Observations : ArchivedAs(b.local) = {q} /\ b.cursor = Cursor(q)
        BY <2>1, <2>3 DEF ArchiveInv
    <3>2. CapturedIn(e, b) = ArchivedAs(b.local)
        BY <2>1, BaselineFacts DEF CapturedIn
    <3> QED
        BY <2>1, <2>3, <3>1, <3>2
  <2> QED
      BY <2>2, <2>3
<1>2. CASE Full(b) # {}
  <2>1. PICK s \in Full(b) : (\A t \in Full(b) : t <= s) /\ c = Cursor(LastRec(s))
      BY <1>2 DEF EndsWith
  <2>2. e = Before(s, b) + Size(s) /\ e > b.local /\ e \in Nat
      BY <2>1, EndIs
  <2>3. s \in Live(b) /\ s \in DOMAIN segs /\ Size(s) \in Nat /\ Size(s) >= 1 /\ LastRec(s) \in Observations
      BY FullFacts
  <2>4. PICK p : p = <<s, Size(s)>>
      OBVIOUS
  <2>5. p \in Positions /\ p[1] = s /\ p[2] = Size(s)
      BY <2>3, <2>4, PositionFacts
  <2>6. p \in LivePositions(b)
      BY <2>3, <2>5 DEF LivePositions, Live
  <2>7. Number(p, b) = e
      BY <2>2, <2>5, <2>6, NumberIs
  <2>8. Rec(p) = LastRec(s)
      BY <2>5 DEF Rec, LastRec, Size
  <2>9. Held(Number(p, b), b) = {Rec(p)}
      BY <2>6, HeldIs
  <2>10. CapturedIn(e, b) = {LastRec(s)}
    <3>1. ~(e <= b.local)
        BY <2>2, BaselineFacts
    <3> QED
        BY <2>7, <2>8, <2>9, <3>1 DEF CapturedIn
  <2>11. c # NoCursor
      BY <2>1, <2>3, ObservationFacts
  <2> QED
      BY <2>1, <2>3, <2>10, <2>11
<1> QED
    BY <1>1, <1>2

-----------------------------------------------------------------------------
(* Cleaning up the archived segment.                                       *)

(* Files of the segment b.seq are removed, the others stay.                *)
Pruned(b) ==
    /\ FilesTyped'
    /\ \A s \in DOMAIN segs' : s \in DOMAIN segs /\ segs'[s] = segs[s]
    /\ \A s \in DOMAIN segs : s # b.seq => s \in DOMAIN segs'
    /\ \A s \in DOMAIN mans' : s \in DOMAIN mans /\ mans'[s] = mans[s]
    /\ \A s \in DOMAIN mans : s # b.seq => s \in DOMAIN mans'

(* What is read off the files after the baseline stays.                    *)
SameLive(b) ==
    /\ Live(b)' = Live(b) /\ LiveClosed(b)' = LiveClosed(b) /\ Full(b)' = Full(b)
    /\ LivePositions(b)' = LivePositions(b)
    /\ \A p \in LivePositions(b) : Rec(p)' = Rec(p)
    /\ \A s \in Live(b) : segs'[s] = segs[s] /\ Size(s)' = Size(s)
                          /\ FirstRec(s)' = FirstRec(s) /\ LastRec(s)' = LastRec(s)
    /\ \A s \in Live(b) : Before(s, b)' = Before(s, b) /\ Link(s, b)' = Link(s, b)
    /\ \A s \in LiveClosed(b) : mans'[s] = mans[s]

(* Removing a file of the checkpointed segment leaves the later ones.      *)
LEMMA PrunedLive ==
    ASSUME NEW b \in Baselines, FilesTyped, ChainInv(b), Pruned(b)
    PROVE  SameLive(b)
<1>1. b.seq \in Nat
    BY BaselineFacts
<1>2. Live(b)' = Live(b)
  <2>1. \A s : s \in DOMAIN segs /\ s > b.seq <=> s \in DOMAIN segs' /\ s > b.seq
    <3> SUFFICES ASSUME NEW s PROVE s \in DOMAIN segs /\ s > b.seq <=> s \in DOMAIN segs' /\ s > b.seq
        OBVIOUS
    <3>1. s > b.seq => s # b.seq
        BY <1>1
    <3> QED
        BY <3>1 DEF Pruned
  <2> QED
      BY <2>1 DEF Live
<1>3. \A s \in Live(b) : s \in DOMAIN segs /\ s \in DOMAIN segs' /\ segs'[s] = segs[s] /\ s > b.seq
    BY <1>2 DEF Live, Pruned
<1>4. \A s \in Live(b) : Size(s)' = Size(s) /\ FirstRec(s)' = FirstRec(s) /\ LastRec(s)' = LastRec(s)
    BY <1>3 DEF Size, FirstRec, LastRec
<1>5. Full(b)' = Full(b)
    BY <1>2, <1>4 DEF Full
<1>6. \A s : s \in LiveClosed(b)' <=> s \in LiveClosed(b)
  <2> SUFFICES ASSUME NEW s PROVE s \in LiveClosed(b)' <=> s \in LiveClosed(b)
      OBVIOUS
  <2>1. s > b.seq => s # b.seq
      BY <1>1
  <2>2. s \in LiveClosed(b) <=> s \in DOMAIN mans /\ ~mans[s].tmp /\ s > b.seq
      BY DEF LiveClosed, Closed
  <2>3. s \in LiveClosed(b)' <=> s \in DOMAIN mans' /\ ~mans'[s].tmp /\ s > b.seq
      BY DEF LiveClosed, Closed
  <2> QED
      BY <2>1, <2>2, <2>3 DEF Pruned
<1>7. LiveClosed(b)' = LiveClosed(b)
    BY <1>6
<1>8. \A s \in LiveClosed(b) : mans'[s] = mans[s]
    BY <1>7 DEF LiveClosed, Closed, Pruned
<1>9. ASSUME NEW s \in Live(b)
      PROVE  Before(s, b)' = Before(s, b) /\ Link(s, b)' = Link(s, b)
  <2>1. CASE s = b.seq + 1
      BY <2>1 DEF Before, Link
  <2>2. CASE s # b.seq + 1
    <3>1. s - 1 \in LiveClosed(b)
        BY <2>2, BeforeFacts
    <3>2. mans'[s - 1] = mans[s - 1]
        BY <1>8, <3>1
    <3> QED
        BY <2>2, <3>2 DEF Before, Link, Hash
  <2> QED
      BY <2>1, <2>2
<1>10. \A p : p \in LivePositions(b) <=> \E s \in Live(b) : \E j \in 1..Size(s) : p = <<s, j>>
  <2>1. ASSUME NEW p \in LivePositions(b) PROVE \E s \in Live(b) : \E j \in 1..Size(s) : p = <<s, j>>
      BY <2>1, NumberIs
  <2>2. ASSUME NEW s \in Live(b), NEW j \in 1..Size(s) PROVE <<s, j>> \in LivePositions(b)
      BY <1>3, PositionFacts DEF LivePositions
  <2> QED
      BY <2>1, <2>2
<1>11. \A p : p \in LivePositions(b)' <=> \E s \in Live(b)' : \E j \in 1..Size(s)' : p = <<s, j>>
  <2>1. ASSUME NEW p PROVE p \in LivePositions(b)' <=> \E s \in DOMAIN segs' : s > b.seq /\ \E j \in 1..Size(s)' : p = <<s, j>>
      BY DEF LivePositions, Positions, Size
  <2> QED
      BY <2>1 DEF Live
<1>12. \A p : p \in LivePositions(b)' <=> p \in LivePositions(b)
    BY <1>2, <1>4, <1>10, <1>11
<1>13. LivePositions(b)' = LivePositions(b)
    BY <1>12
<1>14. \A p \in LivePositions(b) : Rec(p)' = Rec(p)
  <2> SUFFICES ASSUME NEW p \in LivePositions(b) PROVE Rec(p)' = Rec(p)
      OBVIOUS
  <2>1. p[1] \in Live(b)
      BY NumberIs
  <2> QED
      BY <1>3, <2>1 DEF Rec
<1> QED
    BY <1>2, <1>3, <1>4, <1>5, <1>7, <1>8, <1>9, <1>13, <1>14 DEF SameLive

(* The directory stays in order, and its records and their numbers stay.   *)
LEMMA PrunedDirectory ==
    ASSUME NEW b \in Baselines, DirInv(b), Pruned(b)
    PROVE  /\ DirInv(b)' /\ SameLive(b) /\ SameLog(b)
           /\ \A c : EndsWith(c, b)' <=> EndsWith(c, b)
<1>1. FilesTyped /\ ChainInv(b) /\ OrderInv(b) /\ CountInv(b) /\ FilesTyped'
    BY DEF DirInv, Pruned
<1>2. SameLive(b)
    BY <1>1, PrunedLive
<1>3. \A e : EndsAt(e, b)' <=> EndsAt(e, b)
    BY <1>2 DEF EndsAt, SameLive
<1>4. \A c : EndsWith(c, b)' <=> EndsWith(c, b)
  <2>1. Full(b)' = Full(b) /\ \A s \in Full(b) : LastRec(s)' = LastRec(s)
      BY <1>2 DEF SameLive, Full
  <2> QED
      BY <2>1 DEF EndsWith, Cursor
<1>5. CountInv(b)'
  <2>1. LivePositions(b)' = LivePositions(b)
      BY <1>2 DEF SameLive
  <2> QED
      BY <1>1, <1>3, <2>1 DEF CountInv
<1>6. OrderInv(b)'
  <2>1. Full(b)' = Full(b) /\ Live(b)' = Live(b)
        /\ (\A s \in Live(b) : segs'[s] = segs[s])
        /\ \A s \in Full(b) : FirstRec(s)' = FirstRec(s) /\ LastRec(s)' = LastRec(s)
      BY <1>2 DEF SameLive, Full
  <2>2. \A s \in Live(b)' : Rising(segs'[s].recs)
      BY <1>1, <2>1 DEF OrderInv
  <2>3. \A s, t \in Full(b)' :
          s < t /\ FirstRec(s)'.epoch = FirstRec(t)'.epoch => LastRec(s)'.off < FirstRec(t)'.off
      BY <1>1, <2>1 DEF OrderInv
  <2>4. \A s, t, u \in Full(b)' :
          s < u /\ u < t /\ FirstRec(s)'.epoch = FirstRec(t)'.epoch => FirstRec(u)'.epoch = FirstRec(s)'.epoch
      BY <1>1, <2>1 DEF OrderInv
  <2>5. PICK f : f = FirstRec(b.seq + 1)
      OBVIOUS
  <2>6. b.seq + 1 \in Full(b)' => f = FirstRec(b.seq + 1)'
      BY <2>1, <2>5
  <2>7. b.seq + 1 \in Full(b)' /\ b.cursor # NoCursor => Successor(Cursor(f), b.cursor, TRUE)
      BY <1>1, <2>1, <2>5 DEF OrderInv
  <2>8. b.seq + 1 \in Full(b)' /\ b.cursor # NoCursor
          => Successor(Cursor(FirstRec(b.seq + 1)'), b.cursor, TRUE)
      BY <2>6, <2>7
  <2> QED
      BY <2>2, <2>3, <2>4, <2>8 DEF OrderInv, Rising, Successor, Cursor
<1>7. ChainInv(b)'
  <2>1. Live(b)' = Live(b) /\ LiveClosed(b)' = LiveClosed(b)
        /\ (\A s \in Live(b) : segs'[s] = segs[s] /\ Size(s)' = Size(s)
                               /\ Before(s, b)' = Before(s, b) /\ Link(s, b)' = Link(s, b))
        /\ \A s \in LiveClosed(b) : mans'[s] = mans[s]
      BY <1>2 DEF SameLive
  <2>2. LiveClosed(b) \subseteq Live(b) /\ b.seq \in Nat
      BY <1>1, FileFacts, BaselineFacts DEF LiveClosed, Live
  <2>3. ASSUME NEW s \in DOMAIN segs' PROVE s >= b.seq /\ \A u \in b.seq + 1 .. s - 1 : u \in Closed'
    <3>1. s \in DOMAIN segs
        BY DEF Pruned
    <3>2. s >= b.seq
        BY <1>1, <3>1 DEF ChainInv
    <3>3. ASSUME NEW u \in b.seq + 1 .. s - 1 PROVE u \in Closed'
      <4>1. u \in Closed
          BY <1>1, <3>1 DEF ChainInv
      <4>2. u > b.seq
          BY <2>2
      <4> QED
          BY <2>1, <4>1, <4>2 DEF LiveClosed
    <3> QED
        BY <3>2, <3>3
  <2>4. ASSUME NEW s \in LiveClosed(b)'
        PROVE  /\ segs'[s].hdr /\ ~segs'[s].torn /\ Size(s)' # 0 /\ mans'[s].recs = segs'[s].recs
               /\ mans'[s].prev = Link(s, b)' /\ mans'[s].first = Before(s, b)' + 1
               /\ mans'[s].last = Before(s, b)' + Size(s)'
    <3>1. s \in LiveClosed(b) /\ s \in Live(b)
        BY <2>1, <2>2
    <3>2. mans'[s] = mans[s] /\ segs'[s] = segs[s] /\ Size(s)' = Size(s)
          /\ Before(s, b)' = Before(s, b) /\ Link(s, b)' = Link(s, b)
        BY <2>1, <3>1
    <3>3. /\ segs[s].hdr /\ ~segs[s].torn /\ Size(s) # 0 /\ mans[s].recs = segs[s].recs
          /\ mans[s].prev = Link(s, b) /\ mans[s].first = Before(s, b) + 1
          /\ mans[s].last = Before(s, b) + Size(s)
        BY <1>1, <3>1 DEF ChainInv
    <3> QED
        BY <3>2, <3>3
  <2>5. b.seq \in Closed' => Hash(mans'[b.seq]) = b.hash /\ mans'[b.seq].last = b.local
    <3>1. b.seq \in Closed' => b.seq \in Closed /\ mans'[b.seq] = mans[b.seq]
        BY DEF Closed, Pruned
    <3> QED
        BY <1>1, <3>1 DEF ChainInv
  <2>6. \A s \in Live(b)' : b.local <= Before(s, b)'
      BY <1>1, <2>1 DEF ChainInv
  <2>7. ASSUME NEW s \in Live(b)', NEW t \in Live(b)', s < t PROVE mans'[s].last <= Before(t, b)'
    <3>1. s \in LiveClosed(b)
        BY <1>1, <2>1, <2>7, SpanFacts
    <3> QED
        BY <1>1, <2>1, <2>7, <3>1 DEF ChainInv
  <2> QED
      BY <2>3, <2>4, <2>5, <2>6, <2>7 DEF ChainInv, Hash
<1>8. \A n : Held(n, b)' = Held(n, b)
  <2>1. LivePositions(b)' = LivePositions(b) /\ (\A p \in LivePositions(b) : Rec(p)' = Rec(p))
        /\ \A s \in Live(b) : Before(s, b)' = Before(s, b)
      BY <1>2 DEF SameLive
  <2> QED
      BY <1>1, <1>7, <2>1, HeldSame
<1> QED
    BY <1>1, <1>2, <1>3, <1>4, <1>5, <1>6, <1>7, <1>8 DEF DirInv, SameLog

(* The spool, open or not, goes on as before.                              *)
LEMMA PrunedSpool ==
    ASSUME NEW b \in Baselines, SpoolInv(b), Pruned(b), UNCHANGED <<up, sp, stage, ackedRecs>>
    PROVE  SpoolInv(b)' /\ SameLog(b)
<1>1. DirInv(b) /\ FieldsTyped /\ MemoryInv(b) /\ AckInv(b) /\ FilesTyped /\ ChainInv(b)
    BY DEF SpoolInv, DirInv
<1>2. DirInv(b)' /\ SameLive(b) /\ SameLog(b) /\ \A c : EndsWith(c, b)' <=> EndsWith(c, b)
    BY <1>1, PrunedDirectory
<1>3. AckInv(b)'
    BY <1>1, <1>2, AckedStay DEF SameLog
<1>4. FieldsTyped'
    BY <1>1 DEF FieldsTyped, HasFields
<1>5. CASE ~up
  <2>1. up' = FALSE /\ sp' = Down /\ stage' = SpoolIdle
      BY <1>1, <1>5 DEF MemoryInv, FieldsTyped
  <2> QED
      BY <1>2, <1>3, <2>1, SpoolEnds
<1>6. CASE up
  <2>1. OpenMemory(b)'
    <3>1. SameReading(b)
        BY <1>2 DEF SameReading, SameLive, SameLog, Full
    <3>2. SameMemory
        BY DEF SameMemory
    <3>3. OpenMemory(b)
        BY <1>1, <1>6 DEF MemoryInv
    <3>4. \A s \in DOMAIN mans' : ~mans'[s].tmp
        BY <3>3 DEF OpenMemory, Pruned
    <3>5. \A s \in Live(b)' : segs'[s].hdr /\ ~segs'[s].torn
        BY <1>2, <3>3 DEF OpenMemory, SameLive
    <3> QED
        BY <3>1, <3>2, <3>3, <3>4, <3>5, OpenMemoryKept
  <2>2. StageFits(stage)'
      BY <1>1, <1>6, StageSame DEF MemoryInv
  <2>3. stage.at = "create" => CreateInv(b)'
    <3> SUFFICES ASSUME stage.at = "create" PROVE CreateInv(b)'
        OBVIOUS
    <3>1. CreateInv(b)
        BY <1>1, <1>6 DEF MemoryInv
    <3>2. PICK n : n = stage.next
        OBVIOUS
    <3>3. n > b.seq /\ (\A s \in DOMAIN segs' : s < n) /\ (n = b.seq + 1 \/ n - 1 \in LiveClosed(b)')
        BY <1>2, <3>1, <3>2 DEF CreateInv, SameLive, Pruned
    <3>4. Live(b)' \subseteq Closed'
      <4> SUFFICES ASSUME NEW s \in Live(b) PROVE s \in Closed'
          BY <1>2 DEF SameLive
      <4>1. s \in LiveClosed(b)
          BY <3>1 DEF CreateInv, LiveClosed, Live
      <4> QED
          BY <1>2, <4>1 DEF SameLive, LiveClosed
    <3>5. Link(n, b)' = Link(n, b)
      <4>1. n # b.seq + 1 => mans'[n - 1] = mans[n - 1]
          BY <1>2, <3>1, <3>2 DEF CreateInv, SameLive
      <4> QED
          BY <4>1 DEF Link, Hash
    <3>6. IF sp.writer = 0 THEN stage.obs = NoObs /\ sp.closed = LiveClosed(b)'
          ELSE sp.writer = n - 1 /\ sp.writer > b.seq /\ sp.closed = LiveClosed(b)' \ {sp.writer}
        BY <1>2, <3>1, <3>2 DEF CreateInv, SameLive
    <3>7. sp.tip = Link(n, b)'
        BY <3>1, <3>2, <3>5 DEF CreateInv
    <3>8. stage' = stage /\ sp' = sp /\ stage'.next = n
        BY <3>2
    <3> QED
        BY <3>3, <3>4, <3>6, <3>7, <3>8 DEF CreateInv
  <2>4. stage.at # "create" => WriterInv(b)'
    <3> SUFFICES ASSUME stage.at # "create" PROVE WriterInv(b)'
        OBVIOUS
    <3>1. WriterInv(b)
        BY <1>1, <1>6 DEF MemoryInv
    <3>2. PICK w : w = sp.writer
        OBVIOUS
    <3>3. w \in Live(b) /\ w \notin DOMAIN mans
        BY <3>1, <3>2 DEF WriterInv
    <3>4. w \in Live(b)' /\ w \notin DOMAIN mans' /\ sp.count = Size(w)' /\ sp.closed = LiveClosed(b)'
          /\ sp.tip = Link(w, b)'
        BY <1>2, <3>1, <3>2, <3>3 DEF WriterInv, SameLive, Pruned
    <3>5. sp' = sp /\ sp'.writer = w
        BY <3>2
    <3> QED
        BY <3>4, <3>5 DEF WriterInv
  <2> QED
      BY <1>2, <1>3, <1>4, <1>6, <2>1, <2>2, <2>3, <2>4 DEF SpoolInv, DirInv, MemoryInv
<1> QED
    BY <1>2, <1>3, <1>4, <1>5, <1>6 DEF SpoolInv, DirInv, MemoryInv

(* cleanup_archived_segment removes the manifest.                          *)
LEMMA ManifestPruned ==
    ASSUME NEW b \in Baselines, SpoolInv(b), mans' = Without(mans, b.seq), segs' = segs
    PROVE  Pruned(b)
<1>1. FilesTyped
    BY DEF SpoolInv
<1>2. DOMAIN mans' = DOMAIN mans \ {b.seq} /\ \A s \in DOMAIN mans' : mans'[s] = mans[s]
    BY DEF Without
<1>3. mans' \in [DOMAIN mans' -> Manifests]
  <2>1. \A s \in DOMAIN mans' : mans'[s] \in Manifests
      BY <1>1, <1>2 DEF FilesTyped
  <2>2. mans' = [s \in DOMAIN mans' |-> mans'[s]]
      BY DEF Without
  <2> QED
      BY <2>1, <2>2
<1>4. FilesTyped'
    BY <1>1, <1>2, <1>3 DEF FilesTyped
<1> QED
    BY <1>2, <1>4 DEF Pruned

(* Then the segment.                                                       *)
LEMMA SegmentPruned ==
    ASSUME NEW b \in Baselines, SpoolInv(b), b.seq \notin DOMAIN mans, segs' = Without(segs, b.seq), mans' = mans
    PROVE  Pruned(b) /\ b.seq \notin DOMAIN segs'
<1>1. FilesTyped
    BY DEF SpoolInv
<1>2. DOMAIN segs' = DOMAIN segs \ {b.seq} /\ \A s \in DOMAIN segs' : segs'[s] = segs[s]
    BY DEF Without
<1>3. segs' \in [DOMAIN segs' -> Segments]
  <2>1. \A s \in DOMAIN segs' : segs'[s] \in Segments
      BY <1>1, <1>2 DEF FilesTyped
  <2>2. segs' = [s \in DOMAIN segs' |-> segs'[s]]
      BY DEF Without
  <2> QED
      BY <2>1, <2>2
<1>4. FilesTyped'
    BY <1>1, <1>2, <1>3 DEF FilesTyped
<1> QED
    BY <1>2, <1>4 DEF Pruned

-----------------------------------------------------------------------------
(* The checkpoint moves to the next segment.                               *)

(* As many places as records.                                              *)
Places(s, k) == {<<s, j>> : j \in 1..k}

(* A segment with k records has k places.                                  *)
LEMMA PlacesCounted ==
    ASSUME NEW s, NEW k \in Nat, NEW D, D = Places(s, k)
    PROVE  IsFiniteSet(D) /\ Cardinality(D) = k
<1> USE DEF Places
<1>1. PICK place : place = [j \in 1..k |-> <<s, j>>]
    OBVIOUS
<1>2. place \in [1..k -> D]
    BY <1>1
<1>3. \A i, j \in 1..k : place[i] = place[j] => i = j
    BY <1>1
<1>4. \A x \in D : \E j \in 1..k : place[j] = x
    BY <1>1
<1>5. place \in Bijection(1..k, D)
    BY <1>2, <1>3, <1>4 DEF Bijection, Injection, IsInjective, Surjection
<1>6. ExistsBijection(1..k, D)
    BY <1>5 DEF ExistsBijection
<1>7. IsFiniteSet(1..k)
    BY FS_Interval
<1>8. IsFiniteSet(D)
    BY <1>6, <1>7, FS_Bijection
<1> QED
    BY <1>6, <1>8, FS_CountingElements

(* The baseline that archiving the segment after b gives.                  *)
NextBaseline(b) ==
    [seq |-> b.seq + 1, hash |-> Hash(mans[b.seq + 1]), cursor |-> Cursor(LastRec(b.seq + 1)),
     local |-> mans[b.seq + 1].last]

(* What is read off the files after it.                                    *)
Moved(b, d) ==
    /\ d.seq = b.seq + 1 /\ d.seq \in LiveClosed(b) /\ d.seq \in Full(b)
    /\ d.local = mans[d.seq].last /\ d.local = Before(d.seq, b) + Size(d.seq) /\ d.hash = Hash(mans[d.seq])
    /\ d.cursor = Cursor(LastRec(d.seq)) /\ d.cursor # NoCursor /\ d.local > b.local
    /\ Live(d) = Live(b) \ {d.seq} /\ LiveClosed(d) = LiveClosed(b) \ {d.seq} /\ Full(d) = Full(b) \ {d.seq}
    /\ \A t \in Live(d) : Before(t, d) = Before(t, b) /\ Link(t, d) = Link(t, b)

(* What the files say after the next baseline is what they said.           *)
LEMMA BaselineMoved ==
    ASSUME NEW b \in Baselines, DirInv(b), b.seq + 1 \in LiveClosed(b), NEW d, d = NextBaseline(b)
    PROVE  d \in Baselines /\ Moved(b, d)
<1>1. FilesTyped /\ ChainInv(b) /\ b.seq \in Nat /\ b.local \in Nat
    BY BaselineFacts DEF DirInv
<1>2. PICK s \in Nat : s = b.seq + 1
    BY <1>1
<1>3. s \in LiveClosed(b) /\ s \in Closed /\ s \in DOMAIN segs /\ s \in DOMAIN mans /\ s > b.seq
      /\ s \in 0..MaxSegments /\ s \in Live(b)
  <2>1. s \in LiveClosed(b) /\ s \in Closed /\ s > b.seq
      BY <1>1, <1>2 DEF LiveClosed
  <2> QED
      BY <1>1, <2>1, FileFacts DEF Live
<1>4. Size(s) \in Nat /\ Size(s) # 0 /\ mans[s].last = Before(s, b) + Size(s) /\ Before(s, b) \in Nat
      /\ b.local <= Before(s, b) /\ mans[s].seq = s
    BY <1>1, <1>3, FileFacts, BeforeFacts DEF ChainInv
<1>5. s \in Full(b)
    BY <1>3, <1>4 DEF Full
<1>6. LastRec(s) \in Observations
    BY <1>1, <1>5, FullFacts
<1>7. Hash(mans[s]) \in Hashes /\ mans[s].last \in Nat
    BY <1>1, <1>3, FileFacts DEF Hash, Hashes
<1>8. PICK c : c = Cursor(LastRec(s))
    OBVIOUS
<1>9. c \in Cursors /\ c # NoCursor
    BY <1>6, <1>8, ObservationFacts
<1>10. d = [seq |-> s, hash |-> Hash(mans[s]), cursor |-> c, local |-> mans[s].last]
    BY <1>2, <1>8 DEF NextBaseline
<1>11. d \in Baselines
    BY <1>3, <1>7, <1>9, <1>10 DEF Baselines
<1>12. d.seq = s /\ d.hash = Hash(mans[s]) /\ d.cursor = c /\ d.local = mans[s].last
    BY <1>10
<1>13. \A t \in DOMAIN segs : t \in Nat /\ t >= b.seq
    BY <1>1, FileFacts DEF ChainInv
<1>14. Live(d) = Live(b) \ {s}
    BY <1>1, <1>2, <1>12, <1>13 DEF Live
<1>15. LiveClosed(d) = LiveClosed(b) \ {s}
  <2>1. \A t \in Closed : t \in Nat
      BY <1>1, <1>13, FileFacts
  <2> QED
      BY <1>1, <1>2, <1>12, <2>1 DEF LiveClosed
<1>16. Full(d) = Full(b) \ {s}
    BY <1>14 DEF Full
<1>17. ASSUME NEW t \in Live(d) PROVE Before(t, d) = Before(t, b) /\ Link(t, d) = Link(t, b)
  <2>1. t \in Nat /\ t # s /\ t # b.seq + 1
      BY <1>2, <1>13, <1>14 DEF Live
  <2>2. CASE t = s + 1
    <3>1. t - 1 = s
        BY <2>2
    <3> QED
        BY <1>12, <2>1, <2>2, <3>1 DEF Before, Link
  <2>3. CASE t # s + 1
      BY <1>12, <2>1, <2>3 DEF Before, Link
  <2> QED
      BY <2>2, <2>3
<1>18. d.local > b.local /\ d.local = Before(s, b) + Size(s)
    BY <1>1, <1>4, <1>12
<1> QED
    BY <1>2, <1>3, <1>5, <1>8, <1>9, <1>11, <1>12, <1>14, <1>15, <1>16, <1>17, <1>18 DEF Moved

(* The records end where they did.                                         *)
LEMMA MovedEnds ==
    ASSUME NEW b \in Baselines, DirInv(b), NEW d \in Baselines, Moved(b, d)
    PROVE  /\ \A e : EndsAt(e, d) <=> EndsAt(e, b)
           /\ \A c : EndsWith(c, d) <=> EndsWith(c, b)
<1>1. FilesTyped /\ ChainInv(b) /\ b.seq \in Nat
    BY BaselineFacts DEF DirInv
<1>2. PICK s \in Nat : s = d.seq /\ s = b.seq + 1
    BY <1>1 DEF Moved
<1>3. s \in Live(b) /\ s \in Full(b) /\ Live(d) = Live(b) \ {s} /\ Full(d) = Full(b) \ {s}
      /\ d.local = Before(s, b) + Size(s) /\ d.cursor = Cursor(LastRec(s))
    BY <1>2 DEF Moved, Full
<1>4. \A t \in Live(b) : t \in Nat /\ t >= s
    BY <1>1, <1>2, FileFacts DEF Live
<1>5. ASSUME NEW e PROVE EndsAt(e, d) <=> EndsAt(e, b)
  <2>1. CASE Live(d) = {}
    <3>1. Live(b) = {s}
        BY <1>3, <2>1
    <3>2. EndsAt(e, d) <=> e = Before(s, b) + Size(s)
        BY <1>3, <2>1 DEF EndsAt
    <3>3. EndsAt(e, b) <=> e = Before(s, b) + Size(s)
        BY <3>1 DEF EndsAt
    <3> QED
        BY <3>2, <3>3
  <2>2. CASE Live(d) # {}
    <3>1. PICK u \in Live(d) : TRUE
        BY <2>2
    <3>2. \A t \in Live(d) : Before(t, d) = Before(t, b) /\ t \in Live(b) /\ t \in Nat /\ t > s
        BY <1>2, <1>3, <1>4 DEF Moved
    <3>3. EndsAt(e, d) => EndsAt(e, b)
      <4> SUFFICES ASSUME EndsAt(e, d) PROVE EndsAt(e, b)
          OBVIOUS
      <4>1. PICK t \in Live(d) : (\A x \in Live(d) : x <= t) /\ e = Before(t, d) + Size(t)
          BY <2>2 DEF EndsAt
      <4>2. \A x \in Live(b) : x <= t
          BY <1>3, <3>2, <4>1
      <4> QED
          BY <3>2, <4>1, <4>2 DEF EndsAt
    <3>4. EndsAt(e, b) => EndsAt(e, d)
      <4> SUFFICES ASSUME EndsAt(e, b) PROVE EndsAt(e, d)
          OBVIOUS
      <4>1. PICK t \in Live(b) : (\A x \in Live(b) : x <= t) /\ e = Before(t, b) + Size(t)
          BY <1>3 DEF EndsAt
      <4>2. t # s
          BY <1>4, <3>1, <3>2, <4>1
      <4>3. t \in Live(d) /\ \A x \in Live(d) : x <= t
          BY <1>3, <3>2, <4>1, <4>2
      <4> QED
          BY <3>2, <4>1, <4>3 DEF EndsAt
    <3> QED
        BY <3>3, <3>4
  <2> QED
      BY <2>1, <2>2
<1>6. ASSUME NEW c PROVE EndsWith(c, d) <=> EndsWith(c, b)
  <2>1. CASE Full(d) = {}
    <3>1. Full(b) = {s}
        BY <1>3, <2>1
    <3>2. EndsWith(c, d) <=> c = Cursor(LastRec(s))
        BY <1>3, <2>1 DEF EndsWith
    <3>3. EndsWith(c, b) <=> c = Cursor(LastRec(s))
        BY <3>1 DEF EndsWith
    <3> QED
        BY <3>2, <3>3
  <2>2. CASE Full(d) # {}
    <3>1. PICK u \in Full(d) : TRUE
        BY <2>2
    <3>2. \A t \in Full(d) : t \in Full(b) /\ t \in Nat /\ t > s
        BY <1>2, <1>3, <1>4 DEF Full
    <3>3. EndsWith(c, d) => EndsWith(c, b)
      <4> SUFFICES ASSUME EndsWith(c, d) PROVE EndsWith(c, b)
          OBVIOUS
      <4>1. PICK t \in Full(d) : (\A x \in Full(d) : x <= t) /\ c = Cursor(LastRec(t))
          BY <2>2 DEF EndsWith
      <4>2. \A x \in Full(b) : x <= t
          BY <1>3, <3>2, <4>1
      <4> QED
          BY <3>2, <4>1, <4>2 DEF EndsWith
    <3>4. EndsWith(c, b) => EndsWith(c, d)
      <4> SUFFICES ASSUME EndsWith(c, b) PROVE EndsWith(c, d)
          OBVIOUS
      <4>1. PICK t \in Full(b) : (\A x \in Full(b) : x <= t) /\ c = Cursor(LastRec(t))
          BY <1>3 DEF EndsWith
      <4>2. t # s
          BY <3>1, <3>2, <4>1
      <4>3. t \in Full(d) /\ \A x \in Full(d) : x <= t
          BY <1>3, <3>2, <4>1, <4>2
      <4> QED
          BY <4>1, <4>3 DEF EndsWith
    <3> QED
        BY <3>3, <3>4
  <2> QED
      BY <2>1, <2>2
<1> QED
    BY <1>5, <1>6

(* The chain continues the new baseline.                                   *)
LEMMA MovedChain ==
    ASSUME NEW b \in Baselines, DirInv(b), b.seq \notin DOMAIN segs, NEW d \in Baselines, Moved(b, d)
    PROVE  ChainInv(d)
<1>1. FilesTyped /\ ChainInv(b) /\ b.seq \in Nat
    BY BaselineFacts DEF DirInv
<1>2. PICK s \in Nat : s = d.seq /\ s = b.seq + 1
    BY <1>1 DEF Moved
<1>3. s \in Live(b) /\ Live(d) = Live(b) \ {s} /\ LiveClosed(d) = LiveClosed(b) \ {s}
      /\ (\A t \in Live(d) : Before(t, d) = Before(t, b) /\ Link(t, d) = Link(t, b))
      /\ d.local = mans[s].last /\ d.hash = Hash(mans[s])
    BY <1>2 DEF Moved, Full
<1>4. \A t \in DOMAIN segs : t \in Nat /\ t >= s
  <2> SUFFICES ASSUME NEW t \in DOMAIN segs PROVE t \in Nat /\ t >= s
      OBVIOUS
  <2>1. t \in Nat /\ t >= b.seq /\ t # b.seq
      BY <1>1, FileFacts DEF ChainInv
  <2> QED
      BY <1>1, <1>2, <2>1
<1>5. ASSUME NEW t \in DOMAIN segs PROVE t >= d.seq /\ \A u \in d.seq + 1 .. t - 1 : u \in Closed
  <2>1. ASSUME NEW u \in s + 1 .. t - 1 PROVE u \in Closed
    <3>1. u \in b.seq + 1 .. t - 1
        BY <1>1, <1>2, <1>4
    <3> QED
        BY <1>1, <3>1 DEF ChainInv
  <2> QED
      BY <1>2, <1>4, <2>1
<1>6. LiveClosed(d) \subseteq Live(d)
    BY <1>1, FileFacts DEF LiveClosed, Live
<1>7. \A t \in LiveClosed(d) :
         /\ segs[t].hdr /\ ~segs[t].torn /\ Size(t) # 0 /\ mans[t].recs = segs[t].recs
         /\ mans[t].prev = Link(t, d)
         /\ mans[t].first = Before(t, d) + 1
         /\ mans[t].last = Before(t, d) + Size(t)
    BY <1>1, <1>3, <1>6 DEF ChainInv
<1>8. d.seq \in Closed => Hash(mans[d.seq]) = d.hash /\ mans[d.seq].last = d.local
    BY <1>2, <1>3
<1>9. ASSUME NEW t \in Live(d) PROVE d.local <= Before(t, d)
  <2>1. s < t /\ t \in Live(b)
      BY <1>3, <1>4 DEF Live
  <2> QED
      BY <1>1, <1>3, <2>1 DEF ChainInv
<1>10. \A t, u \in Live(d) : t < u => mans[t].last <= Before(u, d)
    BY <1>1, <1>3 DEF ChainInv
<1> QED
    BY <1>5, <1>7, <1>8, <1>9, <1>10 DEF ChainInv

(* So do the cursors.                                                      *)
LEMMA MovedOrder ==
    ASSUME NEW b \in Baselines, DirInv(b), NEW d \in Baselines, Moved(b, d)
    PROVE  OrderInv(d)
<1>1. FilesTyped /\ OrderInv(b) /\ b.seq \in Nat
    BY BaselineFacts DEF DirInv
<1>2. PICK s \in Nat : s = d.seq /\ s = b.seq + 1
    BY <1>1 DEF Moved
<1>3. s \in Full(b) /\ Live(d) \subseteq Live(b) /\ Full(d) \subseteq Full(b) /\ d.cursor = Cursor(LastRec(s))
    BY <1>2 DEF Moved
<1>4. \A t \in Live(d) : Rising(segs[t].recs)
    BY <1>1, <1>3 DEF OrderInv
<1>5. \A t, u \in Full(d) :
         t < u /\ FirstRec(t).epoch = FirstRec(u).epoch => LastRec(t).off < FirstRec(u).off
    BY <1>1, <1>3 DEF OrderInv
<1>6. \A t, v, u \in Full(d) :
         t < u /\ u < v /\ FirstRec(t).epoch = FirstRec(v).epoch => FirstRec(u).epoch = FirstRec(t).epoch
    BY <1>1, <1>3 DEF OrderInv
<1>7. ASSUME d.seq + 1 \in Full(d) PROVE Successor(Cursor(FirstRec(d.seq + 1)), d.cursor, TRUE)
  <2>1. PICK t \in Full(b) : t = d.seq + 1
      BY <1>3, <1>7
  <2>2. s < t /\ LastRec(s) \in Observations /\ FirstRec(t) \in Observations /\ Size(s) \in Nat /\ Size(s) >= 1
    <3>1. t = s + 1
        BY <1>2, <2>1
    <3>2. LastRec(s) \in Observations /\ Size(s) \in Nat /\ Size(s) >= 1
        BY <1>1, <1>3, FullFacts
    <3>3. FirstRec(t) \in Observations
        BY <1>1, FullFacts
    <3> QED
        BY <3>1, <3>2, <3>3
  <2>3. FirstRec(s).epoch = LastRec(s).epoch
    <3>1. Size(s) \in 1..Size(s)
        BY <2>2
    <3>2. segs[s].recs[Size(s)].epoch = FirstRec(s).epoch
        BY <1>1, <1>3, <3>1, RangeHolds
    <3> QED
        BY <3>2 DEF LastRec, Size
  <2>4. FirstRec(s).epoch = FirstRec(t).epoch => LastRec(s).off < FirstRec(t).off
      BY <1>1, <1>3, <2>2 DEF OrderInv
  <2>5. PICK x \in Observations, y \in Observations : x = FirstRec(t) /\ y = LastRec(s)
      BY <2>2
  <2>6. y.epoch = x.epoch => y.off < x.off
      BY <2>3, <2>4, <2>5
  <2>7. Successor(Cursor(x), Cursor(y), TRUE)
    <3>1. x.off \in Nat /\ y.off \in Nat /\ Cursor(x).epoch = x.epoch /\ Cursor(y).epoch = y.epoch
          /\ Cursor(x).off = x.off /\ Cursor(y).off = y.off
        BY ObservationFacts
    <3> QED
        BY <2>6, <3>1 DEF Successor
  <2> QED
      BY <1>3, <2>1, <2>5, <2>7
<1> QED
    BY <1>4, <1>5, <1>6, <1>7 DEF OrderInv

(* So do the count of the records and their numbers.                       *)
LEMMA MovedRecords ==
    ASSUME NEW b \in Baselines, DirInv(b), NEW d \in Baselines, Moved(b, d), ChainInv(d)
    PROVE  /\ CountInv(d)
           /\ \A n \in Nat : n > d.local => Held(n, d) = Held(n, b)
<1>1. FilesTyped /\ ChainInv(b) /\ CountInv(b) /\ b.seq \in Nat /\ b.local \in Nat
    BY BaselineFacts DEF DirInv
<1>2. PICK s \in Nat : s = d.seq /\ s = b.seq + 1
    BY <1>1 DEF Moved
<1>3. /\ s \in Full(b) /\ s \in Live(b) /\ s \in DOMAIN segs
      /\ d.local = Before(s, b) + Size(s) /\ d.local \in Nat
    BY <1>2, BaselineFacts DEF Moved, Full, Live
<1>4. Before(s, b) = b.local
    BY <1>2 DEF Before
<1>5. PICK k \in Nat : k = Size(s)
    BY <1>1, <1>3, FileFacts
<1>6. PICK D : D = Places(s, k)
    OBVIOUS
<1>7. IsFiniteSet(D) /\ Cardinality(D) = k
    BY <1>6, PlacesCounted
<1>8. PICK B : B = LivePositions(b)
    OBVIOUS
<1>9. PICK R : R = LivePositions(d)
    OBVIOUS
<1>10. \A p \in B : p[1] \in Live(b) /\ p[2] \in 1..Size(p[1]) /\ p = <<p[1], p[2]>> /\ p[1] \in Nat
       /\ p[1] > b.seq /\ p \in Positions
    BY <1>1, <1>8, NumberIs DEF LivePositions, Live
<1>11. R = {p \in B : p[1] # s}
  <2>1. \A p \in R : p \in B /\ p[1] # s
    <3> SUFFICES ASSUME NEW p \in R PROVE p \in B /\ p[1] # s
        OBVIOUS
    <3>1. p \in Positions /\ p[1] > s /\ p[1] \in Nat
        BY <1>1, <1>2, <1>9, PositionFacts DEF LivePositions
    <3>2. p[1] > b.seq
        BY <1>1, <1>2, <3>1
    <3> QED
        BY <1>8, <3>1, <3>2 DEF LivePositions
  <2>2. \A p \in B : p[1] # s => p \in R
    <3> SUFFICES ASSUME NEW p \in B, p[1] # s PROVE p \in R
        OBVIOUS
    <3>1. p[1] > d.seq
        BY <1>1, <1>2, <1>10
    <3> QED
        BY <1>9, <1>10, <3>1 DEF LivePositions
  <2> QED
      BY <2>1, <2>2
<1>12. B = R \cup D /\ R \cap D = {}
  <2>1. \A p \in D : p \in B /\ p[1] = s
    <3> SUFFICES ASSUME NEW p \in D PROVE p \in B /\ p[1] = s
        OBVIOUS
    <3>1. PICK j \in 1..k : p = <<s, j>>
        BY <1>6 DEF Places
    <3>2. p \in Positions /\ p[1] = s
        BY <1>1, <1>3, <1>5, <3>1, PositionFacts
    <3> QED
        BY <1>3, <1>8, <3>2 DEF LivePositions, Live
  <2>2. \A p \in B : p[1] = s => p \in D
      BY <1>5, <1>6, <1>10 DEF Places
  <2> QED
      BY <1>11, <2>1, <2>2
<1>13. IsFiniteSet(B) /\ EndsAt(b.local + Cardinality(B), b)
    BY <1>1, <1>8 DEF CountInv
<1>14. IsFiniteSet(R)
  <2>1. R \in SUBSET B
      BY <1>12
  <2> QED
      BY <1>13, <2>1, FS_Subset
<1>15. Cardinality(B) = Cardinality(R) + k /\ Cardinality(R) \in Nat
  <2>1. Cardinality(R \cup D) = Cardinality(R) + Cardinality(D) - Cardinality(R \cap D)
      BY <1>7, <1>14, FS_Union
  <2>2. Cardinality(R \cap D) = 0
      BY <1>12, FS_EmptySet
  <2>3. Cardinality(R) \in Nat
      BY <1>14, FS_CardinalityType
  <2> QED
      BY <1>7, <1>12, <2>1, <2>2, <2>3
<1>16. b.local + Cardinality(B) = d.local + Cardinality(R)
    BY <1>1, <1>3, <1>4, <1>5, <1>15
<1>17. EndsAt(d.local + Cardinality(R), d)
    BY <1>13, <1>16, MovedEnds
<1>18. CountInv(d)
    BY <1>9, <1>14, <1>17 DEF CountInv
<1>19. ASSUME NEW n \in Nat, n > d.local PROVE Held(n, d) = Held(n, b)
  <2>1. Held(n, d) = {Rec(p) : p \in {q \in R : Number(q, d) = n}}
      BY <1>9 DEF Held, LivePositions
  <2>2. Held(n, b) = {Rec(p) : p \in {q \in B : Number(q, b) = n}}
      BY <1>8 DEF Held, LivePositions
  <2>3. ASSUME NEW p \in R PROVE Number(p, d) = Number(p, b)
    <3>1. Number(p, d) = Before(p[1], d) + p[2] /\ p[1] \in Live(d)
        BY <1>1, <1>9, NumberIs
    <3>2. Number(p, b) = Before(p[1], b) + p[2]
        BY <1>1, <1>8, <1>12, NumberIs
    <3> QED
        BY <3>1, <3>2 DEF Moved
  <2>4. ASSUME NEW p \in D PROVE Number(p, b) # n
    <3>1. PICK j \in 1..k : p = <<s, j>>
        BY <1>6 DEF Places
    <3>2. p[1] = s /\ p[2] = j
        BY <3>1
    <3>3. Number(p, b) = Before(p[1], b) + p[2]
        BY <1>1, <1>8, <1>12, NumberIs
    <3>4. Number(p, b) = b.local + j
        BY <1>4, <3>2, <3>3
    <3> QED
        BY <1>1, <1>3, <1>4, <1>5, <1>19, <3>4
  <2>5. {q \in R : Number(q, d) = n} = {q \in B : Number(q, b) = n}
      BY <1>12, <2>3, <2>4
  <2> QED
      BY <2>1, <2>2, <2>5
<1> QED
    BY <1>18, <1>19

(* The directory continues the new baseline.                               *)
LEMMA MovedDirectory ==
    ASSUME NEW b \in Baselines, DirInv(b), b.seq \notin DOMAIN segs, NEW d \in Baselines, Moved(b, d)
    PROVE  /\ DirInv(d)
           /\ \A n \in Nat : n > d.local => Held(n, d) = Held(n, b)
<1>1. ChainInv(d)
    BY MovedChain
<1>2. OrderInv(d)
    BY MovedOrder
<1>3. CountInv(d) /\ \A n \in Nat : n > d.local => Held(n, d) = Held(n, b)
    BY <1>1, MovedRecords
<1> QED
    BY <1>1, <1>2, <1>3 DEF DirInv

(* forget_archived_segment: what the open spool keeps in memory.           *)
LEMMA Forgotten ==
    ASSUME NEW s, s = Oldest, FieldsTyped, sp' = Forget
    PROVE  /\ HasFields(sp')
           /\ sp'.writer = sp.writer /\ sp'.count = sp.count /\ sp'.local = sp.local /\ sp'.last = sp.last
           /\ sp'.tip = sp.tip /\ sp'.closed = sp.closed \ {s} /\ sp'.retained = Without(sp.retained, s)
<1>1. PICK C : C = sp.closed \ {s}
    OBVIOUS
<1>2. PICK R : R = Without(sp.retained, s)
    OBVIOUS
<1>3. HasFields(sp)
    BY DEF FieldsTyped
<1>4. sp' = [sp EXCEPT !.closed = C, !.retained = R]
    BY <1>1, <1>2 DEF Forget
<1>5. DOMAIN sp = SpoolFields
    BY <1>3, Zenon DEF HasFields
<1>6. sp' = [f \in SpoolFields |-> IF f = "retained" THEN R ELSE IF f = "closed" THEN C ELSE sp[f]]
    BY <1>4, <1>5 DEF SpoolFields
<1> QED
    BY <1>1, <1>2, <1>6 DEF HasFields, SpoolFields

(* The oldest closed segment is the one after the checkpoint.              *)
LEMMA OldestIs ==
    ASSUME NEW b \in Baselines, SpoolInv(b), up, stage = SpoolIdle, sp.closed # {}
    PROVE  Oldest = b.seq + 1 /\ b.seq + 1 \in LiveClosed(b) /\ sp.closed = LiveClosed(b)
<1>1. FilesTyped /\ ChainInv(b) /\ MemoryInv(b)
    BY DEF SpoolInv
<1>2. sp.closed = LiveClosed(b)
    BY <1>1, IdleStage DEF MemoryInv, WriterInv
<1>3. PICK S : S = LiveClosed(b)
    OBVIOUS
<1>4. PICK s : s = b.seq + 1
    OBVIOUS
<1>5. s \in S /\ \A t \in S : s <= t
    BY <1>1, <1>2, <1>3, <1>4, NextClosed
<1>6. S \subseteq Int
    BY <1>1, <1>3, FileFacts DEF LiveClosed
<1>7. Min(S) = s
    BY <1>5, <1>6, MinIs
<1> QED
    BY <1>2, <1>3, <1>4, <1>5, <1>7 DEF Oldest

(* The type of an acknowledged record.                                     *)
LEMMA AckedFacts ==
    ASSUME NEW b, AckInv(b)
    PROVE  Len(ackedRecs) \in Nat
           /\ \A i \in 1..Len(ackedRecs) : ackedRecs[i].local \in Nat /\ ackedRecs[i].obs \in Observations
<1>1. PICK A : A = [obs : Observations, local : Nat]
    OBVIOUS
<1>2. ackedRecs \in Seq(A)
    BY <1>1 DEF AckInv
<1>3. Len(ackedRecs) \in Nat /\ \A i \in 1..Len(ackedRecs) : ackedRecs[i] \in A
    BY <1>2
<1>4. \A a \in A : a.local \in Nat /\ a.obs \in Observations
    BY <1>1
<1> QED
    BY <1>3, <1>4

(* publish_auxiliary_checkpoint and forget_archived_segment: the spool     *)
(* goes on from the new baseline.                                          *)
LEMMA ForgetKeeps ==
    ASSUME NEW b \in Baselines, SpoolInv(b), up, stage = SpoolIdle, sp.closed # {}, b.seq \notin DOMAIN segs,
           NEW d, d = NextBaseline(b), sp' = Forget, UNCHANGED <<segs, mans, up, stage, ackedRecs>>
    PROVE  /\ d \in Baselines /\ Moved(b, d) /\ SpoolInv(d)'
           /\ \A n \in Nat : n > d.local => Held(n, d)' = Held(n, b)
           /\ \A e : EndsAt(e, d)' <=> EndsAt(e, b)
<1>1. FilesTyped /\ FieldsTyped /\ ChainInv(b) /\ MemoryInv(b) /\ DirInv(b) /\ AckInv(b)
    BY DEF SpoolInv, DirInv
<1>2. PICK s : s = Oldest
    OBVIOUS
<1>3. s = b.seq + 1 /\ s \in LiveClosed(b) /\ sp.closed = LiveClosed(b)
    BY <1>2, OldestIs
<1>4. d \in Baselines /\ Moved(b, d)
    BY <1>1, <1>3, BaselineMoved
<1>5. DirInv(d) /\ \A n \in Nat : n > d.local => Held(n, d) = Held(n, b)
    BY <1>1, <1>4, MovedDirectory
<1>6. \A e : EndsAt(e, d) <=> EndsAt(e, b)
    BY <1>1, <1>4, MovedEnds
<1>7. \A c : EndsWith(c, d) <=> EndsWith(c, b)
    BY <1>1, <1>4, MovedEnds
<1>8. DirInv(d)' /\ SamePlaces(d) /\ Live(d)' = Live(d)
    BY <1>5, SameFilesDirectory
<1>9. \A n \in Nat : n > d.local => Held(n, d)' = Held(n, b)
    BY <1>5, <1>8 DEF SamePlaces
<1>10. \A e : EndsAt(e, d)' <=> EndsAt(e, b)
    BY <1>6, <1>8 DEF SamePlaces
<1>11. /\ HasFields(sp')
       /\ sp'.writer = sp.writer /\ sp'.count = sp.count /\ sp'.local = sp.local /\ sp'.last = sp.last
       /\ sp'.tip = sp.tip /\ sp'.closed = sp.closed \ {s} /\ sp'.retained = Without(sp.retained, s)
    BY <1>1, <1>2, Forgotten
<1>12. FieldsTyped'
    BY <1>1, <1>11 DEF FieldsTyped
<1>13. OpenMemory(b) /\ WriterInv(b) /\ StageFits(stage)
    BY <1>1, IdleStage DEF MemoryInv
<1>14. d.seq = s
    BY <1>3, <1>4 DEF Moved
<1>15. IndexInv(d)'
  <2>1. Full(d)' = Full(d) /\ Full(d) = Full(b) \ {s}
      BY <1>4, <1>8, <1>14 DEF SamePlaces, Moved
  <2>2. DOMAIN sp.retained = Full(b)
      BY <1>13 DEF OpenMemory, IndexInv
  <2>3. DOMAIN sp'.retained = Full(d)' /\ \A t \in Full(d)' : sp'.retained[t] = sp.retained[t]
      BY <1>11, <2>1, <2>2 DEF Without
  <2>4. ASSUME NEW t \in Full(d)'
        PROVE  sp'.retained[t] = [epoch |-> FirstRec(t)'.epoch, min |-> FirstRec(t)'.off,
                                  max |-> LastRec(t)'.off, first |-> Before(t, d)' + 1]
    <3>1. t \in Full(b) /\ t \in Full(d) /\ t \in Live(d) /\ t \in DOMAIN segs
        BY <2>1 DEF Full, Live
    <3>2. sp.retained[t] = [epoch |-> FirstRec(t).epoch, min |-> FirstRec(t).off,
                            max |-> LastRec(t).off, first |-> Before(t, b) + 1]
        BY <1>13, <3>1 DEF OpenMemory, IndexInv
    <3>3. Before(t, d)' = Before(t, b)
        BY <1>4, <1>8, <3>1 DEF SamePlaces, Moved
    <3>4. FirstRec(t)' = FirstRec(t) /\ LastRec(t)' = LastRec(t)
        BY <1>8, <3>1 DEF SamePlaces
    <3> QED
        BY <2>3, <3>2, <3>3, <3>4
  <2> QED
      BY <2>3, <2>4 DEF IndexInv
<1>16. OpenMemory(d)'
  <2>1. \A t \in DOMAIN mans' : ~mans'[t].tmp
      BY <1>13 DEF OpenMemory
  <2>2. \A t \in Live(d)' : segs'[t].hdr /\ ~segs'[t].torn
      BY <1>4, <1>8, <1>13 DEF OpenMemory, Moved
  <2>3. PICK l : l = sp'.local
      OBVIOUS
  <2>4. EndsAt(l, d)'
      BY <1>10, <1>11, <1>13, <2>3 DEF OpenMemory
  <2>5. PICK c : c = sp'.last
      OBVIOUS
  <2>6. EndsWith(c, d)'
    <3>1. EndsWith(c, d)
        BY <1>7, <1>11, <1>13, <2>5 DEF OpenMemory
    <3> QED
        BY <1>8, <3>1 DEF SamePlaces
  <2>7. EndsAt(sp.local, d)' /\ EndsWith(sp.last, d)'
      BY <2>3, <2>4, <2>5, <2>6 DEF EndsAt, EndsWith
  <2> QED
      BY <1>15, <2>1, <2>2, <2>7 DEF OpenMemory
<1>17. StageFits(stage)'
  <2>1. stage' = SpoolIdle
      OBVIOUS
  <2> QED
      BY <2>1, IdleStage DEF StageFits
<1>18. WriterInv(d)'
  <2>1. PICK w : w = sp.writer
      OBVIOUS
  <2>2. w \in Live(b) /\ w \notin DOMAIN mans /\ sp.count = Size(w) /\ sp.tip = Link(w, b) /\ w \in DOMAIN segs
      BY <1>13, <2>1 DEF WriterInv, Live
  <2>3. w # s
      BY <1>1, <1>3, <2>2, FileFacts DEF LiveClosed
  <2>4. w \in Live(d) /\ Link(w, d) = Link(w, b) /\ LiveClosed(d) = LiveClosed(b) \ {s}
      BY <1>4, <1>14, <2>2, <2>3 DEF Moved
  <2>5. w \in Live(d)' /\ w \notin DOMAIN mans' /\ Size(w)' = Size(w) /\ Link(w, d)' = Link(w, d)
        /\ LiveClosed(d)' = LiveClosed(d)
      BY <1>8, <2>2, <2>4 DEF SamePlaces
  <2>6. sp'.writer = w /\ sp'.count = Size(w)' /\ sp'.tip = Link(w, d)' /\ sp'.closed = LiveClosed(d)'
      BY <1>3, <1>11, <2>1, <2>2, <2>4, <2>5
  <2> QED
      BY <2>5, <2>6 DEF WriterInv
<1>19. MemoryInv(d)'
  <2>1. up' /\ stage'.at # "create"
      BY IdleStage
  <2> QED
      BY <1>16, <1>17, <1>18, <2>1 DEF MemoryInv
<1>20. AckInv(d)'
  <2>1. ackedRecs \in Seq([obs : Observations, local : Nat]) /\ AckedHeld(b)
      BY <1>1 DEF AckInv
  <2>2. ASSUME NEW i \in 1..Len(ackedRecs), ackedRecs[i].local > d.local
        PROVE  Held(ackedRecs[i].local, d)' = {ackedRecs[i].obs}
    <3>1. PICK n \in Nat : n = ackedRecs[i].local
        BY <1>1, AckedFacts
    <3>2. n > d.local /\ n > b.local
      <4>1. d.local > b.local /\ d.local \in Nat /\ b.local \in Nat
          BY <1>4, BaselineFacts DEF Moved
      <4> QED
          BY <2>2, <3>1, <4>1
    <3>3. Held(n, b) = {ackedRecs[i].obs}
        BY <2>1, <3>1, <3>2 DEF AckedHeld
    <3>4. Held(n, d)' = Held(n, b)
        BY <1>9, <3>2
    <3>5. n = ackedRecs'[i].local
        BY <3>1
    <3> QED
        BY <3>1, <3>3, <3>4, <3>5 DEF Held
  <2> QED
      BY <2>1, <2>2 DEF AckInv, AckedHeld
<1> QED
    BY <1>4, <1>8, <1>9, <1>10, <1>12, <1>19, <1>20 DEF SpoolInv, DirInv

-----------------------------------------------------------------------------
(* What is captured, from one state to the next.                           *)

(* The numbers up to e name what they named, from the baseline d.          *)
StillCaptured(e, b, d) == \A n \in 0..e : CapturedIn(n, d)' = CapturedIn(n, b)

(* The captured records stay in order while their numbers name them.       *)
LEMMA OrderedSame ==
    ASSUME NEW b, NEW d, NEW e \in Nat, Ordered(e, b), StillCaptured(e, b, d)
    PROVE  Ordered(e, d)'
<1>1. \A n \in 0..e : CapturedIn(n, d)' = CapturedIn(n, b)
    BY DEF StillCaptured
<1>2. CapturedIn(0, d)' = {}
    BY <1>1 DEF Ordered
<1>3. ASSUME NEW n \in 1..e
      PROVE  \E o \in Observations : CapturedIn(n, d)' = {o} /\ Follows(n, o, d)'
  <2>1. PICK o \in Observations : CapturedIn(n, b) = {o} /\ Follows(n, o, b)
      BY DEF Ordered
  <2>2. n \in 0..e /\ n - 1 \in 0..e
      OBVIOUS
  <2>3. CapturedIn(n, d)' = {o} /\ CapturedIn(n - 1, d)' = CapturedIn(n - 1, b)
      BY <1>1, <2>1, <2>2
  <2>4. Follows(n, o, d)'
      BY <2>1, <2>3 DEF Follows
  <2> QED
      BY <2>3, <2>4
<1>4. EpochsOnce(e, d)'
  <2>1. EpochsOnce(e, b)
      BY DEF Ordered
  <2>2. \A n \in 1..e : CapturedIn(n, d)' = CapturedIn(n, b)
      BY <1>1
  <2> QED
      BY <2>1, <2>2 DEF EpochsOnce
<1> QED
    BY <1>2, <1>3, <1>4 DEF Ordered

(* One record more, which continues the last.                              *)
LEMMA OrderedMore ==
    ASSUME NEW b, NEW e \in Nat, Ordered(e, b), StillCaptured(e, b, b),
           NEW o \in Observations, NextLine(o, e, b), CapturedIn(e + 1, b)' = {o}
    PROVE  Ordered(e + 1, b)'
<1>1. \A n \in 0..e : CapturedIn(n, b)' = CapturedIn(n, b)
    BY DEF StillCaptured
<1>2. CapturedIn(0, b)' = {}
    BY <1>1 DEF Ordered
<1>3. ASSUME NEW n \in 1..e + 1
      PROVE  \E x \in Observations : CapturedIn(n, b)' = {x} /\ Follows(n, x, b)'
  <2>1. CASE n = e + 1
    <3>1. n - 1 = e
        BY <2>1
    <3>2. CapturedIn(n - 1, b)' = CapturedIn(e, b)
        BY <1>1, <3>1
    <3>3. (\E q \in CapturedIn(e, b) : q.epoch = o.epoch /\ o.off = q.off + 1)
          \/ (o.off = 1 /\ \A q \in CapturedIn(e, b) : q.epoch # o.epoch)
        BY DEF NextLine
    <3>4. Follows(n, o, b)'
        BY <3>2, <3>3 DEF Follows
    <3> QED
        BY <2>1, <3>4
  <2>2. CASE n # e + 1
    <3>1. n \in 1..e /\ n \in 0..e /\ n - 1 \in 0..e
        BY <2>2
    <3>2. PICK x \in Observations : CapturedIn(n, b) = {x} /\ Follows(n, x, b)
        BY <3>1 DEF Ordered
    <3>3. CapturedIn(n, b)' = {x} /\ CapturedIn(n - 1, b)' = CapturedIn(n - 1, b)
        BY <1>1, <3>1, <3>2
    <3>4. Follows(n, x, b)'
        BY <3>2, <3>3 DEF Follows
    <3> QED
        BY <3>3, <3>4
  <2> QED
      BY <2>1, <2>2
<1>4. ASSUME NEW i \in 1..e + 1, NEW j \in 1..e + 1, NEW k \in 1..e + 1, i < k, k < j,
             NEW x \in CapturedIn(i, b)', NEW q \in CapturedIn(j, b)', x.epoch = q.epoch,
             NEW r \in CapturedIn(k, b)'
      PROVE  r.epoch = x.epoch
  <2>1. i \in 1..e /\ k \in 1..e /\ i \in 0..e /\ k \in 0..e
      BY <1>4
  <2>2. x \in CapturedIn(i, b) /\ r \in CapturedIn(k, b)
      BY <1>1, <2>1
  <2>3. EpochsOnce(e, b)
      BY DEF Ordered
  <2>4. CASE j # e + 1
    <3>1. j \in 1..e /\ j \in 0..e
        BY <2>4
    <3>2. q \in CapturedIn(j, b)
        BY <1>1, <3>1
    <3> QED
        BY <1>4, <2>1, <2>2, <2>3, <3>1, <3>2 DEF EpochsOnce
  <2>5. CASE j = e + 1
    <3>1. q = o
        BY <2>5
    <3>2. PICK y \in CapturedIn(e, b) : y.epoch = o.epoch
        BY <1>4, <2>1, <2>2, <3>1 DEF NextLine
    <3>3. CASE k = e
      <4>1. PICK z : CapturedIn(e, b) = {z}
          BY <2>1, <3>3 DEF Ordered
      <4>2. r = y
          BY <2>2, <3>2, <3>3, <4>1
      <4> QED
          BY <1>4, <3>1, <3>2, <4>2
    <3>4. CASE k # e
      <4>1. k < e /\ e \in 1..e
          BY <2>1, <3>4
      <4>2. x.epoch = y.epoch
          BY <1>4, <3>1, <3>2
      <4> QED
          BY <1>4, <2>1, <2>2, <2>3, <3>2, <4>1, <4>2 DEF EpochsOnce
    <3> QED
        BY <3>3, <3>4
  <2> QED
      BY <2>4, <2>5
<1>5. EpochsOnce(e + 1, b)'
    BY <1>4 DEF EpochsOnce
<1> QED
    BY <1>2, <1>3, <1>5 DEF Ordered

(* Cursors of captured records stay known.                                 *)
LEMMA KnownSame ==
    ASSUME NEW b, NEW d, NEW e \in Nat, StillCaptured(e, b, d), NEW f \in 0..e, NEW g \in Nat, f <= g,
           NEW C, KnownTo(C, f, b)
    PROVE  KnownTo(C, g, d)'
<1> SUFFICES ASSUME NEW c \in C PROVE \E n \in 1..g : \E q \in CapturedIn(n, d)' : Cursor(q) = c
    BY DEF KnownTo, Cursor
<1>1. PICK n \in 1..f : \E q \in CapturedIn(n, b) : Cursor(q) = c
    BY DEF KnownTo
<1>2. n \in 1..g /\ n \in 0..e
    OBVIOUS
<1>3. CapturedIn(n, d)' = CapturedIn(n, b)
    BY <1>2 DEF StillCaptured
<1> QED
    BY <1>1, <1>2, <1>3

(* No acknowledged record has a number beyond the last.                    *)
AckedUpTo(e) == \A i \in 1..Len(ackedRecs) : ackedRecs[i].local \in 0..e

(* An acknowledged record is captured, so it has one of the numbers.       *)
LEMMA AckedWithin ==
    ASSUME NEW b \in Baselines, NEW e, EndsAt(e, b), FilesTyped, ChainInv(b), AckInv(b), AckedCaptured(b)
    PROVE  AckedUpTo(e)
<1> SUFFICES ASSUME NEW i \in 1..Len(ackedRecs) PROVE ackedRecs[i].local \in 0..e
    BY DEF AckedUpTo
<1>1. PICK n \in Nat : n = ackedRecs[i].local
    BY AckedFacts
<1>2. e \in Nat /\ b.local <= e /\ b.local \in Nat
    BY NumbersEnd, BaselineFacts
<1>3. CapturedIn(n, b) # {}
    BY <1>1 DEF AckedCaptured
<1>4. CASE n > e
  <2>1. Held(n, b) = {}
      BY <1>4, HeldEnds
  <2>2. ~(n <= b.local)
      BY <1>2, <1>4
  <2> QED
      BY <1>3, <2>1, <2>2 DEF CapturedIn
<1>5. CASE ~(n > e)
    BY <1>1, <1>2, <1>5
<1> QED
    BY <1>4, <1>5

(* Acknowledged records stay captured.                                     *)
LEMMA AckedSame ==
    ASSUME NEW b, NEW d, NEW e \in Nat, StillCaptured(e, b, d), AckedUpTo(e), AckedCaptured(b), ackedRecs' = ackedRecs
    PROVE  AckedCaptured(d)'
<1> SUFFICES ASSUME NEW i \in 1..Len(ackedRecs) PROVE CapturedIn(ackedRecs[i].local, d)' = {ackedRecs[i].obs}
    BY DEF AckedCaptured
<1>1. PICK n : n = ackedRecs[i].local
    OBVIOUS
<1>2. n \in 0..e /\ CapturedIn(n, b) = {ackedRecs[i].obs}
    BY <1>1 DEF AckedUpTo, AckedCaptured
<1>3. CapturedIn(n, d)' = {ackedRecs[i].obs}
    BY <1>2 DEF StillCaptured
<1>4. n = ackedRecs'[i].local
    BY <1>1
<1> QED
    BY <1>3, <1>4 DEF CapturedIn, ArchivedAs, Held

(* No record is captured: what is known stays.                             *)
LEMMA LogKept ==
    ASSUME NEW b \in Baselines, NEW d \in Baselines, NEW e \in Nat, LogInv(e, b), StillCaptured(e, b, d), AckedUpTo(e),
           d.local <= e, ackedRecs' = ackedRecs,
           NEW C, C = ToSet(pending'), KnownTo(C, e, b),
           NEW A, A = srcAcked', KnownTo(A, d.local, b),
           NEW o, o = stage'.obs, o # NoObs => NextLine(o, e, b)
    PROVE  LogInv(e, d)'
<1>1. Ordered(e, d)'
    BY OrderedSame DEF LogInv
<1>2. AckedCaptured(d)'
    BY AckedSame DEF LogInv
<1>3. KnownTo(C, e, d)'
    BY KnownSame
<1>4. KnownTo(A, d.local, d)'
  <2>1. d.local \in Nat /\ d.local \in 0..e
      BY BaselineFacts
  <2> QED
      BY <2>1, KnownSame
<1>5. o # NoObs => NextLine(o, e, d)'
  <2> SUFFICES ASSUME o # NoObs PROVE NextLine(o, e, d)'
      OBVIOUS
  <2>1. \A n \in 0..e : CapturedIn(n, d)' = CapturedIn(n, b)
      BY DEF StillCaptured
  <2>2. e \in 0..e
      OBVIOUS
  <2>3. NextLine(o, e, b)
      OBVIOUS
  <2> QED
      BY <2>1, <2>2, <2>3 DEF NextLine
<1>6. KnownTo(ToSet(pending), e, d)'
    BY <1>3 DEF KnownTo
<1>7. KnownTo(srcAcked, d.local, d)'
    BY <1>4 DEF KnownTo
<1>8. (stage.obs # NoObs => NextLine(stage.obs, e, d))'
    BY <1>5 DEF NextLine
<1> QED
    BY <1>1, <1>2, <1>6, <1>7, <1>8 DEF LogInv

(* The record o is captured: acknowledged or not.                          *)
LEMMA LogGrows ==
    ASSUME NEW b \in Baselines, NEW e \in Nat, LogInv(e, b), StillCaptured(e, b, b), AckedUpTo(e), AckInv(b),
           b.local <= e, NEW o \in Observations, NextLine(o, e, b), CapturedIn(e + 1, b)' = {o},
           \/ ackedRecs' = ackedRecs
           \/ ackedRecs' = Append(ackedRecs, [obs |-> o, local |-> e + 1]),
           NEW C, C = ToSet(pending'), \A c \in C : c = Cursor(o) \/ c \in ToSet(pending),
           srcAcked' = srcAcked, stage'.obs = NoObs
    PROVE  LogInv(e + 1, b)'
<1>1. Ordered(e + 1, b)'
    BY OrderedMore DEF LogInv
<1>2. AckedCaptured(b)'
  <2>1. CASE ackedRecs' = ackedRecs
      BY <2>1, AckedSame DEF LogInv
  <2>2. CASE ackedRecs' = Append(ackedRecs, [obs |-> o, local |-> e + 1])
    <3>1. PICK l \in Nat : l = Len(ackedRecs)
        BY AckedFacts
    <3>2. PICK a : a = [obs |-> o, local |-> e + 1]
        OBVIOUS
    <3>3. a.obs = o /\ a.local = e + 1
        BY <3>2
    <3>4. PICK A : A = [obs : Observations, local : Nat]
        OBVIOUS
    <3>5. ackedRecs \in Seq(A) /\ ackedRecs' = Append(ackedRecs, a)
        BY <2>2, <3>2, <3>4 DEF AckInv
    <3>6. Len(ackedRecs') = l + 1 /\ ackedRecs'[l + 1] = a /\ \A i \in 1..l : ackedRecs'[i] = ackedRecs[i]
        BY <3>1, <3>5
    <3>7. ASSUME NEW i \in 1..Len(ackedRecs') PROVE CapturedIn(ackedRecs[i].local, b)' = {ackedRecs'[i].obs}
      <4>1. PICK n : n = ackedRecs'[i].local
          OBVIOUS
      <4>2. CapturedIn(n, b)' = {ackedRecs'[i].obs}
        <5>1. CASE i = l + 1
            BY <3>3, <3>6, <4>1, <5>1
        <5>2. CASE i # l + 1
          <6>1. i \in 1..l /\ ackedRecs'[i] = ackedRecs[i]
              BY <3>1, <3>6, <5>2
          <6>2. n = ackedRecs[i].local /\ n \in 0..e /\ CapturedIn(n, b) = {ackedRecs[i].obs}
              BY <3>1, <4>1, <6>1 DEF AckedUpTo, AckedCaptured, LogInv
          <6> QED
              BY <6>1, <6>2 DEF StillCaptured
        <5> QED
            BY <5>1, <5>2
      <4> QED
          BY <4>1, <4>2 DEF CapturedIn, ArchivedAs, Held
    <3> QED
        BY <3>7 DEF AckedCaptured
  <2> QED
      BY <2>1, <2>2
<1>3. KnownTo(C, e + 1, b)'
  <2>1. PICK P : P = ToSet(pending)
      OBVIOUS
  <2>2. KnownTo(P, e, b)
      BY <2>1 DEF LogInv
  <2>3. KnownTo(P, e + 1, b)'
      BY <2>2, KnownSame
  <2>4. e + 1 \in 1..e + 1
      OBVIOUS
  <2>5. ASSUME NEW c \in C PROVE \E n \in 1..e + 1 : \E q \in CapturedIn(n, b)' : Cursor(q) = c
    <3>1. CASE c = Cursor(o)
        BY <2>4, <3>1
    <3>2. CASE c \in P
        BY <2>3, <3>2 DEF KnownTo, Cursor
    <3> QED
        BY <2>1, <3>1, <3>2
  <2> QED
      BY <2>5 DEF KnownTo, Cursor
<1>4. KnownTo(srcAcked, b.local, b)'
  <2>1. PICK A : A = srcAcked
      OBVIOUS
  <2>2. KnownTo(A, b.local, b)
      BY <2>1 DEF LogInv
  <2>3. b.local \in Nat /\ b.local \in 0..e
      BY BaselineFacts
  <2>4. KnownTo(A, b.local, b)'
      BY <2>2, <2>3, KnownSame
  <2> QED
      BY <2>1, <2>4 DEF KnownTo
<1>5. KnownTo(ToSet(pending), e + 1, b)'
    BY <1>3 DEF KnownTo
<1> QED
    BY <1>1, <1>2, <1>4, <1>5 DEF LogInv

(* Files and archive that do not change.                                   *)
LEMMA CapturedSame ==
    ASSUME NEW b, SameLog(b), archive' = archive
    PROVE  \A n : CapturedIn(n, b)' = CapturedIn(n, b)
BY DEF CapturedIn, ArchivedAs, SameLog

(* One more record in the spool.                                           *)
LEMMA CapturedMore ==
    ASSUME NEW b \in Baselines, NEW e \in Nat, EndsAt(e, b), b.local <= e, NEW o, LongerLog(o, b), archive' = archive
    PROVE  StillCaptured(e, b, b) /\ CapturedIn(e + 1, b)' = {o} /\ EndsAt(e + 1, b)'
<1>1. EndsAt(e + 1, b)' /\ \A n : Held(n, b)' = IF n = e + 1 THEN {o} ELSE Held(n, b)
    BY DEF LongerLog
<1>2. \A n : ArchivedAs(n)' = ArchivedAs(n)
    BY DEF ArchivedAs
<1>3. ~(e + 1 <= b.local)
    BY BaselineFacts
<1>4. CapturedIn(e + 1, b)' = {o}
    BY <1>1, <1>3 DEF CapturedIn
<1>5. \A n \in 0..e : n # e + 1
    OBVIOUS
<1>6. StillCaptured(e, b, b)
    BY <1>1, <1>2, <1>5 DEF StillCaptured, CapturedIn
<1> QED
    BY <1>1, <1>4, <1>6

-----------------------------------------------------------------------------
(* The steps of the lane.                                                  *)

(* The manifest of the segment after the checkpoint stays.                 *)
NextStays(b) == b.seq + 1 \in Closed => b.seq + 1 \in Closed' /\ mans'[b.seq + 1] = mans[b.seq + 1]

(* What is known of the archive stays while it and that manifest do.       *)
LEMMA ArchiveKept ==
    ASSUME NEW b, ArchiveInv(b), NextStays(b), archive' = archive, ckpt' = ckpt
    PROVE  ArchiveInv(b)'
<1>1. PICK m : m = mans[b.seq + 1]
    OBVIOUS
<1>2. b.seq + 1 \in Closed => b.seq + 1 \in Closed' /\ m = mans'[b.seq + 1]
    BY <1>1 DEF NextStays
<1>3. \A n : ArchivedAs(n)' = ArchivedAs(n)
    BY DEF ArchivedAs
<1>4. \A c \in archive' : c.first + Len(c.recs) - 1 <= b.local
                          \/ (b.seq + 1 \in Closed' /\ c \in Batches(mans'[b.seq + 1]))
    BY <1>1, <1>2 DEF ArchiveInv
<1>5. archive' \subseteq BatchRecords /\ ckpt'.entries \subseteq archive'
    BY DEF ArchiveInv
<1>6. IF b.cursor = NoCursor THEN b.local = 0
      ELSE b.local # 0 /\ \E q \in Observations : ArchivedAs(b.local)' = {q} /\ b.cursor = Cursor(q)
    BY <1>3 DEF ArchiveInv
<1>7. (\A c \in archive : c.first + Len(c.recs) - 1 <= b.local
                          \/ (b.seq + 1 \in Closed /\ c \in Batches(mans[b.seq + 1])))'
    BY <1>4 DEF Batches, BatchStarts
<1> QED
    BY <1>5, <1>6, <1>7 DEF ArchiveInv, BatchRecords, Cursor

(* A step that captures nothing and leaves archive and checkpoint.         *)
LEMMA LaneKept ==
    ASSUME NEW b \in Baselines, NEW e, LaneAt(e, b), SpoolInv(b)', SameLog(b), NextStays(b),
           UNCHANGED <<archive, ckpt, ackedRecs>>, TaskTyped', PhaseInv(b)', SourceInv',
           NEW C, C = ToSet(pending'), KnownTo(C, e, b),
           NEW A, A = srcAcked', KnownTo(A, b.local, b),
           NEW o, o = stage'.obs, o # NoObs => NextLine(o, e, b)
    PROVE  LaneAt(e, b)'
<1>1. FilesTyped /\ ChainInv(b) /\ AckInv(b) /\ EndsAt(e, b) /\ LogInv(e, b) /\ ArchiveInv(b) /\ b = Baseline
    BY DEF LaneAt, SpoolInv
<1>2. e \in Nat /\ b.local <= e
    BY <1>1, NumbersEnd
<1>3. EndsAt(e, b)'
    BY <1>1 DEF SameLog
<1>4. StillCaptured(e, b, b)
    BY CapturedSame DEF StillCaptured
<1>5. AckedUpTo(e)
    BY <1>1, AckedWithin DEF LogInv
<1>6. LogInv(e, b)'
    BY <1>1, <1>2, <1>4, <1>5, LogKept
<1>7. ArchiveInv(b)'
    BY <1>1, ArchiveKept
<1>8. (b = Baseline)'
    BY <1>1 DEF Baseline
<1> QED
    BY <1>3, <1>6, <1>7, <1>8 DEF LaneAt

(* The same, of a step that acknowledges nothing and begins no append.     *)
LEMMA LaneQuiet ==
    ASSUME NEW b \in Baselines, NEW e, LaneAt(e, b), SpoolInv(b)', SameLog(b), NextStays(b),
           UNCHANGED <<archive, ckpt, ackedRecs, srcAcked>>, TaskTyped', PhaseInv(b)', SourceInv',
           pending' = pending \/ pending' = <<>>, stage'.obs = NoObs \/ stage'.obs = stage.obs
    PROVE  LaneAt(e, b)'
<1>1. LogInv(e, b)
    BY DEF LaneAt
<1>2. PICK C : C = ToSet(pending')
    OBVIOUS
<1>3. KnownTo(C, e, b)
  <2>1. CASE pending' = pending
      BY <1>1, <1>2, <2>1 DEF LogInv
  <2>2. CASE pending' = <<>>
    <3>1. C = {}
        BY <1>2, <2>2 DEF ToSet
    <3> QED
        BY <3>1 DEF KnownTo
  <2> QED
      BY <2>1, <2>2
<1>4. PICK A : A = srcAcked'
    OBVIOUS
<1>5. KnownTo(A, b.local, b)
    BY <1>1, <1>4 DEF LogInv
<1>6. PICK o : o = stage'.obs
    OBVIOUS
<1>7. o # NoObs => NextLine(o, e, b)
    BY <1>1, <1>6 DEF LogInv
<1> QED
    BY <1>2, <1>3, <1>4, <1>5, <1>6, <1>7, LaneKept

(* Files that do not change.                                               *)
LEMMA SameFilesLog ==
    ASSUME NEW b, SpoolInv(b), UNCHANGED <<segs, mans>>
    PROVE  SameLog(b) /\ NextStays(b)
<1>1. SamePlaces(b)
    BY SameFilesDirectory DEF SpoolInv, DirInv
<1> QED
    BY <1>1 DEF SamePlaces, SameLog, NextStays

(* bind_auxiliary_checkpoint: the task starts.                             *)
LEMMA StartKeeps ==
    ASSUME NEW b \in Baselines, NEW e, LaneAt(e, b), Start
    PROVE  LaneAt(e, b)'
<1>1. SpoolInv(b) /\ FilesTyped /\ TaskTyped /\ PhaseInv(b) /\ SourceInv /\ b = Baseline /\ FieldsTyped /\ MemoryInv(b)
    BY DEF LaneAt, SpoolInv
<1>2. UNCHANGED spoolVars /\ phase = "stopped" /\ mode' = "startup" /\ phase' \in {"open", "clean"}
      /\ (phase' = "open" => ckpt = NoCkpt)
      /\ UNCHANGED <<gens, src, pending, archive, arcCkpt, ckpt, srcAcked, faults>>
    BY DEF Start
<1>3. UNCHANGED <<segs, mans, up, sp, stage, ackedRecs>>
    BY <1>2 DEF spoolVars
<1>4. SpoolInv(b)'
    BY <1>1, <1>3, SpoolSame
<1>5. SameLog(b) /\ NextStays(b)
    BY <1>1, <1>3, SameFilesLog
<1>6. TaskTyped'
    BY <1>1, <1>2 DEF TaskTyped
<1>7. ~up /\ pending = <<>> /\ stage = SpoolIdle
  <2>1. ~up
      BY <1>1, <1>2 DEF PhaseInv
  <2> QED
      BY <1>1, <2>1 DEF PhaseInv, MemoryInv
<1>8. phase' = "open" => b.seq \notin DOMAIN segs
  <2>1. ckpt = NoCkpt => b.seq = 0
      BY <1>1 DEF Baseline, NoCkpt
  <2>2. 0 \notin DOMAIN segs
      BY <1>1 DEF FilesTyped
  <2> QED
      BY <1>2, <2>1, <2>2
<1>9. PhaseInv(b)'
    BY <1>2, <1>3, <1>7, <1>8, IdleStage DEF PhaseInv
<1>10. SourceInv'
    BY <1>1, <1>2, <1>3, <1>7 DEF SourceInv
<1> QED
    BY <1>2, <1>3, <1>4, <1>5, <1>6, <1>9, <1>10, LaneQuiet

(* Nothing is left to archive.                                             *)
LEMMA ArchivedKeeps ==
    ASSUME NEW b \in Baselines, NEW e, LaneAt(e, b), Archived
    PROVE  LaneAt(e, b)'
<1>1. SpoolInv(b) /\ TaskTyped /\ PhaseInv(b) /\ SourceInv
    BY DEF LaneAt
<1>2. UNCHANGED spoolVars /\ phase = "archive" /\ up /\ stage = SpoolIdle /\ sp.closed = {}
      /\ phase' = (IF mode = "startup" THEN "source" ELSE "ack")
      /\ UNCHANGED <<mode, gens, src, pending, archive, arcCkpt, ckpt, srcAcked, faults>>
    BY DEF Archived, Archiving
<1>3. UNCHANGED <<segs, mans, up, sp, stage, ackedRecs>>
    BY <1>2 DEF spoolVars
<1>4. SpoolInv(b)'
    BY <1>1, <1>3, SpoolSame
<1>5. SameLog(b) /\ NextStays(b)
    BY <1>1, <1>3, SameFilesLog
<1>6. TaskTyped'
    BY <1>1, <1>2 DEF TaskTyped
<1>7. phase' \in {"source", "ack"} /\ (phase' = "source" => mode = "startup") /\ (phase' = "ack" => mode # "startup")
    BY <1>2
<1>8. sp.count = 0 /\ b.seq \notin DOMAIN segs /\ (mode = "startup" => pending = <<>>) /\ stage.obs = NoObs /\ stage.at = "idle"
    BY <1>1, <1>2, IdleStage DEF PhaseInv
<1>9. PhaseInv(b)'
    BY <1>2, <1>3, <1>7, <1>8 DEF PhaseInv
<1>10. SourceInv'
    BY <1>1, <1>2, <1>3, <1>7 DEF SourceInv
<1> QED
    BY <1>2, <1>3, <1>4, <1>5, <1>6, <1>9, <1>10, LaneQuiet

(* Everything captured is archived and covered: the group is acknowledged. *)
LEMMA AcknowledgeKeeps ==
    ASSUME NEW b \in Baselines, NEW e, LaneAt(e, b), Acknowledge
    PROVE  LaneAt(e, b)'
<1>1. SpoolInv(b) /\ TaskTyped /\ PhaseInv(b) /\ SourceInv /\ LogInv(e, b) /\ EndsAt(e, b)
    BY DEF LaneAt
<1>2. UNCHANGED spoolVars /\ phase = "ack" /\ phase' = AfterAck /\ pending' = <<>>
      /\ srcAcked' = srcAcked \cup ToSet(pending)
      /\ UNCHANGED <<mode, gens, src, archive, arcCkpt, ckpt, faults>>
    BY DEF Acknowledge
<1>3. UNCHANGED <<segs, mans, up, sp, stage, ackedRecs>>
    BY <1>2 DEF spoolVars
<1>4. SpoolInv(b)'
    BY <1>1, <1>3, SpoolSame
<1>5. SameLog(b) /\ NextStays(b)
    BY <1>1, <1>3, SameFilesLog
<1>6. up /\ stage = SpoolIdle /\ sp.count = 0 /\ sp.closed = {} /\ mode # "startup" /\ b.seq \notin DOMAIN segs
    BY <1>1, <1>2 DEF PhaseInv
<1>7. mode \in {"group", "reopen", "stop"}
    BY <1>1, <1>6 DEF TaskTyped
<1>8. phase' \in {"run", "source", "closing"} /\ (phase' = "run" <=> mode = "group")
    BY <1>2, <1>7 DEF AfterAck
<1>9. TaskTyped'
  <2>1. pending' \in Seq(Cursors)
      BY <1>2
  <2> QED
      BY <1>1, <1>2, <1>8, <2>1 DEF TaskTyped
<1>10. PhaseInv(b)'
    BY <1>2, <1>3, <1>6, <1>8, IdleStage DEF PhaseInv
<1>11. SourceInv'
    BY <1>1, <1>2, <1>3, <1>8 DEF SourceInv
<1>12. e = b.local
  <2>1. FilesTyped /\ ChainInv(b) /\ MemoryInv(b)
      BY <1>1 DEF SpoolInv
  <2>2. WriterInv(b)
      BY <1>6, <2>1, IdleStage DEF MemoryInv
  <2>3. PICK w \in Live(b) : w = sp.writer
      BY <2>2 DEF WriterInv
  <2>4. w \notin Closed /\ Size(w) = 0 /\ LiveClosed(b) = {}
      BY <1>6, <2>1, <2>2, <2>3, FileFacts DEF WriterInv
  <2>5. Full(b) = {}
    <3> SUFFICES ASSUME NEW s \in Full(b) PROVE FALSE
        OBVIOUS
    <3>1. s \in Live(b) /\ Size(s) # 0
        BY DEF Full
    <3>2. s # w
        BY <2>4, <3>1
    <3> QED
        BY <2>1, <2>4, <3>1, <3>2, OpenIsLast
  <2> QED
      BY <1>1, <2>1, <2>5, EndIs
<1>13. PICK C : C = ToSet(pending')
    OBVIOUS
<1>14. KnownTo(C, e, b)
  <2>1. C = {}
      BY <1>2, <1>13 DEF ToSet
  <2> QED
      BY <2>1 DEF KnownTo
<1>15. PICK A : A = srcAcked'
    OBVIOUS
<1>16. KnownTo(A, b.local, b)
    BY <1>1, <1>2, <1>12, <1>15 DEF KnownTo, LogInv
<1>17. PICK o : o = stage'.obs
    OBVIOUS
<1>18. o = NoObs
    BY <1>3, <1>6, <1>17, IdleStage
<1> QED
    BY <1>2, <1>3, <1>4, <1>5, <1>9, <1>10, <1>11, <1>13, <1>14, <1>15, <1>16, <1>17, <1>18, LaneKept

(* NodeLineFileSource::open at the durable cursor.                         *)
LEMMA OpenSourceKeeps ==
    ASSUME NEW b \in Baselines, NEW e, LaneAt(e, b), OpenSource
    PROVE  LaneAt(e, b)'
<1>1. SpoolInv(b) /\ TaskTyped /\ PhaseInv(b) /\ SourceInv /\ FieldsTyped
    BY DEF LaneAt, SpoolInv
<1>2. UNCHANGED spoolVars /\ phase = "source" /\ phase' = "run" /\ gens # <<>>
      /\ src' = [gen |-> Len(gens), off |-> IF sp.last.epoch = Last(gens).epoch THEN sp.last.off ELSE 0]
      /\ UNCHANGED <<mode, gens, pending, archive, arcCkpt, ckpt, srcAcked, faults>>
    BY DEF OpenSource
<1>3. UNCHANGED <<segs, mans, up, sp, stage, ackedRecs>>
    BY <1>2 DEF spoolVars
<1>4. SpoolInv(b)'
    BY <1>1, <1>3, SpoolSame
<1>5. SameLog(b) /\ NextStays(b)
    BY <1>1, <1>3, SameFilesLog
<1>6. TaskTyped'
    BY <1>1, <1>2 DEF TaskTyped
<1>7. up /\ stage = SpoolIdle /\ sp.count = 0 /\ sp.closed = {} /\ pending = <<>> /\ b.seq \notin DOMAIN segs
    BY <1>1, <1>2 DEF PhaseInv
<1>8. PhaseInv(b)'
    BY <1>2, <1>3, <1>7, IdleStage DEF PhaseInv
<1>9. SourceInv'
  <2>1. Len(gens) \in Nat /\ Len(gens) # 0 /\ Last(gens) = gens[Len(gens)]
      BY <1>1, <1>2 DEF SourceInv, Last
  <2>2. sp.last \in Cursors \cup {NoCursor}
      BY <1>1 DEF FieldsTyped
  <2>3. sp.last.off \in Nat /\ (sp.last = NoCursor => sp.last.off = 0)
      BY <2>2, SpoolConstants DEF Cursors, NoCursor
  <2>4. PICK x \in Nat : /\ x = IF sp.last.epoch = Last(gens).epoch THEN sp.last.off ELSE 0
                         /\ x = 0 \/ (sp.last # NoCursor /\ sp.last.epoch = Last(gens).epoch /\ x = sp.last.off)
      BY <2>3
  <2>5. src' = [gen |-> Len(gens), off |-> x]
      BY <1>2, <2>4
  <2>6. src' \in [gen : Nat, off : Nat] /\ src'.gen = Len(gens) /\ src'.off = x
      BY <2>1, <2>5
  <2> QED
      BY <1>1, <1>2, <1>3, <1>7, <2>1, <2>4, <2>6 DEF SourceInv
<1> QED
    BY <1>2, <1>3, <1>4, <1>5, <1>6, <1>8, <1>9, LaneQuiet

(* rotate_if_ready: at the end of the replaced file the path is opened.    *)
LEMMA FollowRotationKeeps ==
    ASSUME NEW b \in Baselines, NEW e, LaneAt(e, b), FollowRotation
    PROVE  LaneAt(e, b)'
<1>1. SpoolInv(b) /\ TaskTyped /\ PhaseInv(b) /\ SourceInv
    BY DEF LaneAt
<1>2. UNCHANGED spoolVars /\ phase = "run" /\ src.gen < Len(gens) /\ src' = [gen |-> Len(gens), off |-> 0]
      /\ UNCHANGED <<phase, mode, gens, pending, archive, arcCkpt, ckpt, srcAcked, faults>> /\ up
    BY DEF FollowRotation, Running
<1>3. UNCHANGED <<segs, mans, up, sp, stage, ackedRecs>>
    BY <1>2 DEF spoolVars
<1>4. SpoolInv(b)'
    BY <1>1, <1>3, SpoolSame
<1>5. SameLog(b) /\ NextStays(b)
    BY <1>1, <1>3, SameFilesLog
<1>6. TaskTyped'
    BY <1>1, <1>2 DEF TaskTyped
<1>7. PhaseInv(b)'
    BY <1>1, <1>2, <1>3 DEF PhaseInv
<1>8. SourceInv'
  <2>1. Len(gens) \in Nat /\ src.gen \in Nat
      BY <1>1 DEF SourceInv
  <2>2. src' \in [gen : Nat, off : Nat] /\ src'.gen = Len(gens) /\ src'.off = 0 /\ Len(gens) # 0
      BY <1>2, <2>1
  <2> QED
      BY <1>1, <1>2, <1>3, <2>1, <2>2 DEF SourceInv
<1> QED
    BY <1>2, <1>3, <1>4, <1>5, <1>6, <1>7, <1>8, LaneQuiet

(* The deadline of the group, a disconnect or a cancellation.              *)
LEMMA FlushKeeps ==
    ASSUME NEW b \in Baselines, NEW e, LaneAt(e, b), NEW why \in {"group", "reopen", "stop"}, Flush(why)
    PROVE  LaneAt(e, b)'
<1>1. SpoolInv(b) /\ TaskTyped /\ PhaseInv(b) /\ SourceInv
    BY DEF LaneAt
<1>2. UNCHANGED spoolVars /\ phase = "run" /\ mode' = why /\ up /\ stage = SpoolIdle
      /\ phase' = (IF pending # <<>> THEN "seal" ELSE IF why = "reopen" THEN "source" ELSE "closing")
      /\ UNCHANGED <<gens, src, pending, archive, arcCkpt, ckpt, srcAcked>>
      /\ (faults' = faults \/ (faults < MaxFaults /\ faults' = faults + 1))
    BY DEF Flush, Running
<1>3. UNCHANGED <<segs, mans, up, sp, stage, ackedRecs>>
    BY <1>2 DEF spoolVars
<1>4. SpoolInv(b)'
    BY <1>1, <1>3, SpoolSame
<1>5. SameLog(b) /\ NextStays(b)
    BY <1>1, <1>3, SameFilesLog
<1>6. phase' \in {"seal", "source", "closing"} /\ (phase' # "seal" => pending = <<>>)
    BY <1>2
<1>7. TaskTyped'
  <2>1. faults' \in 0..MaxFaults
      BY <1>1, <1>2, LaneConstants DEF TaskTyped
  <2> QED
      BY <1>1, <1>2, <1>6, <2>1 DEF TaskTyped
<1>8. b.seq \notin DOMAIN segs /\ (pending = <<>> => sp.count = 0 /\ sp.closed = {})
    BY <1>1, <1>2 DEF PhaseInv
<1>9. PhaseInv(b)'
    BY <1>2, <1>3, <1>6, <1>8, IdleStage DEF PhaseInv
<1>10. SourceInv'
    BY <1>1, <1>2, <1>3, <1>6 DEF SourceInv
<1> QED
    BY <1>2, <1>3, <1>4, <1>5, <1>7, <1>9, <1>10, LaneQuiet

(* The log grows or is rotated: the lane does not move.                    *)
LEMMA GenerationsKeep ==
    ASSUME NEW b \in Baselines, NEW e, LaneAt(e, b), UNCHANGED <<spoolVars, phase, mode, src, pending, archive, arcCkpt, ckpt, srcAcked, faults>>,
           gens' \in Seq(Generations), Len(gens) <= Len(gens'),
           \A g \in 1..Len(gens') : Len(gens'[g].lines) <= MaxLines,
           \A g \in 1..Len(gens) : gens'[g].epoch = gens[g].epoch
    PROVE  LaneAt(e, b)'
<1>1. SpoolInv(b) /\ TaskTyped /\ PhaseInv(b) /\ SourceInv
    BY DEF LaneAt
<1>2. UNCHANGED <<segs, mans, up, sp, stage, ackedRecs>>
    BY DEF spoolVars
<1>3. SpoolInv(b)'
    BY <1>1, <1>2, SpoolSame
<1>4. SameLog(b) /\ NextStays(b)
    BY <1>1, <1>2, SameFilesLog
<1>5. TaskTyped'
    BY <1>1 DEF TaskTyped
<1>6. PhaseInv(b)'
  <2>1. Batches(mans[b.seq + 1])' = Batches(mans[b.seq + 1])
      BY <1>2 DEF Batches, BatchStarts, Hash
  <2> QED
      BY <1>1, <1>2, <2>1 DEF PhaseInv
<1>7. SourceInv'
  <2>1. Len(gens) \in Nat /\ Len(gens') \in Nat /\ src.gen \in Nat /\ src.gen <= Len(gens)
      BY <1>1 DEF SourceInv
  <2>2. src' = src /\ src'.gen <= Len(gens') /\ phase' = phase /\ mode' = mode
      BY <2>1
  <2>3. src.gen # 0 => gens'[src.gen].epoch = gens[src.gen].epoch
      BY <2>1
  <2>4. phase = "append" => src.gen # 0 \/ ~up
      BY <1>1 DEF SourceInv
  <2>5. phase = "append" => up
      BY <1>1 DEF PhaseInv
  <2> QED
      BY <1>1, <1>2, <2>2, <2>3, <2>4, <2>5 DEF SourceInv
<1> QED
    BY <1>2, <1>3, <1>4, <1>5, <1>6, <1>7, LaneQuiet

(* The node appends a line to its output file.                             *)
LEMMA AppendLineKeeps ==
    ASSUME NEW b \in Baselines, NEW e, LaneAt(e, b), AppendLine
    PROVE  LaneAt(e, b)'
<1>1. PICK x \in Bodies :
        /\ gens # <<>> /\ Len(Last(gens).lines) < MaxLines
        /\ gens' = [gens EXCEPT ![Len(gens)].lines = Append(@, x)]
        /\ UNCHANGED <<spoolVars, phase, mode, src, pending, archive, arcCkpt, ckpt, srcAcked, faults>>
    BY DEF AppendLine
<1>2. gens \in Seq(Generations) /\ \A g \in 1..Len(gens) : Len(gens[g].lines) <= MaxLines
    BY DEF LaneAt, SourceInv
<1>3. PICK n \in Nat : n = Len(gens) /\ n # 0
    BY <1>1, <1>2
<1>4. gens[n] \in Generations /\ Last(gens) = gens[n] /\ DOMAIN gens = 1..n /\ \A g \in 1..n : gens[g] \in Generations
    BY <1>2, <1>3 DEF Last
<1>5. PICK h : h = [gens[n] EXCEPT !.lines = Append(@, x)]
    OBVIOUS
<1>6. h \in Generations /\ h.epoch = gens[n].epoch /\ Len(h.lines) <= MaxLines
  <2>1. gens[n].lines \in Seq(Bodies) /\ Len(gens[n].lines) < MaxLines /\ gens[n].epoch \in Epochs
      BY <1>1, <1>4 DEF Generations
  <2>2. PICK l : l = Append(gens[n].lines, x)
      OBVIOUS
  <2>3. l \in Seq(Bodies) /\ Len(l) = Len(gens[n].lines) + 1
      BY <2>1, <2>2
  <2>4. h = [epoch |-> gens[n].epoch, lines |-> l]
      BY <1>4, <1>5, <2>2 DEF Generations
  <2>5. Len(h.lines) <= MaxLines
      BY <2>1, <2>3, <2>4, LaneConstants
  <2> QED
      BY <2>1, <2>3, <2>4, <2>5 DEF Generations
<1>7. gens' = [gens EXCEPT ![n] = h]
    BY <1>1, <1>3, <1>5
<1>8. gens' \in Seq(Generations) /\ Len(gens') = n
    BY <1>2, <1>3, <1>6, <1>7
<1>9. \A g \in 1..n : gens'[g] = IF g = n THEN h ELSE gens[g]
    BY <1>4, <1>7
<1>10. \A g \in 1..Len(gens') : Len(gens'[g].lines) <= MaxLines
    BY <1>2, <1>3, <1>6, <1>8, <1>9
<1>11. \A g \in 1..Len(gens) : gens'[g].epoch = gens[g].epoch
    BY <1>3, <1>6, <1>9
<1>12. Len(gens) <= Len(gens')
    BY <1>3, <1>8
<1> QED
    BY <1>1, <1>8, <1>10, <1>11, <1>12, GenerationsKeep

(* The node starts a new output file.                                      *)
LEMMA RotateLogKeeps ==
    ASSUME NEW b \in Baselines, NEW e, LaneAt(e, b), RotateLog
    PROVE  LaneAt(e, b)'
<1>1. PICK p \in Epochs, x \in Bodies :
        /\ gens' = Append(gens, [epoch |-> p, lines |-> <<x>>])
        /\ UNCHANGED <<spoolVars, phase, mode, src, pending, archive, arcCkpt, ckpt, srcAcked, faults>>
    BY DEF RotateLog
<1>2. gens \in Seq(Generations) /\ \A g \in 1..Len(gens) : Len(gens[g].lines) <= MaxLines
    BY DEF LaneAt, SourceInv
<1>3. PICK n \in Nat : n = Len(gens)
    BY <1>2
<1>4. PICK l : l = <<x>>
    OBVIOUS
<1>5. l \in Seq(Bodies) /\ Len(l) = 1
    BY <1>4
<1>6. PICK h : h = [epoch |-> p, lines |-> l]
    OBVIOUS
<1>7. h \in Generations /\ Len(h.lines) <= MaxLines
  <2>1. Len(h.lines) = 1
      BY <1>5, <1>6
  <2>2. 1 <= MaxLines
      BY LaneConstants, SpoolConstants
  <2>3. h \in Generations
      BY <1>5, <1>6 DEF Generations
  <2> QED
      BY <2>1, <2>2, <2>3
<1>8. gens' = Append(gens, h)
    BY <1>1, <1>4, <1>6
<1>9. gens' \in Seq(Generations) /\ Len(gens') = n + 1 /\ gens'[n + 1] = h /\ \A g \in 1..n : gens'[g] = gens[g]
    BY <1>2, <1>3, <1>7, <1>8
<1>10. \A g \in 1..Len(gens') : Len(gens'[g].lines) <= MaxLines
  <2> SUFFICES ASSUME NEW g \in 1..n + 1 PROVE Len(gens'[g].lines) <= MaxLines
      BY <1>9
  <2>1. CASE g = n + 1
      BY <1>7, <1>9, <2>1
  <2>2. CASE g # n + 1
    <3>1. g \in 1..n
        BY <2>2
    <3> QED
        BY <1>2, <1>3, <1>9, <3>1
  <2> QED
      BY <2>1, <2>2
<1>11. \A g \in 1..Len(gens) : gens'[g].epoch = gens[g].epoch
    BY <1>3, <1>9
<1>12. Len(gens) <= Len(gens')
    BY <1>3, <1>9
<1> QED
    BY <1>1, <1>9, <1>10, <1>11, <1>12, GenerationsKeep

(* Every batch of the segment is in the archive.                           *)
LEMMA ArchiveDoneKeeps ==
    ASSUME NEW b \in Baselines, NEW e, LaneAt(e, b), ArchiveDone
    PROVE  LaneAt(e, b)'
<1>1. SpoolInv(b) /\ TaskTyped /\ PhaseInv(b) /\ SourceInv
    BY DEF LaneAt
<1>2. UNCHANGED spoolVars /\ phase = "archive" /\ up /\ stage = SpoolIdle /\ sp.closed # {} /\ phase' = "checkpoint"
      /\ Batches(mans[Oldest]) \subseteq archive
      /\ UNCHANGED <<mode, gens, src, pending, archive, ckpt, srcAcked, faults>>
    BY DEF ArchiveDone, Archiving, Segment1
<1>3. UNCHANGED <<segs, mans, up, sp, stage, ackedRecs>>
    BY <1>2 DEF spoolVars
<1>4. SpoolInv(b)'
    BY <1>1, <1>3, SpoolSame
<1>5. SameLog(b) /\ NextStays(b)
    BY <1>1, <1>3, SameFilesLog
<1>6. TaskTyped'
    BY <1>1, <1>2 DEF TaskTyped
<1>7. sp.count = 0 /\ b.seq \notin DOMAIN segs /\ (mode = "startup" => pending = <<>>)
    BY <1>1, <1>2 DEF PhaseInv
<1>8. (Batches(mans[b.seq + 1]) \subseteq archive)'
  <2>1. Oldest = b.seq + 1
      BY <1>1, <1>2, OldestIs
  <2>2. Batches(mans[b.seq + 1]) \subseteq archive
      BY <1>2, <2>1
  <2>3. Batches(mans[b.seq + 1])' = Batches(mans[b.seq + 1])
      BY <1>3 DEF Batches, BatchStarts, Hash
  <2> QED
      BY <1>2, <2>2, <2>3
<1>9. PhaseInv(b)'
    BY <1>2, <1>3, <1>7, <1>8, IdleStage DEF PhaseInv
<1>10. SourceInv'
    BY <1>1, <1>2, <1>3 DEF SourceInv
<1> QED
    BY <1>2, <1>3, <1>4, <1>5, <1>6, <1>9, <1>10, LaneQuiet

(* append_batch: what the archive holds up to the checkpoint stays.        *)
LEMMA ArchiveBatchKeeps ==
    ASSUME NEW b \in Baselines, NEW e, LaneAt(e, b), ArchiveBatch
    PROVE  LaneAt(e, b)'
<1>1. SpoolInv(b) /\ TaskTyped /\ PhaseInv(b) /\ SourceInv /\ ArchiveInv(b) /\ LogInv(e, b) /\ EndsAt(e, b) /\ b = Baseline
    BY DEF LaneAt
<1>2. PICK c \in Batches(mans[Oldest]) : archive' = archive \cup {c}
    BY DEF ArchiveBatch, Segment1
<1>3. UNCHANGED spoolVars /\ phase = "archive" /\ up /\ stage = SpoolIdle /\ sp.closed # {}
      /\ UNCHANGED <<phase, mode, gens, src, pending, arcCkpt, ckpt, srcAcked, faults>>
    BY DEF ArchiveBatch, Archiving
<1>4. UNCHANGED <<segs, mans, up, sp, stage, ackedRecs>>
    BY <1>3 DEF spoolVars
<1>5. SpoolInv(b)'
    BY <1>1, <1>4, SpoolSame
<1>6. SameLog(b) /\ NextStays(b)
    BY <1>1, <1>4, SameFilesLog
<1>7. FilesTyped /\ ChainInv(b) /\ AckInv(b)
    BY <1>1 DEF SpoolInv
<1>8. Oldest = b.seq + 1 /\ b.seq + 1 \in LiveClosed(b) /\ b.seq + 1 \in Closed
    BY <1>1, <1>3, OldestIs DEF LiveClosed
<1>9. c \in Batches(mans[b.seq + 1])
    BY <1>2, <1>8
<1>10. c \in BatchRecords /\ c.first \in Nat /\ c.first > b.local /\ b.local \in Nat
    BY <1>7, <1>8, <1>9, BatchHeld, BaselineFacts
<1>11. ASSUME NEW n, n <= b.local PROVE ArchivedAs(n)' = ArchivedAs(n)
  <2>1. n \notin c.first .. (c.first + Len(c.recs) - 1)
      BY <1>10, <1>11
  <2>2. {x \in archive' : n \in x.first .. (x.first + Len(x.recs) - 1)}
          = {x \in archive : n \in x.first .. (x.first + Len(x.recs) - 1)}
      BY <1>2, <2>1
  <2> QED
      BY <2>2 DEF ArchivedAs
<1>12. e \in Nat /\ b.local <= e
    BY <1>1, <1>7, NumbersEnd
<1>13. StillCaptured(e, b, b)
    BY <1>6, <1>11 DEF StillCaptured, CapturedIn, SameLog
<1>14. ArchiveInv(b)'
  <2>1. PICK m : m = mans[b.seq + 1]
      OBVIOUS
  <2>2. b.seq + 1 \in Closed' /\ m = mans'[b.seq + 1]
      BY <1>6, <1>8, <2>1 DEF NextStays
  <2>3. \A x \in archive' : x.first + Len(x.recs) - 1 <= b.local
                            \/ (b.seq + 1 \in Closed' /\ x \in Batches(mans'[b.seq + 1]))
      BY <1>1, <1>2, <1>9, <2>1, <2>2 DEF ArchiveInv
  <2>4. archive' \subseteq BatchRecords /\ ckpt'.entries \subseteq archive'
      BY <1>1, <1>2, <1>3, <1>10 DEF ArchiveInv
  <2>5. ArchivedAs(b.local)' = ArchivedAs(b.local)
      BY <1>10, <1>11
  <2>6. IF b.cursor = NoCursor THEN b.local = 0
        ELSE b.local # 0 /\ \E q \in Observations : ArchivedAs(b.local)' = {q} /\ b.cursor = Cursor(q)
      BY <1>1, <2>5 DEF ArchiveInv
  <2>7. (\A x \in archive : x.first + Len(x.recs) - 1 <= b.local
                            \/ (b.seq + 1 \in Closed /\ x \in Batches(mans[b.seq + 1])))'
      BY <2>3 DEF Batches, BatchStarts
  <2> QED
      BY <2>4, <2>6, <2>7 DEF ArchiveInv, BatchRecords, Cursor
<1>15. TaskTyped'
    BY <1>1, <1>3 DEF TaskTyped
<1>16. PhaseInv(b)'
  <2>1. sp.count = 0 /\ b.seq \notin DOMAIN segs /\ (mode = "startup" => pending = <<>>)
      BY <1>1, <1>3 DEF PhaseInv
  <2> QED
      BY <1>3, <1>4, <2>1, IdleStage DEF PhaseInv
<1>17. SourceInv'
    BY <1>1, <1>3, <1>4 DEF SourceInv
<1>18. AckedUpTo(e)
    BY <1>1, <1>7, AckedWithin DEF LogInv
<1>19. LogInv(e, b)'
  <2>1. PICK C : C = ToSet(pending')
      OBVIOUS
  <2>2. KnownTo(C, e, b)
      BY <1>1, <1>3, <2>1 DEF LogInv
  <2>3. PICK A : A = srcAcked'
      OBVIOUS
  <2>4. KnownTo(A, b.local, b)
      BY <1>1, <1>3, <2>3 DEF LogInv
  <2>5. PICK o : o = stage'.obs
      OBVIOUS
  <2>6. o = NoObs
      BY <1>3, <1>4, <2>5, IdleStage
  <2> QED
      BY <1>1, <1>4, <1>12, <1>13, <1>18, <2>1, <2>2, <2>3, <2>4, <2>5, <2>6, LogKept
<1>20. (b = Baseline)' /\ EndsAt(e, b)'
    BY <1>1, <1>3, <1>6 DEF Baseline, SameLog
<1> QED
    BY <1>5, <1>14, <1>15, <1>16, <1>17, <1>19, <1>20 DEF LaneAt

(* seal_active begins, or finds an empty segment.                          *)
LEMMA SealKeeps ==
    ASSUME NEW b \in Baselines, NEW e, LaneAt(e, b), Seal
    PROVE  LaneAt(e, b)'
<1>1. SpoolInv(b) /\ TaskTyped /\ PhaseInv(b) /\ SourceInv /\ FieldsTyped
    BY DEF LaneAt, SpoolInv
<1>2. phase = "seal" /\ phase' = "archive" /\ up /\ stage = SpoolIdle
      /\ UNCHANGED <<mode, gens, src, pending, archive, arcCkpt, ckpt, srcAcked, faults>>
    BY DEF Seal, SealActive
<1>3. UNCHANGED <<segs, mans, up, sp, ackedRecs>>
    BY DEF Seal, SealActive, spoolVars
<1>4. SpoolInv(b)' /\ stage'.obs = NoObs /\ (stage'.at = "close" => stage'.next # 0) /\ (stage' = SpoolIdle => sp.count = 0)
  <2>1. CASE SealActive
    <3>1. stage' = [at |-> "close", obs |-> NoObs, next |-> sp.writer + 1]
        BY <2>1 DEF SealActive
    <3>2. stage'.obs = NoObs /\ stage'.at = "close" /\ stage'.next = sp.writer + 1
        BY <3>1
    <3>3. sp.writer + 1 # 0
        BY <1>1 DEF FieldsTyped
    <3>4. stage' # SpoolIdle
        BY <3>2, IdleStage
    <3>5. SpoolInv(b)'
        BY <1>1, <2>1, SealActiveKeeps
    <3> QED
        BY <3>2, <3>3, <3>4, <3>5
  <2>2. CASE sp.count = 0 /\ UNCHANGED spoolVars
    <3>1. stage' = stage
        BY <2>2 DEF spoolVars
    <3>2. SpoolInv(b)'
        BY <1>1, <1>3, <3>1, SpoolSame
    <3> QED
        BY <1>2, <2>2, <3>1, <3>2, IdleStage
  <2> QED
      BY <2>1, <2>2 DEF Seal
<1>5. SameLog(b) /\ NextStays(b)
    BY <1>1, <1>3, SameFilesLog
<1>6. TaskTyped'
    BY <1>1, <1>2 DEF TaskTyped
<1>7. b.seq \notin DOMAIN segs /\ (mode = "startup" => pending = <<>>)
    BY <1>1, <1>2 DEF PhaseInv
<1>8. PhaseInv(b)'
    BY <1>2, <1>3, <1>4, <1>7 DEF PhaseInv
<1>9. SourceInv'
    BY <1>1, <1>2, <1>3 DEF SourceInv
<1> QED
    BY <1>2, <1>3, <1>4, <1>5, <1>6, <1>8, <1>9, LaneQuiet

(* A stopped task leaves the files.                                        *)
LEMMA StoppedKeeps ==
    ASSUME NEW b \in Baselines, NEW e, LaneAt(e, b), UNCHANGED <<segs, mans, ackedRecs, mode, gens, archive, ckpt, srcAcked>>,
           phase' = "stopped", up' = FALSE, sp' = Down, stage' = SpoolIdle, pending' = <<>>, src' = NoSrc,
           faults' \in 0..MaxFaults
    PROVE  LaneAt(e, b)'
<1>1. SpoolInv(b) /\ TaskTyped /\ PhaseInv(b) /\ SourceInv /\ DirInv(b) /\ AckInv(b)
    BY DEF LaneAt, SpoolInv, DirInv
<1>2. SameLog(b) /\ NextStays(b)
    BY <1>1, SameFilesLog
<1>3. AckInv(b)'
    BY <1>1, <1>2, AckedStay DEF SameLog
<1>4. DirInv(b)'
    BY <1>1, SameFilesDirectory
<1>5. SpoolInv(b)'
    BY <1>3, <1>4, SpoolEnds
<1>6. TaskTyped'
  <2>1. pending' \in Seq(Cursors)
      OBVIOUS
  <2> QED
      BY <1>1, <2>1 DEF TaskTyped
<1>7. PhaseInv(b)'
    BY IdleStage DEF PhaseInv
<1>8. SourceInv'
  <2>1. src' \in [gen : Nat, off : Nat] /\ src'.gen = 0
      BY DEF NoSrc
  <2>2. Len(gens) \in Nat
      BY <1>1 DEF SourceInv
  <2> QED
      BY <1>1, <2>1, <2>2 DEF SourceInv
<1>9. stage'.obs = NoObs
    BY IdleStage
<1> QED
    BY <1>2, <1>5, <1>6, <1>7, <1>8, <1>9, LaneQuiet

(* A refused line ends the task.                                           *)
LEMMA ObserveRefusedKeeps ==
    ASSUME NEW b \in Baselines, NEW e, LaneAt(e, b), ObserveRefused
    PROVE  LaneAt(e, b)'
<1>1. faults \in 0..MaxFaults
    BY DEF LaneAt, TaskTyped
<1> QED
    BY <1>1, StoppedKeeps DEF ObserveRefused

(* close_spool on an empty active segment.                                 *)
LEMMA CloseKeeps ==
    ASSUME NEW b \in Baselines, NEW e, LaneAt(e, b), Close
    PROVE  LaneAt(e, b)'
<1>1. faults \in 0..MaxFaults /\ PhaseInv(b)
    BY DEF LaneAt, TaskTyped
<1>2. phase = "closing" /\ stage = SpoolIdle
    BY DEF Close, ShutdownEmpty
<1>3. pending = <<>>
    BY <1>1, <1>2 DEF PhaseInv
<1>4. UNCHANGED <<segs, mans, ackedRecs, mode, gens, archive, ckpt, srcAcked, pending, stage, faults>>
      /\ phase' = "stopped" /\ up' = FALSE /\ sp' = Down /\ src' = NoSrc
    BY DEF Close, ShutdownEmpty
<1> QED
    BY <1>1, <1>2, <1>3, <1>4, StoppedKeeps

(* cleanup_archived_segment.                                               *)
LEMMA PrunedStays ==
    ASSUME NEW b \in Baselines, SpoolInv(b), Pruned(b)
    PROVE  NextStays(b)
<1>1. SameLive(b)
    BY PrunedLive DEF SpoolInv
<1>2. b.seq + 1 > b.seq
    BY BaselineFacts
<1> QED
    BY <1>1, <1>2 DEF SameLive, NextStays, LiveClosed

(* The manifest of the archived segment is removed.                        *)
LEMMA CleanupManifestKeeps ==
    ASSUME NEW b \in Baselines, NEW e, LaneAt(e, b), CleanupManifest
    PROVE  LaneAt(e, b)'
<1>1. SpoolInv(b) /\ TaskTyped /\ PhaseInv(b) /\ SourceInv /\ b = Baseline
    BY DEF LaneAt
<1>2. phase = "clean" /\ mans' = Without(mans, ckpt.seq) /\ UNCHANGED <<segs, up, sp, stage, ackedRecs>>
      /\ UNCHANGED laneVars
    BY DEF CleanupManifest
<1>3. UNCHANGED <<phase, mode, gens, src, pending, archive, arcCkpt, ckpt, srcAcked, faults>>
    BY <1>2 DEF laneVars
<1>4. ckpt.seq = b.seq
    BY <1>1 DEF Baseline
<1>5. Pruned(b)
    BY <1>1, <1>2, <1>4, ManifestPruned
<1>6. SpoolInv(b)' /\ SameLog(b)
    BY <1>1, <1>2, <1>5, PrunedSpool
<1>7. NextStays(b)
    BY <1>1, <1>5, PrunedStays
<1>8. TaskTyped'
    BY <1>1, <1>3 DEF TaskTyped
<1>9. PhaseInv(b)'
  <2>1. stage = SpoolIdle /\ (up => sp.count = 0) /\ (~up => pending = <<>> /\ mode = "startup")
        /\ (mode = "startup" => pending = <<>>)
      BY <1>1, <1>2 DEF PhaseInv
  <2> QED
      BY <1>2, <1>3, <2>1, IdleStage DEF PhaseInv
<1>10. SourceInv'
    BY <1>1, <1>2, <1>3 DEF SourceInv
<1> QED
    BY <1>2, <1>3, <1>6, <1>7, <1>8, <1>9, <1>10, LaneQuiet

(* Then its segment.                                                       *)
LEMMA CleanupSegmentKeeps ==
    ASSUME NEW b \in Baselines, NEW e, LaneAt(e, b), CleanupSegment
    PROVE  LaneAt(e, b)'
<1>1. SpoolInv(b) /\ TaskTyped /\ PhaseInv(b) /\ SourceInv /\ b = Baseline
    BY DEF LaneAt
<1>2. phase = "clean" /\ ckpt.seq \notin DOMAIN mans /\ segs' = Without(segs, ckpt.seq)
      /\ phase' = (IF up THEN "archive" ELSE "open") /\ UNCHANGED <<mans, up, sp, stage, ackedRecs>>
      /\ UNCHANGED <<mode, gens, src, pending, archive, arcCkpt, ckpt, srcAcked, faults>>
    BY DEF CleanupSegment
<1>3. ckpt.seq = b.seq
    BY <1>1 DEF Baseline
<1>4. Pruned(b) /\ b.seq \notin DOMAIN segs'
    BY <1>1, <1>2, <1>3, SegmentPruned
<1>5. SpoolInv(b)' /\ SameLog(b)
    BY <1>1, <1>2, <1>4, PrunedSpool
<1>6. NextStays(b)
    BY <1>1, <1>4, PrunedStays
<1>7. TaskTyped'
    BY <1>1, <1>2 DEF TaskTyped
<1>8. PhaseInv(b)'
  <2>1. stage = SpoolIdle /\ (up => sp.count = 0) /\ (~up => pending = <<>> /\ mode = "startup")
        /\ (mode = "startup" => pending = <<>>)
      BY <1>1, <1>2 DEF PhaseInv
  <2>2. phase' \in {"archive", "open"} /\ (phase' = "archive" <=> up)
      BY <1>2
  <2> QED
      BY <1>2, <1>4, <2>1, <2>2, IdleStage DEF PhaseInv
<1>9. SourceInv'
    BY <1>1, <1>2 DEF SourceInv
<1> QED
    BY <1>2, <1>5, <1>6, <1>7, <1>8, <1>9, LaneQuiet

(* SourceSpool::open from the checkpoint.                                  *)
LEMMA OpenSpoolKeeps ==
    ASSUME NEW b \in Baselines, NEW e, LaneAt(e, b), OpenSpool
    PROVE  LaneAt(e, b)'
<1>1. SpoolInv(b) /\ TaskTyped /\ PhaseInv(b) /\ SourceInv /\ b = Baseline /\ FilesTyped
    BY DEF LaneAt, SpoolInv
<1>2. phase = "open" /\ phase' = "seal" /\ Open(Baseline)
      /\ UNCHANGED <<mode, gens, src, pending, archive, arcCkpt, ckpt, srcAcked, faults>>
    BY DEF OpenSpool
<1>3. Open(b)
    BY <1>1, <1>2
<1>4. SpoolInv(b)'
    BY <1>1, <1>3, OpenKeeps
<1>5. ~up /\ up' = TRUE /\ segs' = [s \in DOMAIN segs |-> [segs[s] EXCEPT !.torn = FALSE]] /\ mans' = mans
      /\ ackedRecs' = ackedRecs
    BY <1>3 DEF Open
<1>6. SameRecords
    BY <1>1, <1>5, CutTails
<1>7. SamePlaces(b)
    BY <1>1, <1>6, SamePlacesHold
<1>8. SameLog(b) /\ NextStays(b)
    BY <1>5, <1>7 DEF SamePlaces, SameLog, NextStays
<1>9. stage'.obs = NoObs /\ stage'.at # "close" /\ DOMAIN segs' = DOMAIN segs
  <2>1. stage' = SpoolIdle \/ stage' = [at |-> "create", obs |-> NoObs, next |-> LastSequence(b) + 1]
      BY <1>3 DEF Open
  <2> QED
      BY <1>6, <2>1, IdleStage DEF SameRecords
<1>10. b.seq \notin DOMAIN segs /\ pending = <<>> /\ mode = "startup"
    BY <1>1, <1>2, <1>5 DEF PhaseInv
<1>11. TaskTyped'
    BY <1>1, <1>2 DEF TaskTyped
<1>12. PhaseInv(b)'
    BY <1>2, <1>5, <1>9, <1>10 DEF PhaseInv
<1>13. SourceInv'
  <2>1. src.gen = 0
      BY <1>1, <1>5 DEF SourceInv
  <2> QED
      BY <1>1, <1>2, <1>5, <1>10, <2>1 DEF SourceInv
<1> QED
    BY <1>2, <1>4, <1>5, <1>8, <1>9, <1>11, <1>12, <1>13, LaneQuiet

(* A published manifest stays when another one is written.                 *)
LEMMA ManifestStays ==
    ASSUME NEW b \in Baselines, SpoolInv(b), up, stage.at = "close", NEW t \in BOOLEAN, NEW m, m = NewManifest(t),
           mans' = With(mans, sp.writer, m), segs' = segs
    PROVE  NextStays(b)
<1>1. FilesTyped
    BY DEF SpoolInv
<1>2. PICK w : w = sp.writer
    OBVIOUS
<1>3. Vouches(m, w, b) /\ w \in Live(b) \ DOMAIN mans
    BY <1>2, ManifestVouches
<1>4. NewManifestOf(w, m)
    BY <1>2 DEF NewManifestOf
<1>5. (\A s \in DOMAIN mans : mans'[s] = mans[s]) /\ Closed' = IF m.tmp THEN Closed ELSE Closed \cup {w}
    BY <1>1, <1>3, <1>4, NewManifestFile
<1> QED
    BY <1>1, <1>5, FileFacts DEF NextStays

(* A stage of a rotation: a manifest is published.                         *)
LEMMA PublishStageKeeps ==
    ASSUME NEW b \in Baselines, NEW e, LaneAt(e, b), PublishManifest, UNCHANGED laneVars
    PROVE  LaneAt(e, b)'
<1>1. SpoolInv(b) /\ TaskTyped /\ PhaseInv(b) /\ SourceInv /\ FieldsTyped
    BY DEF LaneAt, SpoolInv
<1>2. UNCHANGED <<phase, mode, gens, src, pending, archive, arcCkpt, ckpt, srcAcked, faults>>
    BY DEF laneVars
<1>3. up /\ stage.at = "close" /\ segs' = segs /\ ackedRecs' = ackedRecs
    BY DEF PublishManifest
<1>4. stage.next # 0
    BY <1>1, <1>3 DEF PhaseInv
<1>5. PICK m : m = NewManifest(FALSE)
    OBVIOUS
<1>6. PICK h : h = Hash(m)
    OBVIOUS
<1>7. sp' = [sp EXCEPT !.tip = h] /\ stage' = [stage EXCEPT !.at = "create"] /\ up' = up /\ mans' = With(mans, sp.writer, m)
    BY <1>4, <1>5, <1>6 DEF PublishManifest
<1>8. sp'.last = sp.last
  <2>1. HasFields(sp)
      BY <1>1 DEF FieldsTyped
  <2> QED
      BY <1>7, <2>1, Zenon DEF HasFields, SpoolFields
<1>9. stage'.at = "create" /\ stage'.obs = stage.obs
    BY <1>1, <1>7 DEF FieldsTyped, Stages
<1>10. SpoolInv(b)'
    BY <1>1, PublishManifestKeeps
<1>11. SameLog(b)
    BY <1>1, StagesLog
<1>12. NextStays(b)
    BY <1>1, <1>3, <1>5, <1>7, ManifestStays
<1>13. TaskTyped'
    BY <1>1, <1>2 DEF TaskTyped
<1>14. PhaseInv(b)'
  <2>1. stage # SpoolIdle /\ stage' # SpoolIdle
      BY <1>3, <1>9, IdleStage
  <2> QED
      BY <1>1, <1>2, <1>3, <1>7, <1>9, <2>1 DEF PhaseInv
<1>15. SourceInv'
    BY <1>1, <1>2, <1>7, <1>8, <1>9 DEF SourceInv
<1> QED
    BY <1>2, <1>3, <1>9, <1>10, <1>11, <1>12, <1>13, <1>14, <1>15, LaneQuiet

(* A stage of a rotation or of open: a segment is created.                 *)
LEMMA CreateStageKeeps ==
    ASSUME NEW b \in Baselines, NEW e, LaneAt(e, b), CreateSegment, UNCHANGED laneVars
    PROVE  LaneAt(e, b)'
<1>1. SpoolInv(b) /\ TaskTyped /\ PhaseInv(b) /\ SourceInv /\ FieldsTyped
    BY DEF LaneAt, SpoolInv
<1>2. UNCHANGED <<phase, mode, gens, src, pending, archive, arcCkpt, ckpt, srcAcked, faults>>
    BY DEF laneVars
<1>3. up /\ stage.at = "create" /\ mans' = mans /\ ackedRecs' = ackedRecs /\ up' = up
    BY DEF CreateSegment
<1>4. PICK n : n = stage.next
    OBVIOUS
<1>5. NextFits(n, b)
    BY <1>1, <1>3, <1>4, CreateFits
<1>6. DOMAIN segs' = DOMAIN segs \cup {n} /\ n # b.seq
  <2>1. segs' = With(segs, n, Segment(TRUE, <<>>, FALSE))
      BY <1>4 DEF CreateSegment
  <2>2. n # b.seq
      BY <1>5, BaselineFacts DEF NextFits
  <2> QED
      BY <2>1, <2>2 DEF With
<1>7. PICK C : C = IF sp.writer = 0 THEN sp.closed ELSE sp.closed \cup {sp.writer}
    OBVIOUS
<1>8. sp' = [sp EXCEPT !.writer = n, !.count = 0, !.closed = C]
    BY <1>4, <1>7 DEF CreateSegment
<1>9. sp'.last = sp.last /\ sp'.count = 0
  <2>1. HasFields(sp)
      BY <1>1 DEF FieldsTyped
  <2> QED
      BY <1>8, <2>1, Zenon DEF HasFields, SpoolFields
<1>10. stage'.at # "close" /\ stage'.obs = stage.obs
  <2>1. CASE stage.obs = NoObs
      BY <2>1, IdleStage DEF CreateSegment
  <2>2. CASE stage.obs # NoObs
    <3>1. stage' = [at |-> "write", obs |-> stage.obs, next |-> 0]
        BY <2>2 DEF CreateSegment
    <3> QED
        BY <3>1
  <2> QED
      BY <2>1, <2>2
<1>11. SpoolInv(b)'
    BY <1>1, CreateSegmentKeeps
<1>12. SameLog(b)
    BY <1>1, StagesLog
<1>13. NextStays(b)
    BY <1>3 DEF NextStays, Closed
<1>14. TaskTyped'
    BY <1>1, <1>2 DEF TaskTyped
<1>15. PhaseInv(b)'
  <2>1. stage # SpoolIdle
      BY <1>3, IdleStage
  <2> QED
      BY <1>1, <1>2, <1>3, <1>6, <1>9, <1>10, <2>1 DEF PhaseInv
<1>16. SourceInv'
    BY <1>1, <1>2, <1>3, <1>9, <1>10 DEF SourceInv
<1> QED
    BY <1>2, <1>3, <1>10, <1>11, <1>12, <1>13, <1>14, <1>15, <1>16, LaneQuiet

(* The next line of the source continues what is captured.                 *)
LEMMA LineContinues ==
    ASSUME NEW b \in Baselines, NEW e, LaneAt(e, b), Running, src.off < Len(Gen.lines), NEW o, o = Line,
           Admissible(o), ~Regression(o)
    PROVE  o \in Observations /\ o.epoch = gens[src.gen].epoch /\ o.off = src.off + 1 /\ NextLine(o, e, b)
<1>1. SpoolInv(b) /\ FilesTyped /\ ChainInv(b) /\ OrderInv(b) /\ FieldsTyped /\ MemoryInv(b)
      /\ PhaseInv(b) /\ SourceInv /\ ArchiveInv(b) /\ LogInv(e, b) /\ EndsAt(e, b)
    BY DEF LaneAt, SpoolInv
<1>2. up /\ stage = SpoolIdle /\ phase = "run"
    BY DEF Running
<1>3. src.gen \in Nat /\ src.off \in Nat /\ src.gen # 0 /\ src.gen <= Len(gens) /\ gens \in Seq(Generations) /\ Len(gens) \in Nat
    BY <1>1, <1>2 DEF SourceInv
<1>4. PICK g : g = gens[src.gen]
    OBVIOUS
<1>5. g \in Generations /\ Len(g.lines) <= MaxLines
    BY <1>1, <1>3, <1>4 DEF SourceInv
<1>6. g.epoch \in Epochs /\ g.lines \in Seq(Bodies) /\ Len(g.lines) \in Nat /\ src.off < Len(g.lines)
    BY <1>4, <1>5 DEF Generations, Gen
<1>7. PICK x \in Nat : x = src.off + 1
    BY <1>3
<1>8. o = [epoch |-> g.epoch, off |-> x, body |-> g.lines[x]]
    BY <1>4, <1>7 DEF Line, Gen
<1>9. x \in 1..Len(g.lines) /\ x \in 1..MaxOffset
    BY <1>3, <1>5, <1>6, <1>7, LaneConstants, SpoolConstants
<1>10. g.lines[x] \in Bodies
    BY <1>6, <1>9
<1>11. o \in Observations /\ o.epoch = g.epoch /\ o.off = x
    BY <1>6, <1>8, <1>9, <1>10 DEF Observations
<1>12. OpenMemory(b)
    BY <1>1, <1>2 DEF MemoryInv
<1>13. PICK c \in Cursors \cup {NoCursor} : c = sp.last
    BY <1>1 DEF FieldsTyped
<1>14. EndsWith(c, b)
    BY <1>12, <1>13 DEF OpenMemory
<1>15. IF c = NoCursor THEN e = 0 ELSE \E q \in Observations : CapturedIn(e, b) = {q} /\ Cursor(q) = c
    BY <1>1, <1>14, LastIs
<1>16. CASE src.off # 0
  <2>1. c # NoCursor /\ c.epoch = o.epoch /\ src.off = c.off
      BY <1>1, <1>2, <1>3, <1>4, <1>11, <1>13, <1>16 DEF SourceInv
  <2>2. PICK q \in Observations : CapturedIn(e, b) = {q} /\ Cursor(q) = c
      BY <1>15, <2>1
  <2>3. q.epoch = c.epoch /\ q.off = c.off
      BY <2>2, ObservationFacts
  <2>4. q.epoch = o.epoch /\ o.off = q.off + 1
      BY <1>7, <1>11, <2>1, <2>3
  <2>5. NextLine(o, e, b)
      BY <2>2, <2>4 DEF NextLine
  <2> QED
      BY <1>4, <1>7, <1>11, <2>5
<1>17. CASE src.off = 0
  <2>1. o.off = 1
      BY <1>7, <1>11, <1>17
  <2>2. CASE c = NoCursor
    <3>1. e = 0 /\ CapturedIn(0, b) = {}
        BY <1>1, <1>15, <2>2 DEF LogInv, Ordered
    <3>2. NextLine(o, e, b)
      <4>1. \A n \in 0..e : n = 0
          BY <3>1
      <4> QED
          BY <2>1, <3>1, <4>1 DEF NextLine
    <3> QED
        BY <1>4, <1>7, <1>11, <3>2
  <2>3. CASE c # NoCursor
    <3>1. c \in Cursors /\ c.off \in Nat /\ c.off >= 1
        BY <1>13, <2>3, SpoolConstants DEF Cursors
    <3>2. c.epoch # o.epoch
        BY <1>13, <2>1, <2>3, <3>1 DEF Regression
    <3>3. EpochChanged(o)
        BY <1>13, <2>3, <3>2 DEF EpochChanged
    <3>4. \A s \in DOMAIN sp.retained : sp.retained[s].epoch # o.epoch
        BY <3>3 DEF Regression
    <3>5. \A d \in archive : \A i \in 1..Len(d.recs) : d.recs[i].epoch # o.epoch
        BY <3>3 DEF Admissible, EpochArchived
    <3>6. ASSUME NEW n \in 0..e, NEW q \in CapturedIn(n, b) PROVE q.epoch # o.epoch
      <4>1. CASE n <= b.local
        <5>1. q \in ArchivedAs(n)
            BY <3>6, <4>1 DEF CapturedIn
        <5>2. PICK d \in archive : n \in d.first .. (d.first + Len(d.recs) - 1) /\ q = d.recs[n - d.first + 1]
            BY <5>1 DEF ArchivedAs
        <5>3. d.first \in Nat /\ Len(d.recs) \in Nat
          <6>1. d \in BatchRecords
              BY <1>1 DEF ArchiveInv
          <6> QED
              BY <6>1 DEF BatchRecords
        <5>4. PICK f \in Nat, l \in Nat : f = d.first /\ l = Len(d.recs)
            BY <5>3
        <5>5. n - f + 1 \in 1..l
          <6>1. n \in f .. (f + l - 1)
              BY <5>2, <5>4
          <6> QED
              BY <6>1
        <5>6. n - d.first + 1 \in 1..Len(d.recs)
            BY <5>4, <5>5
        <5> QED
            BY <3>5, <5>2, <5>6
      <4>2. CASE ~(n <= b.local)
        <5>1. q \in Held(n, b)
            BY <3>6, <4>2 DEF CapturedIn
        <5>2. PICK p \in LivePositions(b) : q = Rec(p)
            BY <5>1 DEF Held, LivePositions
        <5>3. p[1] \in Live(b) /\ p[2] \in 1..Size(p[1])
            BY <1>1, <5>2, NumberIs
        <5>4. PICK s, j : s = p[1] /\ j = p[2]
            OBVIOUS
        <5>5. s \in Full(b) /\ j \in 1..Size(s)
          <6>1. Size(s) # 0
              BY <5>3, <5>4
          <6> QED
              BY <5>3, <5>4, <6>1 DEF Full
        <5>6. segs[s].recs[j].epoch = FirstRec(s).epoch
            BY <1>1, <5>5, RangeHolds
        <5>7. s \in DOMAIN sp.retained /\ sp.retained[s].epoch = FirstRec(s).epoch
          <6>1. IndexInv(b)
              BY <1>12 DEF OpenMemory
          <6>2. DOMAIN sp.retained = Full(b)
              BY <6>1 DEF IndexInv
          <6>3. sp.retained[s] = [epoch |-> FirstRec(s).epoch, min |-> FirstRec(s).off,
                                  max |-> LastRec(s).off, first |-> Before(s, b) + 1]
              BY <5>5, <6>1, Zenon DEF IndexInv
          <6>4. sp.retained[s].epoch = FirstRec(s).epoch
              BY <6>3
          <6> QED
              BY <5>5, <6>2, <6>4
        <5>8. q = segs[s].recs[j]
            BY <5>2, <5>4 DEF Rec
        <5> QED
            BY <3>4, <5>6, <5>7, <5>8
      <4> QED
          BY <4>1, <4>2
    <3>7. NextLine(o, e, b)
        BY <2>1, <3>6 DEF NextLine
    <3> QED
        BY <1>4, <1>7, <1>11, <3>7
  <2> QED
      BY <2>2, <2>3
<1> QED
    BY <1>16, <1>17

(* append_auxiliary_observation: the line is taken and its append begins.  *)
LEMMA ObserveKeeps ==
    ASSUME NEW b \in Baselines, NEW e, LaneAt(e, b), NEW due \in BOOLEAN, Observe(due)
    PROVE  LaneAt(e, b)'
<1>1. SpoolInv(b) /\ TaskTyped /\ PhaseInv(b) /\ SourceInv /\ FieldsTyped /\ LogInv(e, b)
    BY DEF LaneAt, SpoolInv
<1>2. PICK o : o = Line
    OBVIOUS
<1>3. Running /\ src.off < Len(Gen.lines) /\ Admissible(o) /\ AppendBegin(o, due) /\ ~Regression(o)
    BY <1>2 DEF Observe, AppendBegin
<1>4. phase = "run" /\ up /\ stage = SpoolIdle /\ phase' = "append" /\ src' = [src EXCEPT !.off = @ + 1]
      /\ UNCHANGED <<mode, gens, pending, archive, arcCkpt, ckpt, srcAcked, faults>>
    BY DEF Observe, Running
<1>5. UNCHANGED <<segs, mans, up, sp, ackedRecs>>
    BY <1>3 DEF AppendBegin
<1>6. o \in Observations /\ o.epoch = gens[src.gen].epoch /\ o.off = src.off + 1 /\ NextLine(o, e, b)
    BY <1>2, <1>3, LineContinues
<1>7. stage'.obs = o /\ stage'.at # "idle" /\ (stage'.at = "close" => stage'.next # 0)
  <2>1. sp.writer + 1 # 0
      BY <1>1 DEF FieldsTyped
  <2>2. CASE RotatesFor(o, due)
    <3>1. stage' = [at |-> "close", obs |-> o, next |-> sp.writer + 1]
        BY <1>3, <2>2 DEF AppendBegin
    <3> QED
        BY <2>1, <3>1
  <2>3. CASE ~RotatesFor(o, due)
    <3>1. stage' = [at |-> "write", obs |-> o, next |-> 0]
        BY <1>3, <2>3 DEF AppendBegin
    <3> QED
        BY <3>1
  <2> QED
      BY <2>2, <2>3
<1>8. SpoolInv(b)'
    BY <1>1, <1>3, <1>6, AppendBeginKeeps
<1>9. SameLog(b) /\ NextStays(b)
    BY <1>1, <1>5, SameFilesLog
<1>10. TaskTyped'
    BY <1>1, <1>4 DEF TaskTyped
<1>11. PhaseInv(b)'
  <2>1. b.seq \notin DOMAIN segs /\ (mode = "startup" => pending = <<>>)
      BY <1>1, <1>4 DEF PhaseInv
  <2> QED
      BY <1>4, <1>5, <1>7, <2>1 DEF PhaseInv
<1>12. SourceInv'
  <2>1. src.gen # 0 /\ src \in [gen : Nat, off : Nat] /\ src.gen <= Len(gens)
      BY <1>1, <1>4 DEF SourceInv
  <2>2. src' \in [gen : Nat, off : Nat] /\ src'.gen = src.gen /\ src'.off = src.off + 1
      BY <1>4, <2>1
  <2>3. o # NoObs
      BY <1>6, ObservationFacts
  <2> QED
      BY <1>1, <1>4, <1>5, <1>6, <1>7, <2>1, <2>2, <2>3 DEF SourceInv
<1>13. PICK C : C = ToSet(pending')
    OBVIOUS
<1>14. PICK A : A = srcAcked'
    OBVIOUS
<1>15. KnownTo(C, e, b) /\ KnownTo(A, b.local, b)
    BY <1>1, <1>4, <1>13, <1>14 DEF LogInv
<1> QED
    BY <1>4, <1>5, <1>6, <1>7, <1>8, <1>9, <1>10, <1>11, <1>12, <1>13, <1>14, <1>15, LaneKept

(* The record that was being appended is captured.                         *)
LEMMA LaneGrows ==
    ASSUME NEW b \in Baselines, NEW e \in Nat, LaneAt(e, b), SpoolInv(b)', NextStays(b),
           NEW o \in Observations, o = stage.obs, LongerLog(o, b),
           \/ ackedRecs' = ackedRecs
           \/ ackedRecs' = Append(ackedRecs, [obs |-> o, local |-> e + 1]),
           UNCHANGED <<archive, ckpt, srcAcked>>, TaskTyped', PhaseInv(b)', SourceInv',
           NEW C, C = ToSet(pending'), \A c \in C : c = Cursor(o) \/ c \in ToSet(pending),
           stage'.obs = NoObs
    PROVE  LaneAt(e + 1, b)'
<1>1. FilesTyped /\ ChainInv(b) /\ AckInv(b) /\ EndsAt(e, b) /\ LogInv(e, b) /\ ArchiveInv(b) /\ b = Baseline
    BY DEF LaneAt, SpoolInv
<1>2. b.local <= e
    BY <1>1, NumbersEnd
<1>3. StillCaptured(e, b, b) /\ CapturedIn(e + 1, b)' = {o} /\ EndsAt(e + 1, b)'
    BY <1>1, <1>2, CapturedMore
<1>4. AckedUpTo(e)
    BY <1>1, AckedWithin DEF LogInv
<1>5. NextLine(o, e, b)
  <2>1. o # NoObs
      BY ObservationFacts
  <2> QED
      BY <1>1, <2>1 DEF LogInv
<1>6. LogInv(e + 1, b)'
    BY <1>1, <1>2, <1>3, <1>4, <1>5, LogGrows
<1>7. ArchiveInv(b)'
    BY <1>1, ArchiveKept
<1>8. (b = Baseline)'
    BY <1>1 DEF Baseline
<1> QED
    BY <1>3, <1>6, <1>7, <1>8 DEF LaneAt

(* The record is durable in the spool and joins the group.                 *)
LEMMA AppendedKeeps ==
    ASSUME NEW b \in Baselines, NEW e \in Nat, LaneAt(e, b), Appended
    PROVE  LaneAt(e + 1, b)'
<1>1. SpoolInv(b) /\ TaskTyped /\ PhaseInv(b) /\ SourceInv /\ FieldsTyped /\ FilesTyped /\ ChainInv(b) /\ DirInv(b)
      /\ EndsAt(e, b) /\ MemoryInv(b)
    BY DEF LaneAt, SpoolInv, DirInv
<1>2. phase = "append" /\ WriteRecord /\ up /\ stage.at = "write" /\ up' = up /\ mans' = mans /\ stage' = SpoolIdle
      /\ phase' \in {"seal", "run"} /\ mode' = "group"
      /\ UNCHANGED <<gens, src, archive, arcCkpt, ckpt, srcAcked, faults>>
    BY DEF Appended, WriteRecord
<1>3. PICK o : o = stage.obs
    OBVIOUS
<1>4. PICK w : w = sp.writer
    OBVIOUS
<1>5. Fits(o, w, b) /\ w \in Live(b) \ Closed /\ segs[w].hdr /\ w \in DOMAIN segs /\ o \in Observations
    BY <1>1, <1>2, <1>3, <1>4, WriteFits DEF Fits
<1>6. RecordAdded(w, o)
    BY <1>1, <1>2, <1>3, <1>4, <1>5, AppendIsRecordAdded DEF WriteRecord
<1>7. EndsOneFurther(w, o, b)
    BY <1>1, <1>5, <1>6, OneMoreDirectory
<1>8. LongerLog(o, b)
    BY <1>7 DEF EndsOneFurther, LongerLog
<1>9. sp.local = e
  <2>1. PICK f : f = sp.local
      OBVIOUS
  <2>2. EndsAt(f, b)
      BY <1>1, <1>2, <2>1 DEF MemoryInv, OpenMemory
  <2> QED
      BY <1>1, <2>1, <2>2, EndsAtOne
<1>10. ackedRecs' = Append(ackedRecs, [obs |-> o, local |-> e + 1])
    BY <1>2, <1>3, <1>9 DEF WriteRecord
<1>11. PICK c : c = Cursor(o)
    OBVIOUS
<1>12. sp'.last = c
  <2>1. PICK R : R = ExtendRetained(o, e + 1)
      OBVIOUS
  <2>2. sp' = [sp EXCEPT !.count = @ + 1, !.last = c, !.local = @ + 1, !.retained = R]
      BY <1>2, <1>3, <1>9, <1>11, <2>1 DEF WriteRecord
  <2>3. HasFields(sp)
      BY <1>1 DEF FieldsTyped
  <2> QED
      BY <2>2, <2>3, Zenon DEF HasFields, SpoolFields
<1>13. c \in Cursors /\ c # NoCursor /\ c.epoch = o.epoch /\ c.off = o.off
    BY <1>5, <1>11, ObservationFacts
<1>14. pending \in Seq(Cursors) /\ pending' = Append(pending, c)
    BY <1>1, <1>3, <1>11 DEF TaskTyped, Appended
<1>15. pending' \in Seq(Cursors) /\ pending' # <<>>
    BY <1>13, <1>14
<1>16. SpoolInv(b)'
    BY <1>1, <1>2, WriteRecordKeeps
<1>17. NextStays(b)
    BY <1>2 DEF NextStays, Closed
<1>18. TaskTyped'
    BY <1>1, <1>2, <1>15 DEF TaskTyped
<1>19. PhaseInv(b)'
  <2>1. b.seq \notin DOMAIN segs /\ DOMAIN segs' = DOMAIN segs
      BY <1>1, <1>2, <1>6 DEF PhaseInv, RecordAdded
  <2> QED
      BY <1>2, <1>15, <2>1, IdleStage DEF PhaseInv
<1>20. SourceInv'
  <2>1. o.epoch = gens[src.gen].epoch /\ o.off = src.off /\ src.gen # 0
      BY <1>1, <1>2, <1>3 DEF SourceInv
  <2>2. sp'.last # NoCursor /\ sp'.last.epoch = gens'[src'.gen].epoch /\ src'.off = sp'.last.off
      BY <1>2, <1>12, <1>13, <2>1
  <2>3. gens' = gens /\ src' = src /\ up' /\ phase' # "append" /\ src'.gen # 0
      BY <1>2, <2>1
  <2> QED
      BY <1>1, <2>2, <2>3 DEF SourceInv
<1>21. PICK C : C = ToSet(pending')
    OBVIOUS
<1>22. \A x \in C : x = Cursor(o) \/ x \in ToSet(pending)
  <2>1. PICK l \in Nat : l = Len(pending)
      BY <1>14
  <2>2. PICK q : q = pending'
      OBVIOUS
  <2>3. Len(q) = l + 1 /\ q[l + 1] = c /\ \A i \in 1..l : q[i] = pending[i]
      BY <1>13, <1>14, <2>1, <2>2
  <2>4. ASSUME NEW x \in C PROVE x = c \/ x \in ToSet(pending)
    <3>1. PICK i \in 1..(l + 1) : x = q[i]
        BY <1>14, <1>15, <1>21, <2>2, <2>3 DEF ToSet
    <3>2. CASE i = l + 1
        BY <2>3, <3>1, <3>2
    <3>3. CASE i # l + 1
      <4>1. i \in 1..l
          BY <3>3
      <4>2. x = pending[i] /\ i \in DOMAIN pending
          BY <1>14, <2>1, <2>3, <3>1, <4>1
      <4> QED
          BY <4>2 DEF ToSet
    <3> QED
        BY <3>2, <3>3
  <2> QED
      BY <1>11, <2>4
<1>23. stage'.obs = NoObs
    BY <1>2, IdleStage
<1> QED
    BY <1>2, <1>3, <1>5, <1>8, <1>10, <1>16, <1>17, <1>18, <1>19, <1>20, <1>21, <1>22, <1>23, LaneGrows

(* The task stops at any point: nothing of it survives, the record that    *)
(* was being written may.                                                  *)
LEMMA LaneCrashKeeps ==
    ASSUME NEW b \in Baselines, NEW e \in Nat, LaneAt(e, b), LaneCrash
    PROVE  LaneAt(e, b)' \/ LaneAt(e + 1, b)'
<1>1. SpoolInv(b) /\ TaskTyped /\ PhaseInv(b) /\ SourceInv /\ MemoryInv(b)
    BY DEF LaneAt, SpoolInv
<1>2. phase' = "stopped" /\ src' = NoSrc /\ pending' = <<>>
      /\ UNCHANGED <<mode, gens, archive, arcCkpt, ckpt, srcAcked>>
    BY DEF LaneCrash
<1>3. faults' \in 0..MaxFaults
    BY <1>1, LaneConstants DEF LaneCrash, TaskTyped
<1>4. CASE ~up /\ UNCHANGED spoolVars
  <2>1. UNCHANGED <<segs, mans, up, sp, stage, ackedRecs>>
      BY <1>4 DEF spoolVars
  <2>2. sp = Down /\ stage = SpoolIdle
      BY <1>1, <1>4 DEF MemoryInv
  <2>3. up' = FALSE
      BY <1>4, <2>1
  <2> QED
      BY <1>2, <1>3, <2>1, <2>2, <2>3, StoppedKeeps
<1>5. CASE Crash
  <2>1. up /\ up' = FALSE /\ sp' = Down /\ stage' = SpoolIdle /\ ackedRecs' = ackedRecs
      BY <1>5 DEF Crash
  <2>2. SpoolInv(b)' /\ (SameLog(b) \/ \E o \in Observations : o = stage.obs /\ LongerLog(o, b))
      BY <1>1, <1>5, CrashKeeps
  <2>3. NextStays(b)
    <3>1. CASE mans' = mans
        BY <3>1 DEF NextStays, Closed
    <3>2. CASE mans' # mans
      <4>1. CrashInPublish
          BY <1>5, <3>2 DEF Crash, CrashInCreate, CrashInWrite, CrashIdle
      <4>2. PICK t \in BOOLEAN : mans' = With(mans, sp.writer, NewManifest(t))
          BY <3>2, <4>1 DEF CrashInPublish
      <4>3. PICK m : m = NewManifest(t)
          OBVIOUS
      <4>4. stage.at = "close" /\ segs' = segs /\ mans' = With(mans, sp.writer, m)
          BY <4>1, <4>2, <4>3 DEF CrashInPublish
      <4> QED
          BY <1>1, <2>1, <4>3, <4>4, ManifestStays
    <3> QED
        BY <3>1, <3>2
  <2>4. TaskTyped'
    <3>1. pending' \in Seq(Cursors)
        BY <1>2
    <3> QED
        BY <1>1, <1>2, <1>3, <3>1 DEF TaskTyped
  <2>5. PhaseInv(b)'
      BY <1>2, <2>1, IdleStage DEF PhaseInv
  <2>6. SourceInv'
    <3>1. src' \in [gen : Nat, off : Nat] /\ src'.gen = 0
        BY <1>2 DEF NoSrc
    <3>2. Len(gens) \in Nat
        BY <1>1 DEF SourceInv
    <3> QED
        BY <1>1, <1>2, <2>1, <3>1, <3>2 DEF SourceInv
  <2>7. stage'.obs = NoObs
      BY <2>1, IdleStage
  <2>8. CASE SameLog(b)
      BY <1>2, <2>1, <2>2, <2>3, <2>4, <2>5, <2>6, <2>7, <2>8, LaneQuiet
  <2>9. CASE \E o \in Observations : o = stage.obs /\ LongerLog(o, b)
    <3>1. PICK o \in Observations : o = stage.obs /\ LongerLog(o, b)
        BY <2>9
    <3>2. PICK C : C = ToSet(pending')
        OBVIOUS
    <3>3. \A x \in C : x = Cursor(o) \/ x \in ToSet(pending)
        BY <1>2, <3>2 DEF ToSet
    <3> QED
        BY <1>2, <2>1, <2>2, <2>3, <2>4, <2>5, <2>6, <2>7, <3>1, <3>2, <3>3, LaneGrows
  <2> QED
      BY <2>2, <2>8, <2>9
<1> QED
    BY <1>4, <1>5 DEF LaneCrash

(* The checkpoint that is published is the next baseline.                  *)
LEMMA CheckpointIs ==
    ASSUME NEW b \in Baselines, SpoolInv(b), up, stage = SpoolIdle, sp.closed # {}, ckpt' = NewCheckpoint,
           NEW d, d = NextBaseline(b)
    PROVE  (d = Baseline)' /\ ckpt'.entries = Batches(mans[b.seq + 1])
<1>1. FilesTyped /\ ChainInv(b)
    BY DEF SpoolInv
<1>2. PICK s : s = b.seq + 1
    OBVIOUS
<1>3. Oldest = s /\ s \in LiveClosed(b)
    BY <1>2, OldestIs
<1>4. PICK m : m = mans[s]
    OBVIOUS
<1>5. m.recs = segs[s].recs
    BY <1>1, <1>3, <1>4, ClosedHeld
<1>6. m.seq = s
    BY <1>1, <1>3, <1>4, FileFacts DEF LiveClosed
<1>7. PICK h : h = Hash(m)
    OBVIOUS
<1>8. PICK c : c = Cursor(Last(m.recs))
    OBVIOUS
<1>9. c = Cursor(LastRec(s))
    BY <1>5, <1>8 DEF Last, LastRec
<1>10. PICK B : B = Batches(m)
    OBVIOUS
<1>11. ckpt' = [seq |-> s, hash |-> h, cursor |-> c, first |-> m.first, local |-> m.last, entries |-> B]
    BY <1>3, <1>4, <1>6, <1>7, <1>8, <1>10 DEF NewCheckpoint, Segment1
<1>12. d = [seq |-> s, hash |-> h, cursor |-> c, local |-> m.last]
    BY <1>2, <1>4, <1>7, <1>9 DEF NextBaseline
<1>13. ckpt'.seq = s /\ ckpt'.hash = h /\ ckpt'.cursor = c /\ ckpt'.local = m.last /\ ckpt'.entries = B
    BY <1>11
<1>14. (d = Baseline)'
    BY <1>12, <1>13 DEF Baseline
<1> QED
    BY <1>2, <1>4, <1>10, <1>13, <1>14

(* publish_auxiliary_checkpoint and forget_archived_segment: the lane goes *)
(* on from the archived segment, and captured is what was.                 *)
LEMMA PublishCheckpointKeeps ==
    ASSUME NEW b \in Baselines, NEW e \in Nat, LaneAt(e, b), PublishCheckpoint
    PROVE  \E d \in Baselines : LaneAt(e, d)'
<1>1. SpoolInv(b) /\ TaskTyped /\ PhaseInv(b) /\ SourceInv /\ FilesTyped /\ ChainInv(b) /\ AckInv(b)
      /\ EndsAt(e, b) /\ ArchiveInv(b) /\ LogInv(e, b) /\ FieldsTyped
    BY DEF LaneAt, SpoolInv
<1>2. phase = "checkpoint" /\ phase' = "clean" /\ sp' = Forget /\ ckpt' = NewCheckpoint
      /\ UNCHANGED <<segs, mans, up, stage, ackedRecs, mode, gens, src, pending, archive, arcCkpt, srcAcked, faults>>
    BY DEF PublishCheckpoint
<1>3. up /\ stage = SpoolIdle /\ sp.closed # {} /\ b.seq \notin DOMAIN segs /\ sp.count = 0
      /\ Batches(mans[b.seq + 1]) \subseteq archive /\ (mode = "startup" => pending = <<>>)
    BY <1>1, <1>2 DEF PhaseInv
<1>4. PICK d : d = NextBaseline(b)
    OBVIOUS
<1>5. d \in Baselines /\ Moved(b, d) /\ SpoolInv(d)' /\ (\A n \in Nat : n > d.local => Held(n, d)' = Held(n, b))
      /\ (\A f : EndsAt(f, d)' <=> EndsAt(f, b))
    BY <1>1, <1>2, <1>3, <1>4, ForgetKeeps
<1>6. (d = Baseline)' /\ ckpt'.entries = Batches(mans[b.seq + 1])
    BY <1>1, <1>2, <1>3, <1>4, CheckpointIs
<1>7. PICK s : s = b.seq + 1
    OBVIOUS
<1>8. PICK m : m = mans[s]
    OBVIOUS
<1>9. s \in LiveClosed(b)
    BY <1>1, <1>3, <1>7, OldestIs
<1>10. d.seq = s /\ d.local = m.last /\ d.local > b.local /\ d.cursor # NoCursor /\ d.cursor = Cursor(LastRec(s))
    BY <1>5, <1>7, <1>8 DEF Moved
<1>11. d.local \in Nat /\ b.local \in Nat
    BY <1>5, BaselineFacts
<1>12. EndsAt(e, d)'
    BY <1>1, <1>5
<1>13. d.local <= e
  <2>1. s \in Live(b)
      BY <1>5, <1>10 DEF Moved, Full
  <2>2. <<s, Size(s)>> \in LivePositions(b)
    <3>1. Size(s) \in Nat /\ Size(s) >= 1 /\ s \in DOMAIN segs /\ s > b.seq
        BY <1>1, <1>5, <1>10, FullFacts DEF Moved, Live
    <3>2. PICK z \in Nat : z = Size(s)
        BY <3>1
    <3>3. <<s, z>> \in Positions
        BY <1>1, <3>1, <3>2, PositionFacts
    <3>4. <<s, z>>[1] = s
        OBVIOUS
    <3> QED
        BY <3>1, <3>2, <3>3, <3>4 DEF LivePositions
  <2>3. PICK p \in LivePositions(b) : p = <<s, Size(s)>>
      BY <2>2
  <2>4. p[1] = s /\ p[2] = Size(s)
      BY <2>3
  <2>5. Number(p, b) = Before(s, b) + Size(s)
      BY <1>1, <2>4, NumberIs
  <2>6. d.local = Before(s, b) + Size(s)
      BY <1>5, <1>10 DEF Moved
  <2> QED
      BY <1>1, <2>5, <2>6, NumbersEnd
<1>14. \A n : ArchivedAs(n)' = ArchivedAs(n)
    BY <1>2 DEF ArchivedAs
<1>15. \A n \in Nat : n > b.local /\ n <= d.local => ArchivedAs(n) = Held(n, b)
    BY <1>1, <1>3, <1>7, <1>8, <1>9, <1>10, ArchivedSegment
<1>16. StillCaptured(e, b, d)
  <2> SUFFICES ASSUME NEW n \in 0..e PROVE CapturedIn(n, d)' = CapturedIn(n, b)
      BY DEF StillCaptured
  <2>1. n \in Nat
      OBVIOUS
  <2>2. CASE n <= b.local
    <3>1. n <= d.local
        BY <1>10, <1>11, <2>1, <2>2
    <3> QED
        BY <1>14, <2>2, <3>1 DEF CapturedIn
  <2>3. CASE n > b.local /\ n <= d.local
    <3>1. ~(n <= b.local)
        BY <1>11, <2>1, <2>3
    <3> QED
        BY <1>14, <1>15, <2>1, <2>3, <3>1 DEF CapturedIn
  <2>4. CASE n > d.local
    <3>1. ~(n <= b.local) /\ ~(n <= d.local)
        BY <1>10, <1>11, <2>1, <2>4
    <3> QED
        BY <1>5, <2>1, <2>4, <3>1 DEF CapturedIn
  <2> QED
      BY <1>10, <1>11, <2>1, <2>2, <2>3, <2>4
<1>17. AckedUpTo(e)
    BY <1>1, AckedWithin DEF LogInv
<1>18. LogInv(e, d)'
  <2>1. PICK C : C = ToSet(pending')
      OBVIOUS
  <2>2. KnownTo(C, e, b)
      BY <1>1, <1>2, <2>1 DEF LogInv
  <2>3. PICK A : A = srcAcked'
      OBVIOUS
  <2>4. KnownTo(A, d.local, b)
    <3>1. KnownTo(A, b.local, b)
        BY <1>1, <1>2, <2>3 DEF LogInv
    <3>2. \A n \in 1..b.local : n \in 1..d.local
        BY <1>10, <1>11
    <3> QED
        BY <3>1, <3>2 DEF KnownTo
  <2>5. PICK o : o = stage'.obs
      OBVIOUS
  <2>6. o = NoObs
      BY <1>2, <1>3, <2>5, IdleStage
  <2> QED
      BY <1>1, <1>2, <1>5, <1>13, <1>16, <1>17, <2>1, <2>2, <2>3, <2>4, <2>5, <2>6, LogKept
<1>19. ArchiveInv(d)'
  <2>1. archive \subseteq BatchRecords
      BY <1>1 DEF ArchiveInv
  <2>2. ASSUME NEW c \in archive PROVE c.first + Len(c.recs) - 1 <= d.local
    <3>1. c.first \in Nat /\ Len(c.recs) \in Nat
        BY <2>1 DEF BatchRecords
    <3>2. CASE c.first + Len(c.recs) - 1 <= b.local
        BY <1>10, <1>11, <3>1, <3>2
    <3>3. CASE c \in Batches(m)
        BY <1>1, <1>7, <1>8, <1>9, <1>10, <3>3, BatchHeld
    <3> QED
        BY <1>1, <1>7, <1>8, <3>2, <3>3 DEF ArchiveInv
  <2>3. d.local # 0
      BY <1>10, <1>11
  <2>4. PICK q \in Observations : ArchivedAs(d.local) = {q} /\ d.cursor = Cursor(q)
    <3>1. m.first \in Nat /\ Len(m.recs) \in Nat /\ Len(m.recs) >= 1 /\ m.last = m.first + Len(m.recs) - 1
          /\ m.recs = segs[s].recs /\ HeldAs(m, b)
        BY <1>1, <1>8, <1>9, ClosedHeld
    <3>2. PICK f \in Nat, l \in Nat : f = m.first /\ l = Len(m.recs)
        BY <3>1
    <3>3. d.local = f + l - 1 /\ l >= 1
        BY <1>10, <3>1, <3>2
    <3>4. d.local \in f .. (f + l - 1) /\ d.local - f + 1 = l
        BY <1>11, <3>3
    <3>5. Held(d.local, b) = {m.recs[l]}
        BY <3>1, <3>2, <3>4 DEF HeldAs
    <3>6. m.recs[l] = LastRec(s)
        BY <3>1, <3>2 DEF LastRec
    <3>7. LastRec(s) \in Observations
        BY <1>1, <1>5, <1>10, FullFacts DEF Moved
    <3>8. ArchivedAs(d.local) = Held(d.local, b)
        BY <1>10, <1>11, <1>15
    <3> QED
        BY <1>10, <3>5, <3>6, <3>7, <3>8
  <2>5. ArchivedAs(d.local)' = {q}
      BY <1>14, <2>4
  <2>6. (\A c \in archive : c.first + Len(c.recs) - 1 <= d.local)'
      BY <1>2, <2>2
  <2>7. ckpt'.entries \subseteq archive'
      BY <1>2, <1>3, <1>6
  <2> QED
      BY <1>2, <1>10, <2>1, <2>3, <2>4, <2>5, <2>6, <2>7 DEF ArchiveInv, BatchRecords, Cursor
<1>20. sp'.count = sp.count /\ sp'.last = sp.last
    BY <1>1, <1>2, Forgotten
<1>21. TaskTyped'
    BY <1>1, <1>2 DEF TaskTyped
<1>22. PhaseInv(d)'
    BY <1>2, <1>3, <1>20, IdleStage DEF PhaseInv
<1>23. SourceInv'
    BY <1>1, <1>2, <1>3, <1>20 DEF SourceInv
<1>24. LaneAt(e, d)'
    BY <1>5, <1>6, <1>12, <1>18, <1>19, <1>21, <1>22, <1>23 DEF LaneAt
<1> QED
    BY <1>5, <1>24

(* The lane before its first start.                                        *)
LEMMA LaneStarts ==
    ASSUME LaneInit
    PROVE  LaneInv
<1>1. SpoolInit /\ phase = "stopped" /\ mode = "startup" /\ gens = <<>> /\ src = NoSrc /\ pending = <<>>
      /\ archive = {} /\ ckpt = NoCkpt /\ srcAcked = {} /\ faults = 0
    BY DEF LaneInit
<1>2. PICK b : b = NoBaseline
    OBVIOUS
<1>3. b \in Baselines /\ b.seq = 0 /\ b.local = 0 /\ b.cursor = NoCursor
    BY <1>2, NoBaselineIs
<1>4. SpoolInv(b)
    BY <1>1, <1>2, SpoolStarts
<1>5. ~up /\ sp = Down /\ stage = SpoolIdle /\ ackedRecs = <<>> /\ DOMAIN segs = {}
    BY <1>1 DEF SpoolInit
<1>6. b = Baseline
    BY <1>1, <1>2 DEF Baseline, NoCkpt, NoBaseline
<1>7. EndsAt(0, b)
    BY <1>3, <1>5 DEF EndsAt, Live
<1>8. TaskTyped
  <2>1. pending \in Seq(Cursors)
      BY <1>1
  <2> QED
      BY <1>1, <2>1, LaneConstants DEF TaskTyped
<1>9. PhaseInv(b)
    BY <1>1, <1>5, IdleStage DEF PhaseInv
<1>10. SourceInv
  <2>1. src \in [gen : Nat, off : Nat] /\ src.gen = 0
      BY <1>1 DEF NoSrc
  <2>2. gens \in Seq(Generations) /\ Len(gens) = 0
      BY <1>1
  <2> QED
      BY <1>1, <1>5, <2>1, <2>2 DEF SourceInv
<1>11. \A n : ArchivedAs(n) = {}
    BY <1>1 DEF ArchivedAs
<1>12. ArchiveInv(b)
  <2>1. ckpt.entries = {}
      BY <1>1 DEF NoCkpt
  <2> QED
      BY <1>1, <1>3, <2>1 DEF ArchiveInv
<1>13. LogInv(0, b)
  <2>1. CapturedIn(0, b) = {}
      BY <1>3, <1>11 DEF CapturedIn
  <2>2. Ordered(0, b)
    <3>1. EpochsOnce(0, b)
        BY DEF EpochsOnce
    <3> QED
        BY <2>1, <3>1 DEF Ordered
  <2>3. AckedCaptured(b)
      BY <1>5 DEF AckedCaptured
  <2>4. ToSet(pending) = {}
      BY <1>1 DEF ToSet
  <2>5. KnownTo(ToSet(pending), 0, b) /\ KnownTo(srcAcked, b.local, b)
      BY <1>1, <2>4 DEF KnownTo
  <2>6. stage.obs = NoObs
      BY <1>5, IdleStage
  <2> QED
      BY <2>2, <2>3, <2>5, <2>6 DEF LogInv
<1>14. LaneAt(0, b)
    BY <1>4, <1>6, <1>7, <1>8, <1>9, <1>10, <1>12, <1>13 DEF LaneAt
<1> QED
    BY <1>3, <1>14 DEF LaneInv

(* Nothing changes.                                                        *)
LEMMA LaneStutters ==
    ASSUME NEW b \in Baselines, NEW e, LaneAt(e, b), UNCHANGED vars
    PROVE  LaneAt(e, b)'
<1>1. SpoolInv(b) /\ TaskTyped /\ PhaseInv(b) /\ SourceInv
    BY DEF LaneAt
<1>2. UNCHANGED <<segs, mans, up, sp, stage, ackedRecs>>
    BY DEF vars, spoolVars
<1>3. UNCHANGED <<phase, mode, gens, src, pending, archive, arcCkpt, ckpt, srcAcked, faults>>
    BY DEF vars, laneVars
<1>4. SpoolInv(b)'
    BY <1>1, <1>2, SpoolSame
<1>5. SameLog(b) /\ NextStays(b)
    BY <1>1, <1>2, SameFilesLog
<1>6. TaskTyped' /\ SourceInv'
    BY <1>1, <1>2, <1>3 DEF TaskTyped, SourceInv
<1>7. PhaseInv(b)'
  <2>1. Batches(mans[b.seq + 1])' = Batches(mans[b.seq + 1])
      BY <1>2 DEF Batches, BatchStarts, Hash
  <2> QED
      BY <1>1, <1>2, <1>3, <2>1 DEF PhaseInv
<1> QED
    BY <1>2, <1>3, <1>4, <1>5, <1>6, <1>7, LaneQuiet

(* Every step of the lane keeps the invariant: from the same baseline and  *)
(* with the same records, except that an append, or a crash inside one,    *)
(* captures one more and a checkpoint moves the baseline.                  *)
LEMMA LaneSteps ==
    ASSUME LaneInv, [LaneNext]_vars
    PROVE  LaneInv'
<1>1. PICK b \in Baselines, e \in Nat : LaneAt(e, b)
    BY DEF LaneInv
<1>2. e + 1 \in Nat
    OBVIOUS
<1>3. ASSUME NEW d \in Baselines, NEW f \in Nat, LaneAt(f, d)' PROVE LaneInv'
    BY <1>3 DEF LaneInv
<1>4. CASE UNCHANGED vars
    BY <1>1, <1>3, <1>4, LaneStutters
<1>5. CASE TaskStep
  <2>1. CASE Start \/ CleanupManifest \/ CleanupSegment \/ OpenSpool
    <3>1. LaneAt(e, b)'
        BY <1>1, <2>1, StartKeeps, CleanupManifestKeeps, CleanupSegmentKeeps, OpenSpoolKeeps
    <3> QED
        BY <1>3, <3>1
  <2>2. CASE SpoolStage
    <3>1. LaneAt(e, b)'
        BY <1>1, <2>2, PublishStageKeeps, CreateStageKeeps DEF SpoolStage
    <3> QED
        BY <1>3, <3>1
  <2>3. CASE Seal \/ ArchiveBatch \/ ArchiveDone
    <3>1. LaneAt(e, b)'
        BY <1>1, <2>3, SealKeeps, ArchiveBatchKeeps, ArchiveDoneKeeps
    <3> QED
        BY <1>3, <3>1
  <2>4. CASE PublishCheckpoint
    <3>1. PICK d \in Baselines : LaneAt(e, d)'
        BY <1>1, <2>4, PublishCheckpointKeeps
    <3> QED
        BY <1>3, <3>1
  <2>5. CASE Archived \/ Acknowledge \/ OpenSource \/ FollowRotation \/ ObserveRefused
    <3>1. LaneAt(e, b)'
        BY <1>1, <2>5, ArchivedKeeps, AcknowledgeKeeps, OpenSourceKeeps, FollowRotationKeeps, ObserveRefusedKeeps
    <3> QED
        BY <1>3, <3>1
  <2>6. CASE Appended
    <3>1. LaneAt(e + 1, b)'
        BY <1>1, <2>6, AppendedKeeps
    <3> QED
        BY <1>2, <1>3, <3>1
  <2>7. CASE \E due \in BOOLEAN : Observe(due)
    <3>1. LaneAt(e, b)'
        BY <1>1, <2>7, ObserveKeeps
    <3> QED
        BY <1>3, <3>1
  <2>8. CASE Flush("group")
    <3>1. LaneAt(e, b)'
        BY <1>1, <2>8, FlushKeeps
    <3> QED
        BY <1>3, <3>1
  <2> QED
      BY <1>5, <2>1, <2>2, <2>3, <2>4, <2>5, <2>6, <2>7, <2>8 DEF TaskStep
<1>6. CASE AppendLine \/ RotateLog
  <2>1. LaneAt(e, b)'
      BY <1>1, <1>6, AppendLineKeeps, RotateLogKeeps
  <2> QED
      BY <1>3, <2>1
<1>7. CASE Flush("reopen") \/ Flush("stop") \/ Close
  <2>1. LaneAt(e, b)'
      BY <1>1, <1>7, FlushKeeps, CloseKeeps
  <2> QED
      BY <1>3, <2>1
<1>8. CASE LaneCrash
  <2>1. LaneAt(e, b)' \/ LaneAt(e + 1, b)'
      BY <1>1, <1>8, LaneCrashKeeps
  <2> QED
      BY <1>2, <1>3, <2>1
<1> QED
    BY <1>4, <1>5, <1>6, <1>7, <1>8 DEF LaneNext

(* The lane in every state: what is captured, in the archive up to the     *)
(* checkpoint and in the spool after it, is one record per number, in the  *)
(* order of the lines; the directory continues the checkpoint; the archive *)
(* is ahead of the checkpoint by batches of the next segment at most; and  *)
(* the phase of the task says what has been sealed and acknowledged.       *)
THEOREM LaneInvariant == LaneSpec => []LaneInv
<1>1. LaneInit => LaneInv
    BY LaneStarts
<1>2. LaneInv /\ [LaneNext]_vars => LaneInv'
    BY LaneSteps
<1> QED
    BY <1>1, <1>2, PTL DEF LaneSpec

-----------------------------------------------------------------------------
(* What the invariant says of the lane.                                    *)

(* The fields of the checkpoint.                                           *)
LEMMA CheckpointFacts ==
    ASSUME NEW b, b = Baseline
    PROVE  b.seq = ckpt.seq /\ b.local = ckpt.local
BY DEF Baseline

(* The positions of the task.                                              *)
LEMMA LaneInvTyped == LaneInv => LaneTypeOK
<1> SUFFICES ASSUME LaneInv PROVE LaneTypeOK
    OBVIOUS
<1>1. PICK b \in Baselines, e \in Nat : LaneAt(e, b)
    BY DEF LaneInv
<1>2. TaskTyped /\ SourceInv /\ b = Baseline
    BY <1>1 DEF LaneAt
<1>3. ckpt.local \in Nat /\ ckpt.seq \in 0..MaxSegments
    BY <1>2, CheckpointFacts DEF Baselines
<1>4. src.gen \in 0..Len(gens)
  <2>1. src.gen \in Nat /\ src.gen <= Len(gens) /\ Len(gens) \in Nat
      BY <1>2 DEF SourceInv
  <2> QED
      BY <2>1
<1> QED
    BY <1>2, <1>3, <1>4 DEF TaskTyped, LaneTypeOK

(* Acknowledged records are archived once the checkpoint covers them.      *)
LEMMA LaneInvHolds == LaneInv => NothingLost
<1> SUFFICES ASSUME LaneInv PROVE NothingLost
    OBVIOUS
<1>1. PICK b \in Baselines, e \in Nat : LaneAt(e, b)
    BY DEF LaneInv
<1>2. FilesTyped /\ ChainInv(b) /\ AckInv(b) /\ ArchiveInv(b) /\ LogInv(e, b) /\ b = Baseline
    BY <1>1 DEF LaneAt, SpoolInv
<1>3. b.local = ckpt.local /\ b.local \in Nat
    BY <1>2, CheckpointFacts, BaselineFacts
<1>4. AckedHeld(Baseline)
    BY <1>2 DEF AckInv
<1>5. ASSUME NEW i \in 1..Len(ackedRecs)
      PROVE  /\ ackedRecs[i].local <= ckpt.local => ArchivedAs(ackedRecs[i].local) = {ackedRecs[i].obs}
             /\ ArchivedAs(ackedRecs[i].local) \subseteq {ackedRecs[i].obs}
  <2>1. PICK n \in Nat : n = ackedRecs[i].local
      BY <1>2, AckedFacts
  <2>2. CapturedIn(n, b) = {ackedRecs[i].obs}
      BY <1>2, <2>1 DEF LogInv, AckedCaptured
  <2>3. CASE n <= b.local
      BY <1>3, <2>1, <2>2, <2>3 DEF CapturedIn
  <2>4. CASE ~(n <= b.local)
    <3>1. n > b.local
        BY <1>3, <2>4
    <3>2. Held(n, b) = {ackedRecs[i].obs}
        BY <2>2, <2>4 DEF CapturedIn
    <3>3. ArchivedAs(n) \subseteq Held(n, b)
        BY <1>2, <3>1, ArchivedAhead
    <3> QED
        BY <1>3, <2>1, <2>4, <3>2, <3>3
  <2> QED
      BY <2>3, <2>4
<1> QED
    BY <1>4, <1>5 DEF NothingLost

(* What the source was told is archived and covered.                       *)
LEMMA LaneInvAcked == LaneInv => SourceAckedAfterCheckpoint
<1> SUFFICES ASSUME LaneInv, NEW c \in srcAcked PROVE Checkpointed(c)
    BY DEF SourceAckedAfterCheckpoint
<1>1. PICK b \in Baselines, e \in Nat : LaneAt(e, b)
    BY DEF LaneInv
<1>2. ArchiveInv(b) /\ LogInv(e, b) /\ b = Baseline
    BY <1>1 DEF LaneAt
<1>3. b.local = ckpt.local /\ b.local \in Nat
    BY <1>2, CheckpointFacts, BaselineFacts
<1>4. PICK n \in 1..b.local : \E q \in CapturedIn(n, b) : Cursor(q) = c
    BY <1>2 DEF LogInv, KnownTo
<1>5. n <= b.local /\ n \in Nat
    BY <1>3
<1>6. PICK q \in ArchivedAs(n) : Cursor(q) = c
    BY <1>4, <1>5 DEF CapturedIn
<1>7. PICK d \in archive : n \in d.first .. (d.first + Len(d.recs) - 1) /\ q = d.recs[n - d.first + 1]
    BY <1>6 DEF ArchivedAs
<1>8. d \in BatchRecords
    BY <1>2 DEF ArchiveInv
<1>9. PICK f \in Nat, l \in Nat : f = d.first /\ l = Len(d.recs)
    BY <1>8 DEF BatchRecords
<1>10. PICK i : i = n - f + 1
    OBVIOUS
<1>11. i \in 1..l /\ f + i - 1 = n
  <2>1. n \in f .. (f + l - 1)
      BY <1>7, <1>9
  <2> QED
      BY <1>10, <2>1
<1>12. Cursor(d.recs[i]) = c
    BY <1>6, <1>7, <1>9, <1>10
<1> QED
    BY <1>3, <1>5, <1>9, <1>11, <1>12 DEF Checkpointed

(* The captured stream, line after line.                                   *)
LEMMA LaneInvOrdered == LaneInv => CapturedInOrder
<1> SUFFICES ASSUME LaneInv PROVE CapturedInOrder
    OBVIOUS
<1>1. PICK b \in Baselines, e \in Nat : LaneAt(e, b)
    BY DEF LaneInv
<1>2. FilesTyped /\ ChainInv(b) /\ CountInv(b) /\ EndsAt(e, b) /\ Ordered(e, b) /\ b = Baseline
    BY <1>1 DEF LaneAt, SpoolInv, LogInv
<1>3. b.seq = ckpt.seq /\ b.local = ckpt.local
    BY <1>2, CheckpointFacts
<1>4. \A n : Captured(n) = CapturedIn(n, b)
    BY <1>2, <1>3 DEF Captured, CapturedIn
<1>5. CapturedTo = e
  <2>1. PICK f : f = b.local + Cardinality(LivePositions(b))
      OBVIOUS
  <2>2. EndsAt(f, b)
      BY <1>2, <2>1 DEF CountInv
  <2>3. f = e
      BY <1>2, <2>2, EndsAtOne
  <2> QED
      BY <1>3, <2>1, <2>3 DEF CapturedTo, LivePositions
<1>6. NoLineSkipped
  <2> SUFFICES ASSUME NEW n \in 1..e
               PROVE  \E o \in Captured(n) :
                        /\ Captured(n) = {o}
                        /\ \/ o.off = 1 /\ \A q \in Captured(n - 1) : q.epoch # o.epoch
                           \/ \E q \in Captured(n - 1) : q.epoch = o.epoch /\ o.off = q.off + 1
      BY <1>5 DEF NoLineSkipped
  <2>1. PICK o \in Observations : CapturedIn(n, b) = {o} /\ Follows(n, o, b)
      BY <1>2 DEF Ordered
  <2>2. Captured(n) = {o} /\ Captured(n - 1) = CapturedIn(n - 1, b)
      BY <1>4, <2>1
  <2> QED
      BY <2>1, <2>2 DEF Follows
<1>7. EpochsNotReadmitted
  <2>1. EpochsOnce(e, b)
      BY <1>2 DEF Ordered
  <2> QED
      BY <1>4, <1>5, <2>1 DEF EpochsOnce, EpochsNotReadmitted
<1> QED
    BY <1>6, <1>7 DEF CapturedInOrder

(* A stopped lane starts again, without the archive's own checkpoint.      *)
LEMMA LaneInvRestarts == LaneInv => (~V3 => RestartSucceeds)
<1> SUFFICES ASSUME LaneInv, ~V3 PROVE RestartSucceeds
    OBVIOUS
<1>1. PICK b \in Baselines, e \in Nat : LaneAt(e, b)
    BY DEF LaneInv
<1>2. FilesTyped /\ ChainInv(b) /\ DirInv(b) /\ PhaseInv(b) /\ ArchiveInv(b) /\ b = Baseline
    BY <1>1 DEF LaneAt, SpoolInv, DirInv
<1>3. CheckpointBinds
    BY <1>2 DEF ArchiveInv, CheckpointBinds
<1>4. ASSUME phase = "open", ~Interrupted PROVE Openable(Baseline)
  <2>1. b.seq \notin DOMAIN segs
      BY <1>2, <1>4 DEF PhaseInv
  <2>2. DOMAIN segs = Live(b)
    <3>1. \A s \in DOMAIN segs : s > b.seq
        BY <1>2, <2>1, FileFacts, BaselineFacts DEF ChainInv
    <3> QED
        BY <3>1 DEF Live
  <2>3. Whole(b)
      BY <1>4, <2>2 DEF Interrupted, Whole
  <2> QED
      BY <1>2, <2>3, WholeOpens
<1>5. phase = "closing" => sp.count = 0 /\ sp.closed = {} /\ pending = <<>>
    BY <1>2 DEF PhaseInv
<1> QED
    BY <1>3, <1>4, <1>5 DEF RestartSucceeds

(* The task names a generation of the file that is there and a segment in  *)
(* range, in every state.                                                  *)
THEOREM LaneTyped == LaneSpec => []LaneTypeOK
BY LaneInvariant, LaneInvTyped, PTL

(* Whatever the spool acknowledged is in the archive once the checkpoint   *)
(* covers it and in the spool until then, under the number it was          *)
(* acknowledged with; pruning, crashes and restarts lose nothing and       *)
(* renumber nothing.                                                       *)
THEOREM LaneLosesNothing == LaneSpec => []NothingLost
BY LaneInvariant, LaneInvHolds, PTL

(* The source is told that a line is durable only when the archive holds   *)
(* it and the checkpoint a restart begins from covers it.                  *)
THEOREM SourceAckedLast == LaneSpec => []SourceAckedAfterCheckpoint
BY LaneInvariant, LaneInvAcked, PTL

(* The captured stream, archive and spool together, has every line of an   *)
(* epoch once and in order, and no epoch twice, through every rotation of  *)
(* the file, crash, flush and reopening.                                   *)
THEOREM LaneCapturesInOrder == LaneSpec => []CapturedInOrder
BY LaneInvariant, LaneInvOrdered, PTL

(* With the V2 raw archive a stopped lane binds its checkpoint, its        *)
(* cleaned directory opens unless a file was cut off, and a clean stop     *)
(* leaves nothing that is not checkpointed.                                *)
THEOREM LaneRestarts == LaneSpec => [](~V3 => RestartSucceeds)
BY LaneInvariant, LaneInvRestarts, PTL
=============================================================================
