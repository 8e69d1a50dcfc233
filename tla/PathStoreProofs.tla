-------------------------- MODULE PathStoreProofs --------------------------
(***************************************************************************)
(* Theorems of PathStore for every size of the tables and of the flash,    *)
(* and every number of stores and power cycles, checked by TLAPS: the      *)
(* recorder, the store and the load keep within their tables; and where    *)
(* every course has room for the longest path, no store disturbs another   *)
(* course and a load gives what the last complete store was to keep.       *)
(***************************************************************************)
EXTENDS PathStore, SequenceTheorems, TLAPS

Storing == main.at \in {"header", "segments", "points"}
Loading == main.at \in {"load", "load_segments", "load_points"}

\* The recorder's tables: header h, marks m of n segments, c points of the open
\* one, t points in all.  The segments as they were recorded are those of the
\* table until a load overwrites it.
RecorderOK(h, m, n, c, t, overwritten) ==
    /\ t \in 0 .. MaxPoints /\ c \in 0 .. t /\ n \in 0 .. MaxSegments
    /\ h \in [0 .. MaxSegments - 1 -> 0 .. MaxPoints]
    /\ m \in Seq(Nat) /\ Len(m) = n
    /\ ~overwritten =>
          /\ \A i \in 1 .. n : h[i - 1] = m[i]
          /\ \E ends \in [0 .. n -> 0 .. t] :
                /\ ends[0] = 0
                /\ \A i \in 1 .. n : ends[i] = ends[i - 1] + h[i - 1]
                /\ ends[n] + c = t

RecorderNow == RecorderOK(segHdr, marks, segNum, cur, total, clobbered)

\* The rest of the type invariant.
RestOK ==
    /\ flash \in [Pages -> Contents] /\ cycle \in 1 .. MaxCycles
    /\ mul \in Headers /\ course \in Courses \union {0} /\ left \in 0 .. 2
    /\ moved \in BOOLEAN /\ pause \in BOOLEAN
    /\ main \in MainLoops /\ main.index <= main.count
    /\ main.at = "load_points" => main.count <= MaxPoints
    /\ clobbered \in BOOLEAN /\ stores \in 0 .. MaxStores

\* A store goes through the pages of its course from the first one on.
StoreRuns ==
    /\ Storing \/ main.at = "delay" => course \in Courses /\ left = 1
    /\ main.at # "points" => main.index = 0
    /\ main.at \notin {"points", "load_points"} => main.count = 0
    /\ main.at = "segments" => course = 2
    /\ main.at = "points" =>
          /\ course # 2 => main.count <= MaxPoints
          /\ \E q \in 0 .. PageNum :
                /\ main.page = PointPage[course] + q
                /\ main.index = q * PerPage \/ main.index = main.count

\* After the wait the header of course 2 is that of the recording, unless a
\* segment ends in the same round.
HeaderReady ==
    Storing /\ course = 2 /\ ~moved =>
        /\ mul = [check |-> 2, segs |-> segNum, total |-> total]
        /\ cur = 0 \/ segNum >= MaxSegments

\* A load has what it has read so far, unless the recorder interferes.
LoadRuns ==
    /\ Loading => main.load \in Courses
    /\ main.at = "load_segments" => main.load = 2
    /\ main.at \in {"load_segments", "load_points"} /\ main.load = 2 =>
          mul = MulRead \/ (RecorderInterferes /\ mul.total <= MaxPoints)
    /\ main.at = "load_points" /\ main.load = 2 /\ ~RecorderInterferes =>
          mul.segs > MaxSegments \/ Segments(mul.segs) = CountsRead(mul.segs)
    /\ main.at = "load_points" /\ main.load # 2 =>
          main.count = SingleRead(main.load) \/ RecorderInterferes

IInv == RecorderNow /\ RestOK /\ StoreRuns /\ HeaderReady /\ LoadRuns

\* A store that is to keep something has written its first pages as meant.
StoredSoFar ==
    pending # Unknown =>
        /\ main.at \in {"segments", "points"}
        /\ pending = [segments |-> IF course = 2 THEN marks ELSE << >>,
                      points |-> [i \in 1 .. total |-> <<cycle, i - 1>>]]
        /\ course = 2 => ~moved /\ ~clobbered /\ cur = 0
        /\ HeaderRead(course) = HeaderOf(course, IF course = 2 THEN segNum ELSE 0, total)
        /\ main.at = "points" =>
              /\ main.count = total
              /\ course = 2 => flash[SegmentPage] = SegmentsOf(Segments(segNum))
              /\ \A i \in 0 .. main.index - 1 : PointRead(course, i) = <<cycle, i>>

\* What the last complete store of a course kept can be loaded until the next one.
Kept ==
    \A c \in Courses :
        saved[c] # Unknown /\ ~(Storing /\ course = c) =>
            Loadable(c) = saved[c] /\ Len(saved[c].points) <= MaxPoints

KInv == IInv /\ saved = [c \in Courses |-> saved[c]] /\ StoredSoFar /\ Kept

-----------------------------------------------------------------------------
(* Constants                                                                *)

LEMMA Layout ==
    /\ Courses \subseteq 0 .. 2
    /\ MaxPoints \in Nat /\ MaxPoints > 0 /\ MaxSegments \in Nat /\ MaxSegments > 0
    /\ PerPage \in Nat /\ PerPage > 0 /\ PageNum \in Nat /\ PageNum > 0
    /\ MaxCycles \in Nat /\ MaxCycles > 0 /\ MaxStores \in Nat
    /\ SegmentPage \in Pages
    /\ \A c \in Courses : HeaderPage[c] \in Pages /\ PointPage[c] \in Pages /\ c \in 0 .. 2
BY LayoutAssumption

\* A lost word reads as more than any count.
LEMMA ErasedIsMost ==
    Erased \in Nat /\ Erased > MaxPoints /\ Erased > MaxSegments
<1>1. PageNum * PerPage \in Nat
  BY Layout
<1> QED
  BY <1>1, Layout DEF Erased

LEMMA Multiples ==
    ASSUME NEW d \in Nat, NEW q \in Int, NEW b \in Int, q >= b
    PROVE  d * q >= d * b
OBVIOUS

\* Where the i-th point of a path lies.
LEMMA Located ==
    ASSUME NEW q \in Nat, NEW d \in Nat, d > 0, NEW r \in Nat, r < d, NEW i \in Nat, i = q * d + r
    PROVE  i \div d = q /\ i % d = r
<1>1. i \div d = q
  OBVIOUS
<1>2. i % d = r
  OBVIOUS
<1> QED
  BY <1>1, <1>2

LEMMA Divided ==
    ASSUME NEW i \in Nat, NEW d \in Nat, d > 0
    PROVE  /\ i \div d \in Nat /\ i % d \in Nat /\ i % d < d
           /\ i >= d * (i \div d)
<1>1. i \div d \in Nat
  OBVIOUS
<1>2. i % d \in Nat /\ i % d < d
  OBVIOUS
<1>3. i >= d * (i \div d)
  OBVIOUS
<1> QED
  BY <1>1, <1>2, <1>3

\* A point before the q-th page is on an earlier one.
LEMMA EarlierPage ==
    ASSUME NEW i \in Nat, NEW d \in Nat, d > 0, NEW q \in Nat, i < q * d
    PROVE  i \div d < q
<1> DEFINE k == i \div d
<1>1. k \in Nat /\ i >= d * k
  BY Divided
<1> HIDE DEF k
<1>2. k >= q => d * k >= d * q
  BY <1>1, Multiples
<1>3. d * q \in Nat /\ d * k \in Nat /\ i < d * q
  BY <1>1
<1>4. k < q
  BY <1>1, <1>2, <1>3
<1> QED
  BY <1>4 DEF k

-----------------------------------------------------------------------------
(* Recording                                                                *)

\* path_segment_finish ends a segment where the recording is.
LEMMA Closed ==
    ASSUME NEW h, NEW m, NEW n, NEW c, NEW t, NEW overwritten,
           RecorderOK(h, m, n, c, t, overwritten), n < MaxSegments
    PROVE  RecorderOK([h EXCEPT ![n] = c], Append(m, c), n + 1, 0, t, overwritten)
<1> DEFINE g == [h EXCEPT ![n] = c]
           k == Append(m, c)
<1>1. /\ t \in 0 .. MaxPoints /\ c \in 0 .. t /\ n \in 0 .. MaxSegments
      /\ h \in [0 .. MaxSegments - 1 -> 0 .. MaxPoints] /\ m \in Seq(Nat) /\ Len(m) = n
  BY DEF RecorderOK
<1>2. /\ g \in [0 .. MaxSegments - 1 -> 0 .. MaxPoints] /\ g[n] = c
      /\ \A i \in 0 .. n - 1 : g[i] = h[i]
  BY <1>1, Layout
<1>3. /\ k \in Seq(Nat) /\ Len(k) = n + 1 /\ k[n + 1] = c
      /\ \A i \in 1 .. n : k[i] = m[i]
  BY <1>1, Layout
<1> HIDE DEF g, k
<1>4. ASSUME ~overwritten
      PROVE  /\ \A i \in 1 .. n + 1 : g[i - 1] = k[i]
             /\ \E ends \in [0 .. n + 1 -> 0 .. t] :
                   /\ ends[0] = 0
                   /\ \A i \in 1 .. n + 1 : ends[i] = ends[i - 1] + g[i - 1]
                   /\ ends[n + 1] + 0 = t
  <2>1. \A i \in 1 .. n : h[i - 1] = m[i]
    BY <1>4 DEF RecorderOK
  <2>2. \A i \in 1 .. n + 1 : g[i - 1] = k[i]
    <3> TAKE i \in 1 .. n + 1
    <3>1. CASE i = n + 1
      BY <1>1, <1>2, <1>3, <3>1
    <3>2. CASE i \in 1 .. n
      BY <1>1, <1>2, <1>3, <2>1, <3>2
    <3> QED
      BY <1>1, <3>1, <3>2
  <2>3. PICK ends \in [0 .. n -> 0 .. t] :
           /\ ends[0] = 0
           /\ \A i \in 1 .. n : ends[i] = ends[i - 1] + h[i - 1]
           /\ ends[n] + c = t
    BY <1>4 DEF RecorderOK
  <2> DEFINE e == [i \in 0 .. n + 1 |-> IF i = n + 1 THEN t ELSE ends[i]]
  <2>4. e \in [0 .. n + 1 -> 0 .. t] /\ e[0] = 0 /\ e[n + 1] = t
    BY <1>1, <2>3
  <2>5. \A i \in 0 .. n : e[i] = ends[i]
    BY <1>1
  <2> HIDE DEF e
  <2>6. \A i \in 1 .. n + 1 : e[i] = e[i - 1] + g[i - 1]
    <3> TAKE i \in 1 .. n + 1
    <3>1. CASE i = n + 1
      <4>1. e[i] = t /\ e[i - 1] = ends[n] /\ g[i - 1] = c
        BY <1>1, <1>2, <2>4, <2>5, <3>1
      <4>2. ends[n] \in 0 .. t
        BY <1>1, <2>3
      <4> QED
        BY <2>3, <4>1, <4>2
    <3>2. CASE i \in 1 .. n
      <4>1. e[i] = ends[i] /\ e[i - 1] = ends[i - 1] /\ g[i - 1] = h[i - 1]
        BY <1>1, <1>2, <2>5, <3>2
      <4> QED
        BY <2>3, <3>2, <4>1
    <3> QED
      BY <1>1, <3>1, <3>2
  <2>7. e[n + 1] + 0 = t
    BY <1>1, <2>4
  <2>8. \E f \in [0 .. n + 1 -> 0 .. t] :
           /\ f[0] = 0
           /\ \A i \in 1 .. n + 1 : f[i] = f[i - 1] + g[i - 1]
           /\ f[n + 1] + 0 = t
    BY <2>4, <2>6, <2>7
  <2> QED
    BY <2>2, <2>8
<1>5. n + 1 \in 0 .. MaxSegments /\ 0 \in 0 .. t
  BY <1>1, Layout
<1>6. RecorderOK(g, k, n + 1, 0, t, overwritten)
  BY <1>1, <1>2, <1>3, <1>4, <1>5 DEF RecorderOK
<1> QED
  BY <1>6 DEF g, k

\* path_record_add counts a point for the open segment and for the path.
LEMMA Added ==
    ASSUME NEW h, NEW m, NEW n, NEW c, NEW t, NEW overwritten,
           RecorderOK(h, m, n, c, t, overwritten), t < MaxPoints
    PROVE  RecorderOK(h, m, n, c + 1, t + 1, overwritten)
<1>1. t \in Nat /\ c \in 0 .. t /\ t + 1 \in 0 .. MaxPoints /\ c + 1 \in 0 .. t + 1
  BY Layout DEF RecorderOK
<1>2. ASSUME ~overwritten
      PROVE  \E ends \in [0 .. n -> 0 .. t + 1] :
                /\ ends[0] = 0
                /\ \A i \in 1 .. n : ends[i] = ends[i - 1] + h[i - 1]
                /\ ends[n] + (c + 1) = t + 1
  <2>1. PICK ends \in [0 .. n -> 0 .. t] :
           /\ ends[0] = 0
           /\ \A i \in 1 .. n : ends[i] = ends[i - 1] + h[i - 1]
           /\ ends[n] + c = t
    BY <1>2 DEF RecorderOK
  <2>2. ends \in [0 .. n -> 0 .. t + 1]
    BY <1>1, <2>1
  <2>3. ends[n] \in Nat /\ c \in Nat
    BY <1>1, <2>1 DEF RecorderOK
  <2>4. ends[n] + (c + 1) = t + 1
    BY <1>1, <2>1, <2>3
  <2> WITNESS ends \in [0 .. n -> 0 .. t + 1]
  <2> QED
    BY <2>1, <2>4
<1> QED
  BY <1>1, <1>2 DEF RecorderOK

\* The recorder after a call of ins_update, and the header that path_record_finish
\* writes.
Updates ==
    /\ RecorderOK(segHdr', marks', segNum', cur', total', clobbered)
    /\ pause' \in BOOLEAN /\ total' >= total
    /\ mul' = mul \/ mul' = [check |-> 2, segs |-> segNum', total |-> total']
    /\ mul' # mul => course = 2 /\ (SplitsNow \/ FinishesNow)
    /\ course # 2 \/ ~(SplitsNow \/ FinishesNow) => UNCHANGED <<segNum, segHdr, marks, mul>>

\* With the left switch at 1 the recording is over, and the header written.
Rests ==
    /\ total' = total
    /\ course # 2 => UNCHANGED <<recorder, headers>>
    /\ course = 2 /\ ~moved =>
          /\ mul' = [check |-> 2, segs |-> segNum', total |-> total']
          /\ cur' = 0 \/ segNum' >= MaxSegments
          /\ cur = 0 \/ segNum >= MaxSegments => UNCHANGED <<cur, segNum, segHdr, marks>>

LEMMA FinishUpdates ==
    ASSUME RecorderNow, SegmentFinish, total' = total
    PROVE  /\ RecorderOK(segHdr', marks', segNum', cur', total', clobbered)
           /\ cur' = 0 \/ segNum' >= MaxSegments
           /\ cur = 0 \/ segNum >= MaxSegments => UNCHANGED <<cur, segNum, segHdr, marks>>
<1>1. CASE cur = 0 \/ segNum >= MaxSegments
  BY <1>1 DEF SegmentFinish, RecorderNow
<1>2. CASE ~(cur = 0 \/ segNum >= MaxSegments)
  <2>1. /\ segHdr' = [segHdr EXCEPT ![segNum] = cur] /\ marks' = Append(marks, cur)
        /\ segNum' = segNum + 1 /\ cur' = 0
    BY <1>2 DEF SegmentFinish
  <2>2. segNum < MaxSegments
    BY <1>2, Layout DEF RecorderNow, RecorderOK
  <2>3. RecorderOK([segHdr EXCEPT ![segNum] = cur], Append(marks, cur), segNum + 1, 0,
                   total, clobbered)
    BY <2>2, Closed DEF RecorderNow
  <2> QED
    BY <1>2, <2>1, <2>3
<1> QED
  BY <1>1, <1>2

LEMMA TickUpdates ==
    ASSUME RecorderNow, pause \in BOOLEAN, course \in 0 .. 2, InsUpdate
    PROVE  Updates /\ (left = 1 => Rests)
<1>0. total \in Nat /\ total <= MaxPoints /\ MaxPoints \in Nat
  BY Layout DEF RecorderNow, RecorderOK
<1>1. CASE SplitsNow /\ SegmentFinish /\ pause' = FALSE /\ UNCHANGED <<total, mul>>
  <2>1. RecorderOK(segHdr', marks', segNum', cur', total', clobbered)
    BY <1>1, FinishUpdates
  <2>2. moved /\ course = 2
    BY <1>1 DEF SplitsNow
  <2>3. Rests
    BY <1>1, <2>2 DEF Rests
  <2>4. mul' = mul /\ total' = total /\ pause' \in BOOLEAN
    BY <1>1
  <2>5. ~(course # 2 \/ ~(SplitsNow \/ FinishesNow))
    BY <1>1, <2>2
  <2> QED
    BY <1>0, <2>1, <2>3, <2>4, <2>5 DEF Updates
<1>2. CASE ~SplitsNow /\ FinishesNow /\ RecordFinish /\ UNCHANGED <<total, pause>>
  <2>1. CASE course < 2
    BY <1>0, <1>2, <2>1 DEF RecordFinish, Updates, Rests, RecorderNow, recorder, headers
  <2>2. CASE ~(course < 2)
    <3>1. SegmentFinish /\ mul' = [check |-> 2, segs |-> segNum', total |-> total']
      BY <1>2, <2>2 DEF RecordFinish
    <3>2. /\ RecorderOK(segHdr', marks', segNum', cur', total', clobbered)
          /\ cur' = 0 \/ segNum' >= MaxSegments
          /\ cur = 0 \/ segNum >= MaxSegments => UNCHANGED <<cur, segNum, segHdr, marks>>
      BY <1>2, <3>1, FinishUpdates
    <3>3. course = 2
      BY <2>2 
    <3> QED
      BY <1>0, <1>2, <3>1, <3>2, <3>3 DEF Updates, Rests
  <2> QED
    BY <2>1, <2>2
<1>3. CASE ~SplitsNow /\ ~FinishesNow /\ AddPoint /\ UNCHANGED pause
  <2>1. total < MaxPoints /\ left # 1
    BY <1>0, <1>3 DEF FinishesNow
  <2>2. RecorderOK(segHdr, marks, segNum, cur + 1, total + 1, clobbered)
    BY <2>1, Added DEF RecorderNow
  <2> QED
    BY <1>0, <1>3, <2>1, <2>2 DEF AddPoint, Updates
<1>4. CASE ~SplitsNow /\ ~FinishesNow /\ UNCHANGED <<recorder, headers>> /\ UNCHANGED pause
  <2>1. left # 1
    BY <1>4 DEF FinishesNow
  <2> QED
    BY <1>0, <1>4, <2>1 DEF Updates, RecorderNow, recorder, headers
<1> QED
  BY <1>1, <1>2, <1>3, <1>4 DEF InsUpdate

-----------------------------------------------------------------------------
(* Types of the flash and of what is read from it                           *)

LEMMA Types == RecorderNow /\ RestOK => TypeOK
<1> SUFFICES ASSUME RecorderNow, RestOK PROVE TypeOK
  OBVIOUS
<1>1. SegmentsHaveAllPoints
  BY DEF RecorderNow, RecorderOK, SegmentsHaveAllPoints
<1>2. /\ total \in 0 .. MaxPoints /\ cur \in 0 .. MaxPoints /\ segNum \in 0 .. MaxSegments
      /\ segHdr \in [0 .. MaxSegments - 1 -> 0 .. MaxPoints]
  BY Layout DEF RecorderNow, RecorderOK
<1> QED
  BY <1>1, <1>2 DEF RestOK, TypeOK

LEMMA Kinds ==
    ASSUME NEW page \in Contents
    PROVE  /\ page.kind = "header" => /\ page.check \in Courses \union {NoCheck}
                                      /\ page.segs \in 0 .. Erased /\ page.total \in 0 .. Erased
           /\ page.kind = "segments" => page.counts \in Seq(0 .. MaxPoints)
           /\ page.kind = "points" => page.points \in Seq(Nat \X Nat)
BY DEF Contents

LEMMA Made ==
    /\ Blank \in Contents
    /\ \A check \in Courses \union {NoCheck}, segs, n \in 0 .. Erased :
          HeaderOf(check, segs, n) \in Contents
    /\ \A counts \in Seq(0 .. MaxPoints) : SegmentsOf(counts) \in Contents
    /\ \A points \in Seq(Nat \X Nat) : PointsOf(points) \in Contents
BY DEF Contents, Blank, HeaderOf, SegmentsOf, PointsOf

LEMMA ReadTypes ==
    ASSUME flash \in [Pages -> Contents], NEW c \in Courses
    PROVE  /\ HeaderRead(c).check \in Courses \union {NoCheck}
           /\ HeaderRead(c).segs \in 0 .. Erased /\ HeaderRead(c).total \in 0 .. Erased
           /\ SingleRead(c) \in 0 .. MaxPoints
<1>1. HeaderPage[c] \in Pages
  BY Layout
<1>2. CASE flash[HeaderPage[c]].kind = "header"
  <2>1. HeaderRead(c) = flash[HeaderPage[c]] /\ flash[HeaderPage[c]] \in Contents
    BY <1>1, <1>2 DEF HeaderRead
  <2>2. /\ HeaderRead(c).check \in Courses \union {NoCheck}
        /\ HeaderRead(c).segs \in 0 .. Erased /\ HeaderRead(c).total \in 0 .. Erased
    BY <1>2, <2>1, Kinds
  <2> QED
    BY <2>2, Layout DEF SingleRead
<1>3. CASE flash[HeaderPage[c]].kind # "header"
  <2>1. HeaderRead(c) = HeaderOf(NoCheck, Erased, Erased)
    BY <1>3 DEF HeaderRead
  <2>2. /\ HeaderRead(c).check = NoCheck /\ HeaderRead(c).segs = Erased
        /\ HeaderRead(c).total = Erased
    BY <2>1 DEF HeaderOf
  <2>3. SingleRead(c) = 0
    BY <2>2, Layout DEF SingleRead, NoCheck
  <2> QED
    BY <2>2, <2>3, ErasedIsMost, Layout
<1> QED
  BY <1>2, <1>3

LEMMA MulTypes ==
    ASSUME flash \in [Pages -> Contents], 2 \in Courses
    PROVE  MulRead \in Headers
<1>1. /\ HeaderRead(2).check \in Courses \union {NoCheck}
      /\ HeaderRead(2).segs \in 0 .. Erased /\ HeaderRead(2).total \in 0 .. Erased
  BY ReadTypes
<1>2. 0 \in 0 .. Erased
  BY ErasedIsMost
<1> QED
  BY <1>1, <1>2 DEF MulRead, Headers

LEMMA CountTypes ==
    ASSUME flash \in [Pages -> Contents], NEW n \in Nat, NEW i \in 1 .. n
    PROVE  CountsRead(n)[i] \in 0 .. MaxPoints
<1> DEFINE s == flash[SegmentPage]
<1>1. s \in Contents /\ 0 \in 0 .. MaxPoints
  BY Layout
<1>2. CountsRead(n)[i] = IF s.kind = "segments"
                         THEN IF i <= Len(s.counts) THEN s.counts[i] ELSE 0 ELSE 0
  BY DEF CountsRead
<1> HIDE DEF s
<1>3. s.kind = "segments" => s.counts \in Seq(0 .. MaxPoints)
  BY <1>1, Kinds
<1>4. ASSUME s.kind = "segments", i <= Len(s.counts) PROVE s.counts[i] \in 0 .. MaxPoints
  <2> DEFINE counts == s.counts
  <2>1. counts \in Seq(0 .. MaxPoints) /\ i <= Len(counts)
    BY <1>3, <1>4
  <2> HIDE DEF counts
  <2>2. i \in 1 .. Len(counts)
    BY <2>1, LenProperties
  <2>3. counts[i] \in 0 .. MaxPoints
    BY <2>1, <2>2, ElementOfSeq
  <2> QED
    BY <2>3 DEF counts
<1> QED
  BY <1>1, <1>2, <1>4

LEMMA SegmentTypes ==
    ASSUME RecorderNow, NEW n \in Nat, n <= MaxSegments
    PROVE  Segments(n) \in Seq(0 .. MaxPoints)
<1>1. segHdr \in [0 .. MaxSegments - 1 -> 0 .. MaxPoints]
  BY DEF RecorderNow, RecorderOK
<1>2. \A i \in 1 .. n : segHdr[i - 1] \in 0 .. MaxPoints
  BY <1>1, Layout
<1> QED
  BY <1>2 DEF Segments

\* What the store writes, whole or torn.
LEMMA WriteTypes ==
    ASSUME RecorderNow, RestOK, StoreRuns, Writes
    PROVE  /\ WritePage \in Pages /\ WriteContent \in Contents
           /\ WriteContent.kind \in {"header", "segments", "points"}
<1>1. /\ main.at \in {"header", "segments", "points"} /\ course \in Courses
      /\ main.at = "segments" => course = 2
  BY DEF Writes, StoreRuns, Storing
<1>2. CASE main.at = "header"
  <2>1. WritePage = HeaderPage[course] /\ HeaderPage[course] \in Pages
    BY <1>1, <1>2, Layout DEF WritePage
  <2>2. /\ mul.check \in Courses \union {NoCheck} /\ mul.segs \in 0 .. Erased
        /\ mul.total \in 0 .. Erased /\ total \in 0 .. Erased /\ 0 \in 0 .. Erased
    BY ErasedIsMost, Layout DEF RestOK, Headers, RecorderNow, RecorderOK
  <2>3. WriteContent = IF course = 2 THEN HeaderOf(mul.check, mul.segs, mul.total)
                       ELSE HeaderOf(course, 0, total)
    BY <1>2 DEF WriteContent
  <2>4. WriteContent.kind = "header"
    BY <2>3 DEF HeaderOf
  <2> QED
    BY <1>1, <2>1, <2>2, <2>3, <2>4, Made
<1>3. CASE main.at = "segments"
  <2>1. WritePage = SegmentPage /\ WriteContent = SegmentsOf(Segments(mul.segs))
    BY <1>3 DEF WritePage, WriteContent
  <2>2. mul.segs \in Nat /\ mul.segs <= MaxSegments
    BY <1>3, ErasedIsMost DEF Writes, RestOK, Headers
  <2>3. Segments(mul.segs) \in Seq(0 .. MaxPoints)
    BY <2>2, SegmentTypes
  <2>4. WriteContent.kind = "segments"
    BY <2>1 DEF SegmentsOf
  <2> QED
    BY <2>1, <2>3, <2>4, Made, Layout
<1>4. CASE main.at = "points"
  <2> DEFINE n == Least(PerPage, main.count - main.index)
             points == [i \in 1 .. n |-> RecordedPoint(main.index + i - 1)]
  <2>1. WritePage = main.page /\ WriteContent = PointsOf(points)
    BY <1>4 DEF WritePage, WriteContent
  <2>2. /\ main.page \in Nat /\ main.page < PageNum
        /\ main.index \in Nat /\ main.count \in Nat /\ main.index < main.count
    BY <1>4, ErasedIsMost, Layout DEF Writes, RestOK, MainLoops
  <2>3. n \in Nat
    BY <2>2, Layout DEF Least
  <2>4. \A i \in Nat : RecordedPoint(i) \in Nat \X Nat
    BY Layout DEF RecordedPoint, Garbage, RestOK
  <2> HIDE DEF n
  <2>5. points \in Seq(Nat \X Nat)
    <3>1. \A i \in 1 .. n : main.index + i - 1 \in Nat
      BY <2>2, <2>3
    <3> QED
      BY <2>3, <2>4, <3>1
  <2> HIDE DEF points
  <2>6. WriteContent.kind = "points"
    BY <2>1 DEF PointsOf
  <2> QED
    BY <2>1, <2>2, <2>5, <2>6, Made, Layout DEF Pages
<1> QED
  BY <1>1, <1>2, <1>3, <1>4

LEMMA Beginnings ==
    ASSUME NEW S, NEW s \in Seq(S), NEW n \in 1 .. Len(s)
    PROVE  SubSeq(s, 1, n) \in Seq(S)
<1>1. Len(s) \in Nat /\ n \in Int
  BY LenProperties
<1>2. \A i \in 1 .. n : s[i] \in S
  BY <1>1, ElementOfSeq
<1> QED
  BY <1>1, <1>2, SubSeqProperties

LEMMA TornTypes ==
    ASSUME NEW page \in Contents, page.kind \in {"header", "segments", "points"},
           NEW t \in TornPages(page)
    PROVE  t \in Contents
<1>1. CASE t = Blank
  BY <1>1, Made
<1>2. CASE page.kind = "header" /\ t # Blank
  <2>1. PICK segs \in {Erased, page.segs} : t = HeaderOf(page.check, segs, Erased)
    BY <1>2 DEF TornPages
  <2>2. /\ page.check \in Courses \union {NoCheck} /\ page.segs \in 0 .. Erased
        /\ Erased \in 0 .. Erased
    BY <1>2, Kinds, ErasedIsMost
  <2>3. segs \in 0 .. Erased
    BY <2>1, <2>2
  <2> QED
    BY <2>1, <2>2, <2>3, Made
<1>3. CASE page.kind = "segments" /\ t # Blank
  <2>1. PICK n \in 1 .. Len(page.counts) : t = SegmentsOf(SubSeq(page.counts, 1, n))
    BY <1>3 DEF TornPages
  <2>2. page.counts \in Seq(0 .. MaxPoints)
    BY <1>3, Kinds
  <2>3. SubSeq(page.counts, 1, n) \in Seq(0 .. MaxPoints)
    BY <2>1, <2>2, Beginnings
  <2> QED
    BY <2>1, <2>3, Made
<1>4. CASE page.kind = "points" /\ t # Blank
  <2>1. PICK n \in 1 .. Len(page.points) : t = PointsOf(SubSeq(page.points, 1, n))
    BY <1>4 DEF TornPages
  <2>2. page.points \in Seq(Nat \X Nat)
    BY <1>4, Kinds
  <2>3. SubSeq(page.points, 1, n) \in Seq(Nat \X Nat)
    BY <2>1, <2>2, Beginnings
  <2> QED
    BY <2>1, <2>3, Made
<1> QED
  BY <1>1, <1>2, <1>3, <1>4

\* What is read stays the same while the flash does.
LEMMA SameReads ==
    ASSUME flash' = flash
    PROVE  /\ MulRead' = MulRead
           /\ \A c \in Courses : SingleRead(c)' = SingleRead(c)
           /\ \A n \in Nat : CountsRead(n)' = CountsRead(n)
BY DEF MulRead, SingleRead, CountsRead, HeaderRead

-----------------------------------------------------------------------------
(* The invariant                                                            *)

LEMMA TickKeeps ==
    ASSUME IInv, Tick
    PROVE  IInv'
<1> USE DEF IInv
<1>1. Updates /\ (left = 1 => Rests)
  <2>1. pause \in BOOLEAN /\ course \in 0 .. 2
    BY Layout DEF RestOK
  <2> QED
    BY <2>1, TickUpdates DEF Tick
<1>2. UNCHANGED <<course, left, moved, flash, cycle, pending, saved, stores, clobbered>>
  BY DEF Tick, switches, store
<1>3. RecorderNow'
  BY <1>1, <1>2 DEF Updates, RecorderNow
<1>4. total \in 0 .. MaxPoints /\ total' \in 0 .. MaxPoints /\ total' >= total /\ segNum' \in 0 .. MaxSegments
  BY <1>1, <1>3 DEF Updates, RecorderNow, RecorderOK
<1>5. RecorderInterferes /\ main'.load = main.load => RecorderInterferes'
  BY <1>2, <1>4, Layout DEF RecorderInterferes, SplitsNow, FinishesNow
<1>6. /\ main.at \in Steps /\ main.page \in 0 .. PageNum /\ main.index \in 0 .. Erased
      /\ main.count \in 0 .. Erased /\ main.load \in Courses \union {NoLoad}
      /\ main.index <= main.count /\ (main.at # "points" => main.index = 0)
  BY DEF RestOK, MainLoops, StoreRuns
<1>7. /\ main' \in MainLoops /\ main'.index <= main'.count
      /\ main'.page = main.page /\ main'.index = main.index /\ main'.load = main.load
      /\ main'.at = IF main.at = "delay" THEN "header" ELSE main.at
      /\ main'.count = main.count \/ (SingleOverwritten /\ main'.count = total)
  <2>1. CASE main.at = "delay"
    <3>1. main' = [main EXCEPT !.at = "header"]
      BY <2>1 DEF Tick
    <3>2. main \in MainLoops /\ "header" \in Steps
      BY DEF RestOK, Steps
    <3>3. main' \in MainLoops
      BY <3>1, <3>2 DEF MainLoops
    <3> QED
      BY <1>6, <2>1, <3>1, <3>2, <3>3 DEF MainLoops
  <2>2. CASE main.at # "delay" /\ SingleOverwritten
    <3>1. main' = [main EXCEPT !.count = total] /\ main.at = "load_points"
      BY <2>2 DEF Tick, SingleOverwritten
    <3>2. total \in 0 .. Erased /\ 0 <= total
      BY <1>4, ErasedIsMost, Layout
    <3>3. main \in MainLoops /\ main.index = 0
      BY <1>6, <3>1 DEF RestOK
    <3>4. main' \in MainLoops
      BY <3>1, <3>2, <3>3 DEF MainLoops
    <3> QED
      BY <2>2, <3>1, <3>2, <3>3, <3>4 DEF MainLoops
  <2>3. CASE main.at # "delay" /\ ~SingleOverwritten
    BY <2>3 DEF Tick, RestOK
  <2> QED
    BY <2>1, <2>2, <2>3
<1>8. /\ Loading' => Loading /\ main'.at = main.at
      /\ Storing' => main.at = "delay" \/ Storing
  BY <1>7 DEF Loading, Storing
<1>9. mul' \in Headers
  <2>1. CASE mul' = mul
    BY <2>1 DEF RestOK
  <2>2. CASE mul' = [check |-> 2, segs |-> segNum', total |-> total'] /\ course = 2
    BY <1>4, <2>2, ErasedIsMost, Layout DEF RestOK, Headers
  <2> QED
    BY <1>1, <2>1, <2>2 DEF Updates
<1>10. RestOK'
  <2>1. main'.at = "load_points" => main'.count <= MaxPoints
    BY <1>4, <1>7, Layout DEF RestOK
  <2>2. pause' \in BOOLEAN
    BY <1>1 DEF Updates
  <2> QED
    BY <1>2, <1>7, <1>9, <2>1, <2>2 DEF RestOK
<1>11. StoreRuns'
  <2>1. Storing' \/ main'.at = "delay" => course' \in Courses /\ left' = 1
    BY <1>2, <1>7, <1>8 DEF StoreRuns
  <2>2. main'.at = "points" => main'.count = main.count /\ main.at = "points"
    BY <1>7 DEF SingleOverwritten
  <2>3. main'.at \notin {"points", "load_points"} => main'.count = 0
    BY <1>7 DEF SingleOverwritten, StoreRuns
  <2> QED
    BY <1>2, <1>7, <2>1, <2>2, <2>3 DEF StoreRuns
<1>12. HeaderReady'
  <2>1. Storing' => left = 1
    BY <1>8 DEF StoreRuns
  <2> QED
    BY <1>1, <1>2, <2>1 DEF HeaderReady, Rests
<1>13. LoadRuns'
  <2>1. UNCHANGED MulRead /\ \A n \in Nat : CountsRead(n)' = CountsRead(n)
    BY <1>2, SameReads
  <2>2. mul.segs \in Nat
    BY ErasedIsMost DEF RestOK, Headers
  <2>3. Loading' => main'.load \in Courses
    BY <1>7, <1>8 DEF LoadRuns
  <2>4. main'.at = "load_segments" => main'.load = 2
    BY <1>7 DEF LoadRuns
  <2>5. ASSUME main'.at \in {"load_segments", "load_points"}, main'.load = 2
        PROVE  mul' = MulRead' \/ (RecorderInterferes' /\ mul'.total <= MaxPoints)
    <3>1. CASE mul' = mul
      BY <1>5, <1>7, <2>1, <2>5, <3>1 DEF LoadRuns
    <3>2. CASE mul' # mul
      <4>1. RecorderInterferes'
        BY <1>1, <1>5, <1>7, <2>5, <3>2 DEF Updates, RecorderInterferes
      <4>2. mul'.total = total'
        BY <1>1, <3>2 DEF Updates
      <4> QED
        BY <1>4, <4>1, <4>2, Layout
    <3> QED
      BY <3>1, <3>2
  <2>6. ASSUME main'.at = "load_points", main'.load = 2, ~RecorderInterferes'
        PROVE  mul'.segs > MaxSegments \/ (Segments(mul.segs) = CountsRead(mul.segs))'
    <3>1. main.at = "load_points" /\ main.load = 2 /\ ~RecorderInterferes
      BY <1>5, <1>7, <2>6
    <3>2. UNCHANGED <<segHdr, mul>>
      BY <1>1, <3>1 DEF Updates, RecorderInterferes
    <3>3. Segments(mul.segs)' = Segments(mul.segs) /\ CountsRead(mul.segs)' = CountsRead(mul.segs)
      BY <1>2, <3>2 DEF Segments, CountsRead
    <3> QED
      BY <3>1, <3>2, <3>3 DEF LoadRuns
  <2>7. ASSUME main'.at = "load_points", main'.load # 2
        PROVE  main'.count = SingleRead(main.load)' \/ RecorderInterferes'
    <3>1. main.at = "load_points" /\ main.load # 2 /\ main.load \in Courses
      BY <1>7, <2>7 DEF LoadRuns, Loading
    <3>2. SingleRead(main.load)' = SingleRead(main.load)
      BY <1>2, <1>7 DEF SingleRead, HeaderRead
    <3>3. CASE SingleOverwritten
      BY <1>5, <1>7, <3>1, <3>3 DEF SingleOverwritten, RecorderInterferes
    <3>4. CASE main'.count = main.count
      BY <1>5, <1>7, <3>1, <3>2, <3>4 DEF LoadRuns
    <3> QED
      BY <1>7, <3>3, <3>4
  <2> QED
    BY <2>3, <2>4, <2>5, <2>6, <2>7 DEF LoadRuns
<1> QED
  BY <1>3, <1>10, <1>11, <1>12, <1>13

LEMMA MainParts ==
    ASSUME RestOK
    PROVE  /\ main \in MainLoops
           /\ main.at \in Steps /\ main.page \in 0 .. PageNum /\ main.index \in 0 .. Erased
           /\ main.count \in 0 .. Erased /\ main.load \in Courses \union {NoLoad}
           /\ main.index <= main.count
           /\ AtTop \in MainLoops
BY ErasedIsMost, Layout DEF RestOK, MainLoops, AtTop, Steps, NoLoad

\* Nothing is recorded yet when the power is switched on.
LEMMA Started == RecorderOK(NoSegments, << >>, 0, 0, 0, FALSE)
<1>1. NoSegments \in [0 .. MaxSegments - 1 -> 0 .. MaxPoints]
  BY Layout DEF NoSegments
<1>2. << >> \in Seq(Nat) /\ Len(<< >>) = 0
  OBVIOUS
<1>3. \E ends \in [0 .. 0 -> 0 .. 0] :
         /\ ends[0] = 0
         /\ \A i \in 1 .. 0 : ends[i] = ends[i - 1] + NoSegments[i - 1]
         /\ ends[0] + 0 = 0
  <2> DEFINE e == [i \in 0 .. 0 |-> 0]
  <2>1. e \in [0 .. 0 -> 0 .. 0] /\ e[0] = 0
    OBVIOUS
  <2>2. \A i \in 1 .. 0 : e[i] = e[i - 1] + NoSegments[i - 1]
    OBVIOUS
  <2> HIDE DEF e
  <2> QED
    BY <2>1, <2>2
<1>4. \A i \in 1 .. 0 : NoSegments[i - 1] = << >>[i]
  OBVIOUS
<1> QED
  BY <1>1, <1>2, <1>3, <1>4, Layout DEF RecorderOK

LEMMA ReadInputsKeeps ==
    ASSUME IInv, ReadInputs
    PROVE  IInv'
<1> USE DEF IInv
<1>1. /\ main.at = "top"
      /\ UNCHANGED <<recorder, headers, pause, flash, cycle, clobbered>>
  BY DEF ReadInputs
<1>2. main.index = 0 /\ main.count = 0 /\ main \in MainLoops
  BY <1>1, MainParts DEF StoreRuns
<1>3. PICK c \in Courses \union {NoLoad} :
         \/ /\ main' = [main EXCEPT !.load = c, !.at = AfterStore(c)]
            /\ UNCHANGED <<switches, stores>>
         \/ /\ course' \in Courses /\ left' \in 0 .. 2 /\ moved' \in BOOLEAN
            /\ IF left = 0 /\ left' = 1
                 THEN /\ stores < MaxStores /\ stores' = stores + 1
                      /\ main' = [main EXCEPT !.load = c, !.at = "delay"]
                 ELSE /\ main' = [main EXCEPT !.load = c, !.at = AfterStore(c)]
                      /\ UNCHANGED stores
  BY DEF ReadInputs
<1>4. /\ course' \in Courses \union {0} /\ left' \in 0 .. 2 /\ moved' \in BOOLEAN
      /\ stores' \in 0 .. MaxStores
  BY <1>3, Layout DEF switches, RestOK
<1>5. /\ main' \in MainLoops /\ main'.index = 0 /\ main'.count = 0 /\ main'.load = c
      /\ main'.at \in {"delay", "end", "load"}
      /\ main'.at = "load" => c \in Courses
      /\ main'.at = "delay" => course' \in Courses /\ left' = 1
  <2>1. {"delay", "end", "load"} \subseteq Steps
    BY DEF Steps
  <2>2. AfterStore(c) \in {"end", "load"} /\ (AfterStore(c) = "load" => c \in Courses)
    BY <1>3 DEF AfterStore
  <2>3. CASE main' = [main EXCEPT !.load = c, !.at = AfterStore(c)]
    <3>1. main' \in MainLoops
      BY <1>2, <1>3, <2>1, <2>2, <2>3 DEF MainLoops
    <3> QED
      BY <1>2, <2>2, <2>3, <3>1 DEF MainLoops
  <2>4. CASE main' = [main EXCEPT !.load = c, !.at = "delay"] /\ course' \in Courses /\ left' = 1
    <3>1. main' \in MainLoops
      BY <1>2, <1>3, <2>1, <2>4 DEF MainLoops
    <3> QED
      BY <1>2, <2>4, <3>1 DEF MainLoops
  <2> QED
    BY <1>3, <2>3, <2>4
<1>6. RecorderNow'
  BY <1>1 DEF RecorderNow, recorder, headers
<1>7. RestOK'
  BY <1>1, <1>4, <1>5 DEF RestOK, headers
<1>8. StoreRuns' /\ HeaderReady' /\ LoadRuns'
  BY <1>5 DEF StoreRuns, HeaderReady, LoadRuns, Storing, Loading
<1> QED
  BY <1>6, <1>7, <1>8

LEMMA WriteHeaderKeeps ==
    ASSUME IInv, WriteHeader
    PROVE  IInv'
<1> USE DEF IInv
<1>1. /\ main.at = "header" /\ flash' = [flash EXCEPT ![WritePage] = WriteContent]
      /\ UNCHANGED <<recorder, headers, switches, pause, cycle, stores, clobbered>>
  BY DEF WriteHeader
<1>2. main.index = 0 /\ main.count = 0 /\ course \in Courses /\ left = 1
  BY <1>1 DEF StoreRuns, Storing
<1>3. flash' \in [Pages -> Contents]
  BY <1>1, WriteTypes DEF Writes, RestOK
<1>4. total \in 0 .. Erased /\ total <= MaxPoints /\ 0 <= total
  BY ErasedIsMost, Layout DEF RecorderNow, RecorderOK
<1>5. PointPage[course] \in 0 .. PageNum /\ 0 \in 0 .. PageNum
  BY <1>2, Layout DEF Pages
<1>6. /\ main' \in MainLoops /\ main'.index = 0 /\ main'.index <= main'.count
      /\ main'.at = IF course = 2 THEN "segments" ELSE "points"
      /\ course = 2 => main'.count = 0
      /\ course # 2 => main'.page = PointPage[course] /\ main'.count = total
  <2>1. main \in MainLoops /\ {"segments", "points"} \subseteq Steps
    BY MainParts DEF Steps
  <2>2. CASE course = 2
    <3>1. main' = [main EXCEPT !.at = "segments"]
      BY <2>2 DEF WriteHeader
    <3>2. main' \in MainLoops
      BY <2>1, <3>1 DEF MainLoops
    <3> QED
      BY <1>2, <2>1, <2>2, <3>1, <3>2 DEF MainLoops
  <2>3. CASE course # 2
    <3>1. main' = [main EXCEPT !.at = "points", !.page = PointPage[course], !.count = total]
      BY <2>3 DEF WriteHeader
    <3>2. main' \in MainLoops
      BY <1>4, <1>5, <2>1, <3>1 DEF MainLoops
    <3> QED
      BY <1>2, <1>4, <2>1, <2>3, <3>1, <3>2 DEF MainLoops
  <2> QED
    BY <2>2, <2>3
<1>7. RecorderNow'
  BY <1>1 DEF RecorderNow, recorder, headers
<1>8. RestOK'
  BY <1>1, <1>3, <1>6 DEF RestOK, headers, switches
<1>9. StoreRuns'
  <2>1. course' = course /\ left' = left
    BY <1>1 DEF switches
  <2>2. course # 2 => main'.page = PointPage[course] + 0 /\ main'.index = 0 * PerPage
    BY <1>2, <1>6, Layout DEF Pages
  <2> QED
    BY <1>2, <1>4, <1>5, <1>6, <2>1, <2>2 DEF StoreRuns
<1>10. HeaderReady'
  <2>1. Storing
    BY <1>1 DEF Storing
  <2> QED
    BY <1>1, <2>1 DEF HeaderReady, recorder, headers, switches
<1>11. LoadRuns'
  BY <1>6 DEF LoadRuns, Loading
<1> QED
  BY <1>7, <1>8, <1>9, <1>10, <1>11

LEMMA WriteSegmentsKeeps ==
    ASSUME IInv, WriteSegments
    PROVE  IInv'
<1> USE DEF IInv
<1>1. /\ main.at = "segments" /\ main' = [main EXCEPT !.at = "points", !.page = PointPage[2], !.count = mul.total]
      /\ UNCHANGED <<recorder, headers, switches, pause, cycle, stores, clobbered>>
  BY DEF WriteSegments
<1>2. main.index = 0 /\ course \in Courses /\ course = 2 /\ left = 1
  BY <1>1 DEF StoreRuns, Storing
<1>3. flash' \in [Pages -> Contents]
  <2>1. CASE Writes
    BY <2>1, WriteTypes DEF RestOK, WriteSegments
  <2>2. CASE ~Writes
    BY <2>2 DEF RestOK, WriteSegments
  <2> QED
    BY <2>1, <2>2
<1>4. mul.total \in 0 .. Erased
  BY DEF RestOK, Headers
<1>5. PointPage[2] \in 0 .. PageNum
  BY <1>2, Layout DEF Pages
<1>6. main \in MainLoops /\ "points" \in Steps
  BY MainParts DEF Steps
<1>7. main' \in MainLoops
  BY <1>1, <1>4, <1>5, <1>6 DEF MainLoops
<1>8. /\ main'.at = "points" /\ main'.page = PointPage[2] /\ main'.index = 0
      /\ main'.index <= main'.count
  BY <1>1, <1>2, <1>4, <1>6, <1>7, ErasedIsMost DEF MainLoops
<1>9. RecorderNow'
  BY <1>1 DEF RecorderNow, recorder, headers
<1>10. RestOK'
  BY <1>1, <1>3, <1>7, <1>8 DEF RestOK, headers, switches
<1>11. StoreRuns'
  <2>1. course' = course /\ left' = left
    BY <1>1 DEF switches
  <2>2. main'.page = PointPage[course] + 0 /\ main'.index = 0 * PerPage
    BY <1>2, <1>5, <1>8, Layout
  <2>3. 0 \in 0 .. PageNum
    BY Layout
  <2> QED
    BY <1>2, <1>8, <2>1, <2>2, <2>3 DEF StoreRuns
<1>12. HeaderReady'
  <2>1. Storing
    BY <1>1 DEF Storing
  <2> QED
    BY <1>1, <2>1 DEF HeaderReady, recorder, headers, switches
<1>13. LoadRuns'
  BY <1>8 DEF LoadRuns, Loading
<1> QED
  BY <1>9, <1>10, <1>11, <1>12, <1>13

\* The points on the page that is written next.
LEMMA OnThePage ==
    ASSUME IInv, main.at = "points", Writes
    PROVE  /\ main.index \in Nat /\ main.count \in Nat /\ main.index < main.count
           /\ WriteContent = PointsOf([i \in 1 .. Least(PerPage, main.count - main.index)
                                         |-> RecordedPoint(main.index + i - 1)])
           /\ Len(WriteContent.points) = Least(PerPage, main.count - main.index)
           /\ Least(PerPage, main.count - main.index) \in 1 .. PerPage
<1>1. main.index \in Nat /\ main.count \in Nat /\ main.index < main.count
  BY MainParts, ErasedIsMost DEF Writes, IInv
<1>2. Least(PerPage, main.count - main.index) \in 1 .. PerPage
  BY <1>1, Layout DEF Least
<1> DEFINE n == Least(PerPage, main.count - main.index)
           points == [i \in 1 .. n |-> RecordedPoint(main.index + i - 1)]
<1>3. WriteContent = PointsOf(points)
  BY DEF WriteContent
<1> HIDE DEF n
<1>4. n \in Nat
  BY <1>2, Layout DEF n
<1>5. Len(points) = n
  BY <1>4
<1> HIDE DEF points
<1>6. WriteContent.points = points
  BY <1>3 DEF PointsOf
<1> QED
  BY <1>1, <1>2, <1>3, <1>5, <1>6 DEF n, points

LEMMA WritePointsKeeps ==
    ASSUME IInv, WritePoints
    PROVE  IInv'
<1> USE DEF IInv
<1> DEFINE n == Least(PerPage, main.count - main.index)
<1>1. /\ main.at = "points" /\ Writes
      /\ flash' = [flash EXCEPT ![WritePage] = WriteContent]
      /\ main' = [main EXCEPT !.page = @ + 1, !.index = @ + Len(WriteContent.points)]
      /\ UNCHANGED <<recorder, headers, switches, pause, cycle, stores, clobbered>>
  BY DEF WritePoints
<1>2. /\ main.index \in Nat /\ main.count \in Nat /\ main.index < main.count
      /\ Len(WriteContent.points) = n /\ n \in 1 .. PerPage
  BY <1>1, OnThePage
<1>3. n <= main.count - main.index /\ (n = PerPage \/ n = main.count - main.index)
  BY <1>2, Layout DEF Least
<1> HIDE DEF n
<1>4. main.page \in Nat /\ main.page < PageNum /\ main \in MainLoops /\ main.count \in 0 .. Erased
  BY <1>1, MainParts, Layout DEF Writes
<1>5. course \in Courses /\ left = 1 /\ (course # 2 => main.count <= MaxPoints)
  BY <1>1 DEF StoreRuns, Storing
<1>6. /\ main.page + 1 \in 0 .. PageNum /\ main.index + n \in 0 .. Erased
      /\ main.index + n <= main.count
  BY <1>2, <1>3, <1>4, Layout, ErasedIsMost
<1>7. main' = [main EXCEPT !.page = main.page + 1, !.index = main.index + n]
  BY <1>1, <1>2
<1>8. main' \in MainLoops
  BY <1>4, <1>6, <1>7 DEF MainLoops
<1>9. /\ main'.at = "points" /\ main'.page = main.page + 1 /\ main'.index = main.index + n
      /\ main'.count = main.count /\ main'.load = main.load
  BY <1>1, <1>4, <1>7, <1>8 DEF MainLoops
<1>10. flash' \in [Pages -> Contents]
  BY <1>1, WriteTypes DEF RestOK
<1>11. RecorderNow'
  BY <1>1 DEF RecorderNow, recorder, headers
<1>12. RestOK'
  BY <1>1, <1>6, <1>8, <1>9, <1>10 DEF RestOK, headers, switches
<1>13. StoreRuns'
  <2>1. course' = course /\ left' = left
    BY <1>1 DEF switches
  <2>2. PICK q \in 0 .. PageNum :
           /\ main.page = PointPage[course] + q
           /\ main.index = q * PerPage \/ main.index = main.count
    BY <1>1 DEF StoreRuns
  <2>3. PointPage[course] \in Nat /\ PerPage \in Nat /\ PageNum \in Nat
    BY <1>5, Layout DEF Pages
  <2>4. main.index = q * PerPage
    BY <1>2, <2>2
  <2>5. q + 1 \in 0 .. PageNum /\ main.page + 1 = PointPage[course] + (q + 1)
    BY <1>4, <2>2, <2>3
  <2>6. (q + 1) * PerPage = q * PerPage + PerPage
    BY <2>2, <2>3
  <2>7. main.index + n = (q + 1) * PerPage \/ main.index + n = main.count
    BY <1>2, <1>3, <2>3, <2>4, <2>6
  <2>8. \E r \in 0 .. PageNum :
           /\ main'.page = PointPage[course] + r
           /\ main'.index = r * PerPage \/ main'.index = main'.count
    BY <1>9, <2>5, <2>7
  <2> QED
    BY <1>5, <1>9, <2>1, <2>8 DEF StoreRuns
<1>14. HeaderReady'
  <2>1. Storing
    BY <1>1 DEF Storing
  <2> QED
    BY <1>1, <2>1 DEF HeaderReady, recorder, headers, switches
<1>15. LoadRuns'
  BY <1>9 DEF LoadRuns, Loading
<1> QED
  BY <1>11, <1>12, <1>13, <1>14, <1>15

LEMMA StoreDoneKeeps ==
    ASSUME IInv, StoreDone
    PROVE  IInv'
<1> USE DEF IInv
<1>1. /\ main.at = "points"
      /\ main' = [AtTop EXCEPT !.at = AfterStore(main.load), !.load = main.load]
      /\ UNCHANGED <<recorder, headers, switches, pause, flash, cycle, stores, clobbered>>
  BY DEF StoreDone
<1>2. /\ AtTop \in MainLoops /\ main.load \in Courses \union {NoLoad}
      /\ AtTop.index = 0 /\ AtTop.count = 0 /\ {"load", "end"} \subseteq Steps
  BY MainParts DEF AtTop, Steps
<1>3. /\ AfterStore(main.load) \in {"load", "end"}
      /\ AfterStore(main.load) = "load" => main.load \in Courses
  BY <1>2 DEF AfterStore
<1>4. main' \in MainLoops
  BY <1>1, <1>2, <1>3 DEF MainLoops
<1>5. /\ main'.at \in {"load", "end"} /\ main'.index = 0 /\ main'.count = 0
      /\ main'.at = "load" => main'.load \in Courses
  BY <1>1, <1>2, <1>3, <1>4 DEF MainLoops
<1>6. RecorderNow'
  BY <1>1 DEF RecorderNow, recorder, headers
<1>7. RestOK'
  BY <1>1, <1>4, <1>5 DEF RestOK, headers, switches
<1>8. StoreRuns' /\ HeaderReady' /\ LoadRuns'
  BY <1>5 DEF StoreRuns, HeaderReady, LoadRuns, Storing, Loading
<1> QED
  BY <1>6, <1>7, <1>8

LEMMA LoadHeaderKeeps ==
    ASSUME IInv, LoadHeader
    PROVE  IInv'
<1> USE DEF IInv
<1>1. /\ main.at = "load"
      /\ UNCHANGED <<recorder, segHdr, switches, pause, flash, cycle, stores, clobbered>>
  BY DEF LoadHeader, store
<1>2. main.index = 0 /\ main.count = 0 /\ main.load \in Courses /\ main \in MainLoops
  BY <1>1, MainParts DEF StoreRuns, LoadRuns, Loading
<1>3. MulRead' = MulRead /\ \A c \in Courses : SingleRead(c)' = SingleRead(c)
  BY <1>1, SameReads
<1>4. RecorderNow'
  BY <1>1 DEF RecorderNow, recorder
<1>5. CASE main.load = 2
  <2>1. mul' = MulRead /\ main' = [main EXCEPT !.at = "load_segments"]
    BY <1>5 DEF LoadHeader
  <2>2. main' \in MainLoops
    BY <1>2, <2>1 DEF MainLoops, Steps
  <2>3. /\ main'.at = "load_segments" /\ main'.load = 2 /\ main'.index = 0 /\ main'.count = 0
    BY <1>2, <1>5, <2>1, <2>2 DEF MainLoops
  <2>4. mul' \in Headers
    BY <1>2, <1>5, <2>1, MulTypes DEF RestOK
  <2>5. RestOK'
    BY <1>1, <2>2, <2>3, <2>4 DEF RestOK, switches
  <2>6. StoreRuns' /\ HeaderReady'
    BY <2>3 DEF StoreRuns, HeaderReady, Storing
  <2>7. LoadRuns'
    BY <1>2, <1>3, <1>5, <2>1, <2>3 DEF LoadRuns, Loading
  <2> QED
    BY <1>4, <2>5, <2>6, <2>7
<1>6. CASE main.load # 2
  <2>1. /\ main' = [main EXCEPT !.at = "load_points", !.count = SingleRead(main.load)]
        /\ UNCHANGED mul
    BY <1>6 DEF LoadHeader
  <2>2. SingleRead(main.load) \in 0 .. MaxPoints
    BY <1>2, ReadTypes DEF RestOK
  <2>3. SingleRead(main.load) \in 0 .. Erased
    BY <2>2, ErasedIsMost, Layout
  <2>4. main' \in MainLoops
    BY <1>2, <2>1, <2>3 DEF MainLoops, Steps
  <2>5. /\ main'.at = "load_points" /\ main'.load = main.load /\ main'.index = 0
        /\ main'.count = SingleRead(main.load)
    BY <1>2, <2>1, <2>4 DEF MainLoops
  <2>6. main'.index <= main'.count /\ main'.count <= MaxPoints
    BY <2>2, <2>5, Layout
  <2>7. RestOK'
    BY <1>1, <2>1, <2>4, <2>6 DEF RestOK, switches
  <2>8. StoreRuns' /\ HeaderReady'
    BY <2>5 DEF StoreRuns, HeaderReady, Storing
  <2>9. SingleRead(main.load)' = SingleRead(main.load)
    BY <1>1, <2>5 DEF SingleRead, HeaderRead
  <2>10. LoadRuns'
    BY <1>2, <1>6, <2>5, <2>9 DEF LoadRuns, Loading
  <2> QED
    BY <1>4, <2>7, <2>8, <2>10
<1> QED
  BY <1>5, <1>6

LEMMA LoadSegmentsKeeps ==
    ASSUME IInv, LoadSegments
    PROVE  IInv'
<1> USE DEF IInv
<1>1. /\ main.at = "load_segments" /\ main' = [main EXCEPT !.at = "load_points"]
      /\ segHdr' = IF mul.segs > MaxSegments THEN segHdr
                   ELSE [i \in DOMAIN segHdr |->
                           IF i < mul.segs THEN CountsRead(mul.segs)[i + 1] ELSE segHdr[i]]
      /\ clobbered' = (clobbered \/ segNum > 0)
      /\ UNCHANGED <<recorder, mul, switches, pause, flash, cycle, stores>>
  BY DEF LoadSegments, store
<1>2. /\ main.index = 0 /\ main.count = 0 /\ main.load = 2 /\ main.load \in Courses
      /\ main \in MainLoops
  BY <1>1, MainParts DEF StoreRuns, LoadRuns, Loading
<1>3. main' \in MainLoops
  BY <1>1, <1>2 DEF MainLoops, Steps
<1>4. /\ main'.at = "load_points" /\ main'.load = 2 /\ main'.index = 0 /\ main'.count = 0
  BY <1>1, <1>2, <1>3 DEF MainLoops
<1>5. /\ segHdr \in [0 .. MaxSegments - 1 -> 0 .. MaxPoints] /\ mul.segs \in Nat
      /\ MaxSegments \in Nat /\ segNum \in Nat
  BY ErasedIsMost, Layout DEF RecorderNow, RecorderOK, RestOK, Headers
<1>6. /\ segHdr' \in [0 .. MaxSegments - 1 -> 0 .. MaxPoints]
      /\ mul.segs > MaxSegments
            \/ \A i \in 1 .. mul.segs : segHdr'[i - 1] = CountsRead(mul.segs)[i]
  <2>1. CASE mul.segs > MaxSegments
    BY <1>1, <1>5, <2>1
  <2>2. CASE ~(mul.segs > MaxSegments)
    <3> DEFINE counts == CountsRead(mul.segs)
    <3>1. segHdr' = [i \in 0 .. MaxSegments - 1 |-> IF i < mul.segs THEN counts[i + 1] ELSE segHdr[i]]
      BY <1>1, <1>5, <2>2
    <3>2. \A i \in 1 .. mul.segs : counts[i] \in 0 .. MaxPoints
      BY <1>5, CountTypes DEF RestOK
    <3> HIDE DEF counts
    <3>3. \A i \in 0 .. MaxSegments - 1 : i < mul.segs => counts[i + 1] \in 0 .. MaxPoints
      <4> TAKE i \in 0 .. MaxSegments - 1
      <4> HAVE i < mul.segs
      <4>1. i + 1 \in 1 .. mul.segs
        BY <1>5
      <4> QED
        BY <3>2, <4>1
    <3>4. segHdr' \in [0 .. MaxSegments - 1 -> 0 .. MaxPoints]
      BY <1>5, <3>1, <3>3
    <3>5. \A i \in 1 .. mul.segs : segHdr'[i - 1] = counts[i]
      <4> TAKE i \in 1 .. mul.segs
      <4>1. i - 1 \in 0 .. MaxSegments - 1 /\ i - 1 < mul.segs /\ (i - 1) + 1 = i
        BY <1>5, <2>2
      <4> QED
        BY <3>1, <4>1
    <3> QED
      BY <3>4, <3>5 DEF counts
  <2> QED
    BY <2>1, <2>2
<1>7. RecorderNow'
  <2>1. /\ total \in 0 .. MaxPoints /\ cur \in 0 .. total /\ segNum \in 0 .. MaxSegments
        /\ marks \in Seq(Nat) /\ Len(marks) = segNum
    BY DEF RecorderNow, RecorderOK
  <2>2. ASSUME ~clobbered'
        PROVE  /\ \A i \in 1 .. segNum : segHdr'[i - 1] = marks[i]
               /\ \E ends \in [0 .. segNum -> 0 .. total] :
                     /\ ends[0] = 0
                     /\ \A i \in 1 .. segNum : ends[i] = ends[i - 1] + segHdr'[i - 1]
                     /\ ends[segNum] + cur = total
    <3>0. ~clobbered /\ ~(segNum > 0)
      BY <1>1, <2>2, Zenon
    <3>1. ~clobbered /\ segNum = 0
      BY <1>5, <3>0
    <3>2. 1 .. segNum = {}
      BY <3>1
    <3>3. \E ends \in [0 .. segNum -> 0 .. total] : ends[0] = 0 /\ ends[segNum] + cur = total
      BY <3>1 DEF RecorderNow, RecorderOK
    <3> QED
      BY <3>2, <3>3
  <2> QED
    BY <1>1, <1>6, <2>1, <2>2 DEF RecorderNow, RecorderOK, recorder
<1>8. RestOK'
  <2>1. clobbered' \in BOOLEAN
    BY <1>1 DEF RestOK
  <2>2. main'.index <= main'.count /\ main'.count <= MaxPoints
    BY <1>4, Layout
  <2> QED
    BY <1>1, <1>3, <2>1, <2>2 DEF RestOK, switches
<1>9. StoreRuns' /\ HeaderReady'
  BY <1>4 DEF StoreRuns, HeaderReady, Storing
<1>10. LoadRuns'
  <2>1. MulRead' = MulRead
    BY <1>1, SameReads
  <2>2. mul' = mul /\ UNCHANGED <<course, left, moved, total>>
    BY <1>1 DEF switches, recorder
  <2>3. RecorderInterferes' = RecorderInterferes
    BY <1>2, <1>4, <2>2 DEF RecorderInterferes, SplitsNow, FinishesNow
  <2>4. mul' = MulRead' \/ (RecorderInterferes' /\ mul'.total <= MaxPoints)
    BY <1>1, <1>2, <2>1, <2>2, <2>3 DEF LoadRuns
  <2>5. mul'.segs > MaxSegments \/ (Segments(mul.segs) = CountsRead(mul.segs))'
    <3>1. CASE mul.segs > MaxSegments
      BY <2>2, <3>1
    <3>2. CASE \A i \in 1 .. mul.segs : segHdr'[i - 1] = CountsRead(mul.segs)[i]
      <4>1. Segments(mul.segs)' = [i \in 1 .. mul.segs |-> segHdr'[i - 1]]
        BY <2>2 DEF Segments
      <4>2. CountsRead(mul.segs)' = CountsRead(mul.segs)
        BY <1>1, <2>2 DEF CountsRead
      <4>3. CountsRead(mul.segs) = [i \in 1 .. mul.segs |-> CountsRead(mul.segs)[i]]
        BY DEF CountsRead
      <4>4. Segments(mul.segs)' = CountsRead(mul.segs)
        BY <3>2, <4>1, <4>3
      <4> QED
        BY <4>2, <4>4
    <3> QED
      BY <1>6, <3>1, <3>2
  <2> QED
    BY <1>2, <1>4, <2>4, <2>5 DEF LoadRuns
<1> QED
  BY <1>7, <1>8, <1>9, <1>10

LEMMA EndKeeps ==
    ASSUME IInv, LoadPoints \/ EndRound
    PROVE  IInv'
<1> USE DEF IInv
<1>1. /\ main' = AtTop \/ main' = [AtTop EXCEPT !.at = "end"]
      /\ pause' \in {pause, TRUE}
      /\ UNCHANGED <<recorder, headers, switches, flash, cycle, stores, clobbered>>
  BY DEF LoadPoints, EndRound, store
<1>2. AtTop \in MainLoops /\ AtTop.index = 0 /\ AtTop.count = 0 /\ AtTop.at = "top" /\ "end" \in Steps
  BY MainParts DEF AtTop, Steps
<1>3. main' \in MainLoops
  BY <1>1, <1>2 DEF MainLoops
<1>4. main'.at \in {"top", "end"} /\ main'.index = 0 /\ main'.count = 0
  BY <1>1, <1>2, <1>3 DEF MainLoops
<1>5. RecorderNow'
  BY <1>1 DEF RecorderNow, recorder, headers
<1>6. RestOK'
  <2>1. pause' \in BOOLEAN
    BY <1>1 DEF RestOK
  <2>2. main'.index <= main'.count /\ main'.at # "load_points"
    BY <1>4
  <2> QED
    BY <1>1, <1>3, <2>1, <2>2 DEF RestOK, headers, switches
<1>7. StoreRuns' /\ HeaderReady' /\ LoadRuns'
  BY <1>4 DEF StoreRuns, HeaderReady, LoadRuns, Storing, Loading
<1> QED
  BY <1>5, <1>6, <1>7

LEMMA PowerLossKeeps ==
    ASSUME IInv, PowerLoss
    PROVE  IInv'
<1> USE DEF IInv
<1>1. /\ total' = 0 /\ cur' = 0 /\ segNum' = 0 /\ marks' = << >>
      /\ segHdr' = NoSegments /\ mul' = NoHeader
      /\ course' = 0 /\ left' = 0 /\ moved' = FALSE /\ pause' = TRUE
      /\ main' = AtTop /\ clobbered' = FALSE /\ stores' = stores
      /\ cycle < MaxCycles /\ cycle' = cycle + 1
  BY DEF PowerLoss
<1>2. RecorderNow'
  BY <1>1, Started DEF RecorderNow
<1>3. NoHeader \in Headers
  BY ErasedIsMost DEF NoHeader, Headers
<1>4. AtTop \in MainLoops /\ AtTop.index = 0 /\ AtTop.count = 0 /\ AtTop.at = "top"
  BY MainParts DEF AtTop
<1>5. flash' \in [Pages -> Contents]
  <2>1. CASE flash' = flash
    BY <2>1 DEF RestOK
  <2>2. CASE Writes /\ \E t \in TornPages(WriteContent) : flash' = [flash EXCEPT ![WritePage] = t]
    <3>1. PICK t \in TornPages(WriteContent) : flash' = [flash EXCEPT ![WritePage] = t]
      BY <2>2
    <3>2. t \in Contents
      BY <2>2, WriteTypes, TornTypes
    <3> QED
      BY <3>1, <3>2 DEF RestOK
  <2> QED
    BY <2>1, <2>2 DEF PowerLoss
<1>6. cycle' \in 1 .. MaxCycles
  BY <1>1, Layout DEF RestOK
<1>7. RestOK'
  <2>1. /\ main' \in MainLoops /\ main'.index <= main'.count /\ main'.at # "load_points"
        /\ mul' \in Headers
    BY <1>1, <1>3, <1>4
  <2>2. course' \in Courses \union {0} /\ left' \in 0 .. 2 /\ stores' \in 0 .. MaxStores
    BY <1>1 DEF RestOK
  <2>3. moved' \in BOOLEAN /\ pause' \in BOOLEAN /\ clobbered' \in BOOLEAN
    BY <1>1
  <2> QED
    BY <1>5, <1>6, <2>1, <2>2, <2>3 DEF RestOK
<1>8. StoreRuns' /\ HeaderReady' /\ LoadRuns'
  BY <1>1, <1>4 DEF StoreRuns, HeaderReady, LoadRuns, Storing, Loading
<1> QED
  BY <1>2, <1>7, <1>8

LEMMA InitHolds == Init => IInv
<1> SUFFICES ASSUME Init PROVE IInv
  OBVIOUS
<1>1. RecorderNow
  BY Started DEF Init, RecorderNow
<1>2. /\ AtTop \in MainLoops /\ AtTop.index = 0 /\ AtTop.count = 0 /\ AtTop.at = "top"
  BY ErasedIsMost, Layout DEF AtTop, MainLoops, Steps, NoLoad
<1>3. NoHeader \in Headers /\ flash \in [Pages -> Contents]
  BY ErasedIsMost, Made DEF NoHeader, Headers, Init
<1>4. RestOK
  <2>1. /\ main \in MainLoops /\ main.index <= main.count /\ main.at # "load_points"
        /\ mul \in Headers
    BY <1>2, <1>3 DEF Init
  <2>2. /\ course \in Courses \union {0} /\ left \in 0 .. 2 /\ stores \in 0 .. MaxStores
        /\ cycle \in 1 .. MaxCycles
    BY Layout DEF Init
  <2>3. moved \in BOOLEAN /\ pause \in BOOLEAN /\ clobbered \in BOOLEAN
    BY DEF Init
  <2> QED
    BY <1>3, <2>1, <2>2, <2>3 DEF RestOK
<1>5. StoreRuns /\ HeaderReady /\ LoadRuns
  BY <1>2 DEF Init, StoreRuns, HeaderReady, LoadRuns, Storing, Loading
<1> QED
  BY <1>1, <1>4, <1>5 DEF IInv

LEMMA StepKeeps == IInv /\ [Next]_vars => IInv'
<1> SUFFICES ASSUME IInv, [Next]_vars PROVE IInv'
  OBVIOUS
<1>1. CASE UNCHANGED vars
  <2>1. UNCHANGED <<total, cur, segNum, marks, segHdr, mul, course, left, moved, flash, cycle,
                    stores, pause, main, clobbered>>
    BY <1>1 DEF vars, recorder, headers, switches, store
  <2>2. RecorderNow' /\ RestOK' /\ StoreRuns' /\ HeaderReady'
    BY <2>1 DEF IInv, RecorderNow, RestOK, StoreRuns, HeaderReady, Storing
  <2>3. LoadRuns'
    BY <2>1 DEF IInv, LoadRuns, Loading, MulRead, SingleRead, CountsRead, HeaderRead,
                Segments, RecorderInterferes, SplitsNow, FinishesNow
  <2> QED
    BY <2>2, <2>3 DEF IInv
<1> QED
  BY <1>1, TickKeeps, ReadInputsKeeps, WriteHeaderKeeps, WriteSegmentsKeeps, WritePointsKeeps,
     StoreDoneKeeps, LoadHeaderKeeps, LoadSegmentsKeeps, EndKeeps, PowerLossKeeps
     DEF Next, MainLoop

\* The invariant of the recorder, the store and the load.
THEOREM Invariance == Spec => []IInv
<1> QED
  BY InitHolds, StepKeeps, PTL DEF Spec

\* The recorder counts every point once in a segment and in the path, and store
\* and load keep within their tables and the flash.
THEOREM TypeCorrect == Spec => []TypeOK
<1>1. IInv => TypeOK
  BY Types DEF IInv
<1> QED
  BY <1>1, Invariance, PTL

-----------------------------------------------------------------------------
(* The areas of the courses                                                 *)

\* Where the i-th point of a course lies.
LEMMA PointInArea ==
    ASSUME NEW c \in Courses, NEW i \in Nat, i < (PageNum - PointPage[c]) * PerPage,
           c = 2 \/ i < MaxPoints
    PROVE  PointPage[c] + i \div PerPage \in PointPages(c)
<1>1. PointPage[c] \in Nat /\ PageNum \in Nat /\ PointPage[c] < PageNum /\ PerPage \in Nat /\ PerPage > 0
  BY Layout DEF Pages
<1> DEFINE q == i \div PerPage
<1>2. q \in Nat /\ q < PageNum - PointPage[c]
  <2>1. q \in Nat
    BY <1>1, Divided
  <2>2. PageNum - PointPage[c] \in Nat
    BY <1>1
  <2> QED
    BY <1>1, <2>1, <2>2, EarlierPage
<1>3. CASE c = 2
  <2> HIDE DEF q
  <2>1. PointPage[c] + q \in PointPage[c] .. PageNum - 1
    BY <1>1, <1>2
  <2>2. PointPages(c) = PointPage[c] .. PageNum - 1
    BY <1>3 DEF PointPages
  <2> QED
    BY <2>1, <2>2 DEF q
<1>4. CASE c # 2
  <2>1. i \in 0 .. MaxPoints - 1
    BY <1>4, Layout
  <2> QED
    BY <1>4, <2>1 DEF PointPages
<1> QED
  BY <1>3, <1>4

LEMMA PointsSame ==
    ASSUME NEW c \in Courses, NEW n \in Nat, c = 2 \/ n <= MaxPoints,
           \A p \in Area(c) : flash'[p] = flash[p]
    PROVE  PointsRead(c, n)' = PointsRead(c, n)
<1> DEFINE room == (PageNum - PointPage[c]) * PerPage
           there == Least(n, room)
<1>1. room \in Nat
  BY Layout DEF Pages
<1> HIDE DEF room
<1>2. there \in Nat /\ there <= n /\ there <= room
  BY <1>1 DEF Least
<1> HIDE DEF there
<1>3. \A i \in 1 .. there : PointRead(c, i - 1)' = PointRead(c, i - 1)
  <2> TAKE i \in 1 .. there
  <2>1. i - 1 \in Nat /\ i - 1 < room /\ (c = 2 \/ i - 1 < MaxPoints)
    BY <1>1, <1>2, Layout
  <2>2. PointPage[c] + (i - 1) \div PerPage \in PointPages(c)
    BY <2>1, PointInArea DEF room
  <2>3. PointPage[c] + (i - 1) \div PerPage \in Area(c)
    BY <2>2 DEF Area
  <2>4. flash'[PointPage[c] + (i - 1) \div PerPage] = flash[PointPage[c] + (i - 1) \div PerPage]
    BY <2>3
  <2> QED
    BY <2>4 DEF PointRead
<1>4. PointsRead(c, n) = [i \in 1 .. there |-> PointRead(c, i - 1)]
  BY DEF PointsRead, there, room
<1>5. PointsRead(c, n)' = [i \in 1 .. there |-> PointRead(c, i - 1)']
  BY DEF PointsRead, there, room
<1> QED
  BY <1>3, <1>4, <1>5

\* A load of a course reads its area only.
LEMMA SamePages ==
    ASSUME flash \in [Pages -> Contents], NEW c \in Courses,
           \A p \in Area(c) : flash'[p] = flash[p]
    PROVE  Loadable(c)' = Loadable(c)
<1>1. flash'[HeaderPage[c]] = flash[HeaderPage[c]]
  BY DEF Area
<1>2. HeaderRead(c)' = HeaderRead(c)
  BY <1>1 DEF HeaderRead
<1>3. CASE c = 2
  <2>1. MulRead' = MulRead
    BY <1>2, <1>3 DEF MulRead
  <2>2. flash'[SegmentPage] = flash[SegmentPage]
    BY <1>3 DEF Area
  <2>3. MulRead \in Headers
    BY <1>3, MulTypes
  <2>4. MulRead.total \in Nat /\ MulRead.segs \in Nat
    BY <2>3, ErasedIsMost DEF Headers
  <2>5. CountsRead(MulRead.segs)' = CountsRead(MulRead.segs)
    BY <2>1, <2>2 DEF CountsRead
  <2> DEFINE n == MulRead.total
  <2>6. PointsRead(2, n)' = PointsRead(2, n)
    <3>1. n \in Nat /\ n' = n
      BY <2>1, <2>4
    <3>2. \A k \in Nat : PointsRead(2, k)' = PointsRead(2, k)
      BY <1>3, PointsSame
    <3>3. PointsRead(2, n)' = [i \in 1 .. Least(n, (PageNum - PointPage[2]) * PerPage)
                                 |-> PointRead(2, i - 1)']
      BY <3>1 DEF PointsRead
    <3>4. PointsRead(2, n) = [i \in 1 .. Least(n, (PageNum - PointPage[2]) * PerPage)
                                 |-> PointRead(2, i - 1)']
      BY <3>1, <3>2 DEF PointsRead
    <3> QED
      BY <3>3, <3>4
  <2> QED
    BY <1>3, <2>1, <2>5, <2>6 DEF Loadable
<1>4. CASE c # 2
  <2> DEFINE n == SingleRead(c)
  <2>1. n' = n
    BY <1>2 DEF SingleRead
  <2>2. n \in Nat /\ n <= MaxPoints
    BY ReadTypes, Layout
  <2>3. \A k \in Nat : k <= MaxPoints => PointsRead(c, k)' = PointsRead(c, k)
    BY PointsSame
  <2>4. PointsRead(c, n)' = PointsRead(c, n)
    <3>1. PointsRead(c, n)' = [i \in 1 .. Least(n, (PageNum - PointPage[c]) * PerPage)
                                 |-> PointRead(c, i - 1)']
      BY <2>1 DEF PointsRead
    <3>2. PointsRead(c, n) = [i \in 1 .. Least(n, (PageNum - PointPage[c]) * PerPage)
                                 |-> PointRead(c, i - 1)']
      BY <2>2, <2>3 DEF PointsRead
    <3> QED
      BY <3>1, <3>2
  <2> QED
    BY <1>4, <2>4 DEF Loadable
<1> QED
  BY <1>3, <1>4

\* A store writes in the area of its course only.
LEMMA WriteInArea ==
    ASSUME IInv, Writes
    PROVE  /\ course \in Courses /\ WritePage \in Area(course)
           /\ main.at = "points" => WritePage \in PointPages(course)
<1>1. /\ main.at \in {"header", "segments", "points"} /\ course \in Courses
      /\ main.at = "segments" => course = 2
  BY DEF IInv, Writes, StoreRuns, Storing
<1>2. CASE main.at = "header"
  BY <1>1, <1>2 DEF WritePage, Area
<1>3. CASE main.at = "segments"
  BY <1>1, <1>3 DEF WritePage, Area
<1>4. CASE main.at = "points"
  <2>1. main.index \in Nat /\ main.index < main.count /\ main.count \in Nat
    BY <1>4, OnThePage
  <2>2. PICK q \in 0 .. PageNum :
           /\ main.page = PointPage[course] + q
           /\ main.index = q * PerPage \/ main.index = main.count
    BY <1>4 DEF IInv, StoreRuns
  <2>3. main.index = q * PerPage
    BY <2>1, <2>2
  <2>4. main.page < PageNum /\ WritePage = main.page
    BY <1>4 DEF Writes, WritePage
  <2>5. /\ PointPage[course] \in Nat /\ PageNum \in Nat /\ PerPage \in Nat /\ PerPage > 0
        /\ MaxPoints \in Nat
    BY <1>1, Layout DEF Pages
  <2>6. WritePage \in PointPages(course)
    <3>1. CASE course = 2
      BY <2>2, <2>4, <2>5, <3>1 DEF PointPages
    <3>2. CASE course # 2
      <4>1. main.index \in 0 .. MaxPoints - 1
        BY <1>4, <2>1, <2>5, <3>2 DEF IInv, StoreRuns
      <4>2. main.index \div PerPage = q
        BY <2>1, <2>2, <2>3, <2>5, Located
      <4>3. main.page = PointPage[course] + main.index \div PerPage
        BY <2>2, <4>2
      <4> QED
        BY <2>4, <3>2, <4>1, <4>3 DEF PointPages
    <3> QED
      BY <3>1, <3>2
  <2> QED
    BY <1>1, <1>4, <2>6 DEF Area
<1> QED
  BY <1>1, <1>2, <1>3, <1>4

\* The flash changes in one page at a time.
LEMMA FlashSteps ==
    ASSUME IInv, [Next]_vars
    PROVE  \/ flash' = flash
           \/ Writes /\ \E t : flash' = [flash EXCEPT ![WritePage] = t]
<1>1. CASE UNCHANGED vars
  BY <1>1 DEF vars, store
<1>2. CASE Tick \/ LoadHeader \/ LoadSegments \/ LoadPoints \/ EndRound
  BY <1>2 DEF Tick, LoadHeader, LoadSegments, LoadPoints, EndRound, store
<1>3. CASE ReadInputs \/ StoreDone
  BY <1>3 DEF ReadInputs, StoreDone
<1>4. CASE WriteHeader
  BY <1>4 DEF WriteHeader, Writes
<1>5. CASE WriteSegments
  BY <1>5 DEF WriteSegments
<1>6. CASE WritePoints
  BY <1>6 DEF WritePoints
<1>7. CASE PowerLoss
  BY <1>7 DEF PowerLoss
<1> QED
  BY <1>1, <1>2, <1>3, <1>4, <1>5, <1>6, <1>7 DEF Next, MainLoop

\* Where every course has room for the longest path, a step leaves what the
\* other courses load.
LEMMA OthersStay ==
    ASSUME RoomyLayout, IInv, [Next]_vars, NEW c \in Courses,
           c # course \/ flash' = flash
    PROVE  Loadable(c)' = Loadable(c)
<1>1. flash \in [Pages -> Contents]
  BY DEF IInv, RestOK
<1>2. CASE flash' = flash
  BY <1>1, <1>2, SamePages
<1>3. CASE Writes /\ c # course /\ \E t : flash' = [flash EXCEPT ![WritePage] = t]
  <2>1. course \in Courses /\ WritePage \in Area(course)
    BY <1>3, WriteInArea
  <2>2. WritePage \notin Area(c)
    BY <1>3, <2>1 DEF RoomyLayout
  <2>3. \A p \in Area(c) : flash'[p] = flash[p]
    BY <1>1, <1>3, <2>2
  <2> QED
    BY <1>1, <2>3, SamePages
<1> QED
  BY <1>2, <1>3, FlashSteps

\* Storing one course, completely or not, leaves what the others load, where
\* every course has room for the longest path.
THEOREM StoresSeparate ==
    ASSUME RoomyLayout
    PROVE  Spec => StoresAreSeparate
<1>1. IInv /\ [Next]_vars => [\A c \in Courses \ {course} : Loadable(c)' = Loadable(c)]_vars
  BY OthersStay
<1> QED
  BY <1>1, Invariance, PTL DEF Spec, StoresAreSeparate

-----------------------------------------------------------------------------
(* What is stored and what is loaded                                        *)

LEMMA TickStores ==
    ASSUME KInv, Tick
    PROVE  StoredSoFar'
<1> SUFFICES ASSUME pending' # Unknown PROVE StoredSoFar'
  BY DEF StoredSoFar
<1>1. UNCHANGED <<course, left, moved, flash, cycle, pending, clobbered>>
  BY DEF Tick, switches, store
<1>2. /\ pending # Unknown /\ main.at \in {"segments", "points"} /\ left = 1
      /\ course = 2 => ~moved /\ ~clobbered /\ cur = 0
  BY <1>1 DEF KInv, IInv, StoredSoFar, StoreRuns, Storing
<1>3. Rests
  <2>1. RecorderNow /\ pause \in BOOLEAN /\ course \in 0 .. 2
    BY Layout DEF KInv, IInv, RestOK
  <2> QED
    BY <1>2, <2>1, TickUpdates DEF Tick
<1>4. UNCHANGED <<total, cur, segNum, segHdr, marks>>
  BY <1>2, <1>3 DEF Rests, recorder, headers
<1>5. main' = main
  BY <1>2 DEF Tick, SingleOverwritten
<1> QED
  BY <1>1, <1>4, <1>5 DEF KInv, StoredSoFar, HeaderRead, Segments, PointRead

LEMMA WriteHeaderStores ==
    ASSUME KInv, WriteHeader
    PROVE  StoredSoFar'
<1> SUFFICES ASSUME pending' # Unknown PROVE StoredSoFar'
  BY DEF StoredSoFar
<1>1. /\ main.at = "header" /\ flash' = [flash EXCEPT ![WritePage] = WriteContent]
      /\ UNCHANGED <<recorder, headers, switches, pause, cycle, stores, clobbered>>
      /\ pending' = Meant
  BY DEF WriteHeader
<1>2. /\ course \in Courses /\ course \in 0 .. 2 /\ HeaderPage[course] \in Pages
      /\ flash \in [Pages -> Contents]
  BY <1>1, Layout DEF KInv, IInv, StoreRuns, Storing, RestOK
<1>3. UNCHANGED <<total, cur, segNum, segHdr, marks, mul, course, left, moved, cycle, clobbered>>
  BY <1>1 DEF recorder, headers, switches
<1>4. main \in MainLoops /\ main.index = 0
  BY <1>1, MainParts DEF KInv, IInv, StoreRuns
<1>5. flash'[HeaderPage[course]] = WriteContent
  BY <1>1, <1>2 DEF WritePage
<1>6. CASE course = 2
  <2>1. /\ ~moved /\ ~clobbered /\ ~(cur > 0)
        /\ pending' = [segments |-> marks, points |-> [i \in 1 .. total |-> <<cycle, i - 1>>]]
    BY <1>1, <1>6 DEF Meant
  <2>2. cur = 0
    BY <2>1, Layout DEF KInv, IInv, RecorderNow, RecorderOK
  <2>3. mul = [check |-> 2, segs |-> segNum, total |-> total]
    BY <1>1, <1>6, <2>1 DEF KInv, IInv, HeaderReady, Storing
  <2>4. WriteContent = HeaderOf(2, segNum, total)
    BY <1>1, <1>6, <2>3 DEF WriteContent
  <2>5. HeaderRead(course)' = HeaderOf(2, segNum, total)
    BY <1>3, <1>5, <2>4 DEF HeaderRead, HeaderOf
  <2>6. main' = [main EXCEPT !.at = "segments"]
    BY <1>6 DEF WriteHeader
  <2>7. main'.at = "segments"
    BY <1>4, <2>6 DEF MainLoops
  <2> QED
    BY <1>3, <1>6, <2>1, <2>2, <2>5, <2>7 DEF StoredSoFar
<1>7. CASE course # 2
  <2>1. pending' = [segments |-> << >>, points |-> [i \in 1 .. total |-> <<cycle, i - 1>>]]
    BY <1>1, <1>2, <1>7 DEF Meant
  <2>2. WriteContent = HeaderOf(course, 0, total)
    BY <1>1, <1>7 DEF WriteContent
  <2>3. HeaderRead(course)' = HeaderOf(course, 0, total)
    BY <1>3, <1>5, <2>2 DEF HeaderRead, HeaderOf
  <2>4. main' = [main EXCEPT !.at = "points", !.page = PointPage[course], !.count = total]
    BY <1>7 DEF WriteHeader
  <2>5. main'.at = "points" /\ main'.index = 0 /\ main'.count = total
    BY <1>4, <2>4 DEF MainLoops
  <2>6. 0 .. main'.index - 1 = {}
    BY <2>5
  <2> QED
    BY <1>3, <1>7, <2>1, <2>3, <2>5, <2>6 DEF StoredSoFar
<1> QED
  BY <1>6, <1>7

LEMMA WriteSegmentsStores ==
    ASSUME RoomyLayout, KInv, WriteSegments
    PROVE  StoredSoFar'
<1> SUFFICES ASSUME pending' # Unknown PROVE StoredSoFar'
  BY DEF StoredSoFar
<1>1. /\ main.at = "segments" /\ main' = [main EXCEPT !.at = "points", !.page = PointPage[2], !.count = mul.total]
      /\ UNCHANGED <<recorder, headers, switches, pause, cycle, stores, clobbered, pending>>
  BY DEF WriteSegments
<1>2. /\ course \in Courses /\ course = 2 /\ main.index = 0 /\ main \in MainLoops
      /\ flash \in [Pages -> Contents] /\ segNum \in Nat /\ segNum <= MaxSegments
      /\ HeaderPage[2] \in Pages /\ SegmentPage \in Pages
  BY <1>1, MainParts, Layout
     DEF KInv, IInv, StoreRuns, Storing, RestOK, RecorderNow, RecorderOK
<1>3. UNCHANGED <<total, cur, segNum, segHdr, marks, mul, course, left, moved, cycle, clobbered>>
  BY <1>1 DEF recorder, headers, switches
<1>4. /\ pending # Unknown /\ ~moved /\ ~clobbered /\ cur = 0
      /\ pending = [segments |-> marks, points |-> [i \in 1 .. total |-> <<cycle, i - 1>>]]
      /\ HeaderRead(course) = HeaderOf(2, segNum, total)
  BY <1>1, <1>2 DEF KInv, StoredSoFar
<1>5. mul = [check |-> 2, segs |-> segNum, total |-> total]
  BY <1>1, <1>2, <1>4 DEF KInv, IInv, HeaderReady, Storing
<1>6. Writes
  BY <1>1, <1>2, <1>5 DEF Writes
<1>7. flash' = [flash EXCEPT ![SegmentPage] = SegmentsOf(Segments(segNum))]
  <2>1. flash' = [flash EXCEPT ![WritePage] = WriteContent]
    BY <1>6 DEF WriteSegments
  <2>2. WritePage = SegmentPage /\ WriteContent = SegmentsOf(Segments(segNum))
    BY <1>1, <1>5 DEF WritePage, WriteContent
  <2> QED
    BY <2>1, <2>2
<1>8. HeaderPage[2] # SegmentPage
  BY <1>2 DEF RoomyLayout
<1>9. HeaderRead(course)' = HeaderOf(2, segNum, total)
  <2>1. flash'[HeaderPage[2]] = flash[HeaderPage[2]]
    BY <1>2, <1>7, <1>8
  <2>2. HeaderRead(course)' = HeaderRead(course)
    BY <1>2, <1>3, <2>1 DEF HeaderRead
  <2> QED
    BY <1>4, <2>2
<1>10. flash'[SegmentPage] = SegmentsOf(Segments(segNum))'
  BY <1>2, <1>3, <1>7 DEF Segments
<1>11. main'.at = "points" /\ main'.index = 0 /\ main'.count = total
  BY <1>1, <1>2, <1>5 DEF MainLoops
<1>12. 0 .. main'.index - 1 = {}
  BY <1>11
<1>13. /\ pending' = [segments |-> IF course' = 2 THEN marks' ELSE << >>,
                      points |-> [i \in 1 .. total' |-> <<cycle', i - 1>>]]
       /\ course' = 2 => ~moved' /\ ~clobbered' /\ cur' = 0
       /\ HeaderRead(course)' = HeaderOf(course', IF course' = 2 THEN segNum' ELSE 0, total')
  BY <1>1, <1>2, <1>3, <1>4, <1>9
<1> QED
  BY <1>3, <1>10, <1>11, <1>12, <1>13 DEF StoredSoFar

LEMMA WritePointsStores ==
    ASSUME RoomyLayout, KInv, WritePoints
    PROVE  StoredSoFar'
<1> SUFFICES ASSUME pending' # Unknown PROVE StoredSoFar'
  BY DEF StoredSoFar
<1> DEFINE n == Least(PerPage, main.count - main.index)
           points == [i \in 1 .. n |-> RecordedPoint(main.index + i - 1)]
<1>1. /\ main.at = "points" /\ Writes
      /\ flash' = [flash EXCEPT ![WritePage] = WriteContent]
      /\ main' = [main EXCEPT !.page = @ + 1, !.index = @ + Len(WriteContent.points)]
      /\ UNCHANGED <<recorder, headers, switches, pause, cycle, stores, clobbered, pending>>
  BY DEF WritePoints
<1>2. /\ main.index \in Nat /\ main.count \in Nat /\ main.index < main.count
      /\ Len(WriteContent.points) = n /\ n \in 1 .. PerPage
      /\ WriteContent = PointsOf(points)
  BY <1>1, OnThePage DEF KInv
<1>3. n <= main.count - main.index /\ main.index + n <= main.count
  BY <1>2, Layout DEF Least
<1> HIDE DEF n
<1>4. UNCHANGED <<total, cur, segNum, segHdr, marks, mul, course, left, moved, cycle, clobbered>>
  BY <1>1 DEF recorder, headers, switches
<1>5. /\ pending # Unknown
      /\ pending = [segments |-> IF course = 2 THEN marks ELSE << >>,
                    points |-> [i \in 1 .. total |-> <<cycle, i - 1>>]]
      /\ course = 2 => ~moved /\ ~clobbered /\ cur = 0
      /\ HeaderRead(course) = HeaderOf(course, IF course = 2 THEN segNum ELSE 0, total)
      /\ main.count = total
      /\ course = 2 => flash[SegmentPage] = SegmentsOf(Segments(segNum))
      /\ \A i \in 0 .. main.index - 1 : PointRead(course, i) = <<cycle, i>>
  BY <1>1 DEF KInv, StoredSoFar
<1>6. /\ course \in Courses /\ WritePage \in PointPages(course) /\ WritePage = main.page
      /\ flash \in [Pages -> Contents] /\ WritePage \in Pages
  BY <1>1, WriteInArea, WriteTypes DEF KInv, IInv, RestOK, WritePage
<1>7. WritePage # HeaderPage[course] /\ (course = 2 => WritePage # SegmentPage)
  BY <1>6 DEF RoomyLayout
<1>8. /\ HeaderPage[course] \in Pages /\ SegmentPage \in Pages /\ PointPage[course] \in Nat
      /\ PerPage \in Nat /\ PerPage > 0
  BY <1>6, Layout DEF Pages
<1>9. HeaderRead(course)' = HeaderRead(course)
  BY <1>1, <1>4, <1>6, <1>7, <1>8 DEF HeaderRead
<1>10. course = 2 => flash'[SegmentPage] = SegmentsOf(Segments(segNum))'
  BY <1>1, <1>4, <1>5, <1>6, <1>7, <1>8 DEF Segments
<1>11. main'.at = "points" /\ main'.count = main.count /\ main'.index = main.index + n
  BY <1>1, <1>2, MainParts DEF KInv, IInv, MainLoops
<1>12. PICK q \in 0 .. PageNum :
          /\ main.page = PointPage[course] + q
          /\ main.index = q * PerPage \/ main.index = main.count
  BY <1>1 DEF KInv, IInv, StoreRuns
<1>13. q \in Nat /\ main.index = q * PerPage
  BY <1>2, <1>12, Layout
<1>14. \A i \in 0 .. main'.index - 1 : PointRead(course, i)' = <<cycle', i>>
  <2> TAKE i \in 0 .. main'.index - 1
  <2>1. i \in Nat /\ i < main.index + n
    BY <1>2, <1>11
  <2>2. CASE i < main.index
    <3> DEFINE page == PointPage[course] + i \div PerPage
    <3>1. i \div PerPage \in Nat /\ i \div PerPage < q
      <4>1. i < q * PerPage
        BY <1>13, <2>2
      <4>2. i \div PerPage < q
        BY <1>8, <1>13, <2>1, <4>1, EarlierPage
      <4>3. i \div PerPage \in Nat
        BY <1>8, <2>1, Divided
      <4> QED
        BY <4>2, <4>3
    <3>2. page # WritePage
      BY <1>6, <1>8, <1>12, <1>13, <3>1
    <3>3. flash'[page] = flash[page]
      BY <1>1, <1>6, <3>2
    <3>4. PointRead(course, i)' = PointRead(course, i)
      BY <1>4, <3>3 DEF PointRead
    <3>5. i \in 0 .. main.index - 1
      BY <1>2, <2>1, <2>2
    <3> QED
      BY <1>4, <1>5, <3>4, <3>5
  <2>3. CASE i >= main.index
    <3> DEFINE r == i - main.index
    <3>1. r \in Nat /\ r < n /\ r < PerPage /\ i = q * PerPage + r
      BY <1>2, <1>8, <1>13, <2>1, <2>3
    <3>2. i \div PerPage = q /\ i % PerPage = r
      <4> HIDE DEF r
      <4> QED
        BY <1>8, <1>13, <2>1, <3>1, Located
    <3>3. PointPage[course] + i \div PerPage = WritePage
      BY <1>6, <1>12, <3>2
    <3>4. flash'[WritePage] = PointsOf(points)
      BY <1>1, <1>2, <1>6
    <3>5. r + 1 \in 1 .. n /\ Len(points) = n
      BY <1>2, <3>1
    <3>6. points[r + 1] = RecordedPoint(i)
      <4>1. points[r + 1] = RecordedPoint(main.index + (r + 1) - 1)
        BY <3>5
      <4>2. main.index + (r + 1) - 1 = i
        BY <1>2, <2>1
      <4> QED
        BY <4>1, <4>2
    <3>7. RecordedPoint(i) = <<cycle, i>>
      <4>1. i < total
        BY <1>2, <1>3, <1>5, <2>1
      <4> QED
        BY <4>1 DEF RecordedPoint
    <3> HIDE DEF points, r
    <3>8. PointRead(course, i)' = points[r + 1]
      <4>1. PointsOf(points).kind = "points" /\ PointsOf(points).points = points
        BY DEF PointsOf
      <4>2. r + 1 <= Len(points)
        BY <3>1, <3>5
      <4> QED
        BY <1>4, <3>2, <3>3, <3>4, <4>1, <4>2 DEF PointRead
    <3> QED
      BY <1>4, <3>6, <3>7, <3>8
  <2> QED
    BY <1>2, <2>1, <2>2, <2>3
<1>15. /\ pending' = [segments |-> IF course' = 2 THEN marks' ELSE << >>,
                      points |-> [i \in 1 .. total' |-> <<cycle', i - 1>>]]
       /\ course' = 2 => ~moved' /\ ~clobbered' /\ cur' = 0
       /\ HeaderRead(course)' = HeaderOf(course', IF course' = 2 THEN segNum' ELSE 0, total')
  BY <1>1, <1>4, <1>5, <1>9
<1>16. \A i \in 0 .. main'.index - 1 : (PointRead(course, i))' = <<cycle', i>>
  BY <1>14
<1> QED
  BY <1>4, <1>5, <1>10, <1>11, <1>15, <1>16 DEF StoredSoFar

\* No other step stores, or keeps anything of a store under way.
LEMMA StoredKeeps ==
    ASSUME RoomyLayout, KInv, [Next]_vars
    PROVE  StoredSoFar'
<1>1. CASE UNCHANGED vars
  <2>1. UNCHANGED <<total, cur, segNum, marks, segHdr, course, moved, flash, cycle, pending,
                    main, clobbered>>
    BY <1>1 DEF vars, recorder, headers, switches, store
  <2> QED
    BY <2>1 DEF KInv, StoredSoFar, HeaderRead, Segments, PointRead
<1>2. CASE ReadInputs \/ LoadHeader \/ LoadSegments \/ LoadPoints \/ EndRound
  <2>1. main.at \notin {"segments", "points"} /\ pending' = pending
    BY <1>2 DEF ReadInputs, LoadHeader, LoadSegments, LoadPoints, EndRound, store
  <2>2. pending = Unknown
    BY <2>1 DEF KInv, StoredSoFar
  <2> QED
    BY <2>1, <2>2 DEF StoredSoFar, Unknown
<1>3. CASE StoreDone \/ PowerLoss
  BY <1>3 DEF StoreDone, PowerLoss, StoredSoFar, Unknown
<1> QED
  BY <1>1, <1>2, <1>3, TickStores, WriteHeaderStores, WriteSegmentsStores, WritePointsStores
     DEF Next, MainLoop

\* A store that is done has stored all of the path.
LEMMA AllStored ==
    ASSUME RoomyLayout, KInv, StoreDone, pending # Unknown
    PROVE  Loadable(course) = pending /\ Len(pending.points) <= MaxPoints
<1>1. main.at = "points" /\ ~Writes /\ course \in Courses /\ course \in 0 .. 2
  BY Layout DEF StoreDone, KInv, IInv, StoreRuns, Storing
<1>2. /\ pending = [segments |-> IF course = 2 THEN marks ELSE << >>,
                    points |-> [i \in 1 .. total |-> <<cycle, i - 1>>]]
      /\ HeaderRead(course) = HeaderOf(course, IF course = 2 THEN segNum ELSE 0, total)
      /\ course = 2 => ~clobbered /\ flash[SegmentPage] = SegmentsOf(Segments(segNum))
      /\ main.count = total
      /\ \A i \in 0 .. main.index - 1 : PointRead(course, i) = <<cycle, i>>
  BY <1>1 DEF StoreDone, KInv, StoredSoFar
<1>3. /\ total \in Nat /\ total <= MaxPoints /\ segNum \in Nat /\ segNum <= MaxSegments
      /\ MaxPoints \in Nat /\ MaxSegments \in Nat /\ Len(marks) = segNum /\ marks \in Seq(Nat)
      /\ course = 2 => \A i \in 1 .. segNum : segHdr[i - 1] = marks[i]
  BY <1>2, Layout DEF KInv, IInv, RecorderNow, RecorderOK
<1> DEFINE room == (PageNum - PointPage[course]) * PerPage
<1>4. room \in Nat /\ MaxPoints <= room
  BY <1>1, Layout DEF RoomyLayout, Pages
<1>5. main.index = total
  <2>1. main.index \in Nat /\ main.index <= total /\ main.page \in Nat
    BY <1>2, MainParts, Layout DEF KInv, IInv
  <2>2. CASE main.index < main.count
    <3>1. main.page >= PageNum
      BY <1>1, <2>1, <2>2, Layout DEF Writes
    <3>2. PICK q \in 0 .. PageNum :
             /\ main.page = PointPage[course] + q
             /\ main.index = q * PerPage \/ main.index = main.count
      BY <1>1 DEF KInv, IInv, StoreRuns
    <3>3. /\ PointPage[course] \in Nat /\ PageNum \in Nat /\ PointPage[course] < PageNum
          /\ PerPage \in Nat /\ q \in Nat
      BY <1>1, <3>2, Layout DEF Pages
    <3>4. q >= PageNum - PointPage[course]
      BY <3>1, <3>2, <3>3
    <3>5. PerPage * q >= PerPage * (PageNum - PointPage[course])
      BY <3>3, <3>4, Multiples
    <3>6. main.index = q * PerPage
      BY <1>2, <1>3, <2>1, <2>2, <3>2
    <3>7. main.index >= room
      BY <3>3, <3>5, <3>6
    <3> HIDE DEF room
    <3> QED
      BY <1>2, <1>3, <1>4, <2>1, <2>2, <3>7
  <2>3. CASE ~(main.index < main.count)
    BY <1>2, <1>3, <2>1, <2>3
  <2> QED
    BY <2>2, <2>3
<1>6. PointsRead(course, total) = pending.points
  <2>1. Least(total, room) = total
    <3> HIDE DEF room
    <3> QED
      BY <1>3, <1>4 DEF Least
  <2>2. PointsRead(course, total) = [i \in 1 .. total |-> PointRead(course, i - 1)]
    BY <2>1 DEF PointsRead
  <2>3. \A i \in 1 .. total : PointRead(course, i - 1) = <<cycle, i - 1>>
    <3> TAKE i \in 1 .. total
    <3>1. i - 1 \in 0 .. main.index - 1
      BY <1>3, <1>5
    <3> QED
      BY <1>2, <3>1
  <2>4. pending.points = [i \in 1 .. total |-> <<cycle, i - 1>>]
    BY <1>2
  <2> QED
    BY <2>2, <2>3, <2>4
<1>7. Len(pending.points) = total
  <2>1. pending.points = [i \in 1 .. total |-> <<cycle, i - 1>>]
    BY <1>2
  <2> QED
    BY <1>3, <2>1
<1>8. CASE course = 2
  <2>1. MulRead.segs = segNum /\ MulRead.total = total
    BY <1>2, <1>8 DEF MulRead, HeaderOf
  <2>2. CountsRead(segNum) = marks
    <3> DEFINE counts == Segments(segNum)
    <3>1. counts = [i \in 1 .. segNum |-> segHdr[i - 1]] /\ Len(counts) = segNum
      BY <1>3 DEF Segments
    <3> HIDE DEF counts
    <3>2. flash[SegmentPage].kind = "segments" /\ flash[SegmentPage].counts = counts
      BY <1>2, <1>8 DEF SegmentsOf, counts
    <3>3. CountsRead(segNum) = [i \in 1 .. segNum |-> IF i <= Len(counts) THEN counts[i] ELSE 0]
      BY <3>2 DEF CountsRead
    <3>4. \A i \in 1 .. segNum : (IF i <= Len(counts) THEN counts[i] ELSE 0) = marks[i]
      BY <1>3, <1>8, <3>1
    <3>5. CountsRead(segNum) = [i \in 1 .. segNum |-> marks[i]]
      BY <3>3, <3>4
    <3> QED
      BY <1>3, <3>5
  <2>3. pending.segments = marks
    BY <1>2, <1>8
  <2>4. Loadable(course) = [segments |-> CountsRead(segNum), points |-> PointsRead(2, total)]
    BY <1>3, <1>8, <2>1 DEF Loadable
  <2>5. pending = [segments |-> pending.segments, points |-> pending.points]
    BY <1>2
  <2> QED
    BY <1>3, <1>6, <1>7, <1>8, <2>2, <2>3, <2>4, <2>5
<1>9. CASE course # 2
  <2>1. SingleRead(course) = total
    BY <1>2, <1>3 DEF SingleRead, HeaderOf
  <2>2. Loadable(course) = [segments |-> << >>, points |-> PointsRead(course, total)]
    BY <1>9, <2>1 DEF Loadable
  <2>3. pending = [segments |-> << >>, points |-> pending.points]
    BY <1>2, <1>9
  <2> QED
    BY <1>3, <1>6, <1>7, <2>2, <2>3
<1> QED
  BY <1>8, <1>9

\* What was kept is lost only by storing the course again.
LEMMA KeptKeeps ==
    ASSUME RoomyLayout, KInv, [Next]_vars
    PROVE  Kept' /\ (saved = [c \in Courses |-> saved[c]])'
<1>0. saved = [c \in Courses |-> saved[c]]
  BY DEF KInv
<1>1. CASE StoreDone
  <2>1. saved' = [saved EXCEPT ![course] = pending] /\ flash' = flash /\ course' = course
    BY <1>1 DEF StoreDone, switches
  <2>2. course \in Courses
    BY <1>1 DEF StoreDone, KInv, IInv, StoreRuns, Storing
  <2>3. saved' = [c \in Courses |-> saved'[c]]
    BY <1>0, <2>1
  <2>4. ASSUME NEW c \in Courses, saved'[c] # Unknown
        PROVE  Loadable(c)' = saved'[c] /\ Len(saved'[c].points) <= MaxPoints
    <3>1. Loadable(c)' = Loadable(c)
      BY <2>1, OthersStay DEF KInv
    <3>2. CASE c = course
      <4>1. saved'[c] = pending
        BY <1>0, <2>1, <2>2, <3>2
      <4> QED
        BY <1>1, <2>4, <3>1, <3>2, <4>1, AllStored
    <3>3. CASE c # course
      <4>1. saved'[c] = saved[c]
        BY <1>0, <2>1, <3>3
      <4> QED
        BY <2>4, <3>1, <3>3, <4>1 DEF KInv, Kept
    <3> QED
      BY <3>2, <3>3
  <2> QED
    BY <2>3, <2>4 DEF Kept
<1>2. CASE PowerLoss
  <2>1. /\ saved' = IF Storing THEN [saved EXCEPT ![course] = Unknown] ELSE saved
        /\ ~Storing => flash' = flash
    BY <1>2 DEF PowerLoss, Storing, Writes
  <2>2. saved' = [c \in Courses |-> saved'[c]]
    BY <1>0, <2>1
  <2>3. ASSUME NEW c \in Courses, saved'[c] # Unknown
        PROVE  Loadable(c)' = saved'[c] /\ Len(saved'[c].points) <= MaxPoints
    <3>1. ~(Storing /\ course = c)
      BY <1>0, <2>1, <2>3
    <3>2. saved'[c] = saved[c]
      BY <1>0, <2>1, <3>1
    <3>3. Loadable(c)' = Loadable(c)
      BY <2>1, <3>1, OthersStay DEF KInv
    <3> QED
      BY <2>3, <3>1, <3>2, <3>3 DEF KInv, Kept
  <2> QED
    BY <2>2, <2>3 DEF Kept
<1>3. CASE ~StoreDone /\ ~PowerLoss
  <2>1. saved' = saved
    BY <1>3 DEF Next, MainLoop, Tick, ReadInputs, WriteHeader, WriteSegments, WritePoints,
                LoadHeader, LoadSegments, LoadPoints, EndRound, store, vars
  <2>2. Storing => Storing' /\ course' = course
    <3>1. CASE UNCHANGED vars
      BY <3>1 DEF vars, switches, Storing
    <3>2. CASE Tick
      <4> SUFFICES ASSUME Storing PROVE Storing' /\ course' = course
        OBVIOUS
      <4>1. main' = main /\ course' = course
        BY <3>2 DEF Tick, SingleOverwritten, switches, Storing
      <4> QED
        BY <4>1 DEF Storing
    <3>3. CASE ReadInputs \/ LoadHeader \/ LoadSegments \/ LoadPoints \/ EndRound
      BY <3>3 DEF ReadInputs, LoadHeader, LoadSegments, LoadPoints, EndRound, Storing
    <3>4. CASE WriteHeader \/ WriteSegments \/ WritePoints
      <4>1. main \in MainLoops
        BY MainParts DEF KInv, IInv
      <4>2. course' = course
        BY <3>4 DEF WriteHeader, WriteSegments, WritePoints, switches
      <4>3. main'.at \in {"segments", "points"}
        BY <3>4, <4>1 DEF WriteHeader, WriteSegments, WritePoints, MainLoops
      <4> QED
        BY <4>2, <4>3 DEF Storing
    <3> QED
      BY <1>3, <3>1, <3>2, <3>3, <3>4 DEF Next, MainLoop
  <2>3. Storing \/ flash' = flash
    BY FlashSteps DEF KInv, Writes, Storing
  <2>4. ASSUME NEW c \in Courses, saved'[c] # Unknown, ~(Storing' /\ course' = c)
        PROVE  Loadable(c)' = saved'[c] /\ Len(saved'[c].points) <= MaxPoints
    <3>1. ~(Storing /\ course = c)
      BY <2>2, <2>4
    <3>2. Loadable(c)' = Loadable(c)
      BY <2>3, <3>1, OthersStay DEF KInv
    <3> QED
      BY <2>1, <2>4, <3>1, <3>2 DEF KInv, Kept
  <2> QED
    BY <1>0, <2>1, <2>4 DEF Kept
<1> QED
  BY <1>1, <1>2, <1>3

LEMMA InitKept == Init => KInv
<1> SUFFICES ASSUME Init PROVE KInv
  OBVIOUS
<1>1. pending = Unknown /\ saved = [c \in Courses |-> NoPath] /\ flash = [p \in Pages |-> Blank]
  BY DEF Init
<1>2. ASSUME NEW c \in Courses PROVE Loadable(c) = NoPath
  <2>1. HeaderRead(c) = HeaderOf(NoCheck, Erased, Erased)
    BY <1>1, Layout DEF HeaderRead, Blank
  <2>2. PointsRead(c, 0) = << >>
    <3>1. Least(0, (PageNum - PointPage[c]) * PerPage) \in {0, (PageNum - PointPage[c]) * PerPage}
      BY DEF Least
    <3>2. (PageNum - PointPage[c]) * PerPage \in Nat
      BY Layout DEF Pages
    <3>3. Least(0, (PageNum - PointPage[c]) * PerPage) = 0
      BY <3>2 DEF Least
    <3> QED
      BY <3>3 DEF PointsRead
  <2>3. CASE c = 2
    <3>1. MulRead.segs = Erased /\ MulRead.total = 0
      BY <2>1, <2>3 DEF MulRead, HeaderOf, NoCheck
    <3>2. Erased > MaxSegments
      BY ErasedIsMost
    <3> QED
      BY <2>2, <2>3, <3>1, <3>2 DEF Loadable, NoPath
  <2>4. CASE c # 2
    <3>1. SingleRead(c) = 0
      BY <2>1, Layout DEF SingleRead, HeaderOf, NoCheck
    <3> QED
      BY <2>2, <2>4, <3>1 DEF Loadable, NoPath
  <2> QED
    BY <2>3, <2>4
<1>3. Kept
  <2>1. Len(NoPath.points) <= MaxPoints
    BY Layout DEF NoPath
  <2> QED
    BY <1>1, <1>2, <2>1 DEF Kept
<1>4. StoredSoFar
  BY <1>1 DEF StoredSoFar
<1> QED
  BY <1>1, <1>3, <1>4, InitHolds DEF KInv

\* What a load gives is what the course has.
LEMMA LoadsAsStored ==
    ASSUME KInv, main.at = "load_points", ~RecorderInterferes, saved[main.load] # Unknown
    PROVE  Loaded = saved[main.load]
<1>1. main.load \in Courses /\ ~Storing
  BY DEF KInv, IInv, LoadRuns, Loading, Storing
<1>2. Loadable(main.load) = saved[main.load]
  BY <1>1 DEF KInv, Kept
<1>3. CASE main.load = 2
  <2>1. mul = MulRead /\ (mul.segs > MaxSegments \/ Segments(mul.segs) = CountsRead(mul.segs))
    BY <1>3 DEF KInv, IInv, LoadRuns
  <2>2. Loaded = Loadable(main.load)
    BY <1>3, <2>1 DEF Loaded, Loadable
  <2> QED
    BY <1>2, <2>2
<1>4. CASE main.load # 2
  <2>1. main.count = SingleRead(main.load)
    BY <1>4 DEF KInv, IInv, LoadRuns
  <2>2. Loaded = Loadable(main.load)
    BY <1>4, <2>1 DEF Loaded, Loadable
  <2> QED
    BY <1>2, <2>2
<1> QED
  BY <1>3, <1>4

\* The length of what is read depends on the number asked for only.
LEMMA ReadLength ==
    ASSUME NEW c \in Courses, NEW n \in Nat
    PROVE  Len(PointsRead(c, n)) <= n /\ Len(PointsRead(c, n)) \in Nat
<1> DEFINE there == Least(n, (PageNum - PointPage[c]) * PerPage)
<1>1. (PageNum - PointPage[c]) * PerPage \in Nat
  BY Layout DEF Pages
<1>2. there \in Nat /\ there <= n
  BY <1>1 DEF Least
<1>3. PointsRead(c, n) = [i \in 1 .. there |-> PointRead(c, i - 1)]
  BY DEF PointsRead
<1> HIDE DEF there
<1>4. Len(PointsRead(c, n)) = there
  BY <1>2, <1>3
<1> QED
  BY <1>2, <1>4

LEMMA LoadsFit == KInv => LoadFits
<1> SUFFICES ASSUME KInv, main.at = "load_points", Len(Loaded.points) > MaxPoints,
                    saved[main.load] # Unknown
             PROVE  FALSE
  BY DEF LoadFits
<1>1. main.load \in Courses /\ ~Storing /\ MaxPoints \in Nat
  BY Layout DEF KInv, IInv, LoadRuns, Loading, Storing
<1>2. CASE main.load # 2
  <2>1. main.count \in Nat /\ main.count <= MaxPoints
    BY MainParts, ErasedIsMost DEF KInv, IInv, RestOK
  <2>2. Loaded.points = PointsRead(main.load, main.count)
    BY <1>2 DEF Loaded
  <2> QED
    BY <1>1, <2>1, <2>2, ReadLength
<1>3. CASE main.load = 2
  <2>1. mul.total \in Nat
    BY ErasedIsMost DEF KInv, IInv, RestOK, Headers
  <2>2. Loaded.points = PointsRead(2, mul.total)
    BY <1>3 DEF Loaded
  <2>3. ~(mul.total <= MaxPoints)
    BY <1>1, <1>3, <2>1, <2>2, ReadLength
  <2>4. mul = MulRead
    BY <1>3, <2>3 DEF KInv, IInv, LoadRuns
  <2>5. Loadable(2).points = Loaded.points
    BY <2>2, <2>4 DEF Loadable
  <2>6. Loadable(2) = saved[2] /\ Len(saved[2].points) <= MaxPoints
    BY <1>1, <1>3 DEF KInv, Kept
  <2>7. Len(Loaded.points) \in Nat
    BY <1>1, <1>3, <2>1, <2>2, ReadLength
  <2> QED
    BY <1>1, <2>5, <2>6, <2>7
<1> QED
  BY <1>2, <1>3

\* What a complete store kept can be loaded until the course is stored again,
\* and a store under way has written its first pages as meant.
THEOREM Keeping ==
    ASSUME RoomyLayout
    PROVE  Spec => []KInv
<1>1. KInv /\ [Next]_vars => KInv'
  <2> SUFFICES ASSUME KInv, [Next]_vars PROVE KInv'
    OBVIOUS
  <2>1. IInv'
    BY StepKeeps DEF KInv
  <2>2. StoredSoFar'
    BY StoredKeeps
  <2>3. Kept' /\ (saved = [c \in Courses |-> saved[c]])'
    BY KeptKeeps
  <2> QED
    BY <2>1, <2>2, <2>3 DEF KInv
<1> QED
  BY <1>1, InitKept, PTL DEF Spec

\* A load gives what the last store of that course was to keep, whatever was
\* recorded, stored or switched off in between, where every course has room.
THEOREM LoadsWhatWasStored ==
    ASSUME RoomyLayout
    PROVE  Spec => LoadGivesStored
<1>1. KInv /\ [Next]_vars =>
         [LoadPoints /\ ~RecorderInterferes /\ saved[main.load] # Unknown
             => Loaded = saved[main.load]]_vars
  BY LoadsAsStored DEF LoadPoints
<1> QED
  BY <1>1, Keeping, PTL DEF Spec, LoadGivesStored

\* A load fits its table unless a store was cut short, where every course has
\* room.
THEOREM LoadsFitTheTable ==
    ASSUME RoomyLayout
    PROVE  Spec => []LoadFits
<1> QED
  BY LoadsFit, Keeping, PTL
=============================================================================
