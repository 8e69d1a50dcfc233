----------------------------- MODULE PathStore -----------------------------
(***************************************************************************)
(* Recording a path and keeping it in flash (core 0): the timer interrupt  *)
(* records points and segments (ins_update, ins.c) while the main loop     *)
(* stores and loads paths page by page (flash.c, main_cm7_0.c).  Both work *)
(* on the same headers.  The power may be lost at any time, also within    *)
(* the writing of a page.                                                  *)
(*                                                                         *)
(* A recorded point is the number of the power cycle that recorded it and  *)
(* its index.  Courses are numbered 0, 1 and 2 as course_record_flag is:   *)
(* 0 and 1 have one path, 2 has a path of several segments.  A power cycle *)
(* is followed until a replay is started.                                  *)
(***************************************************************************)
EXTENDS Integers, Sequences

CONSTANTS
    Courses,        \* a subset of 0 .. 2
    MaxPoints,      \* MAX_PATH_POINT, points of record_path
    MaxSegments,    \* MAX_SEGMENT_NUM
    PerPage,        \* PATH_POINT_PER_PAGE
    PageNum,        \* FLASH_PAGE_NUM
    HeaderPage,     \* COURSEn_HEADER_PAGE, by course
    PointPage,      \* COURSEn_POINT_START_PAGE, by course
    SegmentPage,    \* COURSE3_SEGMENT_HEADER_PAGE
    MaxCycles,      \* bound: times the power is switched on
    MaxStores       \* bound: stores

Pages == 0 .. PageNum - 1

ASSUME LayoutAssumption ==
    /\ Courses \subseteq 0 .. 2
    /\ {MaxPoints, MaxSegments, PerPage, PageNum, MaxCycles, MaxStores} \subseteq Nat \ {0}
    /\ HeaderPage \in [Courses -> Pages] /\ PointPage \in [Courses -> Pages]
    /\ SegmentPage \in Pages

\* The pages of a course: its header, its segments, and as many as the longest
\* path takes; a path of course 2 whose number of points was lost takes the rest
\* of the flash (flash_write_all_points).
PointPages(c) ==
    IF c = 2 THEN PointPage[c] .. PageNum - 1
    ELSE { PointPage[c] + i \div PerPage : i \in 0 .. MaxPoints - 1 }
Area(c) ==
    {HeaderPage[c]} \union PointPages(c) \union (IF c = 2 THEN {SegmentPage} ELSE {})

\* Every course has room for the longest path, which the areas of flash.h have not.
RoomyLayout ==
    /\ \A c, d \in Courses : c # d => Area(c) \intersect Area(d) = {}
    /\ \A c \in Courses :
          /\ HeaderPage[c] \notin PointPages(c)
          /\ c = 2 => SegmentPage \notin {HeaderPage[c]} \union PointPages(c)
          /\ MaxPoints <= (PageNum - PointPage[c]) * PerPage

VARIABLES
    flash,          \* pages
    cycle,          \* times the power has been switched on
    total,          \* record_total_index
    cur,            \* current_segment_points
    segNum,         \* segment_num
    segHdr,         \* segment_header[].point_num, shared by record and load
    mul,            \* mul_header, shared by record and load
    course,         \* course_record_flag
    left,           \* remote_left_01_now_flag
    moved,          \* remote_right_02_now_flag # remote_right_02_last_flag
    pause,          \* pause_flag
    main,           \* next step of the main loop
    marks,          \* history: lengths of the segments recorded in this cycle
    clobbered,      \* history: a load replaced segments already recorded
    pending,        \* history: what the store under way is to keep
    saved,          \* history: what the last store of each course kept
    stores          \* history: number of stores

recorder == <<total, cur, segNum, marks>>
headers == <<segHdr, mul>>
switches == <<course, left, moved>>
store == <<flash, cycle, pending, saved, stores>>
vars == <<recorder, headers, switches, pause, store, main, clobbered>>

Least(a, b) == IF a < b THEN a ELSE b

\* An erased word reads as 0xFFFFFFFF, more than any count.
Erased == PageNum * PerPage + MaxPoints + MaxSegments + 1
NoCheck == -1
NoLoad == -1             \* no button was pressed in this round
Blank == [kind |-> "blank"]
HeaderOf(check, segs, n) == [kind |-> "header", check |-> check, segs |-> segs, total |-> n]
SegmentsOf(counts) == [kind |-> "segments", counts |-> counts]
PointsOf(points) == [kind |-> "points", points |-> points]
Garbage == <<0, 0>>

\* A path: the points of each segment (none for courses 0 and 1), all points.
NoPath == [segments |-> << >>, points |-> << >>]
Unknown == [segments |-> <<-1>>, points |-> << >>]

Segments(n) == [i \in 1 .. n |-> segHdr[i - 1]]
RecordedPoint(i) == IF i < total THEN <<cycle, i>> ELSE Garbage

AtTop == [at |-> "top", page |-> 0, index |-> 0, count |-> 0, load |-> NoLoad]

NoSegments == [i \in 0 .. MaxSegments - 1 |-> 0]
NoHeader == [check |-> NoCheck, segs |-> 0, total |-> 0]

Init ==
    /\ flash = [p \in Pages |-> Blank] /\ cycle = 1
    /\ total = 0 /\ cur = 0 /\ segNum = 0 /\ marks = << >>
    /\ segHdr = NoSegments /\ mul = NoHeader
    /\ course = 0 /\ left = 0 /\ moved = FALSE
    /\ pause = TRUE
    /\ main = AtTop
    /\ clobbered = FALSE /\ pending = Unknown
    /\ saved = [c \in Courses |-> NoPath] /\ stores = 0

\* Points and segments are counted in two places (record_total_index in
\* path_record_add, segment_header[] in path_segment_finish), also when the
\* table of segments is full: the segments end one after the other and with the
\* points of the open one they have all the points.
SegmentsHaveAllPoints ==
    ~clobbered =>
        \E ends \in [0 .. segNum -> 0 .. total] :
            /\ ends[0] = 0
            /\ \A i \in 1 .. segNum : ends[i] = ends[i - 1] + segHdr[i - 1]
            /\ ends[segNum] + cur = total

Headers == [ check : Courses \union {NoCheck}, segs : 0 .. Erased, total : 0 .. Erased ]
Contents ==
    [ kind : {"blank"} ]
    \union [ kind : {"header"}, check : Courses \union {NoCheck}, segs : 0 .. Erased,
             total : 0 .. Erased ]
    \union [ kind : {"segments"}, counts : Seq(0 .. MaxPoints) ]
    \union [ kind : {"points"}, points : Seq(Nat \X Nat) ]
Steps == { "top", "delay", "header", "segments", "points", "load", "load_segments",
           "load_points", "end" }
MainLoops == [ at : Steps, page : 0 .. PageNum, index : 0 .. Erased, count : 0 .. Erased,
               load : Courses \union {NoLoad} ]

\* Recording, flash and load stay within their tables and pages.
TypeOK ==
    /\ SegmentsHaveAllPoints
    /\ flash \in [Pages -> Contents]
    /\ cycle \in 1 .. MaxCycles
    /\ total \in 0 .. MaxPoints /\ cur \in 0 .. MaxPoints
    /\ segNum \in 0 .. MaxSegments
    /\ segHdr \in [0 .. MaxSegments - 1 -> 0 .. MaxPoints]
    /\ mul \in Headers
    /\ course \in Courses \union {0}
    /\ left \in 0 .. 2 /\ moved \in BOOLEAN
    /\ pause \in BOOLEAN
    /\ main \in MainLoops /\ main.index <= main.count
    /\ main.at = "load_points" => main.count <= MaxPoints
    /\ clobbered \in BOOLEAN /\ stores \in 0 .. MaxStores

-----------------------------------------------------------------------------
(* The timer interrupt, every 20 ms                                         *)

\* path_segment_finish
SegmentFinish ==
    IF cur = 0 \/ segNum >= MaxSegments
      THEN UNCHANGED <<cur, segNum, segHdr, marks>>
      ELSE /\ segHdr' = [segHdr EXCEPT ![segNum] = cur]
           /\ marks' = Append(marks, cur)
           /\ segNum' = segNum + 1
           /\ cur' = 0

\* path_record_finish.  The header of courses 0 and 1 (single_header) is
\* written again by every store: it matters only to a load, see Tick.
RecordFinish ==
    IF course < 2
      THEN UNCHANGED <<cur, segNum, segHdr, marks, mul>>
      ELSE /\ SegmentFinish
           /\ mul' = [check |-> 2, segs |-> segNum', total |-> total]

\* Mutant: the left switch does not end the recording.
FinishesWhenFull == total >= MaxPoints

FinishesNow == total >= MaxPoints \/ left = 1
SplitsNow == moved /\ course = 2

\* path_record_add, when the car has gone far enough from the last point.
AddPoint ==
    /\ pause
    /\ total' = total + 1 /\ cur' = cur + 1
    /\ UNCHANGED <<segNum, segHdr, marks, mul>>

\* ins_update.  Before the end of a replay it is called in every round, since
\* remote_right_01_now_flag is 0.
InsUpdate ==
    \/ /\ SplitsNow
       /\ SegmentFinish /\ pause' = FALSE
       /\ UNCHANGED <<total, mul>>
    \/ /\ ~SplitsNow /\ FinishesNow
       /\ RecordFinish
       /\ UNCHANGED <<total, pause>>
    \/ /\ ~SplitsNow /\ ~FinishesNow
       /\ AddPoint \/ UNCHANGED <<recorder, headers>>
       /\ UNCHANGED pause

\* A load of course 0 or 1 has read single_header and is about to use its
\* count of points, which path_record_finish overwrites.
SingleOverwritten ==
    /\ ~SplitsNow /\ FinishesNow /\ course < 2
    /\ main.at = "load_points" /\ main.load < 2

Tick ==
    /\ InsUpdate
    /\ main' = IF main.at = "delay" THEN [main EXCEPT !.at = "header"]
               ELSE IF SingleOverwritten THEN [main EXCEPT !.count = total]
               ELSE main
    /\ UNCHANGED <<switches, store, clobbered>>

-----------------------------------------------------------------------------
(* The main loop                                                            *)

\* The button of a course loads it, after a store if there is one.
AfterStore(c) == IF c = NoLoad THEN "end" ELSE "load"

\* Buttons and, if the remote control is heard, its switches.  The left switch
\* going from 0 to 1 stores: after 30 ms, in which the interrupt comes at
\* least once, to wait for the header to be written.
ReadInputs ==
    /\ main.at = "top"
    /\ \E c \in Courses \union {NoLoad} :
          \/ /\ main' = [main EXCEPT !.load = c, !.at = AfterStore(c)]
             /\ UNCHANGED <<switches, stores>>                   \* offline
          \/ /\ course' \in Courses /\ left' \in 0 .. 2 /\ moved' \in BOOLEAN
             /\ IF left = 0 /\ left' = 1
                  THEN /\ stores < MaxStores /\ stores' = stores + 1
                       /\ main' = [main EXCEPT !.load = c, !.at = "delay"]
                  ELSE /\ main' = [main EXCEPT !.load = c, !.at = AfterStore(c)]
                       /\ UNCHANGED stores
    /\ UNCHANGED <<recorder, headers, pause, flash, cycle, pending, saved, clobbered>>

\* Mutant: the points begin one page too far.
WritePageLate ==
    CASE main.at = "header"   -> HeaderPage[course]
      [] main.at = "segments" -> SegmentPage
      [] main.at = "points"   -> (main.page + 1) % PageNum

\* The page the store writes next, and what it writes there.
WritePage ==
    CASE main.at = "header"   -> HeaderPage[course]
      [] main.at = "segments" -> SegmentPage
      [] main.at = "points"   -> main.page

WriteContent ==
    CASE main.at = "header"   -> IF course = 2 THEN HeaderOf(mul.check, mul.segs, mul.total)
                                               ELSE HeaderOf(course, 0, total)
      [] main.at = "segments" -> SegmentsOf(Segments(mul.segs))
      [] main.at = "points"   ->
            PointsOf([i \in 1 .. Least(PerPage, main.count - main.index)
                        |-> RecordedPoint(main.index + i - 1)])

Writes ==
    \/ main.at = "header"
    \/ main.at = "segments" /\ mul.segs <= MaxSegments
    \/ main.at = "points" /\ main.index < main.count /\ main.page < PageNum

\* What the operator means by the store: the path as it was recorded; unless
\* the header of course 2 cannot be relied on (see LoadGivesStored).
Meant ==
    LET points == [i \in 1 .. total |-> <<cycle, i - 1>>] IN
    IF course < 2 THEN [segments |-> << >>, points |-> points]
    ELSE IF moved \/ clobbered \/ cur > 0 THEN Unknown
    ELSE [segments |-> marks, points |-> points]

\* flash_write_single_header, flash_write_path_header
WriteHeader ==
    /\ main.at = "header"
    /\ flash' = [flash EXCEPT ![WritePage] = WriteContent]
    /\ pending' = Meant
    /\ main' = IF course = 2 THEN [main EXCEPT !.at = "segments"]
               ELSE [main EXCEPT !.at = "points", !.page = PointPage[course], !.count = total]
    /\ UNCHANGED <<recorder, headers, switches, pause, cycle, saved, stores, clobbered>>

\* flash_write_segment_headers
WriteSegments ==
    /\ main.at = "segments"
    /\ flash' = IF Writes THEN [flash EXCEPT ![WritePage] = WriteContent] ELSE flash
    /\ main' = [main EXCEPT !.at = "points", !.page = PointPage[2], !.count = mul.total]
    /\ UNCHANGED <<recorder, headers, switches, pause, cycle, pending, saved, stores, clobbered>>

\* flash_write_all_points, one page
WritePoints ==
    /\ main.at = "points" /\ Writes
    /\ flash' = [flash EXCEPT ![WritePage] = WriteContent]
    /\ main' = [main EXCEPT !.page = @ + 1, !.index = @ + Len(WriteContent.points)]
    /\ UNCHANGED <<recorder, headers, switches, pause, cycle, pending, saved, stores, clobbered>>

StoreDone ==
    /\ main.at = "points" /\ ~Writes
    /\ saved' = [saved EXCEPT ![course] = pending]
    /\ pending' = Unknown
    /\ main' = [AtTop EXCEPT !.at = AfterStore(main.load), !.load = main.load]
    /\ UNCHANGED <<recorder, headers, switches, pause, flash, cycle, stores, clobbered>>

\* What a header page reads as: a page of another kind has no valid check.
HeaderRead(c) ==
    IF flash[HeaderPage[c]].kind = "header" THEN flash[HeaderPage[c]]
    ELSE HeaderOf(NoCheck, Erased, Erased)

\* Mutant: the check value is not looked at.
MulReadUnchecked ==
    LET h == HeaderRead(2) IN [check |-> h.check, segs |-> h.segs, total |-> h.total]

\* flash_read_path_header: an invalid header only clears the number of points.
MulRead ==
    LET h == HeaderRead(2) IN
    [check |-> h.check, segs |-> h.segs, total |-> IF h.check = 2 THEN h.total ELSE 0]

\* Mutant: the count is not bounded.
SingleReadUnbounded(c) ==
    LET h == HeaderRead(c) IN IF h.check = c THEN h.total ELSE 0

\* flash_read_single_header
SingleRead(c) ==
    LET h == HeaderRead(c) IN
    IF h.check = c /\ h.total <= MaxPoints THEN h.total ELSE 0

\* flash_read_segment_headers: the count of each of n segments; a count that
\* was not written has no valid check.
CountsRead(n) ==
    LET s == flash[SegmentPage] IN
    [i \in 1 .. n |->
        IF s.kind = "segments" THEN IF i <= Len(s.counts) THEN s.counts[i] ELSE 0
        ELSE 0]

\* The i-th point from the course's first page on; what a page of another kind
\* holds there is no point of a path.
PointRead(c, i) ==
    LET p == flash[PointPage[c] + i \div PerPage]
        k == (i % PerPage) + 1
    IN IF p.kind = "points" THEN IF k <= Len(p.points) THEN p.points[k] ELSE Garbage
       ELSE Garbage

\* flash_read_all_points: n points, as far as there are pages.
PointsRead(c, n) ==
    [i \in 1 .. Least(n, (PageNum - PointPage[c]) * PerPage) |-> PointRead(c, i - 1)]

LoadHeader ==
    /\ main.at = "load"
    /\ IF main.load = 2
         THEN mul' = MulRead /\ main' = [main EXCEPT !.at = "load_segments"]
         ELSE /\ main' = [main EXCEPT !.at = "load_points", !.count = SingleRead(main.load)]
              /\ UNCHANGED mul
    /\ UNCHANGED <<recorder, segHdr, switches, pause, store, clobbered>>

\* With too many segments the table is left as it is.
LoadSegments ==
    /\ main.at = "load_segments"
    /\ segHdr' = IF mul.segs > MaxSegments THEN segHdr
                 ELSE [i \in DOMAIN segHdr |->
                         IF i < mul.segs THEN CountsRead(mul.segs)[i + 1] ELSE segHdr[i]]
    /\ clobbered' = (clobbered \/ segNum > 0)
    /\ main' = [main EXCEPT !.at = "load_points"]
    /\ UNCHANGED <<recorder, mul, switches, pause, store>>

\* The path that ends up in replay_point and its tables.
Loaded ==
    IF main.load = 2
      THEN [segments |-> IF mul.segs > MaxSegments THEN << >> ELSE Segments(mul.segs),
            points |-> PointsRead(2, mul.total)]
      ELSE [segments |-> << >>, points |-> PointsRead(main.load, main.count)]

LoadPoints ==
    /\ main.at = "load_points"
    /\ main' = [AtTop EXCEPT !.at = "end"]
    /\ UNCHANGED <<recorder, headers, switches, pause, store, clobbered>>

\* A vision stage that is done ends a pause.
EndRound ==
    /\ main.at = "end"
    /\ pause' \in {pause, TRUE}
    /\ main' = AtTop
    /\ UNCHANGED <<recorder, headers, switches, store, clobbered>>

MainLoop ==
    \/ ReadInputs
    \/ WriteHeader \/ WriteSegments \/ WritePoints \/ StoreDone
    \/ LoadHeader \/ LoadSegments \/ LoadPoints
    \/ EndRound

-----------------------------------------------------------------------------
(* The power                                                                *)

\* A page is erased and then written word by word.
TornPages(page) ==
    {Blank} \union
    CASE page.kind = "header" ->
            { HeaderOf(page.check, segs, Erased) : segs \in {Erased, page.segs} }
      [] page.kind = "segments" ->
            { SegmentsOf(SubSeq(page.counts, 1, n)) : n \in 1 .. Len(page.counts) }
      [] page.kind = "points" ->
            { PointsOf(SubSeq(page.points, 1, n)) : n \in 1 .. Len(page.points) }

PowerLoss ==
    /\ cycle < MaxCycles /\ cycle' = cycle + 1
    /\ \/ flash' = flash
       \/ Writes /\ \E t \in TornPages(WriteContent) :
             flash' = [flash EXCEPT ![WritePage] = t]
    /\ saved' = IF main.at \in {"header", "segments", "points"}
                  THEN [saved EXCEPT ![course] = Unknown] ELSE saved
    /\ total' = 0 /\ cur' = 0 /\ segNum' = 0 /\ marks' = << >>
    /\ segHdr' = NoSegments /\ mul' = NoHeader
    /\ course' = 0 /\ left' = 0 /\ moved' = FALSE
    /\ pause' = TRUE
    /\ main' = AtTop
    /\ clobbered' = FALSE /\ pending' = Unknown /\ stores' = stores

Next == MainLoop \/ Tick \/ PowerLoss

Spec == Init /\ [][Next]_vars

-----------------------------------------------------------------------------
(* Properties                                                               *)

\* The recorder may write the header that the load has just read.
RecorderInterferes ==
    /\ SplitsNow \/ FinishesNow
    /\ (course = 2) = (main.load = 2)

\* A load gives what the last store of that course was to keep, whatever was
\* recorded, stored or switched off in between and wherever the interrupt came.
\* Excepted are a store cut short, and stores of course 2 whose header the
\* recorder has not completed: with both switches moved at once,
\* after a load in the middle of the recording, with the table full.
LoadGivesStored ==
    [][LoadPoints /\ ~RecorderInterferes /\ saved[main.load] # Unknown
          => Loaded = saved[main.load]]_vars

\* What a load of course c gives.
Loadable(c) ==
    IF c = 2 THEN [segments |-> IF MulRead.segs > MaxSegments THEN << >>
                                 ELSE CountsRead(MulRead.segs),
                   points |-> PointsRead(2, MulRead.total)]
             ELSE [segments |-> << >>, points |-> PointsRead(c, SingleRead(c))]

\* The areas end where flash.h says (COURSEn_POINT_END_PAGE): storing one
\* course, completely or not, leaves what the others load.
StoresAreSeparate ==
    [][\A c \in Courses \ {course} : Loadable(c)' = Loadable(c)]_vars

\* A load fits replay_point, although the number of points of course 2 is not
\* checked (flash_read_path_header), unless a store was cut short.
LoadFits ==
    main.at = "load_points" /\ Len(Loaded.points) > MaxPoints
        => saved[main.load] = Unknown
=============================================================================
