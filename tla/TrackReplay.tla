---------------------------- MODULE TrackReplay ----------------------------
(***************************************************************************)
(* Replaying a loaded path (core 0): Track_update and Track2_update (ins.c)*)
(* run in the 20 ms round of the timer interrupt, the main loop ends the   *)
(* pauses between the segments of course 2 when a vision stage is done.    *)
(*                                                                         *)
(* Where the car is, and so which point is nearest and which is far enough *)
(* ahead, is left open, and so is which turns the path has; indices are    *)
(* unsigned as in the source, except path_index, which is never negative.  *)
(* The operator starts a replay after a load and loads before a replay.    *)
(***************************************************************************)
EXTENDS Integers, Sequences

CONSTANTS
    Paths,          \* the stored paths: up to which point each segment reaches
    MaxPoints,      \* MAX_PATH_POINT, points of replay_point
    MaxSegments,    \* MAX_SEGMENT_NUM, entries of segment_header
    SearchNum,      \* NEAREST_SELECT_NUM
    TurnCheck,      \* TURN_CHECK_POINT
    Wide,           \* 2^32
    MaxLoads        \* bound: times a path is loaded

VARIABLES
    course,         \* course_load_flag
    ends,           \* segment_header[].point_num, added up, and mul_header.segment_num
    num,            \* replay_point_num
    segment,        \* current_segment
    first,          \* segment_start_index
    last,           \* segment_end_index
    index,          \* path_index
    turning,        \* future_turn_flag
    turn_index,     \* future_turn_index
    track,          \* track_flag
    pause,          \* pause_flag
    stopped,        \* remote_right_01_now_flag = 2, target_speed 0
    loads,          \* history: number of loads
    pauses          \* history: segments of course 2 after which the car paused

path == <<course, ends, num>>
place == <<segment, first, last, index>>
turn == <<turning, turn_index>>
flags == <<track, pause, stopped>>
vars == <<path, place, turn, flags, loads, pauses>>

Unsigned(n) == n % Wide
Least(a, b) == IF a < b THEN a ELSE b
\* Points before the end of segment i of a path, and points of segment i.
UpTo(p, i) == IF i = 0 THEN 0 ELSE p[i]
PointNum(p, i) == p[i] - UpTo(p, i - 1)

\* A stored path has a point, and so has each of its segments
\* (path_segment_finish); it fits into its tables, and they into 32 bits.
ASSUME PathsAssumption ==
    /\ Paths \subseteq Seq(Nat \ {0}) /\ << >> \notin Paths
    /\ \A p \in Paths :
          /\ Len(p) <= MaxSegments /\ p[Len(p)] <= MaxPoints
          /\ \A i, j \in 1 .. Len(p) : i < j => p[i] < p[j]
    /\ {SearchNum, TurnCheck, MaxLoads, MaxPoints, MaxSegments} \subseteq Nat \ {0}
    /\ Wide \in Nat /\ MaxPoints < Wide /\ MaxSegments < Wide

Init ==
    /\ course = 0 /\ ends = << >> /\ num = 0
    /\ segment = 0 /\ first = 0 /\ last = 0 /\ index = 0
    /\ turning = FALSE /\ turn_index = -1
    /\ track = FALSE /\ pause = TRUE /\ stopped = FALSE
    /\ loads = 0 /\ pauses = << >>

\* In the first replay the bounds of the segment (ins.c, segment_check) are
\* those of the stored table, and path_index stays between them: it neither
\* looks ahead into the next segment nor falls back into the last.
IndexInSegment ==
    course = 2 /\ loads = 1 =>
        /\ first = UpTo(ends, segment)
        /\ last = ends[segment + 1] - 1
        /\ index \in first .. last

\* Every index that is used on replay_point or segment_header is in the table,
\* in every replay.
TypeOK ==
    /\ IndexInSegment
    /\ course \in 0 .. 2 /\ ends \in Paths \union {<< >>}
    /\ num \in 0 .. MaxPoints /\ segment \in 0 .. MaxSegments - 1
    /\ {first, last, index} \subseteq 0 .. MaxPoints - 1
    /\ turning \in BOOLEAN /\ turn_index \in -1 .. MaxPoints - 1
    /\ track \in BOOLEAN /\ pause \in BOOLEAN /\ stopped \in BOOLEAN

-----------------------------------------------------------------------------
(* The main loop                                                            *)

\* flash_path_load: track_init is not called.  Courses 0 and 1 have one
\* segment and no table.
Load(c, p) ==
    /\ ~track /\ loads < MaxLoads
    /\ loads' = loads + 1
    /\ course' = c
    /\ ends' = p /\ num' = p[Len(p)]
    /\ last' = IF c = 2 THEN Unsigned(p[1] - 1) ELSE Unsigned(num' - 1)
    /\ pauses' = << >>
    /\ UNCHANGED <<segment, first, index, turn, flags>>

\* The fourth button (button_update).
Start ==
    /\ loads > 0
    /\ track' = TRUE
    /\ UNCHANGED <<path, place, turn, pause, stopped, loads, pauses>>

\* The vision stage is done: back to the path.
Resume ==
    /\ ~pause
    /\ pause' = TRUE
    /\ UNCHANGED <<path, place, turn, track, stopped, loads, pauses>>

-----------------------------------------------------------------------------
(* The timer interrupt                                                      *)

\* Mutant: the segment ends one point late.
SegmentCheckLate ==
    IF course # 2 \/ segment >= Unsigned(Len(ends) - 1) \/ index < last
      THEN UNCHANGED <<segment, first, last, pause, pauses>>
      ELSE /\ pause' = FALSE
           /\ segment' = segment + 1
           /\ first' = Unsigned(last + 1)
           /\ last' = Unsigned(first' + PointNum(ends, segment' + 1))
           /\ pauses' = Append(pauses, segment)

\* segment_check: not after the last segment.
SegmentCheck ==
    IF course # 2 \/ segment >= Unsigned(Len(ends) - 1) \/ index < last
      THEN UNCHANGED <<segment, first, last, pause, pauses>>
      ELSE /\ pause' = FALSE
           /\ segment' = segment + 1
           /\ first' = Unsigned(last + 1)
           /\ last' = Unsigned(first' + PointNum(ends, segment' + 1) - 1)
           /\ pauses' = Append(pauses, segment)

\* find_nearest_point
Nearest == IF index > last THEN {index} ELSE index .. Least(last, index + SearchNum)

\* Mutant: the look-ahead does not stop at the end of the segment.
AheadToEnd(nearest) == nearest .. num - 1

\* find_lookahead_point: the first point far enough, or the end of the segment.
Ahead(nearest) == IF nearest > last THEN {last} ELSE nearest .. last

\* Mutant: the last point of the path, too, may be taken for a turn.
FutureTurnsToEnd(nearest) ==
    { i + TurnCheck : i \in { i \in nearest .. nearest + TurnCheck - 1 :
                                i + TurnCheck < num } }

\* check_future_turn: the points that may be found to be a turn.
FutureTurns(nearest) ==
    { i + TurnCheck : i \in { i \in nearest .. nearest + TurnCheck - 1 :
                                i + TurnCheck + 1 < num } }

\* check_future_turn keeps a turn it has found, check_turn_finish drops it when
\* path_index has come to it.
FollowTurn(nearest) ==
    \E found \in (IF turning THEN {turn_index} ELSE FutureTurns(nearest) \union {-1}) :
       LET kept == found # -1 /\ index' < found IN
       /\ turning' = kept
       /\ turn_index' = IF kept THEN found ELSE -1

\* Mutant: the end is behind the last point.
AtEndPast == index' >= num

AtEnd == index' >= Unsigned(num - 2)

\* Track_update, called while track_flag and pause_flag are set.
TrackUpdate ==
    /\ course # 1
    /\ SegmentCheck
    /\ IF pause'
         THEN \E nearest \in Nearest :
                 /\ index' \in Ahead(nearest)
                 /\ FollowTurn(nearest)
                 /\ track' = ~AtEnd
                 /\ stopped' = (stopped \/ AtEnd)
         ELSE /\ index' = first'
              /\ UNCHANGED <<turn, track, stopped>>

\* Track2_update: no segments, and the replay stays on when it has ended; with
\* the heading too far off, the car waits.
Track2Update ==
    /\ course = 1
    /\ UNCHANGED <<segment, first, last, pause, track, pauses>>
    /\ IF index >= num
         THEN index' = Unsigned(num - 1) /\ stopped' = TRUE /\ UNCHANGED turn
         ELSE \E nearest \in Nearest :
                 /\ index' \in Ahead(nearest)
                 /\ \/ UNCHANGED <<turn, stopped>>
                    \/ FollowTurn(nearest) /\ stopped' = (stopped \/ AtEnd)

Tick ==
    /\ track /\ pause
    /\ TrackUpdate \/ Track2Update
    /\ UNCHANGED <<path, loads>>

Next ==
    \/ \E c \in 0 .. 2, p \in Paths : (c = 2 \/ Len(p) = 1) /\ Load(c, p)
    \/ Start
    \/ Resume
    \/ Tick

Spec == Init /\ [][Next]_vars

\* The car follows the path and turns to it; the vision stages get done.
Fairness ==
    /\ WF_vars(Resume)
    /\ WF_vars(Tick /\ (index' > index \/ pause # pause' \/ (stopped' # stopped)))

FairSpec == Spec /\ Fairness

-----------------------------------------------------------------------------
(* Properties                                                               *)

\* The end of the replay (two points early) never cuts off a pause, if the last
\* segment has more than one point: one vision stage for each end of a segment,
\* in order.
EveryPauseIsMade ==
    course = 2 /\ loads = 1 =>
        /\ pauses = [i \in 1 .. segment |-> i - 1]
        /\ stopped /\ PointNum(ends, Len(ends)) > 1 => segment = Len(ends) - 1

\* The car is not slowed down for a turn of an earlier replay: a turn that has
\* been found is dropped at the latest when the replay ends.
NoTurnLeftOver == course # 1 /\ stopped /\ ~track => ~turning

\* The first replay of a path with two points or more comes to its end.
ReplayEnds == (track /\ num > 1 /\ loads = 1) ~> stopped
=============================================================================
