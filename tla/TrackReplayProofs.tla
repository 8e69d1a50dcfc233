------------------------- MODULE TrackReplayProofs -------------------------
(***************************************************************************)
(* Theorems of TrackReplay for all sets of paths and all sizes of the      *)
(* tables, checked by TLAPS: no index leaves its table, in no replay, and  *)
(* the first replay of a path makes all its pauses and comes to its end.   *)
(***************************************************************************)
EXTENDS TrackReplay, SequenceTheorems, TLAPS

\* Before the first load nothing has been replayed.
Fresh ==
    loads = 0 =>
        /\ course = 0 /\ segment = 0 /\ first = 0 /\ last = 0 /\ index = 0
        /\ ~track /\ ~stopped

\* What has been loaded, and how far last may be: in a second replay the
\* segments are counted from where the first one left them, but the bounds
\* start over, so that last lags behind.
Loaded ==
    loads > 0 =>
        /\ ends \in Paths /\ num = ends[Len(ends)]
        /\ last < num
        /\ course # 2 => Len(ends) = 1 /\ last = num - 1
        /\ course = 2 /\ segment < Len(ends) => last < ends[segment + 1]

\* A turn is found before the last point, and dropped when a replay ends.
TurnAhead ==
    /\ turning => loads > 0 /\ turn_index <= num - 2
    /\ ~track => ~turning

\* Indices are in their tables.
InTables ==
    /\ course \in 0 .. 2 /\ ends \in Paths \union {<< >>}
    /\ num \in 0 .. MaxPoints /\ segment \in 0 .. MaxSegments - 1
    /\ {first, last, index} \subseteq 0 .. MaxPoints - 1
    /\ turning \in BOOLEAN /\ turn_index \in -1 .. MaxPoints - 1
    /\ track \in BOOLEAN /\ pause \in BOOLEAN /\ stopped \in BOOLEAN
    /\ loads \in Nat

\* In the first replay the segment is one of the path's.
SegmentExists == course = 2 /\ loads = 1 => segment < Len(ends)

IInv ==
    /\ InTables
    /\ Fresh /\ Loaded
    /\ TurnAhead
    /\ SegmentExists /\ IndexInSegment
    /\ EveryPauseIsMade

-----------------------------------------------------------------------------
(* Constants and operators                                                  *)

LEMMA Sizes ==
    /\ SearchNum \in Nat /\ TurnCheck \in Nat /\ TurnCheck > 0
    /\ MaxPoints \in Nat /\ MaxPoints > 0 /\ MaxSegments \in Nat /\ MaxSegments > 0
    /\ Wide \in Nat /\ MaxPoints < Wide /\ MaxSegments < Wide
BY PathsAssumption

LEMMA Narrow ==
    ASSUME NEW n \in 0 .. Wide - 1
    PROVE  Unsigned(n) = n
BY Sizes DEF Unsigned

LEMMA Shift ==
    ASSUME NEW a \in Nat, NEW b \in Nat, NEW l \in Nat, l = a - 1
    PROVE  l + (b - a) = b - 1
OBVIOUS

LEMMA Wrapped == Unsigned(-1) = Wide - 1
BY Sizes DEF Unsigned

\* The ends of a path increase up to the number of its points.
LEMMA PathEnds ==
    ASSUME NEW p \in Paths
    PROVE  /\ Len(p) \in 1 .. MaxSegments
           /\ p[Len(p)] \in 1 .. MaxPoints
           /\ \A i \in 1 .. Len(p) : p[i] \in p[1] .. p[Len(p)] /\ p[1] > 0
           /\ \A i \in 1 .. Len(p) - 1 : p[i] < p[i + 1] /\ p[i] <= p[Len(p) - 1]
<1>1. p \in Seq(Nat \ {0}) /\ p # << >> /\ Len(p) <= MaxSegments /\ p[Len(p)] <= MaxPoints
      /\ \A i, j \in 1 .. Len(p) : i < j => p[i] < p[j]
  BY PathsAssumption
<1>2. Len(p) \in Nat /\ Len(p) > 0
  BY <1>1, EmptySeq, LenProperties
<1>3. \A i \in 1 .. Len(p) : p[i] \in Nat /\ p[i] > 0
  <2> TAKE i \in 1 .. Len(p)
  <2>1. p[i] \in Nat \ {0}
    BY <1>1, ElementOfSeq
  <2> QED
    BY <2>1
<1>4. Len(p) \in 1 .. Len(p) /\ \A i \in 1 .. Len(p) : i < Len(p) \/ i = Len(p)
  BY <1>2
<1>5. \A i \in 1 .. Len(p) : p[i] <= p[Len(p)]
  BY <1>1, <1>3, <1>4
<1>8. \A i \in 1 .. Len(p) : p[1] <= p[i] /\ p[1] > 0
  <2> TAKE i \in 1 .. Len(p)
  <2>1. 1 \in 1 .. Len(p) /\ (1 < i \/ i = 1)
    BY <1>2
  <2> QED
    BY <1>1, <1>3, <2>1
<1>6. \A i \in 1 .. Len(p) - 1 : /\ i \in 1 .. Len(p) /\ i + 1 \in 1 .. Len(p) /\ i < i + 1
                                 /\ Len(p) - 1 \in 1 .. Len(p)
                                 /\ (i < Len(p) - 1 \/ i = Len(p) - 1)
  BY <1>2
<1>7. \A i \in 1 .. Len(p) - 1 : p[i] < p[i + 1] /\ p[i] <= p[Len(p) - 1]
  <2> TAKE i \in 1 .. Len(p) - 1
  <2>1. /\ i \in 1 .. Len(p) /\ i + 1 \in 1 .. Len(p) /\ i < i + 1
        /\ Len(p) - 1 \in 1 .. Len(p) /\ (i < Len(p) - 1 \/ i = Len(p) - 1)
    BY <1>6
  <2>2. p[i] < p[i + 1]
    BY <1>1, <2>1
  <2>3. i < Len(p) - 1 => p[i] < p[Len(p) - 1]
    BY <1>1, <2>1
  <2>4. p[i] \in Nat /\ p[Len(p) - 1] \in Nat
    BY <1>3, <2>1
  <2> QED
    BY <2>1, <2>2, <2>3, <2>4
<1> QED
  BY <1>1, <1>2, <1>3, <1>4, <1>5, <1>7, <1>8, Sizes

-----------------------------------------------------------------------------
(* The invariant                                                            *)

LEMMA InitIInv == Init => IInv
<1> SUFFICES ASSUME Init PROVE IInv
  OBVIOUS
<1>1. InTables
  <2>1. 0 \in 0 .. 2 /\ 0 \in 0 .. MaxPoints /\ 0 \in 0 .. MaxSegments - 1
        /\ 0 \in 0 .. MaxPoints - 1 /\ -1 \in -1 .. MaxPoints - 1 /\ 0 \in Nat
    BY Sizes
  <2>2. {first, last, index} \subseteq 0 .. MaxPoints - 1
    BY <2>1 DEF Init
  <2> QED
    BY <2>1, <2>2, Zenon DEF Init, InTables
<1> QED
  BY <1>1 DEF Init, IInv, Fresh, Loaded, TurnAhead, SegmentExists, IndexInSegment, EveryPauseIsMade

\* What the invariant says once a path is loaded.
LEMMA WhenLoaded ==
    ASSUME IInv, loads > 0
    PROVE  /\ ends \in Paths /\ num = ends[Len(ends)] /\ num \in 1 .. MaxPoints
           /\ segment \in Nat /\ first \in Nat /\ last \in 0 .. num - 1
           /\ index \in 0 .. MaxPoints - 1 /\ Len(ends) \in 1 .. MaxSegments
           /\ turn_index \in -1 .. MaxPoints - 1
<1>1. ends \in Paths /\ num = ends[Len(ends)] /\ last < num
  BY DEF IInv, Loaded
<1>2. num \in 1 .. MaxPoints /\ Len(ends) \in 1 .. MaxSegments
  BY <1>1, PathEnds
<1>3. /\ segment \in 0 .. MaxSegments - 1 /\ first \in 0 .. MaxPoints - 1
      /\ last \in 0 .. MaxPoints - 1 /\ index \in 0 .. MaxPoints - 1
      /\ turn_index \in -1 .. MaxPoints - 1
  BY DEF IInv, InTables
<1> QED
  BY <1>1, <1>2, <1>3, Sizes

LEMMA LoadIInv ==
    ASSUME IInv, NEW c \in 0 .. 2, NEW p \in Paths, c = 2 \/ Len(p) = 1, Load(c, p)
    PROVE  IInv'
<1>1. /\ ~track /\ loads' = loads + 1 /\ course' = c /\ ends' = p /\ num' = p[Len(p)]
      /\ last' = IF c = 2 THEN Unsigned(p[1] - 1) ELSE Unsigned(num' - 1)
      /\ pauses' = << >>
      /\ segment' = segment /\ first' = first /\ index' = index
      /\ turning' = turning /\ turn_index' = turn_index
      /\ track' = track /\ pause' = pause /\ stopped' = stopped
  BY DEF Load, turn, flags
<1>2. /\ Len(p) \in 1 .. MaxSegments /\ p[Len(p)] \in 1 .. MaxPoints
      /\ \A i \in 1 .. Len(p) : p[i] \in p[1] .. p[Len(p)] /\ p[1] > 0
  BY PathEnds
<1>3. p[1] \in 1 .. p[Len(p)]
  <2>1. 1 \in 1 .. Len(p)
    BY <1>2
  <2>2. p[1] \in p[1] .. p[Len(p)] /\ p[1] > 0
    BY <1>2, <2>1
  <2> QED
    BY <1>2, <2>2
<1>4. Unsigned(p[1] - 1) = p[1] - 1 /\ Unsigned(p[Len(p)] - 1) = p[Len(p)] - 1
  <2>1. p[1] - 1 \in 0 .. Wide - 1 /\ p[Len(p)] - 1 \in 0 .. Wide - 1
    BY <1>2, <1>3, Sizes
  <2> QED
    BY <2>1, Narrow
<1>5. last' = IF c = 2 THEN p[1] - 1 ELSE p[Len(p)] - 1
  BY <1>1, <1>4
<1>6. loads \in Nat /\ loads' \in Nat /\ loads' > 0
  BY <1>1 DEF IInv, InTables
<1>7. InTables'
  <2>1. last' \in 0 .. MaxPoints - 1
    BY <1>5, <1>2, <1>3, Sizes
  <2>2. num' \in 0 .. MaxPoints
    BY <1>1, <1>2
  <2>3. first' \in 0 .. MaxPoints - 1 /\ index' \in 0 .. MaxPoints - 1
    BY <1>1 DEF IInv, InTables
  <2> QED
    BY <1>1, <1>6, <2>1, <2>2, <2>3, Zenon DEF IInv, InTables
<1>8. Fresh'
  BY <1>6 DEF Fresh
<1>9. Loaded'
  <2>1. last' < num'
    BY <1>1, <1>2, <1>3, <1>5
  <2>2. c # 2 => Len(ends') = 1 /\ last' = num' - 1
    BY <1>1, <1>5
  <2>3. c = 2 /\ segment' < Len(ends') => last' < ends'[segment' + 1]
    <3> SUFFICES ASSUME c = 2, segment < Len(p) PROVE p[1] - 1 < p[segment + 1]
      BY <1>1, <1>5
    <3>1. segment \in 0 .. MaxSegments - 1
      BY DEF IInv, InTables
    <3>2. segment + 1 \in 1 .. Len(p)
      BY <3>1, <1>2
    <3>3. p[segment + 1] \in p[1] .. p[Len(p)]
      BY <3>2, <1>2
    <3> QED
      BY <3>3, <1>3, <1>2
  <2> QED
    BY <1>1, <2>1, <2>2, <2>3 DEF Loaded
<1>10. TurnAhead'
  BY <1>1, Zenon DEF IInv, TurnAhead
<1>11. loads' = 1 => segment' = 0 /\ first' = 0 /\ index' = 0 /\ ~stopped'
  <2>1. loads' = 1 => loads = 0
    BY <1>1, <1>6
  <2> QED
    BY <1>1, <2>1, Zenon DEF IInv, Fresh
<1>12. SegmentExists'
  BY <1>1, <1>2, <1>11 DEF SegmentExists
<1>13. IndexInSegment'
  BY <1>1, <1>3, <1>5, <1>11, <1>2 DEF IndexInSegment, UpTo
<1>14. EveryPauseIsMade'
  BY <1>1, <1>11 DEF EveryPauseIsMade
<1> QED
  BY <1>7, <1>8, <1>9, <1>10, <1>12, <1>13, <1>14 DEF IInv

\* Only flags of the main loop change.
LEMMA MainLoopIInv == IInv /\ (Start \/ Resume) => IInv'
<1> SUFFICES ASSUME IInv, Start \/ Resume PROVE IInv'
  OBVIOUS
<1>1. /\ course' = course /\ ends' = ends /\ num' = num
      /\ segment' = segment /\ first' = first /\ last' = last /\ index' = index
      /\ turning' = turning /\ turn_index' = turn_index
      /\ stopped' = stopped /\ loads' = loads /\ pauses' = pauses
      /\ (track' = track \/ (loads > 0 /\ track' = TRUE))
      /\ (pause' = pause \/ pause' = TRUE)
  BY DEF Start, Resume, path, place, turn
<1>2. InTables'
  BY <1>1, Zenon DEF IInv, InTables
<1>3. Fresh'
  <2>1. loads > 0 => loads # 0
    BY DEF IInv, InTables
  <2> QED
    BY <1>1, <2>1, Zenon DEF IInv, Fresh
<1>4. Loaded'
  BY <1>1 DEF IInv, Loaded
<1>5. TurnAhead'
  <2>1. /\ turning => loads > 0 /\ turn_index <= num - 2
        /\ ~track => ~turning
    BY DEF IInv, TurnAhead
  <2>2. /\ turning' => loads' > 0 /\ turn_index' <= num' - 2
        /\ ~track' => ~turning'
    BY <1>1, <2>1
  <2> QED
    BY <2>2 DEF TurnAhead
<1>6. SegmentExists' /\ IndexInSegment' /\ EveryPauseIsMade'
  BY <1>1, Zenon DEF IInv, SegmentExists, IndexInSegment, EveryPauseIsMade, UpTo, PointNum
<1> QED
  BY <1>2, <1>3, <1>4, <1>5, <1>6 DEF IInv

-----------------------------------------------------------------------------
(* A tick of the replay                                                     *)

\* The look-ahead does not leave the segment.
LEMMA LookAhead ==
    ASSUME IInv, loads > 0, NEW nearest \in Nearest, index' \in Ahead(nearest)
    PROVE  /\ nearest \in Nat
           /\ index' \in 0 .. last
           /\ index \in first .. last => index' \in first .. last
<1>1. last \in Nat /\ index \in Nat /\ first \in Nat /\ SearchNum \in Nat
  BY WhenLoaded, Sizes
<1>2. nearest \in Nat /\ nearest >= index
  BY <1>1 DEF Nearest, Least
<1> QED
  BY <1>1, <1>2 DEF Ahead

\* The replay ends two points early, or at the last but one.
LEMMA EndMeans ==
    ASSUME IInv, loads > 0, index' \in 0 .. last, AtEnd
    PROVE  num > 1 /\ index' >= num - 2
<1>1. num \in 1 .. MaxPoints /\ last \in 0 .. num - 1
  BY WhenLoaded
<1>2. CASE num = 1
  <2>1. Unsigned(num - 2) = Wide - 1
    BY <1>2, Wrapped
  <2>2. index' >= Wide - 1
    BY <2>1 DEF AtEnd
  <2> QED
    BY <1>1, <2>2, Sizes
<1>3. CASE num > 1
  <2>1. num - 2 \in 0 .. Wide - 1
    BY <1>1, <1>3, Sizes
  <2>2. Unsigned(num - 2) = num - 2
    BY <2>1, Narrow
  <2> QED
    BY <1>3, <2>2 DEF AtEnd
<1> QED
  BY <1>1, <1>2, <1>3

\* A turn that is kept is ahead, and not behind the end of the replay.
LEMMA Follow ==
    ASSUME IInv, loads > 0, NEW nearest \in Nat, index' \in 0 .. last, FollowTurn(nearest)
    PROVE  /\ turning' \in BOOLEAN
           /\ turn_index' \in -1 .. MaxPoints - 1
           /\ turning' => turn_index' <= num - 2
           /\ turning' => ~AtEnd
<1>1. num \in 1 .. MaxPoints /\ last \in 0 .. num - 1 /\ turn_index \in -1 .. MaxPoints - 1
  BY WhenLoaded
<1>2. PICK found \in (IF turning THEN {turn_index} ELSE FutureTurns(nearest) \union {-1}) :
         /\ turning' = (found # -1 /\ index' < found)
         /\ turn_index' = IF found # -1 /\ index' < found THEN found ELSE -1
  BY DEF FollowTurn
<1>3. found \in -1 .. MaxPoints - 1 /\ (found # -1 => found <= num - 2)
  <2>1. CASE turning
    <3>1. found = turn_index
      BY <1>2, <2>1
    <3>2. turn_index <= num - 2
      BY <2>1 DEF IInv, TurnAhead
    <3> QED
      BY <3>1, <3>2, <1>1
  <2>2. CASE ~turning
    <3>1. found \in FutureTurns(nearest) \/ found = -1
      BY <1>2, <2>2
    <3>2. found \in FutureTurns(nearest) => found \in Nat /\ found < num - 1
      BY <1>1, Sizes DEF FutureTurns
    <3> QED
      BY <3>1, <3>2, <1>1, Sizes
  <2> QED
    BY <2>1, <2>2
<1>4. turning' => found # -1 /\ index' < found /\ turn_index' = found
  BY <1>2
<1>5. turning' => turn_index' <= num - 2
  BY <1>3, <1>4
<1>6. turning' => ~AtEnd
  <2> SUFFICES ASSUME turning', AtEnd PROVE FALSE
    OBVIOUS
  <2>1. index' >= num - 2
    BY EndMeans
  <2>2. found <= num - 2 /\ index' < found
    BY <1>3, <1>4
  <2> QED
    BY <1>1, <1>3, <2>1, <2>2
<1>7. turning' \in BOOLEAN
  BY <1>2
<1>8. turn_index' \in -1 .. MaxPoints - 1
  BY <1>2, <1>3, Sizes
<1> QED
  BY <1>5, <1>6, <1>7, <1>8

\* A tick within a segment: the index and the turn move.
LEMMA MoveIInv ==
    ASSUME IInv, loads > 0, track,
           course' = course, ends' = ends, num' = num, loads' = loads,
           segment' = segment, first' = first, last' = last, pauses' = pauses,
           pause' = pause,
           index' \in 0 .. last,
           course = 2 /\ index \in first .. last => index' \in first .. last,
           turning' \in BOOLEAN, turn_index' \in -1 .. MaxPoints - 1,
           turning' => turn_index' <= num - 2,
           ~track' => ~turning',
           track' \in BOOLEAN, stopped' \in BOOLEAN,
           course = 2 /\ stopped' => stopped \/ AtEnd
    PROVE  IInv'
<1>1. /\ ends \in Paths /\ num = ends[Len(ends)] /\ num \in 1 .. MaxPoints
      /\ segment \in Nat /\ last \in 0 .. num - 1 /\ Len(ends) \in 1 .. MaxSegments
  BY WhenLoaded
<1>2. InTables'
  <2>1. index' \in 0 .. MaxPoints - 1
    BY <1>1, Sizes
  <2>2. {first', last', index'} \subseteq 0 .. MaxPoints - 1
    BY <2>1 DEF IInv, InTables
  <2>3. /\ course' \in 0 .. 2 /\ ends' \in Paths \union {<< >>} /\ num' \in 0 .. MaxPoints
        /\ segment' \in 0 .. MaxSegments - 1 /\ pause' \in BOOLEAN /\ loads' \in Nat
    BY Zenon DEF IInv, InTables
  <2> QED
    BY <2>2, <2>3, Zenon DEF InTables
<1>3. Fresh'
  <2>1. loads' # 0
    BY DEF IInv, InTables
  <2> QED
    BY <2>1 DEF Fresh
<1>4. Loaded' /\ SegmentExists'
  BY DEF IInv, Loaded, SegmentExists
<1>5. TurnAhead'
  BY Zenon DEF TurnAhead
<1>6. IndexInSegment'
  BY DEF IInv, IndexInSegment, UpTo
<1>7. EveryPauseIsMade'
  <2> SUFFICES ASSUME course = 2, loads = 1
               PROVE  /\ pauses = [i \in 1 .. segment |-> i - 1]
                      /\ stopped' /\ PointNum(ends, Len(ends)) > 1 => segment = Len(ends) - 1
    BY DEF EveryPauseIsMade, PointNum, UpTo
  <2>1. /\ pauses = [i \in 1 .. segment |-> i - 1]
        /\ stopped /\ PointNum(ends, Len(ends)) > 1 => segment = Len(ends) - 1
    BY DEF IInv, EveryPauseIsMade
  <2>2. segment < Len(ends) /\ last = ends[segment + 1] - 1
    BY DEF IInv, SegmentExists, IndexInSegment
  <2>3. ASSUME AtEnd, PointNum(ends, Len(ends)) > 1, segment # Len(ends) - 1
        PROVE  FALSE
    <3>1. num > 1 /\ index' >= num - 2
      BY <2>3, EndMeans
    <3>2. segment + 1 \in 1 .. Len(ends) - 1 /\ Len(ends) - 1 \in 1 .. Len(ends)
      BY <1>1, <2>2, <2>3
    <3>3. ends[segment + 1] <= ends[Len(ends) - 1]
      BY <1>1, <3>2, PathEnds
    <3>4. num - ends[Len(ends) - 1] > 1
      BY <1>1, <2>3, <3>2 DEF PointNum, UpTo
    <3>5. ends[segment + 1] \in Nat /\ ends[Len(ends) - 1] \in Nat
      <4>1. \A i \in 1 .. Len(ends) : ends[i] \in ends[1] .. ends[Len(ends)] /\ ends[1] > 0
        BY <1>1, PathEnds
      <4>2. 1 \in 1 .. Len(ends) /\ segment + 1 \in 1 .. Len(ends)
        BY <1>1, <3>2
      <4>3. ends[1] \in Nat
        BY <4>1, <4>2, <1>1
      <4>4. /\ ends[segment + 1] \in ends[1] .. ends[Len(ends)]
            /\ ends[Len(ends) - 1] \in ends[1] .. ends[Len(ends)]
        BY <4>1, <4>2, <3>2
      <4> QED
        BY <4>3, <4>4, <1>1
    <3>6. num \in Nat /\ last \in Nat /\ index' \in Nat /\ index' <= last
      BY <1>1
    <3>7. index' <= ends[Len(ends) - 1] - 1
      BY <2>2, <3>3, <3>5, <3>6
    <3> QED
      BY <3>1, <3>4, <3>5, <3>6, <3>7
  <2> QED
    BY <2>1, <2>3
<1> QED
  BY <1>2, <1>3, <1>4, <1>5, <1>6, <1>7 DEF IInv

\* The end of a segment: the next one is that of the table.
LEMMA SwitchIInv ==
    ASSUME IInv, loads > 0, track,
           course' = course, ends' = ends, num' = num, loads' = loads,
           course = 2, ~(segment >= Unsigned(Len(ends) - 1)),
           pause' = FALSE, segment' = segment + 1, first' = Unsigned(last + 1),
           last' = Unsigned(first' + PointNum(ends, segment' + 1) - 1),
           pauses' = Append(pauses, segment),
           index' = first',
           turning' = turning, turn_index' = turn_index, track' = track, stopped' = stopped
    PROVE  IInv'
<1>1. /\ ends \in Paths /\ num = ends[Len(ends)] /\ num \in 1 .. MaxPoints
      /\ segment \in Nat /\ last \in 0 .. num - 1 /\ Len(ends) \in 1 .. MaxSegments
  BY WhenLoaded
<1>2. segment < Len(ends) - 1
  <2>1. Len(ends) - 1 \in 0 .. Wide - 1
    BY <1>1, Sizes
  <2>2. Unsigned(Len(ends) - 1) = Len(ends) - 1
    BY <2>1, Narrow
  <2> QED
    BY <1>1, <2>2
<1>3. segment + 1 \in 1 .. Len(ends) - 1 /\ segment + 1 \in 1 .. Len(ends)
      /\ segment + 2 \in 1 .. Len(ends) /\ (segment + 1) + 1 = segment + 2
  BY <1>1, <1>2
<1>4. ends[segment + 1] \in 1 .. num /\ ends[segment + 2] \in 1 .. num
      /\ ends[segment + 1] < ends[segment + 2]
  <2>1. /\ \A i \in 1 .. Len(ends) : ends[i] \in ends[1] .. num /\ ends[1] > 0
        /\ \A i \in 1 .. Len(ends) - 1 : ends[i] < ends[i + 1]
    BY <1>1, PathEnds
  <2>2. ends[1] \in ends[1] .. num /\ ends[1] > 0
    <3>1. 1 \in 1 .. Len(ends)
      BY <1>1
    <3> QED
      BY <2>1, <3>1
  <2>3. ends[segment + 1] \in ends[1] .. num /\ ends[segment + 2] \in ends[1] .. num
    BY <2>1, <1>3
  <2>4. ends[segment + 1] < ends[segment + 2]
    BY <2>1, <1>3
  <2> QED
    BY <1>1, <2>2, <2>3, <2>4
<1>5. last < ends[segment + 1]
  BY <1>1, <1>2 DEF IInv, Loaded
<1>0. /\ last \in Nat /\ num \in Nat /\ num < Wide
      /\ ends[segment + 1] \in Nat /\ ends[segment + 2] \in Nat
      /\ ends[segment + 1] < ends[segment + 2] /\ ends[segment + 2] <= num
  <2>1. num \in Nat /\ num < Wide
    BY <1>1, Sizes
  <2>2. last \in Nat
    BY <1>1
  <2>3. /\ ends[segment + 1] \in Nat /\ ends[segment + 2] \in Nat
        /\ ends[segment + 2] <= num
    BY <1>4, <2>1
  <2> QED
    BY <1>4, <2>1, <2>2, <2>3
<1>6. first' = last + 1
  <2>1. last + 1 \in 0 .. Wide - 1
    BY <1>1, <1>4, <1>5, Sizes
  <2> QED
    BY <2>1, Narrow
<1>7. last' = last + (ends[segment + 2] - ends[segment + 1])
  <2>1. PointNum(ends, segment' + 1) = ends[segment + 2] - ends[segment + 1]
    BY <1>1, <1>3 DEF PointNum, UpTo
  <2>2. first' + PointNum(ends, segment' + 1) - 1 = last + (ends[segment + 2] - ends[segment + 1])
    BY <1>0, <1>6, <2>1
  <2>3. last + (ends[segment + 2] - ends[segment + 1]) \in 0 .. Wide - 1
    BY <1>0, <1>5, Sizes
  <2> QED
    BY <2>2, <2>3, Narrow
<1>8. first' \in 0 .. num - 1 /\ last' \in 0 .. num - 1 /\ last' < ends[segment + 2] /\ first' <= last'
  BY <1>0, <1>5, <1>6, <1>7
<1>9. InTables'
  <2>1. first' \in 0 .. MaxPoints - 1 /\ last' \in 0 .. MaxPoints - 1 /\ index' \in 0 .. MaxPoints - 1
    BY <1>1, <1>8, Sizes
  <2>2. segment' \in 0 .. MaxSegments - 1
    BY <1>1, <1>2, Sizes
  <2>3. {first', last', index'} \subseteq 0 .. MaxPoints - 1
    BY <2>1
  <2> QED
    BY <2>2, <2>3, Zenon DEF IInv, InTables
<1>10. Fresh'
  <2>1. loads' # 0
    BY DEF IInv, InTables
  <2> QED
    BY <2>1 DEF Fresh
<1>11. Loaded'
  BY <1>1, <1>3, <1>8 DEF Loaded
<1>12. TurnAhead'
  BY Zenon DEF IInv, TurnAhead
<1>13. SegmentExists'
  BY <1>1, <1>2 DEF SegmentExists
<1>14. IndexInSegment'
  <2> SUFFICES ASSUME loads = 1
               PROVE  /\ first' = UpTo(ends, segment + 1)
                      /\ last' = ends[segment + 2] - 1
                      /\ index' \in first' .. last'
    BY <1>3 DEF IndexInSegment, UpTo
  <2>1. last = ends[segment + 1] - 1
    BY DEF IInv, IndexInSegment
  <2>2. UpTo(ends, segment + 1) = ends[segment + 1]
    BY <1>3 DEF UpTo
  <2> QED
    <3>1. first' = ends[segment + 1]
      BY <1>0, <1>6, <2>1
    <3>2. last' = ends[segment + 2] - 1
      <4>1. last + (ends[segment + 2] - ends[segment + 1]) = ends[segment + 2] - 1
        BY <1>0, <2>1, Shift
      <4> QED
        BY <1>7, <4>1
    <3>3. index' \in first' .. last'
      BY <1>0, <3>1, <3>2
    <3> QED
      BY <2>2, <3>1, <3>2, <3>3
<1>15. EveryPauseIsMade'
  <2> SUFFICES ASSUME loads = 1
               PROVE  /\ Append(pauses, segment) = [i \in 1 .. segment + 1 |-> i - 1]
                      /\ stopped /\ PointNum(ends, Len(ends)) > 1 => segment + 1 = Len(ends) - 1
    BY DEF EveryPauseIsMade, PointNum, UpTo
  <2>1. /\ pauses = [i \in 1 .. segment |-> i - 1]
        /\ stopped /\ PointNum(ends, Len(ends)) > 1 => segment = Len(ends) - 1
    BY DEF IInv, EveryPauseIsMade
  <2>2. ~(stopped /\ PointNum(ends, Len(ends)) > 1)
    BY <1>1, <1>2, <2>1
  <2>3. Append(pauses, segment) = [i \in 1 .. segment + 1 |-> i - 1]
    BY <1>1, <2>1
  <2> QED
    BY <2>2, <2>3
<1> QED
  BY <1>9, <1>10, <1>11, <1>12, <1>13, <1>14, <1>15 DEF IInv

LEMMA TrackUpdateIInv ==
    ASSUME IInv, loads > 0, track, pause, TrackUpdate,
           course' = course, ends' = ends, num' = num, loads' = loads
    PROVE  IInv'
<1>1. course # 1 /\ SegmentCheck
  BY DEF TrackUpdate
<1>2. CASE course # 2 \/ segment >= Unsigned(Len(ends) - 1) \/ index < last
  <2>1. segment' = segment /\ first' = first /\ last' = last /\ pause' = pause /\ pauses' = pauses
    BY <1>1, <1>2 DEF SegmentCheck
  <2>2. PICK nearest \in Nearest : /\ index' \in Ahead(nearest)
                                   /\ FollowTurn(nearest)
                                   /\ track' = ~AtEnd
                                   /\ stopped' = (stopped \/ AtEnd)
    BY <2>1 DEF TrackUpdate
  <2>3. nearest \in Nat /\ index' \in 0 .. last
        /\ (index \in first .. last => index' \in first .. last)
    BY <2>2, LookAhead
  <2>4. /\ turning' \in BOOLEAN /\ turn_index' \in -1 .. MaxPoints - 1
        /\ (turning' => turn_index' <= num - 2) /\ (turning' => ~AtEnd)
    BY <2>2, <2>3, Follow
  <2>5. /\ track' \in BOOLEAN /\ stopped' \in BOOLEAN /\ (~track' => ~turning')
        /\ (stopped' => stopped \/ AtEnd)
    BY <2>2, <2>4, Zenon DEF IInv, InTables
  <2> QED
    BY <2>1, <2>3, <2>4, <2>5, MoveIInv
<1>3. CASE ~(course # 2 \/ segment >= Unsigned(Len(ends) - 1) \/ index < last)
  <2>1. /\ pause' = FALSE /\ segment' = segment + 1 /\ first' = Unsigned(last + 1)
        /\ last' = Unsigned(first' + PointNum(ends, segment' + 1) - 1)
        /\ pauses' = Append(pauses, segment)
    BY <1>1, <1>3 DEF SegmentCheck
  <2>2. /\ index' = first' /\ turning' = turning /\ turn_index' = turn_index
        /\ track' = track /\ stopped' = stopped
    BY <2>1 DEF TrackUpdate, turn
  <2> QED
    BY <1>3, <2>1, <2>2, SwitchIInv
<1> QED
  BY <1>2, <1>3

LEMMA Track2UpdateIInv ==
    ASSUME IInv, loads > 0, track, pause, Track2Update,
           course' = course, ends' = ends, num' = num, loads' = loads
    PROVE  IInv'
<1>1. /\ course = 1 /\ segment' = segment /\ first' = first /\ last' = last
      /\ pause' = pause /\ track' = track /\ pauses' = pauses
  BY DEF Track2Update
<1>2. /\ turning \in BOOLEAN /\ turn_index \in -1 .. MaxPoints - 1
      /\ stopped \in BOOLEAN /\ (turning => turn_index <= num - 2)
  BY DEF IInv, InTables, TurnAhead
<1>3. track' \in BOOLEAN /\ (~track' => ~turning')
  BY <1>1
<1>4. CASE index >= num
  <2>1. index' = Unsigned(num - 1) /\ stopped' = TRUE /\ turning' = turning /\ turn_index' = turn_index
    BY <1>4 DEF Track2Update, turn
  <2>2. num \in 1 .. MaxPoints /\ last = num - 1
    BY <1>1, WhenLoaded DEF IInv, Loaded
  <2>3. num - 1 \in 0 .. Wide - 1
    BY <2>2, Sizes
  <2>4. index' \in 0 .. last
    BY <2>1, <2>2, <2>3, Narrow
  <2>5. course # 2 /\ stopped' \in BOOLEAN
    BY <1>1, <2>1
  <2> QED
    BY <1>1, <1>2, <1>3, <2>1, <2>4, <2>5, MoveIInv
<1>5. CASE ~(index >= num)
  <2>1. PICK nearest \in Nearest :
           /\ index' \in Ahead(nearest)
           /\ \/ UNCHANGED <<turn, stopped>>
              \/ FollowTurn(nearest) /\ stopped' = (stopped \/ AtEnd)
    BY <1>5 DEF Track2Update
  <2>2. nearest \in Nat /\ index' \in 0 .. last
    BY <2>1, LookAhead
  <2>3. CASE UNCHANGED <<turn, stopped>>
    <3>1. turning' = turning /\ turn_index' = turn_index /\ stopped' = stopped
      BY <2>3 DEF turn
    <3> QED
      BY <1>1, <1>2, <1>3, <2>2, <3>1, MoveIInv
  <2>4. CASE FollowTurn(nearest) /\ stopped' = (stopped \/ AtEnd)
    <3>1. /\ turning' \in BOOLEAN /\ turn_index' \in -1 .. MaxPoints - 1
          /\ (turning' => turn_index' <= num - 2)
      BY <2>2, <2>4, Follow
    <3>2. stopped' \in BOOLEAN
      BY <1>2, <2>4
    <3> QED
      BY <1>1, <1>3, <2>2, <3>1, <3>2, MoveIInv
  <2> QED
    BY <2>1, <2>3, <2>4
<1> QED
  BY <1>4, <1>5

LEMMA TickIInv == IInv /\ Tick => IInv'
<1> SUFFICES ASSUME IInv, Tick PROVE IInv'
  OBVIOUS
<1>1. /\ track /\ pause /\ (TrackUpdate \/ Track2Update)
      /\ course' = course /\ ends' = ends /\ num' = num /\ loads' = loads
  BY DEF Tick, path
<1>2. loads > 0
  <2>1. loads # 0
    BY <1>1 DEF IInv, Fresh
  <2>2. loads \in Nat
    BY DEF IInv, InTables
  <2> QED
    BY <2>1, <2>2
<1>3. CASE TrackUpdate
  BY <1>1, <1>2, <1>3, TrackUpdateIInv
<1>4. CASE Track2Update
  BY <1>1, <1>2, <1>4, Track2UpdateIInv
<1> QED
  BY <1>1, <1>3, <1>4

\* The inductive invariant of the replay.
THEOREM Invariance == Spec => []IInv
<1>1. Init => IInv
  BY InitIInv
<1>2. IInv /\ [Next]_vars => IInv'
  <2> SUFFICES ASSUME IInv, [Next]_vars PROVE IInv'
    OBVIOUS
  <2>1. CASE \E c \in 0 .. 2, p \in Paths : (c = 2 \/ Len(p) = 1) /\ Load(c, p)
    BY <2>1, LoadIInv
  <2>2. CASE Start \/ Resume
    BY <2>2, MainLoopIInv
  <2>3. CASE Tick
    BY <2>3, TickIInv
  <2>4. CASE UNCHANGED vars
    <3>1. /\ course' = course /\ ends' = ends /\ num' = num
          /\ segment' = segment /\ first' = first /\ last' = last /\ index' = index
          /\ turning' = turning /\ turn_index' = turn_index
          /\ track' = track /\ pause' = pause /\ stopped' = stopped
          /\ loads' = loads /\ pauses' = pauses
      BY <2>4 DEF vars, path, place, turn, flags
    <3> QED
      BY <3>1, Zenon DEF IInv, InTables, Fresh, Loaded, TurnAhead, SegmentExists,
         IndexInSegment, EveryPauseIsMade, UpTo, PointNum
  <2> QED
    BY <2>1, <2>2, <2>3, <2>4 DEF Next
<1> QED
  BY <1>1, <1>2, PTL DEF Spec

\* No index leaves its table, in no replay of no path, and in the first replay
\* path_index stays in its segment, whose bounds are those of the table.
THEOREM TypeCorrect == Spec => []TypeOK
<1>1. IInv => TypeOK
  BY Zenon DEF IInv, InTables, TypeOK
<1> QED
  BY <1>1, Invariance, PTL

\* In the first replay the car has paused once at the end of each segment, in
\* order, and when it stops none is left out, if the last segment has more than
\* one point.
THEOREM PausesCorrect == Spec => []EveryPauseIsMade
<1>1. IInv => EveryPauseIsMade
  BY DEF IInv
<1> QED
  BY <1>1, Invariance, PTL

\* When the replay has ended no turn is kept that would slow down the next one.
THEOREM TurnsCorrect == Spec => []NoTurnLeftOver
<1>1. IInv => NoTurnLeftOver
  BY DEF IInv, TurnAhead, NoTurnLeftOver
<1> QED
  BY <1>1, Invariance, PTL

-----------------------------------------------------------------------------
(* Progress.  The provers know nothing of ENABLED but its place in WF; what  *)
(* they need to know is Enabling, a condition on states: the replay can go   *)
(* on, or end, as long as its index has not passed the end of the segment,   *)
(* and a pause can be ended.                                                 *)

Enabling ==
    /\ track /\ pause /\ ~stopped /\ loads = 1 /\ num > 1 /\ index <= last
         => ENABLED <<Tick /\ (index' > index \/ pause # pause' \/ (stopped' # stopped))>>_vars
    /\ ~pause => ENABLED <<Resume>>_vars

\* A number that keeps within its bound does not grow for ever unless it falls for
\* ever: true of every number, but an induction, which is out of the provers' reach.
IndexIsBounded == []<><<index' > index>>_vars => []<><<index' < index>>_vars

\* In the first replay the index does not pass the end of the segment, so that the
\* look-ahead never takes it back.
NotPast == loads = 1 => index <= last
Replaying == track /\ loads = 1 /\ num > 1 /\ ~stopped

LEMMA InitNotPast == Init => NotPast
BY DEF Init, NotPast

\* A tick of the first replay goes on, at the latest with the next segment.
LEMMA TickGoesOn ==
    ASSUME IInv, IInv', NotPast, Tick, loads = 1
    PROVE  /\ NotPast'
           /\ ~(index' < index)
           /\ pause /\ ~pause' => index' > index
<1>1. /\ track /\ pause /\ (TrackUpdate \/ Track2Update) /\ loads' = 1 /\ course' = course
      /\ num' = num
  BY DEF Tick, path
<1>2. /\ last \in 0 .. num - 1 /\ num \in 1 .. MaxPoints /\ index \in 0 .. MaxPoints - 1
      /\ index <= last /\ index \in Nat /\ last \in Nat
      /\ course # 2 => last = num - 1
  BY WhenLoaded, Sizes DEF NotPast, IInv, Loaded
<1>3. ASSUME NEW nearest \in Nearest, index' \in Ahead(nearest)
      PROVE  index' \in Nat /\ index <= index' /\ index' <= last
  <2>1. nearest \in Nat /\ index <= nearest /\ index' \in 0 .. last
    <3>1. nearest \in Nat /\ index' \in 0 .. last
      BY <1>3, LookAhead
    <3>2. index <= nearest
      BY <1>2, <1>3 DEF Nearest
    <3> QED
      BY <3>1, <3>2
  <2>2. nearest <= last => nearest <= index'
    BY <1>2, <1>3, <2>1 DEF Ahead
  <2>3. nearest > last => index' = last
    BY <1>2, <1>3, <2>1 DEF Ahead
  <2> QED
    BY <1>2, <2>1, <2>2, <2>3
<1>4. ASSUME last' = last, pause' = pause, NEW nearest \in Nearest, index' \in Ahead(nearest)
      PROVE  NotPast' /\ ~(index' < index)
  <2>1. index' \in Nat /\ index <= index' /\ index' <= last
    BY <1>3, <1>4
  <2> QED
    BY <1>2, <1>4, <2>1 DEF NotPast
<1>5. CASE TrackUpdate
  <2>1. CASE course # 2 \/ segment >= Unsigned(Len(ends) - 1) \/ index < last
    <3>1. last' = last /\ pause' = pause
      BY <1>5, <2>1 DEF TrackUpdate, SegmentCheck
    <3>2. PICK nearest \in Nearest : index' \in Ahead(nearest)
      BY <1>1, <1>5, <3>1 DEF TrackUpdate
    <3> QED
      BY <1>1, <1>4, <3>1, <3>2
  <2>2. CASE ~(course # 2 \/ segment >= Unsigned(Len(ends) - 1) \/ index < last)
    <3>1. course = 2 /\ first' = Unsigned(last + 1) /\ index' = first' /\ ~pause'
      BY <1>5, <2>2 DEF TrackUpdate, SegmentCheck
    <3>2. last + 1 \in 0 .. Wide - 1
      BY <1>2, Sizes
    <3>3. index' = last + 1
      BY <3>1, <3>2, Narrow
    <3>4. index' \in first' .. last' /\ last' \in Nat
      BY <1>1, <3>1, Sizes DEF IInv, IndexInSegment, InTables
    <3> QED
      BY <1>1, <1>2, <3>1, <3>3, <3>4 DEF NotPast
  <2> QED
    BY <2>1, <2>2
<1>6. CASE Track2Update
  <2>1. ~(index >= num)
    BY <1>2, <1>6 DEF Track2Update
  <2>2. last' = last /\ pause' = pause /\ \E nearest \in Nearest : index' \in Ahead(nearest)
    BY <1>6, <2>1 DEF Track2Update
  <2> QED
    BY <1>1, <1>4, <2>2
<1> QED
  BY <1>1, <1>5, <1>6

LEMMA NextNotPast == IInv /\ IInv' /\ NotPast /\ [Next]_vars => NotPast'
<1> SUFFICES ASSUME IInv, IInv', NotPast, [Next]_vars PROVE NotPast'
  OBVIOUS
<1>1. CASE UNCHANGED vars \/ Start \/ Resume
  BY <1>1 DEF vars, path, place, Start, Resume, NotPast
<1>2. ASSUME NEW c \in 0 .. 2, NEW p \in Paths, Load(c, p)
      PROVE  NotPast'
  <2>1. loads' = 1 => loads = 0
    BY <1>2 DEF Load, IInv, InTables
  <2>2. loads' = 1 => index' = 0
    BY <1>2, <2>1 DEF Load, IInv, Fresh
  <2>3. last' \in Nat
    BY Sizes DEF IInv, InTables
  <2> QED
    BY <2>2, <2>3 DEF NotPast
<1>3. CASE Tick
  <2>1. loads' = loads
    BY <1>3 DEF Tick
  <2> QED
    BY <1>3, <2>1, TickGoesOn DEF NotPast
<1> QED
  BY <1>1, <1>2, <1>3 DEF Next

\* As long as it is not over, the first replay stays on, and its index grows with
\* every step that gets it on.
LEMMA ReplayMoves ==
    IInv /\ IInv' /\ NotPast /\ [Next]_vars /\ Replaying =>
      /\ Replaying' \/ stopped'
      /\ ~(index' < index)
      /\ pause /\ ~pause' => index' > index
      /\ Resume => pause'
      /\ Tick /\ (index' > index \/ pause # pause' \/ (stopped' # stopped)) =>
           index' > index \/ stopped'
      /\ index' > index => ~UNCHANGED vars
<1> SUFFICES ASSUME IInv, IInv', NotPast, [Next]_vars, Replaying
             PROVE  /\ Replaying' \/ stopped'
                    /\ ~(index' < index)
                    /\ pause /\ ~pause' => index' > index
                    /\ Resume => pause'
                    /\ Tick /\ (index' > index \/ pause # pause' \/ (stopped' # stopped)) =>
                         index' > index \/ stopped'
                    /\ index' > index => ~UNCHANGED vars
  OBVIOUS
<1>1. track /\ loads = 1 /\ num > 1 /\ ~stopped /\ index \in Nat
      /\ pause \in BOOLEAN /\ pause' \in BOOLEAN /\ stopped \in BOOLEAN /\ stopped' \in BOOLEAN
  BY Sizes DEF Replaying, IInv, InTables
<1>5. index' > index => ~UNCHANGED vars
  <2>1. index' = index => ~(index' > index)
    BY <1>1
  <2> QED
    BY <2>1 DEF vars, place
<1>2. CASE UNCHANGED vars \/ Start \/ Resume
  <2>1. index' = index /\ num' = num /\ loads' = loads /\ stopped' = stopped /\ track'
        /\ (pause => pause')
    BY <1>1, <1>2 DEF vars, path, place, flags, Start, Resume
  <2> QED
    BY <1>1, <1>2, <1>5, <2>1 DEF Replaying, Resume, Tick
<1>3. CASE \E c \in 0 .. 2, p \in Paths : (c = 2 \/ Len(p) = 1) /\ Load(c, p)
  BY <1>1, <1>3 DEF Load
<1>4. CASE Tick
  <2>1. /\ ~(index' < index)
        /\ pause /\ ~pause' => index' > index
    BY <1>1, <1>4, TickGoesOn
  <2>2. pause /\ num' = num /\ loads' = loads
    BY <1>4 DEF Tick, path
  <2>3. track' \/ stopped'
    BY <1>1, <1>4 DEF Tick, TrackUpdate, Track2Update
  <2>4. ~Resume
    BY <2>2 DEF Resume
  <2>5. pause # pause' => ~pause'
    BY <1>1, <2>2
  <2>6. stopped' # stopped => stopped'
    BY <1>1
  <2>7. Replaying' \/ stopped'
    BY <1>1, <2>2, <2>3 DEF Replaying
  <2>8. index' > index \/ pause # pause' \/ (stopped' # stopped) => index' > index \/ stopped'
    BY <2>1, <2>2, <2>5, <2>6
  <2> QED
    BY <1>5, <2>1, <2>4, <2>7, <2>8
<1> QED
  BY <1>2, <1>3, <1>4 DEF Next

LEMMA ReplayEnabled ==
    NotPast /\ Replaying /\ Enabling =>
      /\ pause => ENABLED <<Tick /\ (index' > index \/ pause # pause' \/ (stopped' # stopped))>>_vars
      /\ ~pause => ENABLED <<Resume>>_vars
BY DEF NotPast, Replaying, Enabling

\* The first replay of a path with two points or more comes to its end (ReplayEnds).
THEOREM ReplayEnding == FairSpec /\ []Enabling /\ IndexIsBounded => ReplayEnds
<1>1. FairSpec => []IInv /\ []NotPast /\ [][Next]_vars
  BY InitNotPast, NextNotPast, Invariance, PTL DEF FairSpec, Spec
<1>2. FairSpec /\ []Enabling => []([]Replaying => []<>pause)
  BY <1>1, ReplayMoves, ReplayEnabled, PTL DEF FairSpec, Fairness
<1>3. Replaying => ~stopped
  BY DEF Replaying
<1>4. FairSpec /\ []Enabling => []([]Replaying => []<><<index' > index>>_vars)
  BY <1>1, <1>2, <1>3, ReplayMoves, ReplayEnabled, PTL DEF FairSpec, Fairness
<1>5. FairSpec => []([]Replaying => [][~(index' < index)]_vars)
  BY <1>1, ReplayMoves, PTL
<1>6. FairSpec => [](Replaying /\ ~<>stopped => []Replaying)
  BY <1>1, ReplayMoves, PTL
<1>7. (track /\ num > 1 /\ loads = 1) => Replaying \/ stopped
  BY DEF Replaying
<1> QED
  BY <1>4, <1>5, <1>6, <1>7, PTL DEF IndexIsBounded, ReplayEnds
=============================================================================
