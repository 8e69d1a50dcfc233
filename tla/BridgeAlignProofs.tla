------------------------- MODULE BridgeAlignProofs -------------------------
(***************************************************************************)
(* Theorems of BridgeAlign for every line, every limit and every number of *)
(* frames, checked by TLAPS: blind turns are requested, one request each,  *)
(* completion is confirmed, the control does not swing near the target,    *)
(* the recognition does not go on estimating, and a release is first sent  *)
(* without a request.                                                      *)
(***************************************************************************)
EXTENDS BridgeAlign, TLAPS

\* Each single-edge estimate admits LostHold held ones after it, and so do the
\* fresh line before.
Counted == estimates <= detect.single + detect.single * LostHold + detect.lost

\* A blind turn, its request and its control go together; a bend is learnt only
\* from lines steep enough to ask for the turn.
Requested ==
    /\ request.seen <=> align.phase = "BLIND_TURN"
    /\ request.force => request.seen
    /\ align.phase = "BLIND_TURN" =>
          request.force /\ align.blind # 0 /\ answer.control = align.blind
    /\ align.phase = "TRACK" /\ align.reliable > 0 => request.steep

\* What the alignment counts is not more than what has been seen; in the wide
\* box the frames filled in are those estimated in a row.
Confirmed ==
    align.phase # "COMPLETE" =>
        /\ align.inside <= view.streak
        /\ align.fallback => align.dwell <= view.since /\ estimates <= align.filled
        /\ ~align.fallback => align.dwell = 0

\* Near the target the side that is kept is that of the control, and a reversal
\* that waits for its confirmation keeps it at none.
OnOneSide ==
    align.near =>
        /\ align.phase # "BLIND_TURN"
        /\ align.control # 0 => Sign(align.control) = align.sign
        /\ align.reversed > 0 => align.control = 0

\* The way back goes on with the recognition alone, and nothing comes after it.
IInv ==
    /\ TypeOK /\ Counted /\ Requested /\ OnOneSide
    /\ stage # "BACK" => Confirmed

-----------------------------------------------------------------------------
(* Constants and arithmetic                                                 *)

LEMMA Parameters ==
    /\ Headings \subseteq Nat /\ Offsets \subseteq Int
    /\ BoxHeading \in Nat /\ FullAngle \in Nat /\ TriggerAngle \in Nat /\ ForceAngle \in Nat
    /\ StableDelta \in Nat
    /\ NearEnter \in Nat /\ NearExit \in Nat /\ Slew \in Nat /\ NearSlew \in Nat
    /\ Gain \in Nat /\ NearGain \in Nat /\ ControlLimit \in Nat /\ ControlLimit > 0
    /\ ForceAngle <= TriggerAngle
BY ParametersAssumption, SettingsAssumption

LEMMA Counts ==
    /\ ConfirmFrames \in Nat /\ ConfirmFrames > 0 /\ LostReset \in Nat /\ LostReset > 0
    /\ ReverseFrames \in Nat /\ ReverseFrames > 1 /\ FallbackTime \in Nat /\ FallbackTime > 0
    /\ Grace \in Nat /\ Grace > 0 /\ ReliableFrames \in Nat /\ ReliableFrames > 1
    /\ EstimatedFrames \in Nat /\ EstimatedFrames > 0 /\ BlindTime \in Nat /\ BlindTime > 0
    /\ Percent \in 1 .. 100
    /\ FreshFrames \in Nat /\ FreshFrames > 0
    /\ ReleaseFrames \in Nat /\ ReleaseFrames > 0 /\ ReleaseTime \in Nat /\ ReleaseTime > 0
    /\ SingleHold \in Nat /\ LostHold \in Nat
BY ParametersAssumption, SettingsAssumption, HoldAssumption

LEMMA Products ==
    ASSUME NEW d \in Nat, NEW q \in Int, NEW b \in Int, q > b
    PROVE  d * q >= d * b + d
OBVIOUS

LEMMA Quotients ==
    ASSUME NEW n \in Nat, NEW d \in Nat \ {0}, NEW b \in Nat, n <= d * b
    PROVE  n \div d \in 0 .. b
<1>1. n \div d \in Nat /\ n >= d * (n \div d)
  OBVIOUS
<1>2. n \div d > b => d * (n \div d) >= d * b + d
  BY <1>1, Products
<1>3. d * b \in Nat /\ d * (n \div d) \in Nat
  BY <1>1
<1> QED
  BY <1>1, <1>2, <1>3

LEMMA QuotientBound ==
    ASSUME NEW n \in Int, NEW d \in Nat \ {0}, NEW b \in Nat, n <= d * b, -(d * b) <= n
    PROVE  Quotient(n, d) \in -b .. b
<1>1. Abs(n) \in Nat /\ Abs(n) <= d * b
  BY DEF Abs
<1>2. Abs(n) \div d \in 0 .. b
  BY <1>1, Quotients
<1> QED
  BY <1>2 DEF Quotient, Sign

\* Part of a control, and the mean of controls, is not more than the most of them.
LEMMA ShareInRange ==
    ASSUME NEW r \in Controls
    PROVE  Share(r) \in Controls /\ Share(r) # 0
<1>1. r \in Int /\ r <= ControlLimit /\ -ControlLimit <= r
  BY Parameters DEF Controls
<1>2. r * Percent \in Int /\ r * Percent <= 100 * ControlLimit /\ -(100 * ControlLimit) <= r * Percent
  BY <1>1, Parameters, Counts
<1>3. Quotient(r * Percent, 100) \in -ControlLimit .. ControlLimit
  BY <1>2, Parameters, QuotientBound
<1> QED
  BY <1>3, Parameters DEF Share, Controls

LEMMA MeanInRange ==
    ASSUME NEW r \in Controls, NEW c \in Controls, NEW n \in Nat \ {0}
    PROVE  Quotient(r * (n - 1) + c, n) \in Controls
<1>1. /\ r \in Int /\ r <= ControlLimit /\ -ControlLimit <= r
      /\ c \in Int /\ c <= ControlLimit /\ -ControlLimit <= c
  BY Parameters DEF Controls
<1>2. /\ r * (n - 1) + c \in Int
      /\ r * (n - 1) + c <= n * ControlLimit /\ -(n * ControlLimit) <= r * (n - 1) + c
  BY <1>1, Parameters
<1> QED
  BY <1>2, Parameters, QuotientBound DEF Controls

LEMMA ControlInRange ==
    ASSUME NEW a \in Alignments, NEW offset \in Int
    PROVE  ControlOf(a, offset) \in Controls
<1>1. (IF a.near THEN NearGain ELSE Gain) \in Int
  BY Parameters
<1>2. offset * (IF a.near THEN NearGain ELSE Gain) \in Int
  BY <1>1
<1>3. \A n \in Int : Tenth(n) \in Int
  BY DEF Tenth, Sign, Abs
<1>4. Tenth(offset * (IF a.near THEN NearGain ELSE Gain)) \in Int
  BY <1>2, <1>3
<1> QED
  BY <1>4, Parameters DEF ControlOf, Within, Controls

LEMMA OffsetIsInteger ==
    ASSUME NEW a \in Alignments, NEW l \in Lines
    PROVE  NextOffset(a, l) \in Int
<1>1. a.offset \in Int /\ l.offset \in Int
  BY Parameters DEF Alignments, Lines
<1>2. (IF a.near THEN NearSlew ELSE Slew) \in Int
  BY Parameters
<1> QED
  BY <1>1, <1>2 DEF NextOffset, Within

LEMMA Signs ==
    ASSUME NEW c \in Int, NEW d \in Int
    PROVE  /\ Sign(c) \in -1 .. 1
           /\ Sign(c) = 0 <=> c = 0
           /\ c = 0 \/ d = 0 \/ Sign(c) = Sign(d) => Sign(c) * Sign(d) # -1
BY DEF Sign

-----------------------------------------------------------------------------
(* Recognition                                                              *)

LEMMA EstimateAdds ==
    ASSUME NEW e \in Nat, NEW s \in Nat, NEW n \in Nat, NEW held \in Nat,
           e <= s + s * held + n, n <= held
    PROVE  e + 1 <= (s + 1) + (s + 1) * held
OBVIOUS

LEMMA EstimatesBound ==
    ASSUME NEW e \in Nat, NEW s \in Nat, NEW n \in Nat, NEW held \in Nat, NEW single \in Nat,
           s <= single, e <= s + s * held + n, n <= held
    PROVE  e <= single + (single + 1) * held
OBVIOUS

LEMMA DetectCounts ==
    ASSUME DetectType, Counted, Detect
    PROVE  DetectType' /\ Counted'
<1> DEFINE Results == [ last_valid : BOOLEAN, width : BOOLEAN,
                        single : 0 .. SingleHold, lost : 0 .. LostHold ]
<1>1. /\ detect \in Results /\ estimates \in Nat
      /\ detect.single \in 0 .. SingleHold /\ detect.lost \in 0 .. LostHold
      /\ estimates <= detect.single + detect.single * LostHold + detect.lost
  BY Counts DEF DetectType, Counted
<1>2. /\ detect' \in Results /\ sight' \in Sights
      /\ \/ sight' # "estimated"
         \/ detect'.single = detect.single + 1 /\ detect'.lost = 0
         \/ detect'.single = detect.single /\ detect'.lost = detect.lost + 1
  <2>1. SingleHold \in Nat /\ LostHold \in Nat
    BY Counts
  <2>2. CASE BothEdges
    <3>1. 0 \in 0 .. SingleHold /\ 0 \in 0 .. LostHold
      BY <2>1
    <3> QED
      BY <2>2, <3>1 DEF BothEdges, Sights
  <2>3. CASE OneEdge
    <3>1. detect.single + 1 \in 0 .. SingleHold /\ 0 \in 0 .. LostHold
      BY <1>1, <2>1, <2>3 DEF OneEdge
    <3> QED
      BY <1>1, <2>3, <3>1 DEF OneEdge, Sights
  <2>4. CASE Hold
    <3>1. detect.lost + 1 \in 0 .. LostHold
      BY <1>1, <2>1, <2>4 DEF Hold, MayHold
    <3> QED
      BY <1>1, <2>4, <3>1 DEF Hold, Sights
  <2>5. CASE GiveUp
    <3>1. 0 \in 0 .. SingleHold
      BY <2>1
    <3> QED
      BY <1>1, <2>5, <3>1 DEF GiveUp, Sights
  <2> QED
    BY <2>2, <2>3, <2>4, <2>5 DEF Detect
<1>3. detect'.single \in 0 .. SingleHold /\ detect'.lost \in 0 .. LostHold
  BY <1>2
<1>4. SingleHold \in Nat /\ LostHold \in Nat
  BY Counts
<1>5. estimates' \in Nat /\ estimates' <= detect'.single + detect'.single * LostHold + detect'.lost
  <2>1. CASE sight' # "estimated"
    <3>1. estimates' = 0
      BY <2>1 DEF Detect
    <3>2. detect'.single * LostHold \in Nat
      BY <1>3, <1>4
    <3> QED
      BY <1>3, <1>4, <3>1, <3>2
  <2>2. CASE sight' = "estimated" /\ detect'.single = detect.single + 1 /\ detect'.lost = 0
    <3>1. estimates' = estimates + 1
      BY <2>2 DEF Detect
    <3>2. estimates + 1 <= (detect.single + 1) + (detect.single + 1) * LostHold
      BY <1>1, <1>4, EstimateAdds
    <3>3. (detect.single + 1) * LostHold \in Nat
      BY <1>1, <1>4
    <3> QED
      BY <1>1, <2>2, <3>1, <3>2, <3>3
  <2>3. CASE /\ sight' = "estimated"
             /\ detect'.single = detect.single /\ detect'.lost = detect.lost + 1
    <3>1. estimates' = estimates + 1
      BY <2>3 DEF Detect
    <3>2. detect.single * LostHold \in Nat
      BY <1>1, <1>4
    <3> QED
      BY <1>1, <2>3, <3>1, <3>2
  <2> QED
    BY <1>2, <2>1, <2>2, <2>3
<1>6. estimates' <= SingleHold + (SingleHold + 1) * LostHold
  BY <1>3, <1>4, <1>5, EstimatesBound
<1>7. (SingleHold + 1) * LostHold \in Nat
  BY <1>4
<1>8. estimates' \in 0 .. SingleHold + (SingleHold + 1) * LostHold
  BY <1>4, <1>5, <1>6, <1>7
<1> QED
  BY <1>2, <1>5, <1>8 DEF DetectType, Counted

-----------------------------------------------------------------------------
(* Parts of an update                                                       *)

\* The fields that the invariants speak of, but for those that change.
SameTurn(a, b) == b.phase = a.phase /\ b.age = a.age /\ b.blind = a.blind
SameSide(a, b) == b.near = a.near /\ b.sign = a.sign /\ b.pending = a.pending /\ b.reversed = a.reversed
SameBox(a, b) == b.fallback = a.fallback /\ b.dwell = a.dwell /\ b.filled = a.filled
SameBend(a, b) == b.reliable = a.reliable /\ b.estimated = a.estimated /\ b.reference = a.reference

NoSide(a) == ~a.near /\ a.sign = 0 /\ a.pending = 0 /\ a.reversed = 0
NoBox(a) == ~a.fallback /\ a.dwell = 0 /\ a.filled = 0

LEMMA ResetFields ==
    /\ Reset \in Alignments
    /\ Reset.phase = "TRACK" /\ Reset.inside = 0 /\ Reset.reliable = 0
    /\ NoSide(Reset) /\ NoBox(Reset)
<1>1. /\ 0 \in 0 .. BlindTime /\ 0 \in Controls /\ 0 \in -1 .. 1 /\ 0 \in 0 .. ReverseFrames - 1
      /\ 0 \in 0 .. ConfirmFrames /\ 0 \in 0 .. FallbackTime /\ 0 \in 0 .. Grace
      /\ 0 \in 0 .. ReliableFrames /\ 0 \in 0 .. EstimatedFrames /\ 0 \in 0 .. LostReset - 1 /\ 0 \in Int
  BY Parameters, Counts DEF Controls
<1> QED
  BY <1>1 DEF Reset, Alignments, Phases, NoSide, NoBox

LEMMA LeaveFields ==
    ASSUME NEW a \in Alignments
    PROVE  LET b == LeaveBox(LeaveNear(a)) IN
           /\ b \in Alignments
           /\ SameTurn(a, b) /\ SameBend(a, b) /\ NoSide(b) /\ NoBox(b)
           /\ b.inside = a.inside /\ b.lost = a.lost /\ b.control = a.control
<1>1. /\ 0 \in -1 .. 1 /\ 0 \in 0 .. ReverseFrames - 1 /\ 0 \in 0 .. FallbackTime /\ 0 \in 0 .. Grace
  BY Counts
<1> QED
  BY <1>1 DEF LeaveBox, LeaveNear, Alignments, SameTurn, SameBend, NoSide, NoBox

LEMMA BeginFields ==
    ASSUME NEW a \in Alignments
    PROVE  LET b == BeginTurn(a) IN
           /\ b \in Alignments
           /\ b.phase = "BLIND_TURN" /\ b.age = 0 /\ b.blind # 0 /\ b.blind \in Controls
           /\ NoSide(b) /\ NoBox(b) /\ b.inside = a.inside
<1>1. /\ 0 \in 0 .. BlindTime /\ 0 \in 0 .. ReliableFrames /\ 0 \in 0 .. EstimatedFrames /\ 0 \in Controls
  BY Parameters, Counts DEF Controls
<1>2. a.reference \in Controls
  BY DEF Alignments
<1>3. Share(a.reference) \in Controls /\ Share(a.reference) # 0
  BY <1>2, ShareInRange
<1> DEFINE c == LeaveBox(LeaveNear(a))
<1>4. c \in Alignments /\ NoSide(c) /\ NoBox(c) /\ c.inside = a.inside
  BY LeaveFields
<1> HIDE DEF c
<1> DEFINE d == Forget(c)
<1>5. BeginTurn(a) = [ d EXCEPT !.phase = "BLIND_TURN", !.age = 0, !.blind = Share(a.reference) ]
  BY DEF BeginTurn, c
<1>6. d \in Alignments /\ NoSide(d) /\ NoBox(d) /\ d.inside = a.inside
  BY <1>1, <1>4 DEF Forget, Alignments, NoSide, NoBox
<1> HIDE DEF d
<1>7. "BLIND_TURN" \in Phases
  BY DEF Phases
<1> QED
  BY <1>1, <1>3, <1>5, <1>6, <1>7 DEF Alignments, NoSide, NoBox

LEMMA EndFields ==
    ASSUME NEW a \in Alignments
    PROVE  LET b == EndTurn(a) IN
           /\ b \in Alignments
           /\ b.phase = "TRACK" /\ b.reliable = 0 /\ b.control = 0
           /\ NoSide(b) /\ NoBox(b) /\ b.inside = a.inside
<1>1. /\ 0 \in 0 .. BlindTime /\ 0 \in 0 .. ReliableFrames /\ 0 \in 0 .. EstimatedFrames
      /\ 0 \in Controls /\ 0 \in Int
  BY Parameters, Counts DEF Controls
<1> DEFINE c == LeaveBox(LeaveNear(a))
<1>4. c \in Alignments /\ NoSide(c) /\ NoBox(c) /\ c.inside = a.inside
  BY LeaveFields
<1> HIDE DEF c
<1> DEFINE d == Forget(c)
<1>5. EndTurn(a) = [ d EXCEPT !.phase = "TRACK", !.age = 0, !.blind = 0,
                       !.filtered = FALSE, !.offset = 0, !.control = 0 ]
  BY DEF EndTurn, c
<1>6. d \in Alignments /\ d.reliable = 0 /\ NoSide(d) /\ NoBox(d) /\ d.inside = a.inside
  BY <1>1, <1>4 DEF Forget, Alignments, NoSide, NoBox
<1> HIDE DEF d
<1>7. "TRACK" \in Phases /\ FALSE \in BOOLEAN
  BY DEF Phases
<1> QED
  BY <1>1, <1>5, <1>6, <1>7 DEF Alignments, NoSide, NoBox

\* Near mode: begun, left, or kept with its side.
LEMMA NearFields ==
    ASSUME NEW a \in Alignments, NEW l \in Lines
    PROVE  LET b == NearMode(a, l) IN
           /\ b \in Alignments
           /\ SameTurn(a, b) /\ SameBend(a, b) /\ SameBox(a, b)
           /\ b.inside = a.inside /\ b.control = a.control
           /\ b.near /\ a.near => SameSide(a, b)
<1>1. 0 \in -1 .. 1 /\ 0 \in 0 .. ReverseFrames - 1
  BY Counts
<1>2. \/ NearMode(a, l) = a
      \/ NearMode(a, l) = LeaveNear(a)
      \/ ~a.near /\ NearMode(a, l) = [ LeaveNear(a) EXCEPT !.near = TRUE ]
  BY DEF NearMode
<1>3. LeaveNear(a) \in Alignments /\ SameTurn(a, LeaveNear(a)) /\ SameBend(a, LeaveNear(a))
      /\ SameBox(a, LeaveNear(a)) /\ NoSide(LeaveNear(a))
      /\ LeaveNear(a).inside = a.inside /\ LeaveNear(a).control = a.control
  BY <1>1 DEF LeaveNear, Alignments, SameTurn, SameBend, SameBox, NoSide
<1>4. CASE NearMode(a, l) = a
  BY <1>4 DEF SameTurn, SameBend, SameBox, SameSide
<1>5. CASE NearMode(a, l) = LeaveNear(a)
  BY <1>3, <1>5 DEF NoSide
<1>6. CASE ~a.near /\ NearMode(a, l) = [ LeaveNear(a) EXCEPT !.near = TRUE ]
  <2> DEFINE c == LeaveNear(a)
  <2>1. c \in Alignments /\ SameTurn(a, c) /\ SameBend(a, c) /\ SameBox(a, c) /\ NoSide(c)
        /\ c.inside = a.inside /\ c.control = a.control
    BY <1>3
  <2>2. NearMode(a, l) = [ c EXCEPT !.near = TRUE ]
    BY <1>6
  <2> HIDE DEF c
  <2> QED
    BY <1>6, <2>1, <2>2 DEF Alignments, SameTurn, SameBend, SameBox, NoSide
<1> QED
  BY <1>2, <1>4, <1>5, <1>6

LEMMA CountFields ==
    ASSUME NEW a \in Alignments, NEW l \in Lines
    PROVE  LET b == CountInside(a, l) IN
           /\ b \in Alignments
           /\ SameTurn(a, b) /\ SameSide(a, b) /\ SameBend(a, b) /\ SameBox(a, b)
           /\ b.control = a.control
           /\ b.inside = IF sight' = "fresh" /\ l.box = "strict"
                         THEN Least(a.inside + 1, ConfirmFrames) ELSE 0
<1>1. a.inside \in 0 .. ConfirmFrames /\ ConfirmFrames \in Nat
  BY Counts DEF Alignments
<1> DEFINE n == IF sight' = "fresh" /\ l.box = "strict"
                THEN Least(a.inside + 1, ConfirmFrames) ELSE 0
<1>2. n \in 0 .. ConfirmFrames
  BY <1>1 DEF Least
<1>3. CountInside(a, l) = [ a EXCEPT !.inside = n ]
  BY DEF CountInside
<1> HIDE DEF n
<1>4. CountInside(a, l) \in Alignments /\ CountInside(a, l).inside = n
      /\ CountInside(a, l).control = a.control
  BY <1>2, <1>3 DEF Alignments
<1>5. /\ SameTurn(a, CountInside(a, l)) /\ SameSide(a, CountInside(a, l))
      /\ SameBend(a, CountInside(a, l)) /\ SameBox(a, CountInside(a, l))
  BY <1>3 DEF Alignments, SameTurn, SameSide, SameBend, SameBox
<1> QED
  BY <1>4, <1>5 DEF n

\* The stay in the wide box goes on, begins, or is over.
Stays(a, b, l) ==
    /\ l.box # "outside" /\ b.fallback /\ b.dwell = a.dwell
    /\ \/ sight' = "fresh" /\ b.filled = 0
       \/ sight' # "fresh" /\ a.fallback /\ a.filled < Grace /\ b.filled = a.filled + 1

LEMMA BoxFields ==
    ASSUME NEW a \in Alignments, NEW l \in Lines
    PROVE  LET b == StayInBox(a, l) IN
           /\ b \in Alignments
           /\ SameTurn(a, b) /\ SameSide(a, b) /\ SameBend(a, b)
           /\ b.inside = a.inside /\ b.control = a.control
           /\ NoBox(b) \/ Stays(a, b, l)
<1>1. 0 \in 0 .. Grace /\ 0 \in 0 .. FallbackTime /\ Grace \in Nat
      /\ a.filled \in 0 .. Grace /\ a.dwell \in 0 .. FallbackTime
  BY Counts DEF Alignments
<1>2. CASE l.box # "outside" /\ sight' = "fresh"
  <2>1. StayInBox(a, l) = [ a EXCEPT !.fallback = TRUE, !.filled = 0 ]
    BY <1>2 DEF StayInBox
  <2> QED
    BY <1>1, <1>2, <2>1 DEF Alignments, SameTurn, SameSide, SameBend, Stays
<1>3. CASE l.box # "outside" /\ sight' # "fresh" /\ a.fallback /\ a.filled < Grace
  <2>1. StayInBox(a, l) = [ a EXCEPT !.filled = @ + 1 ]
    BY <1>3 DEF StayInBox
  <2>2. a.filled + 1 \in 0 .. Grace
    BY <1>1, <1>3
  <2> QED
    BY <1>1, <1>3, <2>1, <2>2 DEF Alignments, SameTurn, SameSide, SameBend, Stays
<1>4. CASE l.box = "outside" \/ (sight' # "fresh" /\ ~(a.fallback /\ a.filled < Grace))
  <2>1. StayInBox(a, l) = LeaveBox(a)
    BY <1>4 DEF StayInBox
  <2> QED
    BY <1>1, <2>1 DEF LeaveBox, Alignments, SameTurn, SameSide, SameBend, NoBox
<1> QED
  BY <1>2, <1>3, <1>4

LEMMA WatchedFields ==
    ASSUME NEW a \in Alignments, NEW l \in Lines
    PROVE  LET b == Watched(a, l) IN
           /\ b \in Alignments
           /\ SameTurn(a, b) /\ SameBend(a, b) /\ b.control = a.control
           /\ b.near /\ a.near => SameSide(a, b)
           /\ b.inside = IF sight' = "fresh" /\ l.box = "strict"
                         THEN Least(a.inside + 1, ConfirmFrames) ELSE 0
           /\ NoBox(b) \/ Stays(a, b, l)
<1> DEFINE n == NearMode(a, l)
           c == CountInside(n, l)
           d == StayInBox(c, l)
<1>1. /\ n \in Alignments
      /\ SameTurn(a, n) /\ SameBend(a, n) /\ SameBox(a, n)
      /\ n.inside = a.inside /\ n.control = a.control
      /\ n.near /\ a.near => SameSide(a, n)
  BY NearFields
<1>2. /\ c \in Alignments
      /\ SameTurn(n, c) /\ SameSide(n, c) /\ SameBend(n, c) /\ SameBox(n, c)
      /\ c.control = n.control
      /\ c.inside = IF sight' = "fresh" /\ l.box = "strict"
                    THEN Least(n.inside + 1, ConfirmFrames) ELSE 0
  <2> HIDE DEF n
  <2> QED
    BY <1>1, CountFields
<1>3. /\ d \in Alignments
      /\ SameTurn(c, d) /\ SameSide(c, d) /\ SameBend(c, d)
      /\ d.inside = c.inside /\ d.control = c.control
      /\ NoBox(d) \/ Stays(c, d, l)
  <2> HIDE DEF c
  <2> QED
    BY <1>2, BoxFields
<1>4. Watched(a, l) = [ d EXCEPT !.lost = 0 ] /\ 0 \in 0 .. LostReset - 1
  BY Counts DEF Watched
<1> HIDE DEF n, c, d
<1> DEFINE w == Watched(a, l)
<1>5. /\ w \in Alignments
      /\ SameTurn(d, w) /\ SameSide(d, w) /\ SameBend(d, w) /\ SameBox(d, w)
      /\ w.inside = d.inside /\ w.control = d.control
  BY <1>3, <1>4 DEF Alignments, SameTurn, SameSide, SameBend, SameBox
<1> HIDE DEF w
<1>6. SameTurn(a, w) /\ SameBend(a, w) /\ w.control = a.control
  BY <1>1, <1>2, <1>3, <1>5 DEF SameTurn, SameBend
<1>7. w.near /\ a.near => SameSide(a, w)
  BY <1>1, <1>2, <1>3, <1>5 DEF SameSide
<1>8. w.inside = IF sight' = "fresh" /\ l.box = "strict"
                 THEN Least(a.inside + 1, ConfirmFrames) ELSE 0
  BY <1>1, <1>2, <1>3, <1>5
<1>9. NoBox(w) \/ Stays(a, w, l)
  BY <1>1, <1>2, <1>3, <1>5 DEF NoBox, Stays, SameBox
<1> QED
  BY <1>5, <1>6, <1>7, <1>8, <1>9 DEF w

\* The side that is kept afterwards: none, or that of the control given.
LEMMA KeepFields ==
    ASSUME NEW a \in Alignments, NEW c \in Controls
    PROVE  LET b == KeepSide(a, c)
               given == IF IsWithheld(a, c) THEN 0 ELSE c
           IN /\ b \in Alignments
              /\ SameTurn(a, b) /\ SameBend(a, b) /\ SameBox(a, b) /\ b.near = a.near
              /\ b.inside = a.inside /\ b.control = a.control
              /\ a.near => /\ given # 0 => Sign(given) = b.sign
                           /\ b.reversed > 0 => given = 0
              /\ ~a.near => SameSide(a, b)
<1>1. c \in Int /\ Sign(c) \in -1 .. 1 /\ ReverseFrames \in Nat /\ ReverseFrames > 1
      /\ a.reversed \in 0 .. ReverseFrames - 1 /\ a.pending \in -1 .. 1 /\ a.sign \in -1 .. 1
  BY Parameters, Counts DEF Controls, Sign, Alignments
<1>2. CASE ~a.near
  <2>1. KeepSide(a, c) = a
    BY <1>2 DEF KeepSide, IsWithheld, Reverses
  <2> QED
    BY <1>2, <2>1 DEF SameTurn, SameBend, SameBox, SameSide
<1>3. CASE a.near /\ IsWithheld(a, c)
  <2>1. KeepSide(a, c) = [ a EXCEPT !.pending = Sign(c), !.reversed = Repeats(a, c) ]
    BY <1>3 DEF KeepSide
  <2>2. Repeats(a, c) \in 0 .. ReverseFrames - 1
    BY <1>1, <1>3 DEF IsWithheld, Repeats, Least
  <2> QED
    BY <1>1, <1>3, <2>1, <2>2 DEF Alignments, SameTurn, SameBend, SameBox
<1>4. CASE a.near /\ ~IsWithheld(a, c)
  <2> DEFINE side == IF c = 0 THEN a.sign ELSE Sign(c)
  <2>1. KeepSide(a, c) = [ a EXCEPT !.pending = 0, !.reversed = 0, !.sign = side ]
    BY <1>4 DEF KeepSide
  <2>2. side \in -1 .. 1 /\ 0 \in -1 .. 1 /\ 0 \in 0 .. ReverseFrames - 1
        /\ (c # 0 => side = Sign(c))
    BY <1>1
  <2> HIDE DEF side
  <2>3. KeepSide(a, c) \in Alignments
    BY <2>1, <2>2 DEF Alignments
  <2>4. KeepSide(a, c).reversed = 0 /\ KeepSide(a, c).sign = side
        /\ KeepSide(a, c).near = a.near /\ KeepSide(a, c).inside = a.inside
        /\ KeepSide(a, c).control = a.control
    BY <2>1 DEF Alignments
  <2>5. SameTurn(a, KeepSide(a, c)) /\ SameBend(a, KeepSide(a, c)) /\ SameBox(a, KeepSide(a, c))
    BY <2>1 DEF Alignments, SameTurn, SameBend, SameBox
  <2> QED
    BY <1>4, <2>2, <2>3, <2>4, <2>5
<1> QED
  BY <1>2, <1>3, <1>4

\* A control given in the near mode keeps the side, unless its reversal has been
\* asked for before.
LEMMA GivenFields ==
    ASSUME NEW a \in Alignments, NEW c \in Controls, a.near
    PROVE  LET given == IF IsWithheld(a, c) THEN 0 ELSE c IN
           given = 0 \/ a.sign = 0 \/ Sign(given) = a.sign \/ a.reversed > 0
<1>1. a.reversed \in Nat /\ ReverseFrames \in Nat /\ ReverseFrames > 1
  BY Counts DEF Alignments
<1>2. CASE IsWithheld(a, c)
  BY <1>2
<1>3. CASE ~Reverses(a, c)
  <2>1. ~IsWithheld(a, c)
    BY <1>3 DEF IsWithheld
  <2> QED
    BY <1>3, <2>1 DEF Reverses
<1>4. CASE Reverses(a, c) /\ ~IsWithheld(a, c)
  <2>1. Repeats(a, c) >= ReverseFrames
    <3>1. Repeats(a, c) \in Nat
      BY <1>1 DEF Repeats, Least
    <3> QED
      BY <1>1, <1>4, <3>1 DEF IsWithheld
  <2>2. a.reversed + 1 > 1
    BY <1>1, <2>1 DEF Repeats, Least
  <2> QED
    BY <1>1, <2>2
<1> QED
  BY <1>2, <1>3, <1>4

\* A bend that counts is a steep fresh line, or one that has counted before.
LEMMA LearnFields ==
    ASSUME NEW a \in Alignments, NEW l \in Lines, NEW c \in Controls
    PROVE  LET b == Learn(a, l, c) IN
           /\ b \in Alignments
           /\ SameTurn(a, b) /\ SameSide(a, b) /\ SameBox(a, b)
           /\ b.inside = a.inside /\ b.control = a.control
           /\ sight' = "fresh" /\ b.reliable > 0 => l.heading >= TriggerAngle
           /\ sight' # "fresh" => b.reliable = a.reliable
           /\ b.reliable <= a.reliable + 1
<1>1. a.reliable \in 0 .. ReliableFrames /\ ReliableFrames \in Nat /\ ReliableFrames > 1
      /\ a.reference \in Controls /\ a.estimated \in 0 .. EstimatedFrames
      /\ EstimatedFrames \in Nat /\ 0 \in 0 .. EstimatedFrames /\ 0 \in Controls
  BY Parameters, Counts DEF Controls, Alignments
<1> DEFINE b == Learn(a, l, c)
           n == Least(a.reliable + 1, ReliableFrames)
           mean == IF n = 1 THEN c ELSE Quotient(a.reference * (n - 1) + c, n)
<1>2. n \in 1 .. ReliableFrames /\ n \in Nat \ {0} /\ n <= a.reliable + 1
  BY <1>1 DEF Least
<1>3. mean \in Controls
  <2> HIDE DEF n
  <2> QED
    BY <1>1, <1>2, MeanInRange
<1>4. IsBend(l, c) => sight' = "fresh" /\ l.heading >= TriggerAngle
  <2>1. l.heading \in Nat /\ FullAngle \in Nat /\ TriggerAngle \in Nat
    BY Parameters DEF Lines
  <2> QED
    BY <2>1 DEF IsBend, Least
<1>5. CASE IsBend(l, c) /\ IsStable(a, c)
  <2>1. Learn(a, l, c) = [ a EXCEPT !.reliable = n, !.estimated = 0, !.reference = mean ]
    BY <1>5 DEF Learn
  <2> HIDE DEF n, mean
  <2> QED
    <3>1. b \in Alignments
      <4>1. n \in 0 .. ReliableFrames
        BY <1>2
      <4>2. 0 \in 0 .. EstimatedFrames
        BY <1>1
      <4> QED
        BY <1>3, <2>1, <4>1, <4>2 DEF Alignments
    <3>2. SameTurn(a, b) /\ SameSide(a, b) /\ SameBox(a, b)
          /\ b.inside = a.inside /\ b.control = a.control /\ b.reliable = n
      BY <2>1 DEF Alignments, SameTurn, SameSide, SameBox
    <3> QED
      BY <1>1, <1>2, <1>4, <1>5, <3>1, <3>2
<1>6. CASE IsBend(l, c) /\ ~IsStable(a, c)
  <2>1. Learn(a, l, c) = [ a EXCEPT !.reliable = 1, !.estimated = 0, !.reference = c ]
    BY <1>6 DEF Learn
  <2>2. 1 \in 0 .. ReliableFrames
    BY <1>1
  <2> QED
    <3>1. b \in Alignments
      BY <1>1, <2>1, <2>2 DEF Alignments
    <3>2. SameTurn(a, b) /\ SameSide(a, b) /\ SameBox(a, b)
          /\ b.inside = a.inside /\ b.control = a.control /\ b.reliable = 1
      BY <2>1 DEF Alignments, SameTurn, SameSide, SameBox
    <3> QED
      BY <1>1, <1>4, <1>6, <3>1, <3>2
<1>7. CASE ~IsBend(l, c) /\ sight' = "fresh"
  <2>1. Learn(a, l, c) = Forget(a)
    BY <1>7 DEF Learn
  <2>2. 0 \in 0 .. ReliableFrames
    BY <1>1
  <2> QED
    <3>1. b \in Alignments
      BY <1>1, <2>1, <2>2 DEF Forget, Alignments
    <3>2. SameTurn(a, b) /\ SameSide(a, b) /\ SameBox(a, b)
          /\ b.inside = a.inside /\ b.control = a.control /\ b.reliable = 0
      BY <2>1 DEF Forget, Alignments, SameTurn, SameSide, SameBox
    <3> QED
      BY <1>1, <1>7, <3>1, <3>2
<1>8. CASE ~IsBend(l, c) /\ sight' # "fresh"
  <2>1. \/ Learn(a, l, c) = a
        \/ Learn(a, l, c) = [ a EXCEPT !.estimated = Least(@ + 1, EstimatedFrames) ]
    BY <1>8 DEF Learn
  <2>2. Least(a.estimated + 1, EstimatedFrames) \in 0 .. EstimatedFrames
    BY <1>1 DEF Least
  <2> QED
    BY <1>1, <1>8, <2>1, <2>2 DEF Alignments, SameTurn, SameSide, SameBox
<1> QED
  BY <1>5, <1>6, <1>7, <1>8

-----------------------------------------------------------------------------
(* Requests and history                                                     *)

LEMMA AskFields ==
    ASSUME NEW r \in Requests
    PROVE  LET q == Ask(r) IN
           /\ q \in Requests
           /\ q.seen <=> answer'.phase = "BLIND_TURN"
           /\ answer'.phase # "BLIND_TURN" => ~q.force
           /\ answer'.phase = "BLIND_TURN" => (q.force <=> IF r.seen THEN r.force ELSE r.steep)
           /\ q.steep = r.steep
<1> DEFINE q == Ask(r)
<1>1. 0 \in 0 .. ReleaseFrames - 1 /\ 0 \in 0 .. ReleaseTime
  BY Counts
<1>2. CASE answer'.phase # "BLIND_TURN"
  <2>1. q = [ r EXCEPT !.seen = FALSE, !.force = FALSE ]
    BY <1>2 DEF Ask
  <2> QED
    BY <1>2, <2>1 DEF Requests
<1>3. CASE answer'.phase = "BLIND_TURN" /\ ~r.seen /\ r.steep
  <2>1. q = [ r EXCEPT !.seen = TRUE, !.force = TRUE, !.monitor = TRUE, !.stable = 0, !.age = 0 ]
    BY <1>3 DEF Ask
  <2> QED
    BY <1>1, <1>3, <2>1 DEF Requests
<1>4. CASE answer'.phase = "BLIND_TURN" /\ ~r.seen /\ ~r.steep
  <2>1. q = [ r EXCEPT !.seen = TRUE, !.force = FALSE ]
    BY <1>4 DEF Ask
  <2> QED
    BY <1>4, <2>1 DEF Requests
<1>5. CASE answer'.phase = "BLIND_TURN" /\ r.seen
  <2>1. q = r
    BY <1>5 DEF Ask
  <2> QED
    BY <1>5, <2>1
<1>6. r.seen \in BOOLEAN /\ r.steep \in BOOLEAN
  BY DEF Requests
<1> QED
  BY <1>2, <1>3, <1>4, <1>5, <1>6

LEMMA WatchFields ==
    ASSUME NEW r \in Requests
    PROVE  LET q == Watch(r) IN
           q \in Requests /\ q.seen = r.seen /\ q.force = r.force /\ q.steep = r.steep
<1>1. /\ 0 \in 0 .. ReleaseFrames - 1 /\ 0 \in 0 .. ReleaseTime
      /\ r.stable \in Nat /\ ReleaseFrames \in Nat
      /\ (~(r.stable + 1 >= ReleaseFrames) => r.stable + 1 \in 0 .. ReleaseFrames - 1)
  BY Counts DEF Requests
<1>2. \/ Watch(r) = r
      \/ Watch(r) = [ r EXCEPT !.stable = 0 ]
      \/ Watch(r) = [ r EXCEPT !.release = TRUE, !.monitor = FALSE, !.stable = 0, !.age = 0 ]
      \/ ~(r.stable + 1 >= ReleaseFrames) /\ Watch(r) = [ r EXCEPT !.stable = @ + 1 ]
  BY DEF Watch
<1> QED
  BY <1>1, <1>2 DEF Requests

LEMMA RequestFields ==
    ASSUME request \in Requests, answer' \in Answers, MakeRequests
    PROVE  /\ request' \in Requests
           /\ request'.seen <=> answer'.phase = "BLIND_TURN"
           /\ answer'.phase # "BLIND_TURN" => ~request'.force
           /\ answer'.phase = "BLIND_TURN" =>
                 (request'.force <=> IF request.seen THEN request.force ELSE request.steep)
           /\ request'.steep <=> IF sight' = "fresh" /\ answer'.phase # "BLIND_TURN"
                                 THEN answer'.heading >= ForceAngle ELSE request.steep
<1> DEFINE n == Noted(request)
           a == Ask(n)
           w == Watch(a)
<1>1. /\ n \in Requests /\ n.seen = request.seen /\ n.force = request.force
      /\ n.steep = IF sight' = "fresh" /\ answer'.phase # "BLIND_TURN"
                   THEN answer'.heading >= ForceAngle ELSE request.steep
  <2> DEFINE fresh == IF sight' = "fresh" THEN Least(request.fresh + 1, FreshFrames) ELSE 0
             steep == IF sight' = "fresh" /\ answer'.phase # "BLIND_TURN"
                      THEN answer'.heading >= ForceAngle ELSE request.steep
  <2>1. n = [ request EXCEPT !.fresh = fresh, !.steep = steep ]
    BY DEF Noted
  <2>2. fresh \in 0 .. FreshFrames
    BY Counts DEF Requests, Least
  <2>3. steep \in BOOLEAN
    <3>1. request.steep \in BOOLEAN
      BY DEF Requests
    <3>2. answer'.heading \in Nat /\ ForceAngle \in Nat
      <4>1. answer'.heading \in Headings \union {0}
        BY DEF Answers
      <4>2. Headings \subseteq Nat /\ ForceAngle \in Nat
        BY Parameters
      <4>3. 0 \in Nat
        OBVIOUS
      <4> QED
        BY <4>1, <4>2, <4>3, Zenon
    <3>3. (answer'.heading >= ForceAngle) \in BOOLEAN
      BY <3>2
    <3> QED
      BY <3>1, <3>3, Zenon
  <2> HIDE DEF fresh, steep, n
  <2>4. n \in Requests /\ n.seen = request.seen /\ n.force = request.force /\ n.steep = steep
    BY <2>1, <2>2, <2>3 DEF Requests
  <2> QED
    BY <2>4 DEF steep
<1>2. /\ a \in Requests
      /\ a.seen <=> answer'.phase = "BLIND_TURN"
      /\ answer'.phase # "BLIND_TURN" => ~a.force
      /\ answer'.phase = "BLIND_TURN" => (a.force <=> IF n.seen THEN n.force ELSE n.steep)
      /\ a.steep = n.steep
  <2> HIDE DEF n
  <2> QED
    BY <1>1, AskFields
<1>3. w \in Requests /\ w.seen = a.seen /\ w.force = a.force /\ w.steep = a.steep
  <2> HIDE DEF a
  <2> QED
    BY <1>2, WatchFields
<1>4. request' = [ w EXCEPT !.release = FALSE ] \/ request' = w
  BY DEF MakeRequests
<1> HIDE DEF n, a, w
<1>5. request' \in Requests /\ request'.seen = w.seen /\ request'.force = w.force
      /\ request'.steep = w.steep
  BY <1>3, <1>4 DEF Requests
<1> QED
  BY <1>1, <1>2, <1>3, <1>5

LEMMA SeeFields ==
    ASSUME view \in Views, NEW l \in Lines, See(l)
    PROVE  /\ view' \in Views
           /\ view'.streak = IF sight' = "fresh" /\ l.box = "strict"
                             THEN Least(view.streak + 1, ConfirmFrames) ELSE 0
           /\ view'.since = IF l.box = "outside" \/ estimates' > Grace THEN 0 ELSE view.since
<1>1. view.streak \in 0 .. ConfirmFrames /\ view.since \in 0 .. FallbackTime
      /\ view.bends \in 0 .. ReliableFrames
  BY DEF Views
<1> DEFINE streak == IF sight' = "fresh" /\ l.box = "strict"
                     THEN Least(view.streak + 1, ConfirmFrames) ELSE 0
           since == IF l.box = "outside" \/ estimates' > Grace THEN 0 ELSE view.since
           bends ==
            CASE align'.phase # "TRACK" -> 0
              [] align'.phase = "TRACK" /\ IsSteepNow(l) ->
                   IF IsSteady THEN Least(view.bends + 1, ReliableFrames) ELSE 1
              [] OTHER -> IF sight' = "estimated" /\ view.bends >= ReliableFrames
                          THEN view.bends ELSE 0
<1>2. streak \in 0 .. ConfirmFrames /\ since \in 0 .. FallbackTime
  BY <1>1, Counts DEF Least
<1>3. bends \in 0 .. ReliableFrames
  <2>1. bends \in {0, 1, Least(view.bends + 1, ReliableFrames), view.bends}
    OBVIOUS
  <2>2. {0, 1, Least(view.bends + 1, ReliableFrames), view.bends} \subseteq 0 .. ReliableFrames
    BY <1>1, Counts DEF Least
  <2> HIDE DEF bends
  <2> QED
    BY <2>1, <2>2
<1>4. view' = [ streak |-> streak, since |-> since, bends |-> bends ]
  BY DEF See
<1> HIDE DEF bends
<1>5. view' \in Views /\ view'.streak = streak /\ view'.since = since
  BY <1>2, <1>3, <1>4 DEF Views
<1> QED
  BY <1>5

-----------------------------------------------------------------------------
(* A frame                                                                  *)

\* What the update of a frame does to the invariants, whatever the main loop
\* makes of it: a blind turn goes on with its request or begins after a bend.
Updated ==
    /\ align' \in Alignments /\ answer' \in Answers /\ view' \in Views
    /\ answer'.phase = "BLIND_TURN" <=> align'.phase = "BLIND_TURN"
    /\ align'.phase = "BLIND_TURN" =>
          /\ align'.blind # 0 /\ answer'.control = align'.blind
          /\ (request.seen /\ request.force) \/ (~request.seen /\ request.steep)
    /\ align'.phase = "TRACK" /\ align'.reliable > 0 =>
          IF sight' = "fresh" THEN answer'.heading >= ForceAngle ELSE request.steep
    /\ Confirmed' /\ OnOneSide'

\* What the step itself may do: a blind turn that goes on is the same one, the
\* completion is confirmed, and near the target the control keeps its side.
Moved ==
    /\ align'.phase = "BLIND_TURN" /\ request.seen => SameTurn(align, align')
    /\ align.phase # "COMPLETE" /\ align'.phase = "COMPLETE" =>
          view'.streak >= ConfirmFrames \/ view'.since >= FallbackTime
    /\ align.near /\ align'.near => Sign(align.control) * Sign(align'.control) # -1

LEMMA AnswerFields ==
    /\ NoAnswer \in Answers
    /\ "TRACK" \in Phases /\ "BLIND_TURN" \in Phases /\ "COMPLETE" \in Phases
    /\ NoAnswer.phase = "TRACK"
<1>1. 0 \in Controls /\ "TRACK" \in Phases /\ 0 \in Headings \union {0}
  BY Parameters DEF Controls, Phases
<1>2. "BLIND_TURN" \in Phases /\ "COMPLETE" \in Phases
  BY DEF Phases
<1> QED
  BY <1>1, <1>2 DEF NoAnswer, Answers

LEMMA InvariantFields ==
    ASSUME IInv
    PROVE  /\ align \in Alignments /\ answer \in Answers /\ request \in Requests /\ view \in Views
           /\ align.phase \in Phases /\ align.blind \in Controls /\ align.control \in Controls
           /\ align.inside \in Nat /\ align.dwell \in Nat /\ align.filled \in Nat
           /\ align.reliable \in Nat /\ align.fallback \in BOOLEAN
           /\ view.streak \in Nat /\ view.since \in Nat /\ estimates \in Nat
           /\ detect.lost \in Nat /\ detect.single \in Nat
           /\ align.phase = "BLIND_TURN" \/ align.phase = "TRACK" \/ align.phase = "COMPLETE"
BY Counts DEF IInv, TypeOK, Alignments, Views, DetectType, Phases

LEMMA IgnoreFields ==
    ASSUME view \in Views, Ignore
    PROVE  view' \in Views /\ view'.streak = view.streak /\ view'.since = 0
<1>1. 0 \in 0 .. FallbackTime /\ 0 \in 0 .. ReliableFrames
  BY Counts
<1> QED
  BY <1>1 DEF Ignore, Views

LEMMA OverlookFields ==
    ASSUME Overlook
    PROVE  view' \in Views /\ view'.streak = 0 /\ view'.since = 0
BY Counts DEF Overlook, NothingSeen, Views

LEMMA CompletedFrame ==
    ASSUME IInv, Confirmed, Completed, Ignore
    PROVE  Updated /\ Moved
<1>1. align.phase = "COMPLETE" /\ align' = align /\ align \in Alignments
  BY InvariantFields DEF Completed
<1>2. answer' \in Answers /\ answer'.phase = "COMPLETE"
  BY <1>1, AnswerFields DEF Completed, Answers
<1>3. view' \in Views
  BY InvariantFields, IgnoreFields
<1>4. Moved
  <2>1. align.control \in Int
    BY Parameters, InvariantFields DEF Controls
  <2>2. Sign(align.control) * Sign(align.control) # -1
    BY <2>1, Signs
  <2> QED
    BY <1>1, <2>2 DEF Moved
<1> QED
  BY <1>1, <1>2, <1>3, <1>4 DEF Updated, IInv, Confirmed, OnOneSide

LEMMA TurningFrame ==
    ASSUME IInv, Confirmed, Turning, Ignore
    PROVE  Updated /\ Moved
<1>1. /\ align.phase = "BLIND_TURN" /\ align \in Alignments
      /\ align' = LeaveBox(LeaveNear(align))
  BY InvariantFields DEF Turning, StillTurning
<1>2. /\ align' \in Alignments /\ SameTurn(align, align') /\ NoSide(align') /\ NoBox(align')
      /\ align'.inside = align.inside
  BY <1>1, LeaveFields
<1>3. answer' \in Answers /\ answer'.phase = "BLIND_TURN" /\ answer'.control = align.blind
  <2>1. align.blind \in Controls
    BY InvariantFields
  <2> QED
    BY <2>1, AnswerFields DEF Turning, Answers
<1>4. view' \in Views /\ view'.streak = view.streak
  BY InvariantFields, IgnoreFields
<1>5. request.seen /\ request.force /\ align.blind # 0
  BY <1>1 DEF IInv, Requested
<1>6. Confirmed'
  BY <1>1, <1>2, <1>4 DEF Confirmed, IInv, NoBox
<1>7. OnOneSide'
  BY <1>2 DEF OnOneSide, NoSide
<1>8. Moved
  BY <1>1, <1>2 DEF Moved, NoSide, SameTurn
<1> QED
  BY <1>1, <1>2, <1>3, <1>4, <1>5, <1>6, <1>7, <1>8 DEF Updated, SameTurn

\* The state that the frame is looked at with.
LEMMA ResumedFields ==
    ASSUME IInv, Confirmed, Looks
    PROVE  /\ Resumed \in Alignments /\ Resumed.phase = "TRACK"
           /\ Resumed.inside = align.inside
           /\ \/ align.phase = "TRACK" /\ Resumed = align
              \/ /\ align.phase = "BLIND_TURN" /\ Resumed.reliable = 0 /\ Resumed.control = 0
                 /\ NoSide(Resumed) /\ NoBox(Resumed)
           /\ Resumed.reliable > 0 => ~request.seen /\ request.steep
           /\ Resumed.dwell \in Nat /\ Resumed.dwell <= view.since
           /\ Resumed.fallback => Resumed.filled \in Nat /\ estimates <= Resumed.filled
<1>1. align.phase = "BLIND_TURN" \/ align.phase = "TRACK"
  BY InvariantFields DEF Looks
<1>2. CASE align.phase = "TRACK"
  <2>1. Resumed = align
    BY <1>2 DEF Resumed
  <2>2. align.reliable > 0 => ~request.seen /\ request.steep
    BY <1>2 DEF IInv, Requested
  <2>3. align.dwell <= view.since /\ (align.fallback => estimates <= align.filled)
    BY <1>2, InvariantFields DEF IInv, Confirmed
  <2> QED
    BY <1>2, <2>1, <2>2, <2>3, InvariantFields
<1>3. CASE align.phase = "BLIND_TURN"
  <2>1. Resumed = EndTurn(align) /\ align \in Alignments
    BY <1>3, InvariantFields DEF Resumed
  <2>2. /\ Resumed \in Alignments /\ Resumed.phase = "TRACK" /\ Resumed.reliable = 0
        /\ Resumed.control = 0
        /\ NoSide(Resumed) /\ NoBox(Resumed) /\ Resumed.inside = align.inside
    BY <2>1, EndFields
  <2> QED
    BY <1>3, <2>2, InvariantFields DEF NoBox
<1> QED
  BY <1>1, <1>2, <1>3

LEMMA UnseenFields ==
    ASSUME IInv, Confirmed, Looks
    PROVE  /\ Unseen \in Alignments /\ Unseen.phase = "TRACK" /\ Unseen.inside = 0
           /\ Unseen.reliable > 0 => ~request.seen /\ request.steep
           /\ NoSide(Unseen) /\ NoBox(Unseen)
           /\ Unseen.lost \in Nat
<1> DEFINE c == LeaveBox(LeaveNear(Resumed))
<1>1. /\ Resumed \in Alignments /\ Resumed.phase = "TRACK"
      /\ Resumed.reliable > 0 => ~request.seen /\ request.steep
  BY ResumedFields
<1>2. /\ c \in Alignments /\ SameTurn(Resumed, c) /\ SameBend(Resumed, c) /\ NoSide(c) /\ NoBox(c)
  BY <1>1, LeaveFields
<1>3. Unseen = [ c EXCEPT !.inside = 0 ] /\ 0 \in 0 .. ConfirmFrames
  BY Counts DEF Unseen
<1> HIDE DEF c
<1>4. /\ Unseen \in Alignments /\ SameTurn(c, Unseen) /\ SameBend(c, Unseen)
      /\ NoSide(Unseen) /\ NoBox(Unseen) /\ Unseen.inside = 0
  BY <1>2, <1>3 DEF Alignments, SameTurn, SameBend, NoSide, NoBox
<1>5. Unseen.lost \in Nat
  BY <1>4, Counts DEF Alignments
<1> QED
  BY <1>1, <1>2, <1>4, <1>5 DEF SameTurn, SameBend

LEMMA LoseInBendFrame ==
    ASSUME IInv, Confirmed, LoseInBend, Overlook
    PROVE  Updated /\ Moved
<1>1. /\ Looks /\ Unseen \in Alignments /\ Unseen.inside = 0
      /\ ~request.seen /\ request.steep
  <2>1. Unseen.reliable > 0
    BY Counts, UnseenFields DEF LoseInBend, KnowsBend, Alignments
  <2> QED
    BY <2>1, UnseenFields DEF LoseInBend
<1>2. align' = BeginTurn(Unseen)
  BY DEF LoseInBend
<1>3. /\ align' \in Alignments /\ align'.phase = "BLIND_TURN" /\ align'.blind # 0
      /\ align'.blind \in Controls /\ NoSide(align') /\ NoBox(align') /\ align'.inside = 0
  <2> HIDE DEF Unseen
  <2> QED
    BY <1>1, <1>2, BeginFields
<1>4. answer' \in Answers /\ answer'.phase = "BLIND_TURN" /\ answer'.control = align'.blind
  <2>1. answer' = [ NoAnswer EXCEPT !.updated = TRUE, !.valid = TRUE,
                                    !.phase = "BLIND_TURN", !.control = align'.blind ]
    BY DEF LoseInBend
  <2> QED
    BY <1>3, <2>1, AnswerFields DEF Answers
<1>5. view' \in Views /\ view'.streak = 0
  BY OverlookFields
<1>6. Confirmed' /\ OnOneSide'
  BY <1>3, <1>5 DEF Confirmed, OnOneSide, NoSide, NoBox
<1>7. Moved
  BY <1>1, <1>3 DEF Moved, NoSide
<1> QED
  BY <1>1, <1>3, <1>4, <1>5, <1>6, <1>7 DEF Updated

LEMMA LoseFrame ==
    ASSUME IInv, Confirmed, Lose, Overlook
    PROVE  Updated /\ Moved
<1>1. /\ Looks /\ sight' = "none"
      /\ Unseen \in Alignments /\ Unseen.phase = "TRACK" /\ Unseen.inside = 0
      /\ Unseen.reliable > 0 => ~request.seen /\ request.steep
      /\ NoSide(Unseen) /\ NoBox(Unseen) /\ Unseen.lost \in Nat
  BY UnseenFields DEF Lose
<1>2. /\ align' \in Alignments /\ align'.phase = "TRACK" /\ align'.inside = 0
      /\ align'.reliable > 0 => request.steep
      /\ NoSide(align') /\ NoBox(align')
  <2>1. CASE align' = Reset
    BY <2>1, ResetFields
  <2>2. CASE /\ ~(Unseen.lost + 1 >= LostReset)
             /\ align' = [ Unseen EXCEPT !.lost = @ + 1, !.filtered = FALSE, !.offset = 0 ]
    <3>1. Unseen.lost + 1 \in 0 .. LostReset - 1
      BY <1>1, <2>2, Counts
    <3>2. 0 \in Int /\ FALSE \in BOOLEAN
      OBVIOUS
    <3> DEFINE n == Unseen.lost + 1
    <3>3. align' = [ Unseen EXCEPT !.lost = n, !.filtered = FALSE, !.offset = 0 ]
      BY <2>2
    <3>4. n \in 0 .. LostReset - 1 /\ Unseen \in Alignments
      BY <1>1, <3>1
    <3> HIDE DEF n
    <3>5. align' \in Alignments
      BY <3>2, <3>3, <3>4 DEF Alignments
    <3>6. /\ align'.phase = Unseen.phase /\ align'.inside = Unseen.inside
          /\ align'.reliable = Unseen.reliable
      BY <3>3, <3>4 DEF Alignments
    <3>7. NoSide(align') /\ NoBox(align')
      BY <1>1, <3>3, <3>4 DEF Alignments, NoSide, NoBox
    <3> QED
      BY <1>1, <3>5, <3>6, <3>7
  <2> QED
    BY <2>1, <2>2 DEF Lose
<1>3. answer' \in Answers /\ answer'.phase = "TRACK"
  <2>1. answer' = [ NoAnswer EXCEPT !.valid = align.phase = "BLIND_TURN", !.phase = align'.phase ]
    BY DEF Lose
  <2>2. (align.phase = "BLIND_TURN") \in BOOLEAN
    OBVIOUS
  <2> QED
    BY <1>2, <2>1, <2>2, AnswerFields DEF Answers
<1>5. view' \in Views /\ view'.streak = 0
  BY OverlookFields
<1>6. Confirmed' /\ OnOneSide'
  BY <1>2, <1>5 DEF Confirmed, OnOneSide, NoSide, NoBox
<1>7. Moved
  BY <1>2 DEF Moved, NoSide
<1> QED
  BY <1>1, <1>2, <1>3, <1>5, <1>6, <1>7 DEF Updated

\* The stay in the wide box after a frame is not longer than what has been seen.
LEMMA StayIsSeen ==
    ASSUME IInv, Confirmed, Detect, Looks, NEW l \in Lines, See(l),
           NEW b \in Alignments, NoBox(b) \/ Stays(Resumed, b, l)
    PROVE  /\ b.fallback => b.dwell <= view'.since /\ estimates' <= b.filled
           /\ ~b.fallback => b.dwell = 0
<1>1. CASE NoBox(b)
  BY <1>1 DEF NoBox
<1>2. CASE Stays(Resumed, b, l)
  <2>1. /\ l.box # "outside" /\ b.fallback /\ b.dwell = Resumed.dwell
        /\ Resumed.dwell <= view.since
    BY <1>2, ResumedFields DEF Stays
  <2>2. estimates' <= b.filled /\ estimates' <= Grace
    <3>1. CASE sight' = "fresh" /\ b.filled = 0
      BY <3>1, Counts DEF Detect
    <3>2. CASE /\ sight' # "fresh" /\ Resumed.fallback /\ Resumed.filled < Grace
               /\ b.filled = Resumed.filled + 1
      <4>1. Resumed.filled \in Nat /\ estimates <= Resumed.filled /\ estimates \in Nat
        BY <3>2, ResumedFields, InvariantFields
      <4>2. estimates' = estimates + 1 \/ estimates' = 0
        BY DEF Detect
      <4>3. Grace \in Nat
        BY Counts
      <4> QED
        BY <3>2, <4>1, <4>2, <4>3
    <3> QED
      BY <1>2, <3>1, <3>2 DEF Stays
  <2>3. estimates' \in Nat
    BY InvariantFields DEF Detect
  <2>4. ~(l.box = "outside" \/ estimates' > Grace)
    BY <2>1, <2>2, <2>3, Counts
  <2>5. view'.since = view.since
    BY <2>4, InvariantFields, SeeFields
  <2> QED
    BY <2>1, <2>2, <2>5
<1> QED
  BY <1>1, <1>2

LEMMA InsideIsSeen ==
    ASSUME IInv, Confirmed, Looks, NEW l \in Lines, See(l), NEW n,
           n = IF sight' = "fresh" /\ l.box = "strict"
               THEN Least(Resumed.inside + 1, ConfirmFrames) ELSE 0
    PROVE  n <= view'.streak
<1>1. align.inside \in Nat /\ view.streak \in Nat /\ align.inside <= view.streak
  BY InvariantFields DEF IInv, Confirmed, Looks
<1>2. Resumed.inside = align.inside
  BY ResumedFields
<1>3. view'.streak = IF sight' = "fresh" /\ l.box = "strict"
                     THEN Least(view.streak + 1, ConfirmFrames) ELSE 0
  BY InvariantFields, SeeFields
<1> QED
  BY <1>1, <1>2, <1>3, Counts DEF Least

LEMMA ConfirmFrame ==
    ASSUME IInv, Confirmed, Detect, Looks, NEW l \in Lines, See(l),
           IsConfirmed(Watched(Resumed, l), l), Confirm(Watched(Resumed, l))
    PROVE  Updated /\ Moved
<1> DEFINE a == Watched(Resumed, l)
<1>1. /\ a \in Alignments
      /\ a.inside = IF sight' = "fresh" /\ l.box = "strict"
                    THEN Least(Resumed.inside + 1, ConfirmFrames) ELSE 0
      /\ NoBox(a) \/ Stays(Resumed, a, l)
  BY ResumedFields, WatchedFields
<1>8. view'.streak >= ConfirmFrames \/ view'.since >= FallbackTime
  <2> HIDE DEF a
  <2>1. /\ a.inside \in Nat /\ a.dwell \in Nat /\ view'.streak \in Nat /\ view'.since \in Nat
        /\ ConfirmFrames \in Nat /\ FallbackTime \in Nat /\ FallbackTime > 0
    <3>1. view' \in Views
      BY InvariantFields, SeeFields
    <3> QED
      BY <1>1, <3>1, Counts DEF Alignments, Views
  <2>2. CASE a.inside >= ConfirmFrames
    <3>1. a.inside <= view'.streak
      BY <1>1, InsideIsSeen
    <3> QED
      BY <2>1, <2>2, <3>1
  <2>3. CASE a.dwell >= FallbackTime
    <3>1. (a.fallback => a.dwell <= view'.since) /\ (~a.fallback => a.dwell = 0)
      BY <1>1, StayIsSeen
    <3>2. a.dwell <= view'.since
      BY <2>1, <2>3, <3>1
    <3> QED
      BY <2>1, <2>3, <3>2
  <2> QED
    BY <2>2, <2>3 DEF IsConfirmed, a
<1>2. 0 \in Int /\ 0 \in Controls
  BY Parameters DEF Controls
<1>3. /\ align' = [ a EXCEPT !.phase = "COMPLETE", !.offset = 0, !.control = 0 ]
      /\ answer' = [ NoAnswer EXCEPT !.updated = TRUE, !.valid = TRUE, !.aligned = TRUE,
                                     !.phase = "COMPLETE" ]
  BY DEF Confirm
<1> HIDE DEF a
<1>4. align' \in Alignments /\ align'.phase = "COMPLETE" /\ align'.control = 0
  BY <1>1, <1>2, <1>3, AnswerFields DEF Alignments
<1>5. answer' \in Answers /\ answer'.phase = "COMPLETE"
  BY <1>3, AnswerFields DEF Answers
<1>6. view' \in Views
  BY InvariantFields, SeeFields
<1>7. Confirmed' /\ OnOneSide'
  BY <1>4 DEF Confirmed, OnOneSide
<1>9. Moved
  <2>1. align.control \in Int
    BY Parameters, InvariantFields DEF Controls
  <2>2. Sign(align.control) * Sign(align'.control) # -1
    BY <1>4, <2>1, Signs
  <2> QED
    BY <1>4, <1>8, <2>2 DEF Moved
<1> QED
  BY <1>4, <1>5, <1>6, <1>7, <1>9 DEF Updated

\* What is steered by: the watched state with the side kept and the bend learnt.
LEMMA SteeredFields ==
    ASSUME NEW a \in Alignments, NEW l \in Lines, NEW offset \in Int, NEW asked \in Controls
    PROVE  LET given == IF IsWithheld(a, asked) THEN 0 ELSE asked
               b == Learn([ KeepSide(a, asked) EXCEPT !.filtered = TRUE, !.offset = offset ],
                          l, given)
           IN /\ given \in Controls
              /\ b \in Alignments
              /\ b.phase = a.phase /\ SameBox(a, b) /\ b.inside = a.inside /\ b.near = a.near
              /\ a.near => /\ given # 0 => Sign(given) = b.sign
                           /\ b.reversed > 0 => given = 0
              /\ sight' = "fresh" /\ b.reliable > 0 => l.heading >= TriggerAngle
              /\ sight' # "fresh" => b.reliable = a.reliable
              /\ b.reliable <= a.reliable + 1
<1> DEFINE given == IF IsWithheld(a, asked) THEN 0 ELSE asked
           k == KeepSide(a, asked)
           m == [ k EXCEPT !.filtered = TRUE, !.offset = offset ]
           b == Learn(m, l, given)
<1>1. given \in Controls
  BY Parameters DEF Controls
<1>2. /\ k \in Alignments
      /\ SameTurn(a, k) /\ SameBend(a, k) /\ SameBox(a, k) /\ k.near = a.near
      /\ k.inside = a.inside
      /\ a.near => /\ given # 0 => Sign(given) = k.sign
                   /\ k.reversed > 0 => given = 0
  BY KeepFields
<1> HIDE DEF given, k
<1>3. /\ m \in Alignments
      /\ SameTurn(k, m) /\ SameSide(k, m) /\ SameBend(k, m) /\ SameBox(k, m)
      /\ m.inside = k.inside
  BY <1>2 DEF Alignments, SameTurn, SameSide, SameBend, SameBox
<1> HIDE DEF m
<1>4. /\ b \in Alignments
      /\ SameTurn(m, b) /\ SameSide(m, b) /\ SameBox(m, b)
      /\ b.inside = m.inside
      /\ sight' = "fresh" /\ b.reliable > 0 => l.heading >= TriggerAngle
      /\ sight' # "fresh" => b.reliable = m.reliable
      /\ b.reliable <= m.reliable + 1
  BY <1>1, <1>3, LearnFields
<1> HIDE DEF b
<1>5. b.phase = a.phase /\ SameBox(a, b) /\ b.inside = a.inside /\ b.near = a.near
  BY <1>2, <1>3, <1>4 DEF SameTurn, SameSide, SameBox
<1>6. m.reliable = a.reliable /\ b.sign = k.sign /\ b.reversed = k.reversed
  BY <1>2, <1>3, <1>4 DEF SameSide, SameBend
<1>7. /\ given \in Controls
      /\ b \in Alignments
      /\ b.phase = a.phase /\ SameBox(a, b) /\ b.inside = a.inside /\ b.near = a.near
      /\ a.near => /\ given # 0 => Sign(given) = b.sign
                   /\ b.reversed > 0 => given = 0
      /\ sight' = "fresh" /\ b.reliable > 0 => l.heading >= TriggerAngle
      /\ sight' # "fresh" => b.reliable = a.reliable
      /\ b.reliable <= a.reliable + 1
  BY <1>1, <1>2, <1>4, <1>5, <1>6
<1> QED
  BY <1>7 DEF given, k, m, b

LEMMA SteerFrame ==
    ASSUME IInv, Confirmed, Detect, Looks, NEW l \in Lines, See(l), Steer(Watched(Resumed, l), l)
    PROVE  Updated /\ Moved
<1> DEFINE a == Watched(Resumed, l)
           offset == NextOffset(a, l)
           asked == ControlOf(a, offset)
           given == IF IsWithheld(a, asked) THEN 0 ELSE asked
           b == Learn([ KeepSide(a, asked) EXCEPT !.filtered = TRUE, !.offset = offset ],
                      l, given)
           turn == BeginTurn(b)
           heading == IF sight' = "fresh" THEN l.heading ELSE 0
           seen == [ NoAnswer EXCEPT !.updated = TRUE, !.valid = TRUE, !.heading = heading ]
<1>0. \/ /\ MayLoseBend(b)
         /\ align' = [ turn EXCEPT !.control = turn.blind ]
         /\ answer' = [ seen EXCEPT !.phase = "BLIND_TURN", !.control = turn.blind ]
      \/ /\ align' = [ b EXCEPT !.control = given ]
         /\ answer' = [ seen EXCEPT !.control = given ]
  BY DEF Steer
<1>1. /\ Resumed \in Alignments /\ Resumed.phase = "TRACK"
      /\ Resumed.reliable > 0 => ~request.seen /\ request.steep
  BY ResumedFields
<1>2. /\ a \in Alignments /\ SameTurn(Resumed, a) /\ SameBend(Resumed, a)
      /\ a.inside = IF sight' = "fresh" /\ l.box = "strict"
                    THEN Least(Resumed.inside + 1, ConfirmFrames) ELSE 0
      /\ NoBox(a) \/ Stays(Resumed, a, l)
      /\ a.near /\ Resumed.near => SameSide(Resumed, a)
  BY <1>1, WatchedFields
<1>3. a.phase = "TRACK" /\ a.reliable = Resumed.reliable
  BY <1>1, <1>2 DEF SameTurn, SameBend
<1> HIDE DEF a
<1>4. offset \in Int /\ asked \in Controls
  BY <1>2, OffsetIsInteger, ControlInRange
<1> HIDE DEF offset, asked
<1>5. /\ given \in Controls
      /\ b \in Alignments
      /\ b.phase = a.phase /\ SameBox(a, b) /\ b.inside = a.inside /\ b.near = a.near
      /\ a.near => /\ given # 0 => Sign(given) = b.sign
                   /\ b.reversed > 0 => given = 0
      /\ sight' = "fresh" /\ b.reliable > 0 => l.heading >= TriggerAngle
      /\ sight' # "fresh" => b.reliable = a.reliable
      /\ b.reliable <= a.reliable + 1
  BY <1>2, <1>4, SteeredFields
<1>12. a.near => given = 0 \/ a.sign = 0 \/ Sign(given) = a.sign \/ a.reversed > 0
  BY <1>2, <1>4, GivenFields
<1> HIDE DEF given, b
<1>6. heading \in Headings \union {0}
  BY DEF Lines
<1>7. view' \in Views /\ a.inside <= view'.streak
  BY <1>2, InsideIsSeen, SeeFields, InvariantFields
<1>8. /\ b.fallback => b.dwell <= view'.since /\ estimates' <= b.filled
      /\ ~b.fallback => b.dwell = 0
  <2>1. NoBox(b) \/ Stays(Resumed, b, l)
    BY <1>2, <1>5 DEF NoBox, Stays, SameBox
  <2> QED
    BY <1>5, <2>1, StayIsSeen
<1> HIDE DEF heading
<1>9. seen \in Answers /\ seen.heading = heading /\ seen.phase = "TRACK"
  BY <1>6, AnswerFields DEF Answers
<1> HIDE DEF seen
<1>10. CASE /\ MayLoseBend(b)
            /\ align' = [ turn EXCEPT !.control = turn.blind ]
            /\ answer' = [ seen EXCEPT !.phase = "BLIND_TURN", !.control = turn.blind ]
  <2>1. /\ turn \in Alignments /\ turn.phase = "BLIND_TURN" /\ turn.blind # 0
        /\ turn.blind \in Controls /\ NoSide(turn) /\ NoBox(turn) /\ turn.inside = b.inside
    BY <1>5, BeginFields
  <2>2. ~request.seen /\ request.steep
    <3>1. b.reliable > 1 /\ a.reliable \in Nat /\ b.reliable \in Nat
      BY <1>2, <1>5, <1>10, Counts DEF MayLoseBend, Alignments
    <3>2. Resumed.reliable > 0
      BY <1>3, <1>5, <3>1
    <3> QED
      BY <1>1, <3>2
  <2> HIDE DEF turn
  <2>3. /\ align' \in Alignments /\ align'.phase = "BLIND_TURN" /\ align'.blind = turn.blind
        /\ align'.inside = b.inside
    BY <1>10, <2>1 DEF Alignments
  <2>4. NoSide(align') /\ NoBox(align')
    BY <1>10, <2>1 DEF Alignments, NoSide, NoBox
  <2>5. answer' \in Answers /\ answer'.phase = "BLIND_TURN" /\ answer'.control = turn.blind
    BY <1>9, <1>10, <2>1, AnswerFields DEF Answers
  <2>6. Confirmed' /\ OnOneSide'
    BY <1>5, <1>7, <2>3, <2>4 DEF Confirmed, OnOneSide, NoSide, NoBox
  <2>7. Moved
    BY <2>2, <2>3, <2>4 DEF Moved, NoSide
  <2> QED
    BY <1>7, <2>1, <2>2, <2>3, <2>4, <2>5, <2>6, <2>7 DEF Updated
<1>11. CASE /\ align' = [ b EXCEPT !.control = given ]
            /\ answer' = [ seen EXCEPT !.control = given ]
  <2>1. align' \in Alignments
    BY <1>5, <1>11 DEF Alignments
  <2>2. /\ align'.phase = "TRACK" /\ align'.inside = a.inside /\ align'.reliable = b.reliable
        /\ align'.near = a.near /\ align'.sign = b.sign /\ align'.reversed = b.reversed
        /\ align'.control = given
    BY <1>3, <1>5, <1>11 DEF Alignments
  <2>3. SameBox(b, align')
    BY <1>5, <1>11 DEF Alignments, SameBox
  <2>4. answer' \in Answers /\ answer'.phase = "TRACK" /\ answer'.heading = heading
    BY <1>5, <1>9, <1>11 DEF Answers
  <2>5. b.reliable > 0 =>
           IF sight' = "fresh" THEN answer'.heading >= ForceAngle ELSE request.steep
    <3>1. CASE sight' = "fresh"
      <4>1. answer'.heading = l.heading
        BY <2>4, <3>1 DEF heading
      <4>2. l.heading \in Nat /\ TriggerAngle \in Nat /\ ForceAngle \in Nat /\ ForceAngle <= TriggerAngle
        BY Parameters DEF Lines
      <4> QED
        BY <1>5, <3>1, <4>1, <4>2
    <3>2. CASE sight' # "fresh"
      BY <1>1, <1>3, <1>5, <3>2
    <3> QED
      BY <3>1, <3>2
  <2>6. Confirmed'
    BY <1>7, <1>8, <2>2, <2>3 DEF Confirmed, SameBox
  <2>7. OnOneSide'
    BY <1>5, <2>2 DEF OnOneSide
  <2>8. ASSUME align.near, align'.near
        PROVE  Sign(align.control) * Sign(align'.control) # -1
    <3>1. Resumed = align
      BY <2>8, ResumedFields DEF IInv, OnOneSide
    <3>2. a.near /\ a.sign = align.sign /\ a.reversed = align.reversed
      BY <1>2, <2>2, <2>8, <3>1 DEF SameSide
    <3>3. /\ align.control # 0 => Sign(align.control) = align.sign
          /\ align.reversed > 0 => align.control = 0
      BY <2>8 DEF IInv, OnOneSide
    <3>4. align.control \in Int /\ given \in Int
      BY <1>5, Parameters, InvariantFields DEF Controls
    <3>5. given = 0 \/ align.control = 0 \/ Sign(given) = Sign(align.control)
      BY <1>12, <3>2, <3>3, <3>4, Signs
    <3> QED
      BY <2>2, <3>4, <3>5, Signs
  <2>9. Moved
    BY <2>2, <2>8 DEF Moved
  <2> QED
    BY <1>7, <2>1, <2>2, <2>4, <2>5, <2>6, <2>7, <2>9 DEF Updated
<1> QED
  BY <1>0, <1>10, <1>11

-----------------------------------------------------------------------------
(* The invariant                                                            *)

LEMMA InitIInv == Init => IInv
<1> SUFFICES ASSUME Init PROVE IInv
  OBVIOUS
<1>1. align \in Alignments /\ align.phase = "TRACK" /\ align.inside = 0 /\ align.reliable = 0
      /\ NoSide(align) /\ NoBox(align)
  BY ResetFields DEF Init
<1>2. answer \in Answers
  BY AnswerFields DEF Init
<1>3. request \in Requests /\ ~request.seen /\ ~request.force
  BY Counts DEF Init, NoRequest, Requests
<1>4. view \in Views /\ view.streak = 0 /\ view.since = 0
  BY Counts DEF Init, NothingSeen, Views
<1>5. DetectType /\ Counted
  <2>1. 0 \in 0 .. SingleHold /\ 0 \in 0 .. LostHold /\ LostHold \in Nat
    BY Counts
  <2>2. (SingleHold + 1) * LostHold \in Nat
    BY Counts
  <2>3. 0 \in 0 .. SingleHold + (SingleHold + 1) * LostHold
    BY <2>2, Counts
  <2>4. estimates = 0 /\ sight = "none" /\ detect = Blank
    BY DEF Init
  <2> QED
    BY <2>1, <2>3, <2>4 DEF DetectType, Counted, Blank, Sights
<1>6. Requested
  BY <1>1, <1>3 DEF Requested
<1>7. Confirmed /\ OnOneSide
  BY <1>1, <1>4 DEF Confirmed, OnOneSide, NoSide, NoBox
<1>8. stage \in Stages
  BY DEF Init, Stages
<1> QED
  BY <1>1, <1>2, <1>3, <1>4, <1>5, <1>6, <1>7, <1>8 DEF IInv, TypeOK

\* What a frame does, case by case.
LEMMA FrameUpdates ==
    ASSUME IInv, Frame
    PROVE  Updated /\ Moved
<1>1. Detect /\ Confirmed
  BY DEF Frame, IInv
<1>2. CASE Completed /\ Ignore
  BY <1>1, <1>2, CompletedFrame
<1>3. CASE Turning /\ Ignore
  BY <1>1, <1>3, TurningFrame
<1>4. CASE LoseInBend /\ Overlook
  BY <1>1, <1>4, LoseInBendFrame
<1>5. CASE Lose /\ Overlook
  BY <1>1, <1>5, LoseFrame
<1>6. CASE \E l \in Lines : Look(l) /\ See(l)
  <2>1. PICK l \in Lines : Look(l) /\ See(l)
    BY <1>6
  <2>2. Looks
    BY <2>1 DEF Look, Shows
  <2>3. \/ IsConfirmed(Watched(Resumed, l), l) /\ Confirm(Watched(Resumed, l))
        \/ Steer(Watched(Resumed, l), l)
    BY <2>1 DEF Look
  <2> QED
    BY <1>1, <2>1, <2>2, <2>3, ConfirmFrame, SteerFrame
<1> QED
  BY <1>2, <1>3, <1>4, <1>5, <1>6 DEF Frame

LEMMA FrameIInv == IInv /\ Frame => IInv'
<1> SUFFICES ASSUME IInv, Frame PROVE IInv'
  OBVIOUS
<1>1. Updated
  BY FrameUpdates
<1>2. DetectType' /\ Counted'
  BY DetectCounts DEF IInv, TypeOK, Frame
<1>3. answer' \in Answers /\ request \in Requests
  BY <1>1, InvariantFields DEF Updated
<1>4. /\ request' \in Requests
      /\ request'.seen <=> answer'.phase = "BLIND_TURN"
      /\ answer'.phase # "BLIND_TURN" => ~request'.force
      /\ answer'.phase = "BLIND_TURN" =>
            (request'.force <=> IF request.seen THEN request.force ELSE request.steep)
      /\ request'.steep <=> IF sight' = "fresh" /\ answer'.phase # "BLIND_TURN"
                            THEN answer'.heading >= ForceAngle ELSE request.steep
  BY <1>3, RequestFields DEF Frame
<1>5. TypeOK'
  BY <1>1, <1>2, <1>4 DEF Updated, TypeOK, Frame, IInv
<1>6. Requested'
  <2>1. /\ request'.seen <=> align'.phase = "BLIND_TURN"
        /\ request'.force => request'.seen
    BY <1>1, <1>4 DEF Updated
  <2>2. align'.phase = "BLIND_TURN" =>
           request'.force /\ align'.blind # 0 /\ answer'.control = align'.blind
    BY <1>1, <1>4 DEF Updated
  <2>3. align'.phase = "TRACK" /\ align'.reliable > 0 => request'.steep
    BY <1>1, <1>4 DEF Updated
  <2> QED
    BY <2>1, <2>2, <2>3 DEF Requested
<1> QED
  BY <1>1, <1>2, <1>5, <1>6 DEF IInv, Updated

\* Time goes on.
LEMMA TickFields ==
    ASSUME IInv, Tick
    PROVE  /\ align' \in Alignments /\ request' \in Requests /\ view' \in Views
           /\ align'.phase = align.phase /\ align'.blind = align.blind
           /\ SameSide(align, align') /\ SameBend(align, align')
           /\ align'.inside = align.inside /\ align'.control = align.control
           /\ align'.fallback = align.fallback /\ align'.filled = align.filled
           /\ align'.age >= align.age
           /\ align'.dwell = IF align.fallback THEN Least(align.dwell + 1, FallbackTime)
                             ELSE align.dwell
           /\ view'.since = Least(view.since + 1, FallbackTime) /\ view'.streak = view.streak
           /\ request'.seen = request.seen /\ request'.force = request.force
           /\ request'.steep = request.steep
<1> DEFINE age == IF align.phase = "BLIND_TURN" THEN Least(align.age + 1, BlindTime) ELSE align.age
           dwell == IF align.fallback THEN Least(align.dwell + 1, FallbackTime) ELSE align.dwell
           long == IF request.monitor THEN Least(request.age + 1, ReleaseTime) ELSE request.age
           since == Least(view.since + 1, FallbackTime)
<1>1. /\ align' = [ align EXCEPT !.age = age, !.dwell = dwell ]
      /\ request' = [ request EXCEPT !.age = long ]
      /\ view' = [ view EXCEPT !.since = since ]
  BY DEF Tick
<1>2. /\ align \in Alignments /\ request \in Requests /\ view \in Views
  BY InvariantFields
<1>3. age \in 0 .. BlindTime /\ age >= align.age
  BY <1>2, Counts DEF Least, Alignments
<1>4. dwell \in 0 .. FallbackTime
  BY <1>2, Counts DEF Least, Alignments
<1>5. long \in 0 .. ReleaseTime
  BY <1>2, Counts DEF Least, Requests
<1>6. since \in 0 .. FallbackTime
  BY <1>2, Counts DEF Least, Views
<1> HIDE DEF age, dwell, long, since
<1>7. align' \in Alignments /\ request' \in Requests /\ view' \in Views
  BY <1>1, <1>2, <1>3, <1>4, <1>5, <1>6 DEF Alignments, Requests, Views
<1>8. /\ align'.phase = align.phase /\ align'.blind = align.blind
      /\ SameSide(align, align') /\ SameBend(align, align')
      /\ align'.inside = align.inside /\ align'.control = align.control
      /\ align'.fallback = align.fallback /\ align'.filled = align.filled
      /\ align'.age = age /\ align'.dwell = dwell
  BY <1>1, <1>2 DEF Alignments, SameSide, SameBend
<1>9. view'.since = since /\ view'.streak = view.streak
  BY <1>1, <1>2 DEF Views
<1>10. /\ request'.seen = request.seen /\ request'.force = request.force
       /\ request'.steep = request.steep
  BY <1>1, <1>2 DEF Requests
<1> QED
  BY <1>3, <1>7, <1>8, <1>9, <1>10 DEF dwell, since

LEMMA TickIInv == IInv /\ Tick => IInv'
<1> SUFFICES ASSUME IInv, Tick PROVE IInv'
  OBVIOUS
<1>1. answer' = answer /\ detect' = detect /\ sight' = sight /\ estimates' = estimates
      /\ stage' = stage
  BY DEF Tick, detectVars
<1>2. DetectType' /\ Counted'
  BY <1>1 DEF IInv, TypeOK, DetectType, Counted
<1>3. TypeOK'
  BY <1>1, <1>2, TickFields, InvariantFields DEF TypeOK, IInv
<1>4. Requested'
  BY <1>1, TickFields DEF IInv, Requested, SameBend
<1>5. stage # "BACK" => Confirmed'
  <2>1. /\ align.dwell \in Nat /\ view.since \in Nat /\ FallbackTime \in Nat
    BY InvariantFields, Counts
  <2>2. align.dwell <= view.since =>
           Least(align.dwell + 1, FallbackTime) <= Least(view.since + 1, FallbackTime)
    BY <2>1 DEF Least
  <2> QED
    BY <1>1, <2>2, TickFields DEF IInv, Confirmed
<1>6. OnOneSide'
  BY TickFields DEF IInv, OnOneSide, SameSide
<1> QED
  BY <1>1, <1>2, <1>3, <1>4, <1>5, <1>6 DEF IInv

\* The recognition, reset.
LEMMA BlankCounts ==
    ASSUME detect' = Blank, estimates' = 0, sight' \in Sights
    PROVE  DetectType' /\ Counted'
<1>1. 0 \in 0 .. SingleHold /\ 0 \in 0 .. LostHold /\ LostHold \in Nat
  BY Counts
<1>2. (SingleHold + 1) * LostHold \in Nat
  BY Counts
<1>3. 0 \in 0 .. SingleHold + (SingleHold + 1) * LostHold
  BY <1>2, Counts
<1> QED
  BY <1>1, <1>3 DEF DetectType, Counted, Blank

\* Everything afresh: the phase has changed.
Afresh ==
    /\ stage = "OTHER" /\ stage' = "ALIGN" /\ detect' = Blank /\ estimates' = 0
    /\ align' = Reset /\ request' = NoRequest /\ view' = NothingSeen
    /\ UNCHANGED <<sight, answer>>

LEMMA AfreshIInv == IInv /\ Afresh => IInv'
<1> SUFFICES ASSUME IInv, Afresh PROVE IInv'
  OBVIOUS
<1> USE DEF Afresh
<1>1. align' \in Alignments /\ align'.phase = "TRACK" /\ align'.inside = 0 /\ align'.reliable = 0
      /\ NoSide(align') /\ NoBox(align')
  BY ResetFields
<1>2. answer' \in Answers
  BY InvariantFields
<1>3. request' \in Requests /\ ~request'.seen /\ ~request'.force
  BY Counts DEF NoRequest, Requests
<1>4. view' \in Views /\ view'.streak = 0 /\ view'.since = 0
  BY Counts DEF NothingSeen, Views
<1>5. DetectType' /\ Counted' /\ stage' \in Stages
  BY BlankCounts DEF IInv, TypeOK, DetectType, Stages
<1>6. Requested'
  BY <1>1, <1>3 DEF Requested
<1>7. Confirmed' /\ OnOneSide'
  BY <1>1, <1>4 DEF Confirmed, OnOneSide, NoSide, NoBox
<1> QED
  BY <1>1, <1>2, <1>3, <1>4, <1>5, <1>6, <1>7 DEF IInv, TypeOK

\* The stages come and go without touching the alignment.
LEMMA StageIInv ==
    ASSUME IInv, UNCHANGED alignVars,
           \/ UNCHANGED detectVars /\ stage # "BACK" /\ stage' \in Stages
           \/ stage' = "BACK" /\ DetectType' /\ Counted'
    PROVE  IInv'
<1>1. DetectType' /\ Counted' /\ stage' \in Stages
  BY DEF IInv, TypeOK, DetectType, Counted, detectVars, Stages
<1>2. /\ align' = align /\ answer' = answer /\ request' = request /\ view' = view
  BY DEF alignVars
<1>3. TypeOK' /\ Requested' /\ OnOneSide'
  BY <1>1, <1>2 DEF IInv, TypeOK, Requested, OnOneSide
<1>4. stage' # "BACK" => Confirmed'
  BY <1>2 DEF IInv, Confirmed, detectVars
<1> QED
  BY <1>1, <1>3, <1>4 DEF IInv

LEMMA StagesIInv == IInv /\ (Leave \/ Return \/ EnterBack \/ BackFrame) => IInv'
<1> SUFFICES ASSUME IInv, Leave \/ Return \/ EnterBack \/ BackFrame PROVE IInv'
  OBVIOUS
<1>1. CASE Leave
  BY <1>1, StageIInv DEF Leave, Stages
<1>2. CASE Return
  <2>1. Afresh \/ (UNCHANGED <<detectVars, alignVars>> /\ stage = "OTHER" /\ stage' = "ALIGN")
    BY <1>2 DEF Return, Afresh
  <2> QED
    BY <2>1, AfreshIInv, StageIInv DEF Stages
<1>3. CASE EnterBack
  <2>1. sight' \in Sights
    BY <1>3 DEF EnterBack, IInv, TypeOK, DetectType
  <2> QED
    BY <1>3, <2>1, BlankCounts, StageIInv DEF EnterBack
<1>4. CASE BackFrame
  <2>1. DetectType' /\ Counted'
    BY <1>4, DetectCounts DEF BackFrame, IInv, TypeOK
  <2> QED
    BY <1>4, <2>1, StageIInv DEF BackFrame
<1> QED
  BY <1>1, <1>2, <1>3, <1>4

\* The inductive invariant of the alignment.
THEOREM Invariance == Spec => []IInv
<1>1. Init => IInv
  BY InitIInv
<1>2. IInv /\ [Next]_vars => IInv'
  <2>1. IInv /\ UNCHANGED vars => IInv'
    BY DEF vars, detectVars, alignVars, IInv, TypeOK, DetectType, Counted, Requested, Confirmed, OnOneSide
  <2> QED
    BY <2>1, FrameIInv, TickIInv, StagesIInv DEF Next
<1> QED
  BY <1>1, <1>2, PTL DEF Spec

\* Counters, ages and controls keep within their limits; among them the images
\* in a row that are only estimated, which the two kinds of estimate prolong for
\* each other but not for ever.
THEOREM TypeCorrect == Spec => []TypeOK
<1>1. IInv => TypeOK
  BY DEF IInv
<1> QED
  BY <1>1, Invariance, PTL

\* A blind turn of the camera always reaches core 0 as a request with a side.
THEOREM RequestsMade == Spec => []TurnIsRequested
<1>1. IInv => TurnIsRequested
  BY DEF IInv, Requested, TurnIsRequested
<1> QED
  BY <1>1, Invariance, PTL

-----------------------------------------------------------------------------
(* What a step may not do                                                   *)

LEMMA StageMoves ==
    Leave \/ Return \/ EnterBack \/ BackFrame => UNCHANGED alignVars \/ Afresh
BY DEF Leave, Return, EnterBack, BackFrame, Afresh

LEMMA StepOneRequest ==
    IInv /\ IInv' /\ [Next]_vars =>
        [request.force /\ request'.force =>
           align'.age >= align.age /\ answer'.control = answer.control]_vars
<1> SUFFICES ASSUME IInv, IInv', Next, request.force, request'.force
             PROVE  align'.age >= align.age /\ answer'.control = answer.control
  OBVIOUS
<1>1. /\ request.seen /\ align.phase = "BLIND_TURN" /\ answer.control = align.blind
      /\ align'.phase = "BLIND_TURN" /\ answer'.control = align'.blind
  BY DEF IInv, Requested
<1>2. align.age \in Nat
  BY InvariantFields, Counts DEF Alignments
<1>3. CASE Frame
  <2>1. SameTurn(align, align')
    BY <1>1, <1>3, FrameUpdates DEF Moved
  <2> QED
    BY <1>1, <1>2, <2>1 DEF SameTurn
<1>4. CASE Tick
  BY <1>4, TickFields DEF Tick
<1>5. CASE UNCHANGED alignVars
  BY <1>2, <1>5 DEF alignVars
<1>6. CASE Afresh
  BY <1>6 DEF Afresh, NoRequest
<1> QED
  BY <1>3, <1>4, <1>5, <1>6, StageMoves DEF Next

\* A request is for one blind turn to one side: the next turn is a request of its
\* own, after a word without one.
THEOREM OneRequest == Spec => OneRequestPerTurn
BY Invariance, StepOneRequest, PTL DEF Spec, OneRequestPerTurn

LEMMA StepConfirmed ==
    IInv /\ [Next]_vars =>
        [align.phase # "COMPLETE" /\ align'.phase = "COMPLETE" =>
           view'.streak >= ConfirmFrames \/ view'.since >= FallbackTime]_vars
<1> SUFFICES ASSUME IInv, Next, align.phase # "COMPLETE", align'.phase = "COMPLETE"
             PROVE  view'.streak >= ConfirmFrames \/ view'.since >= FallbackTime
  OBVIOUS
<1>1. CASE Frame
  BY <1>1, FrameUpdates DEF Moved
<1>2. CASE Tick
  BY <1>2, TickFields
<1>3. CASE UNCHANGED alignVars
  BY <1>3 DEF alignVars
<1>4. CASE Afresh
  BY <1>4, ResetFields DEF Afresh
<1> QED
  BY <1>1, <1>2, <1>3, <1>4, StageMoves DEF Next

\* The alignment is complete only after enough fresh frames in the narrow box, or
\* after a long enough stay in the wide one.
THEOREM CompletionConfirmed == Spec => CompleteIsConfirmed
BY Invariance, StepConfirmed, PTL DEF Spec, CompleteIsConfirmed

LEMMA StepNoSwing ==
    IInv /\ [Next]_vars =>
        [align.near /\ align'.near => Sign(align.control) * Sign(align'.control) # -1]_vars
<1> SUFFICES ASSUME IInv, Next, align.near, align'.near
             PROVE  Sign(align.control) * Sign(align'.control) # -1
  OBVIOUS
<1>1. CASE Frame
  BY <1>1, FrameUpdates DEF Moved
<1>2. CASE Tick
  <2>1. align'.control = align.control /\ align.control \in Int
    BY <1>2, TickFields, Parameters, InvariantFields DEF Controls
  <2> QED
    BY <2>1, Signs
<1>3. CASE UNCHANGED alignVars
  <2>1. align' = align /\ align.control \in Int
    BY <1>3, Parameters, InvariantFields DEF alignVars, Controls
  <2> QED
    BY <2>1, Signs
<1>4. CASE Afresh
  BY <1>4, ResetFields DEF Afresh, NoSide
<1> QED
  BY <1>1, <1>2, <1>3, <1>4, StageMoves DEF Next

\* Near the target the control does not go from one side to the other in a step.
THEOREM NoSwing == Spec => NoSuddenReverse
BY Invariance, StepNoSwing, PTL DEF Spec, NoSuddenReverse

-----------------------------------------------------------------------------
(* The words for core 0                                                     *)

\* What a frame would have core 1 send: it is kept if the mailbox refuses it.
Word == Watch(Ask(Noted(request)))
Mixed == Word.force /\ Word.release

LEMMA FirstWord ==
    ASSUME TypeOK, ~request.release
    PROVE  ~Mixed
<1>1. request \in Requests
  BY DEF TypeOK
<1> DEFINE n == Noted(request)
           a == Ask(n)
<1>2. n.release = request.release
  BY <1>1 DEF Noted, Requests
<1>3. a.release = n.release
  BY <1>1 DEF Ask, Noted, Requests
<1>4. a.force => answer'.phase = "BLIND_TURN"
  BY <1>1 DEF Ask, Noted, Requests
<1>5. Watch(a).force = a.force
  BY <1>1 DEF Watch, Ask, Noted, Requests
<1>6. Watch(a).release => a.release \/ Straight
  BY <1>1 DEF Watch, Ask, Noted, Requests
<1> QED
  BY <1>2, <1>3, <1>4, <1>5, <1>6 DEF Mixed, Word, Straight

\* A word that both asks for a turn and releases one repeats a release that the
\* mailbox has refused: a word with the first try of a release asks for nothing.
THEOREM OrderlyWords == Spec => [][Mixed => request.release]_vars
<1>1. TypeOK => [Mixed => request.release]_vars
  BY FirstWord
<1> QED
  BY <1>1, TypeCorrect, PTL DEF Spec
=============================================================================
