--------------------------- MODULE YawGuardProofs ---------------------------
(***************************************************************************)
(* Theorems of YawGuard for all limits, ramp steps, headings and           *)
(* corrections, checked by TLAPS: the commanded heading stays in its       *)
(* ranges and moves by ramp steps.                                         *)
(***************************************************************************)
EXTENDS YawGuard, TLAPS

\* A turn, a recovery or a fault is confined to the aligning stage, in which
\* the guard is armed.
TurnInStage == turn # "none" => stage = "align" /\ armed

\* The guard is not carried into the aligning stage.
NotArmedBefore == stage = "before" => ~armed

\* The command of a turn is its ramp, which ends TargetLimit from the turn's
\* start; the guard starts there too.
BlindRamp ==
    turn = "blind" =>
        ramp = command /\ ramp_end = start + dir * TargetLimit /\ guard_start = start

\* The command of a recovery is its ramp, which leads back by RecoveryAngle from
\* the heading at which the turn ended.
RecoveryRamp ==
    turn = "recovery" =>
        ramp = command /\ ramp_end = guard_start - dir * RecoveryAngle

\* The control of the way back is confined to that stage.
LaneInBack == lane => stage = "back"

IInv ==
    /\ TypeOK
    /\ LaneInBack
    /\ TurnInStage
    /\ NotArmedBefore
    /\ BlindRamp
    /\ RecoveryRamp
    /\ CommandInRange
    /\ RampsInRange

\* What a turn and a recovery under way keep.
BlindGood ==
    /\ ramp = command /\ ramp_end = start + dir * TargetLimit /\ guard_start = start
    /\ 0 <= (command - start) * dir /\ (command - start) * dir <= TargetLimit
    /\ Abs(yaw - start) < AbsoluteLimit

RecoveryGood ==
    /\ ramp = command /\ ramp_end = guard_start - dir * RecoveryAngle
    /\ 0 <= (guard_start - command) * dir /\ (guard_start - command) * dir <= RecoveryAngle

-----------------------------------------------------------------------------
(* The operators                                                            *)

\* A ramp goes its way by a step at most, and never past its end.
LEMMA RampedStep ==
    ASSUME NEW n \in Int, NEW end \in Int, NEW step \in Nat, NEW d \in {-1, 1},
           0 <= (end - n) * d
    PROVE  /\ Ramped(n, d, step, end) \in Int
           /\ 0 <= (Ramped(n, d, step, end) - n) * d
           /\ (Ramped(n, d, step, end) - n) * d <= step
           /\ (Ramped(n, d, step, end) - n) * d <= (end - n) * d
<1>1. CASE d = 1
  BY <1>1 DEF Ramped
<1>2. CASE d = -1
  BY <1>2 DEF Ramped
<1> QED
  BY <1>1, <1>2

\* Distances along a direction.
LEMMA Along ==
    ASSUME NEW n \in Int, NEW d \in {-1, 1}
    PROVE  /\ (n * d) * d = n
           /\ (n - n) * d = 0
           /\ 0 <= n * d => Abs(n) = n * d
<1>1. CASE d = 1
  BY <1>1 DEF Abs
<1>2. CASE d = -1
  BY <1>2 DEF Abs
<1> QED
  BY <1>1, <1>2

LEMMA Differences ==
    ASSUME NEW a \in Int, NEW b \in Int
    PROVE  Abs(a - b) = Abs(b - a) /\ Abs(a - a) = 0
BY DEF Abs

\* Going back from c to n, no further than the rest of the way a from g.
LEMMA Backwards ==
    ASSUME NEW g \in Int, NEW c \in Int, NEW n \in Int, NEW a \in Int, NEW d \in {-1, 1},
           0 <= (g - c) * d,
           0 <= (n - c) * (-d), (n - c) * (-d) <= a - (g - c) * d
    PROVE  0 <= (g - n) * d /\ (g - n) * d <= a
<1>1. CASE d = 1
  BY <1>1
<1>2. CASE d = -1
  BY <1>2
<1> QED
  BY <1>1, <1>2

\* What is left of a way a from s to e at the point n.
LEMMA Remaining ==
    ASSUME NEW s \in Int, NEW n \in Int, NEW a \in Int, NEW d \in {-1, 1},
           (n - s) * d <= a
    PROVE  /\ s + d * a \in Int
           /\ 0 <= (s + d * a - n) * d
           /\ (s + d * a - n) * d = a - (n - s) * d
<1>1. CASE d = 1
  BY <1>1
<1>2. CASE d = -1
  BY <1>2
<1> QED
  BY <1>1, <1>2

\* Going on from n to m, no further than the rest of the way a from s.
LEMMA Onwards ==
    ASSUME NEW s \in Int, NEW n \in Int, NEW m \in Int, NEW a \in Int, NEW d \in {-1, 1},
           0 <= (n - s) * d,
           0 <= (m - n) * d, (m - n) * d <= a - (n - s) * d
    PROVE  0 <= (m - s) * d /\ (m - s) * d <= a
<1>1. CASE d = 1
  BY <1>1
<1>2. CASE d = -1
  BY <1>2
<1> QED
  BY <1>1, <1>2

\* A clamped value lies in the interval.
LEMMA ClampRange ==
    ASSUME NEW n \in Int, NEW c \in Int, NEW r \in Nat
    PROVE  /\ Clamp(n, c - r, c + r) \in Int
           /\ Abs(Clamp(n, c - r, c + r) - c) <= r
BY DEF Clamp, Abs

\* The guard block keeps the types.
LEMMA GuardTypes ==
    ASSUME TypeOK
    PROVE  /\ GuardStart \in Headings /\ GuardStart \in Int
           /\ GuardCommand \in Int /\ GuardReached \in BOOLEAN
BY LimitsAssumption DEF TypeOK, GuardStart, GuardCommand, GuardReached

-----------------------------------------------------------------------------
(* The ways in which a tick of the aligning phase can end                   *)

LEMMA AlignOutcome ==
    ASSUME TypeOK', stage' = "align", armed' = TRUE, lane' = FALSE,
           \/ turn' = "none" /\ Abs(command' - guard_start') <= TargetLimit
           \/ turn' = "fault"
           \/ turn' = "blind" /\ BlindGood'
           \/ turn' = "recovery" /\ RecoveryGood'
    PROVE  IInv'
<1>1. TurnInStage' /\ NotArmedBefore' /\ LaneInBack'
  BY DEF TurnInStage, NotArmedBefore, LaneInBack
<1>2. CASE turn' \in {"none", "fault"}
  BY <1>1, <1>2 DEF IInv, BlindRamp, RecoveryRamp, CommandInRange, RampsInRange, Aligning
<1>3. CASE turn' = "blind" /\ BlindGood'
  <2>1. Abs(command' - guard_start') <= TargetLimit
    <3>1. command' - start' \in Int /\ dir' \in {-1, 1}
      BY LimitsAssumption DEF TypeOK
    <3>2. Abs(command' - start') = (command' - start') * dir'
      BY <1>3, <3>1, Along DEF BlindGood
    <3> QED
      BY <1>3, <3>2 DEF BlindGood
  <2> QED
    BY <1>1, <1>3, <2>1
    DEF IInv, BlindRamp, RecoveryRamp, CommandInRange, RampsInRange, Aligning, BlindGood
<1>4. CASE turn' = "recovery" /\ RecoveryGood'
  <2>1. Abs(command' - guard_start') <= TargetLimit
    <3>1. guard_start' - command' \in Int /\ dir' \in {-1, 1} /\ command' - guard_start' \in Int
      BY LimitsAssumption DEF TypeOK
    <3>2. Abs(guard_start' - command') = (guard_start' - command') * dir'
      BY <1>4, <3>1, Along DEF RecoveryGood
    <3>3. Abs(command' - guard_start') = Abs(guard_start' - command')
      <4>1. guard_start' \in Int /\ command' \in Int
        BY LimitsAssumption DEF TypeOK
      <4> QED
        BY <4>1, Differences
    <3>4. (guard_start' - command') * dir' <= RecoveryAngle
      BY <1>4 DEF RecoveryGood
    <3>5. (guard_start' - command') * dir' \in Int
      BY <3>1
    <3> QED
      BY <3>2, <3>3, <3>4, <3>5, LimitsAssumption
  <2> QED
    BY <1>1, <1>4, <2>1
    DEF IInv, BlindRamp, RecoveryRamp, CommandInRange, RampsInRange, Aligning, RecoveryGood
<1> QED
  BY <1>2, <1>3, <1>4

\* Vision takes over again.
LEMMA RearmKeeps ==
    ASSUME TypeOK, yaw' \in Headings, stage = "align", stage' = stage, armed' = TRUE,
           lane' = FALSE, lane_start' \in Headings,
           ramp' \in Int, ramp_end' \in Int, start' \in Headings, dir' \in {-1, 1},
           Rearm
    PROVE  IInv'
<1>1. yaw' \in Int
  BY LimitsAssumption
<1>2. TypeOK'
  BY <1>1 DEF TypeOK, Rearm
<1>3. Abs(command' - guard_start') <= TargetLimit
  BY <1>1, Differences, LimitsAssumption DEF Rearm
<1> QED
  BY <1>2, <1>3, AlignOutcome DEF Rearm

LEMMA RecoverKeeps ==
    ASSUME IInv, yaw' \in Headings, stage = "align", stage' = stage, armed' = TRUE,
           lane' = FALSE, lane_start' \in Headings,
           NEW fresh \in BOOLEAN, NEW late \in BOOLEAN, Recover(fresh, late)
    PROVE  IInv'
<1>0. TypeOK /\ armed /\ turn = "recovery" /\ RecoveryGood
  BY DEF IInv, TurnInStage, Recover, RecoveryRamp, RampsInRange, Aligning, RecoveryGood
<1>1. CASE Rearm /\ UNCHANGED ramp
  BY <1>0, <1>1, RearmKeeps DEF Recover, TypeOK
<1>2. CASE Fail /\ UNCHANGED ramp
  <2>1. TypeOK'
    BY <1>0, <1>2, GuardTypes, LimitsAssumption DEF TypeOK, Fail, Recover
  <2> QED
    BY <2>1, <1>2, AlignOutcome DEF Fail
<1>3. CASE /\ ramp' = Ramped(ramp, -dir, RecoveryStep, ramp_end)
           /\ command' = ramp'
           /\ guard_start' = GuardStart /\ reached' = GuardReached
           /\ UNCHANGED turn
  <2>1. guard_start' = guard_start /\ dir' = dir /\ start' = start /\ ramp_end' = ramp_end
        /\ guard_start \in Int /\ command \in Int
    BY <1>0, <1>3, LimitsAssumption DEF GuardStart, Recover, TypeOK
  <2>2. -dir \in {-1, 1} /\ ramp \in Int /\ ramp_end \in Int /\ RecoveryStep \in Nat
    BY <1>0, LimitsAssumption DEF TypeOK
  <2>3. 0 <= (ramp_end - ramp) * (-dir)
        /\ (ramp_end - ramp) * (-dir) = RecoveryAngle - (guard_start - command) * dir
    <3>1. CASE dir = 1
      BY <1>0, <2>1, <2>2, <3>1, LimitsAssumption DEF RecoveryGood
    <3>2. CASE dir = -1
      BY <1>0, <2>1, <2>2, <3>2, LimitsAssumption DEF RecoveryGood
    <3> QED
      BY <1>0, <3>1, <3>2 DEF TypeOK
  <2>4. /\ ramp' \in Int
        /\ 0 <= (ramp' - ramp) * (-dir)
        /\ (ramp' - ramp) * (-dir) <= (ramp_end - ramp) * (-dir)
    BY <1>3, <2>2, <2>3, RampedStep
  <2>5. 0 <= (guard_start - ramp') * dir /\ (guard_start - ramp') * dir <= RecoveryAngle
    <3>1. ramp = command /\ dir \in {-1, 1} /\ 0 <= (guard_start - command) * dir
      BY <1>0 DEF RecoveryGood, TypeOK
    <3>2. 0 <= (ramp' - command) * (-dir)
          /\ (ramp' - command) * (-dir) <= RecoveryAngle - (guard_start - command) * dir
      BY <2>3, <2>4, <3>1
    <3>3. RecoveryAngle \in Int /\ ramp' \in Int
      BY <2>4, LimitsAssumption
    <3> QED
      BY <2>1, <3>1, <3>2, <3>3, Backwards
  <2>6. RecoveryGood'
    BY <1>0, <1>3, <2>1, <2>5 DEF RecoveryGood
  <2>7. TypeOK'
    BY <1>0, <1>3, <2>1, <2>4, GuardTypes DEF TypeOK
  <2> QED
    BY <1>0, <1>3, <2>6, <2>7, AlignOutcome
<1> QED
  BY <1>1, <1>2, <1>3 DEF Recover

LEMMA BlindKeeps ==
    ASSUME TypeOK, yaw' \in Headings, stage = "align", stage' = stage, armed' = TRUE,
           lane' = FALSE, lane_start' \in Headings,
           NEW s \in Headings, NEW d \in {-1, 1}, NEW n \in Int, NEW hit \in BOOLEAN,
           NEW release \in BOOLEAN, NEW fresh \in BOOLEAN, NEW late \in BOOLEAN,
           Blind(s, d, n, s + d * TargetLimit, s, hit, release, fresh, late),
           0 <= (n - s) * d, (n - s) * d <= TargetLimit
    PROVE  IInv'
<1> DEFINE e == s + d * TargetLimit
<1>0. yaw' \in Int /\ s \in Int /\ e \in Int /\ start' = s /\ dir' = d
  BY LimitsAssumption DEF Blind
<1>1. CASE release /\ Rearm /\ ramp' = n /\ ramp_end' = e
  BY <1>0, <1>1, RearmKeeps
<1>2. CASE /\ turn' = IF fresh THEN "none" ELSE "recovery"
           /\ guard_start' = yaw' /\ reached' = FALSE /\ command' = yaw'
           /\ ramp' = IF fresh THEN n ELSE yaw'
           /\ ramp_end' = IF fresh THEN e ELSE yaw' - d * RecoveryAngle
  <2>1. TypeOK'
    <3>1. yaw' - d * RecoveryAngle \in Int
      BY <1>0, LimitsAssumption
    <3> QED
      BY <1>0, <1>2, <3>1 DEF TypeOK
  <2>2. CASE fresh
    <3>1. Abs(command' - guard_start') <= TargetLimit
      BY <1>0, <1>2, Differences, LimitsAssumption
    <3> QED
      BY <1>2, <2>1, <2>2, <3>1, AlignOutcome
  <2>3. CASE ~fresh
    <3>1. (guard_start' - command') * dir' = 0
      <4>1. (yaw' - yaw') * d = 0
        BY <1>0, Along
      <4> QED
        BY <1>0, <1>2, <4>1
    <3>2. 0 <= (guard_start' - command') * dir'
          /\ (guard_start' - command') * dir' <= RecoveryAngle
      <4>1. 0 <= 0 /\ 0 <= RecoveryAngle
        BY LimitsAssumption
      <4> QED
        BY <3>1, <4>1, Zenon
    <3>3. ramp' = command' /\ ramp_end' = guard_start' - dir' * RecoveryAngle
      BY <1>0, <1>2, <2>3
    <3>4. RecoveryGood'
      BY <3>2, <3>3 DEF RecoveryGood
    <3> QED
      BY <1>2, <2>1, <2>3, <3>4, AlignOutcome
  <2> QED
    BY <2>2, <2>3
<1>3. CASE /\ turn' = "fault" /\ reached' = TRUE
           /\ command' = yaw' /\ guard_start' = s
           /\ ramp' = n /\ ramp_end' = e
  <2>1. TypeOK'
    BY <1>0, <1>3 DEF TypeOK
  <2> QED
    BY <1>3, <2>1, AlignOutcome
<1>4. CASE /\ Abs(yaw' - s) < AbsoluteLimit
           /\ turn' = "blind"
           /\ ramp' = Ramped(n, d, TurnStep, e) /\ ramp_end' = e
           /\ command' = ramp'
           /\ guard_start' = s /\ reached' = hit
  <2>1. 0 <= (e - n) * d /\ (e - n) * d = TargetLimit - (n - s) * d
    <3>1. TargetLimit \in Int
      BY LimitsAssumption
    <3> QED
      BY <1>0, <3>1, Remaining
  <2> HIDE DEF e
  <2>2. /\ ramp' \in Int
        /\ 0 <= (ramp' - n) * d
        /\ (ramp' - n) * d <= (e - n) * d
    BY <1>0, <1>4, <2>1, RampedStep, LimitsAssumption
  <2>3. 0 <= (ramp' - s) * d /\ (ramp' - s) * d <= TargetLimit
    <3>1. (ramp' - n) * d <= TargetLimit - (n - s) * d
      BY <2>1, <2>2, Zenon
    <3>2. TargetLimit \in Int
      BY LimitsAssumption
    <3> QED
      BY <1>0, <2>2, <3>1, <3>2, Onwards
  <2>4. BlindGood'
    BY <1>0, <1>4, <2>3 DEF BlindGood, e
  <2>5. TypeOK'
    BY <1>0, <1>4, <2>2 DEF TypeOK
  <2> QED
    BY <1>4, <2>4, <2>5, AlignOutcome
<1> QED
  BY <1>1, <1>2, <1>3, <1>4 DEF Blind

LEMMA ContinueKeeps ==
    ASSUME IInv, yaw' \in Headings, stage = "align", stage' = stage, armed' = TRUE,
           lane' = FALSE, lane_start' \in Headings,
           NEW release \in BOOLEAN, NEW fresh \in BOOLEAN, NEW late \in BOOLEAN,
           Continue(release, fresh, late)
    PROVE  IInv'
<1>1. TypeOK /\ armed /\ turn = "blind" /\ BlindGood
  BY DEF IInv, TurnInStage, Continue, BlindRamp, RampsInRange, Aligning, BlindGood
<1>2. GuardStart = start /\ GuardStart \in Headings /\ GuardReached \in BOOLEAN
  BY <1>1, GuardTypes DEF GuardStart, BlindGood
<1>3. start \in Headings /\ dir \in {-1, 1} /\ ramp \in Int /\ ramp_end \in Int
  BY <1>1 DEF TypeOK
<1>4. ramp_end = start + dir * TargetLimit /\ 0 <= (ramp - start) * dir
      /\ (ramp - start) * dir <= TargetLimit
  BY <1>1 DEF BlindGood
<1>5. Blind(start, dir, ramp, start + dir * TargetLimit, start, GuardReached,
            release, fresh, late)
  BY <1>2, <1>4 DEF Continue
<1> QED
  BY <1>1, <1>2, <1>3, <1>4, <1>5, BlindKeeps

LEMMA BeginKeeps ==
    ASSUME IInv, yaw' \in Headings, stage = "align", stage' = stage, armed' = TRUE,
           lane' = FALSE, lane_start' \in Headings,
           NEW d \in {-1, 1}, NEW release \in BOOLEAN, Begin(d, release)
    PROVE  IInv'
<1>1. yaw' \in Int /\ TypeOK
  BY LimitsAssumption DEF IInv
<1>3. (yaw' - yaw') * d = 0
  BY <1>1, Along
<1>4. Blind(yaw', d, yaw', yaw' + d * TargetLimit, yaw', FALSE, release, FALSE, FALSE)
  BY DEF Begin
<1>5. 0 <= (yaw' - yaw') * d /\ (yaw' - yaw') * d <= TargetLimit
  <2>1. 0 <= 0 /\ 0 <= TargetLimit
    BY LimitsAssumption
  <2> QED
    BY <1>3, <2>1, Zenon
<1> QED
  BY <1>1, <1>4, <1>5, BlindKeeps

LEMMA GuardedKeeps ==
    ASSUME IInv, yaw' \in Headings, stage = "align", stage' = stage, armed' = TRUE,
           lane' = FALSE, lane_start' \in Headings,
           NEW v \in Corrections, Guarded(v)
    PROVE  IInv'
<1>1. TypeOK /\ GuardStart \in Headings /\ GuardStart \in Int
      /\ GuardCommand \in Int /\ GuardReached \in BOOLEAN
  BY GuardTypes DEF IInv
<1>2. command' \in Int /\ Abs(command' - GuardStart) <= TargetLimit
  <2>1. TargetLimit \in Nat /\ GuardCommand + v \in Int
    BY <1>1, LimitsAssumption
  <2>2. CASE GuardReached
    <3>1. command' = GuardStart + TargetLimit \/ command' = GuardStart - TargetLimit
      BY <1>1, <2>1, <2>2 DEF Guarded
    <3>2. Abs(GuardStart + TargetLimit - GuardStart) <= TargetLimit
          /\ Abs(GuardStart - TargetLimit - GuardStart) <= TargetLimit
      BY <1>1, <2>1 DEF Abs
    <3> QED
      BY <1>1, <2>1, <3>1, <3>2
  <2>3. CASE ~GuardReached
    BY <1>1, <2>1, <2>3, ClampRange DEF Guarded
  <2> QED
    BY <2>2, <2>3
<1>3. TypeOK'
  BY <1>1, <1>2 DEF TypeOK, Guarded
<1>4. turn' \in {"none", "fault"} /\ guard_start' = GuardStart
  BY DEF Guarded
<1> QED
  BY <1>2, <1>3, <1>4, AlignOutcome

-----------------------------------------------------------------------------
(* Every step keeps the invariant                                           *)

LEMMA InitIInv == Init => IInv
<1> SUFFICES ASSUME Init PROVE IInv
  OBVIOUS
<1>1. TypeOK
  BY LimitsAssumption DEF Init, TypeOK
<1> QED
  BY <1>1 DEF Init, IInv, LaneInBack, TurnInStage, NotArmedBefore, BlindRamp, RecoveryRamp,
     CommandInRange, RampsInRange, Aligning

\* The way back commands within its limit of the heading at which it began.
LEMMA BackKeeps ==
    ASSUME IInv, yaw' \in Headings, stage' = stage,
           NEW locked \in BOOLEAN, NEW v \in Corrections, BackTick(locked, v)
    PROVE  IInv'
<1>1. yaw' \in Int /\ command \in Int /\ lane_start' \in Headings /\ lane_start' \in Int
      /\ BackLimit \in Nat
  BY LimitsAssumption DEF IInv, TypeOK, BackTick
<1>2. (IF lane THEN command ELSE yaw') + (IF locked THEN 0 ELSE v) \in Int
  <2>1. (IF lane THEN command ELSE yaw') \in Int /\ (IF locked THEN 0 ELSE v) \in Int
    BY <1>1, LimitsAssumption
  <2> QED
    BY <2>1
<1>3. command' \in Int /\ Abs(command' - lane_start') <= BackLimit
  BY <1>1, <1>2, ClampRange DEF BackTick
<1>4. stage' = "back" /\ armed' = FALSE /\ turn' = "none" /\ lane' = TRUE
  BY DEF BackTick, ClearGuard
<1>5. TypeOK'
  BY <1>1, <1>3 DEF IInv, TypeOK, BackTick, ClearGuard
<1> QED
  BY <1>3, <1>4, <1>5 DEF IInv, LaneInBack, TurnInStage, NotArmedBefore, BlindRamp,
     RecoveryRamp, CommandInRange, RampsInRange, Aligning

LEMMA TickIInv == IInv /\ Tick => IInv'
<1> SUFFICES ASSUME IInv, Tick PROVE IInv'
  OBVIOUS
<1>1. yaw' \in Headings /\ stage' = stage
  BY DEF Tick
<1>2. CASE AlignTick /\ NoLane
  <2>1. stage = "align" /\ armed' = TRUE /\ lane' = FALSE /\ lane_start' \in Headings
    BY <1>2 DEF AlignTick, NoLane, IInv, TypeOK
  <2>2. CASE \E fresh, late \in BOOLEAN : Recover(fresh, late)
    BY <1>1, <2>1, <2>2, RecoverKeeps
  <2>3. CASE \E release, fresh, late \in BOOLEAN : Continue(release, fresh, late)
    BY <1>1, <2>1, <2>3, ContinueKeeps
  <2>4. CASE \E d \in {-1, 1}, release \in BOOLEAN : Begin(d, release)
    BY <1>1, <2>1, <2>4, BeginKeeps
  <2>5. CASE \E v \in Corrections : Guarded(v)
    BY <1>1, <2>1, <2>5, GuardedKeeps
  <2> QED
    BY <1>2, <2>2, <2>3, <2>4, <2>5 DEF AlignTick
<1>3. CASE OtherTick /\ NoLane
  <2>1. command' \in Int
    BY <1>3, LimitsAssumption DEF OtherTick, IInv, TypeOK
  <2>2. TypeOK'
    BY <1>1, <1>3, <2>1 DEF OtherTick, ClearGuard, NoLane, IInv, TypeOK
  <2>3. armed' = FALSE /\ turn' = "none" /\ lane' = FALSE
    BY <1>3 DEF OtherTick, ClearGuard, NoLane
  <2> QED
    BY <2>2, <2>3 DEF IInv, LaneInBack, TurnInStage, NotArmedBefore, BlindRamp, RecoveryRamp,
       CommandInRange, RampsInRange, Aligning
<1>4. CASE \E locked \in BOOLEAN, v \in Corrections : BackTick(locked, v)
  BY <1>1, <1>4, BackKeeps
<1> QED
  BY <1>2, <1>3, <1>4 DEF Tick

LEMMA ProceedIInv == IInv /\ Proceed => IInv'
<1> SUFFICES ASSUME IInv, Proceed PROVE IInv'
  OBVIOUS
<1>1. /\ stage \in {"before", "align", "exit", "bumps"}
      /\ stage' \in {"align", "exit", "bumps", "back"}
      /\ stage' = "align" => stage = "before"
      /\ stage' = "exit" => turn = "none"
      /\ stage' = "back" => stage # "align"
      /\ turn' = IF stage' = "bumps" THEN "none" ELSE turn
      /\ UNCHANGED <<yaw, command, armed, guard_start, reached, start, dir, ramp, ramp_end,
                     lane, lane_start>>
  BY DEF Proceed, Order
<1>2. turn' = "none" /\ (stage' = "align" => ~armed') /\ lane' = FALSE
  BY <1>1 DEF IInv, TurnInStage, NotArmedBefore, LaneInBack, TypeOK
<1>3. TypeOK'
  BY <1>1, <1>2 DEF IInv, TypeOK
<1> QED
  BY <1>1, <1>2, <1>3 DEF IInv, LaneInBack, TurnInStage, NotArmedBefore, BlindRamp,
     RecoveryRamp, CommandInRange, RampsInRange, Aligning

LEMMA NextIInv == IInv /\ [Next]_vars => IInv'
<1> SUFFICES ASSUME IInv, [Next]_vars PROVE IInv'
  OBVIOUS
<1>1. CASE UNCHANGED vars
  BY <1>1 DEF vars, IInv, TypeOK, LaneInBack, TurnInStage, NotArmedBefore, BlindRamp, RecoveryRamp,
     CommandInRange, RampsInRange, Aligning
<1> QED
  BY <1>1, TickIInv, ProceedIInv DEF Next

-----------------------------------------------------------------------------
(* The theorems                                                             *)

\* The invariant holds in every state: besides the ranges it says that the
\* command of a turn or a recovery is its ramp (pit0_ch0_isr, the 5 ms part).
THEOREM Invariance == Spec => []IInv
BY InitIInv, NextIInv, PTL DEF Spec

\* Headings, ramps and directions keep their types.
THEOREM TypeCorrect == Spec => []TypeOK
<1>1. IInv => TypeOK
  BY DEF IInv
<1> QED
  BY <1>1, Invariance, PTL

\* The command of the aligning phase stays in the guard's range, whichever
\* branch of pit0_ch0_isr computes it, and the way back in its own limit.
THEOREM Commanded == Spec => []CommandInRange
<1>1. IInv => CommandInRange
  BY DEF IInv
<1> QED
  BY <1>1, Invariance, PTL

\* A forced turn commands its own side up to its end, a recovery the way back.
THEOREM Ramps == Spec => []RampsInRange
<1>1. IInv => RampsInRange
  BY DEF IInv
<1> QED
  BY <1>1, Invariance, PTL

\* In a turn and in a recovery the command moves by a ramp step at most.
THEOREM Smooth == Spec => NoJump
<1>1. ASSUME IInv, Next, Aligning, turn = turn', turn \in {"blind", "recovery"}
      PROVE  Abs(command' - command) <= (IF turn = "blind" THEN TurnStep ELSE RecoveryStep)
  <2>1. CASE Proceed
    <3>1. command' = command /\ command \in Int
      BY <1>1, <2>1 DEF Proceed, IInv, TypeOK
    <3>2. Abs(command' - command) = 0
      BY <3>1, Differences
    <3> QED
      BY <3>2, LimitsAssumption
  <2>2. CASE Tick /\ turn = "blind"
    <3>1. PICK release \in BOOLEAN, fresh \in BOOLEAN, late \in BOOLEAN :
            Continue(release, fresh, late)
      BY <1>1, <2>2 DEF Tick, AlignTick, OtherTick, BackTick, Aligning, Recover, Begin, Guarded
    <3>2. command' = Ramped(ramp, dir, TurnStep, ramp_end)
      BY <1>1, <2>2, <3>1 DEF Continue, Blind, Rearm
    <3>3. BlindGood /\ dir \in {-1, 1} /\ start \in Int /\ ramp \in Int /\ ramp_end \in Int
      BY <1>1, <2>2, LimitsAssumption
      DEF IInv, TypeOK, BlindRamp, RampsInRange, Aligning, BlindGood
    <3>4. 0 <= (ramp_end - ramp) * dir
      <4>1. TargetLimit \in Int /\ (ramp - start) * dir <= TargetLimit
            /\ ramp_end = start + dir * TargetLimit
        BY <3>3, LimitsAssumption DEF BlindGood
      <4> QED
        BY <3>3, <4>1, Remaining
    <3>5. command' \in Int /\ 0 <= (command' - ramp) * dir /\ (command' - ramp) * dir <= TurnStep
      BY <3>2, <3>3, <3>4, RampedStep, LimitsAssumption
    <3>6. command = ramp
      BY <3>3 DEF BlindGood
    <3>7. Abs(command' - command) = (command' - ramp) * dir
      <4>1. command' - ramp \in Int
        BY <3>3, <3>5
      <4>2. Abs(command' - ramp) = (command' - ramp) * dir
        BY <3>3, <3>5, <4>1, Along
      <4> QED
        BY <3>6, <4>2, Zenon
    <3> QED
      BY <2>2, <3>5, <3>7
  <2>3. CASE Tick /\ turn = "recovery"
    <3>1. PICK fresh \in BOOLEAN, late \in BOOLEAN : Recover(fresh, late)
      BY <1>1, <2>3 DEF Tick, AlignTick, OtherTick, BackTick, Aligning, Continue, Begin, Guarded
    <3>2. command' = Ramped(ramp, -dir, RecoveryStep, ramp_end)
      BY <1>1, <2>3, <3>1 DEF Recover, Rearm, Fail
    <3>3. RecoveryGood /\ -dir \in {-1, 1} /\ dir \in {-1, 1} /\ guard_start \in Int
          /\ command \in Int /\ ramp \in Int /\ ramp_end \in Int
      BY <1>1, <2>3, LimitsAssumption
      DEF IInv, TypeOK, RecoveryRamp, RampsInRange, Aligning, RecoveryGood
    <3>4. 0 <= (ramp_end - ramp) * (-dir)
      <4>1. CASE dir = 1
        BY <3>3, <4>1, LimitsAssumption DEF RecoveryGood
      <4>2. CASE dir = -1
        BY <3>3, <4>2, LimitsAssumption DEF RecoveryGood
      <4> QED
        BY <3>3, <4>1, <4>2
    <3>5. /\ command' \in Int /\ 0 <= (command' - ramp) * (-dir)
          /\ (command' - ramp) * (-dir) <= RecoveryStep
      BY <3>2, <3>3, <3>4, RampedStep, LimitsAssumption
    <3>6. command = ramp
      BY <3>3 DEF RecoveryGood
    <3>7. Abs(command' - command) = (command' - ramp) * (-dir)
      <4>1. command' - ramp \in Int
        BY <3>3, <3>5
      <4>2. Abs(command' - ramp) = (command' - ramp) * (-dir)
        BY <3>3, <3>5, <4>1, Along
      <4> QED
        BY <3>6, <4>2, Zenon
    <3> QED
      BY <2>3, <3>5, <3>7
  <2> QED
    BY <1>1, <2>1, <2>2, <2>3 DEF Next
<1>2. ASSUME IInv, UNCHANGED vars, Aligning
      PROVE  Abs(command' - command) <= (IF turn = "blind" THEN TurnStep ELSE RecoveryStep)
  <2>1. command' = command /\ command \in Int
    BY <1>2 DEF vars, IInv, TypeOK
  <2>2. Abs(command' - command) = 0
    BY <2>1, Differences
  <2> QED
    BY <2>2, LimitsAssumption
<1>3. IInv /\ [Next]_vars =>
        [Aligning /\ turn = turn' /\ turn \in {"blind", "recovery"} =>
           Abs(command' - command) <= (IF turn = "blind" THEN TurnStep ELSE RecoveryStep)]_vars
  BY <1>1, <1>2
<1> QED
  BY <1>3, Invariance, PTL DEF Spec, NoJump
=============================================================================
