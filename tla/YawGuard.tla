------------------------------ MODULE YawGuard ------------------------------
(***************************************************************************)
(* The heading that core 0 commands while vision steers (the 5 ms part of  *)
(* pit0_ch0_isr, cm7_0_isr.c): the guard around the heading at which       *)
(* vision took over, the forced turn with its ramp, the recovery with its  *)
(* own ramp, the fault, and the limits of the way back.  Angles are        *)
(* integers in some small unit.  When a turn is asked for, released or     *)
(* timed out is left to BlindTurn, when the way back is locked to Mission: *)
(* here these are inputs of a tick.  The heading of the car is arbitrary,  *)
(* with a bound on its change from one tick to the next.                   *)
(***************************************************************************)
EXTENDS Integers

CONSTANTS
    TargetLimit,    \* VISION_ALIGN_TARGET_YAW_LIMIT_DEG
    AbsoluteLimit,  \* VISION_ALIGN_ABSOLUTE_YAW_LIMIT_DEG
    TurnStep,       \* VISION_FORCE_BLIND_YAW_STEP_DEG
    RecoveryAngle,  \* VISION_BLIND_RECOVERY_YAW_DEG
    RecoveryStep,   \* VISION_BLIND_RECOVERY_YAW_STEP_DEG
    BackLimit,      \* VISION_BACK_YAW_LIMIT_DEG
    ExitHeading,    \* the heading commanded on the bridge (-1 degree)
    Headings,       \* headings of the car
    Corrections,    \* vision_target_yaw times its gain (0.003 everywhere)
    Slew            \* most the heading changes in a tick

ASSUME LimitsAssumption ==
    /\ TargetLimit \in Nat \ {0} /\ AbsoluteLimit \in Nat /\ TargetLimit < AbsoluteLimit
    /\ TurnStep \in Nat \ {0} /\ TurnStep <= TargetLimit
    /\ RecoveryStep \in Nat \ {0} /\ RecoveryAngle \in Nat /\ RecoveryAngle <= TargetLimit
    /\ BackLimit \in Nat /\ ExitHeading \in Int /\ Slew \in Nat
    /\ Headings \subseteq Int /\ Corrections \subseteq Int
    /\ 0 \in Headings

VARIABLES
    stage,          \* before, in and after the bridge stage; the way back
    yaw,            \* yaw_angle
    command,        \* target_yaw_remote
    armed,          \* vision_yaw_guard_active
    guard_start,    \* vision_yaw_guard_start
    reached,        \* vision_yaw_guard_reached
    turn,           \* which of the three flags of the turn is set, if any
    start,          \* force_blind_start_yaw
    dir,            \* force_blind_direction
    ramp,           \* force_blind_command_yaw or blind_recovery_command_yaw
    ramp_end,       \* force_blind_target_yaw or blind_recovery_target_yaw
    lane,           \* back_yaw_control_active
    lane_start      \* back_yaw_control_start

vars == <<stage, yaw, command, armed, guard_start, reached, turn, start, dir, ramp, ramp_end,
          lane, lane_start>>

\* Headings are measured ones where the code stores yaw_angle, else integers.
TypeOK ==
    /\ stage \in {"before", "align", "exit", "bumps", "back"}
    /\ yaw \in Headings /\ command \in Int
    /\ armed \in BOOLEAN /\ reached \in BOOLEAN
    /\ turn \in {"none", "blind", "recovery", "fault"}
    /\ guard_start \in Headings /\ start \in Headings /\ dir \in {-1, 1}
    /\ ramp \in Int /\ ramp_end \in Int
    /\ lane \in BOOLEAN /\ lane_start \in Headings

Init ==
    /\ stage = "before" /\ yaw = 0 /\ command = 0
    /\ armed = FALSE /\ guard_start = 0 /\ reached = FALSE
    /\ turn = "none" /\ start = 0 /\ dir = 1 /\ ramp = 0 /\ ramp_end = 0
    /\ lane = FALSE /\ lane_start = 0

Abs(n) == IF n < 0 THEN -n ELSE n

\* The value moved to the nearer end of an interval it has left.
Clamp(n, low, high) == IF n > high THEN high ELSE IF n < low THEN low ELSE n

\* One step of a ramp in direction d, cut off at its end.
Ramped(n, d, step, end) ==
    LET next == n + d * step
    IN  IF (d > 0 /\ next > end) \/ (d < 0 /\ next < end) THEN end ELSE next

-----------------------------------------------------------------------------
(* The guard block, at the heading of the tick before                       *)

GuardStart == IF armed THEN guard_start ELSE yaw
GuardCommand == IF armed THEN command ELSE yaw
GuardReached ==
    \/ armed /\ reached
    \/ turn \notin {"blind", "recovery"} /\ Abs(yaw - GuardStart) >= AbsoluteLimit

-----------------------------------------------------------------------------
(* The angle loop in the aligning phase, at the new heading                 *)

\* Mutant: the guard keeps its start.
RearmInPlace ==
    /\ turn' = "none" /\ reached' = FALSE
    /\ command' = yaw'
    /\ guard_start' = GuardStart

\* Mutant: the guard starts at the command instead of the heading.
RearmAtCommand ==
    /\ turn' = "none" /\ reached' = FALSE
    /\ command' = yaw'
    /\ guard_start' = command

\* Vision takes over at the present heading.
Rearm ==
    /\ turn' = "none"
    /\ guard_start' = yaw' /\ reached' = FALSE
    /\ command' = yaw'

Fail ==
    /\ turn' = "fault"
    /\ reached' = TRUE
    /\ command' = yaw'
    /\ guard_start' = GuardStart

\* Mutant: the recovery's ramp goes the way of the turn.
RecoverForward(fresh, late) ==
    /\ turn = "recovery"
    /\ \/ fresh /\ Rearm /\ UNCHANGED ramp
       \/ ~fresh /\ late /\ Fail /\ UNCHANGED ramp
       \/ /\ ~fresh /\ ~late
          /\ ramp' = Ramped(ramp, dir, RecoveryStep, ramp_end)
          /\ command' = ramp'
          /\ guard_start' = GuardStart /\ reached' = GuardReached
          /\ UNCHANGED turn
    /\ UNCHANGED <<start, dir, ramp_end>>

Recover(fresh, late) ==
    /\ turn = "recovery"
    /\ \/ fresh /\ Rearm /\ UNCHANGED ramp
       \/ ~fresh /\ late /\ Fail /\ UNCHANGED ramp
       \/ /\ ~fresh /\ ~late
          /\ ramp' = Ramped(ramp, -dir, RecoveryStep, ramp_end)
          /\ command' = ramp'
          /\ guard_start' = GuardStart /\ reached' = GuardReached
          /\ UNCHANGED turn
    /\ UNCHANGED <<start, dir, ramp_end>>

\* s, d, n, e: where the turn started, its direction, its ramp and ramp's end.
Blind(s, d, n, e, guard, hit, release, fresh, late) ==
    /\ start' = s /\ dir' = d
    /\ \/ release /\ Rearm /\ ramp' = n /\ ramp_end' = e
       \/ /\ ~release /\ (yaw' - s) * d >= TargetLimit
          /\ turn' = IF fresh THEN "none" ELSE "recovery"
          /\ guard_start' = yaw' /\ reached' = FALSE /\ command' = yaw'
          /\ ramp' = IF fresh THEN n ELSE yaw'
          /\ ramp_end' = IF fresh THEN e ELSE yaw' - d * RecoveryAngle
       \/ /\ ~release /\ (yaw' - s) * d < TargetLimit
          /\ Abs(yaw' - s) >= AbsoluteLimit \/ late
          /\ turn' = "fault" /\ reached' = TRUE
          /\ command' = yaw' /\ guard_start' = guard
          /\ ramp' = n /\ ramp_end' = e
       \/ /\ ~release /\ (yaw' - s) * d < TargetLimit
          /\ Abs(yaw' - s) < AbsoluteLimit /\ ~late
          /\ turn' = "blind"
          /\ ramp' = Ramped(n, d, TurnStep, e) /\ ramp_end' = e
          /\ command' = ramp'
          /\ guard_start' = guard /\ reached' = hit

\* A turn under way, and one that begins in this tick.
Continue(release, fresh, late) ==
    /\ turn = "blind"
    /\ Blind(start, dir, ramp, ramp_end, GuardStart, GuardReached, release, fresh, late)

Begin(d, release) ==
    /\ turn = "none"
    /\ Blind(yaw', d, yaw', yaw' + d * TargetLimit, yaw', FALSE, release, FALSE, FALSE)

\* Vision steers inside the guard; once the guard has tripped, or in a fault,
\* the edge of the permitted range on the car's side is commanded.
Guarded(v) ==
    /\ turn \in {"none", "fault"}
    /\ guard_start' = GuardStart /\ reached' = GuardReached
    /\ command' =
          IF GuardReached
            THEN GuardStart + (IF yaw' >= GuardStart THEN TargetLimit ELSE -TargetLimit)
            ELSE Clamp(GuardCommand + v, GuardStart - TargetLimit, GuardStart + TargetLimit)
    /\ UNCHANGED <<turn, start, dir, ramp, ramp_end>>

AlignTick ==
    /\ stage = "align"
    /\ armed' = TRUE
    /\ \/ \E fresh, late \in BOOLEAN : Recover(fresh, late)
       \/ \E release, fresh, late \in BOOLEAN : Continue(release, fresh, late)
       \/ \E d \in {-1, 1}, release \in BOOLEAN : Begin(d, release)
       \/ \E v \in Corrections : Guarded(v)

-----------------------------------------------------------------------------
(* Elsewhere the guard and the turn are cleared                             *)

ClearGuard ==
    /\ armed' = FALSE /\ reached' = FALSE /\ turn' = "none"
    /\ UNCHANGED <<guard_start, start, dir, ramp, ramp_end>>

OtherTick ==
    /\ stage \in {"before", "exit", "bumps"}
    /\ ClearGuard
    /\ \/ stage = "before" /\ UNCHANGED command
       \/ stage = "exit" /\ command' = ExitHeading
       \/ stage = "bumps" /\ \E v \in Corrections : command' = command + v

\* Outside of the way back its control is not active.
NoLane == lane' = FALSE /\ UNCHANGED lane_start

\* The way back begins at the present heading and follows vision, until it is
\* locked, on either side of it.
BackTick(locked, v) ==
    /\ stage = "back"
    /\ ClearGuard
    /\ lane' = TRUE
    /\ lane_start' = IF lane THEN lane_start ELSE yaw'
    /\ command' = Clamp((IF lane THEN command ELSE yaw') + (IF locked THEN 0 ELSE v),
                        lane_start' - BackLimit, lane_start' + BackLimit)

Tick ==
    /\ \E h \in Headings : Abs(h - yaw) <= Slew /\ yaw' = h
    /\ \/ AlignTick /\ NoLane
       \/ OtherTick /\ NoLane
       \/ \E locked \in BOOLEAN, v \in Corrections : BackTick(locked, v)
    /\ UNCHANGED stage

\* The callback and the main loop move the stage on between two ticks; a turn
\* is never under way when the bridge is counted as aligned.
Order == { <<"before", "align">>, <<"align", "exit">>, <<"align", "bumps">>,
           <<"exit", "bumps">>, <<"before", "back">>, <<"bumps", "back">> }

Proceed ==
    /\ \E s \in {"align", "exit", "bumps", "back"} :
          /\ <<stage, s>> \in Order
          /\ s = "exit" => turn = "none"
          /\ stage' = s
    /\ turn' = IF stage' = "bumps" THEN "none" ELSE turn
    /\ UNCHANGED <<yaw, command, armed, guard_start, reached, start, dir, ramp, ramp_end,
                   lane, lane_start>>

Next == Tick \/ Proceed

Spec == Init /\ [][Next]_vars

-----------------------------------------------------------------------------
(* Properties                                                               *)

Aligning == stage = "align" /\ armed

\* "The largest relative heading that vision alignment may command": whichever
\* branch steers, and however the guard is re-armed on the way, the command
\* stays within the permitted range of the guard's start.  On the way back it
\* stays within "the largest correction relative to the heading on entry",
\* whatever heading an earlier stage had commanded.
CommandInRange ==
    /\ Aligning /\ turn # "fault" => Abs(command - guard_start) <= TargetLimit
    /\ stage = "back" /\ lane => Abs(command - lane_start) <= BackLimit

\* A forced turn commands only the side it was asked for, never beyond its end,
\* and the car has turned less than the absolute limit, to either side; a
\* recovery commands only the way back, at most RecoveryAngle of it.
RampsInRange ==
    /\ Aligning /\ turn = "blind" =>
         /\ 0 <= (command - start) * dir /\ (command - start) * dir <= TargetLimit
         /\ Abs(yaw - start) < AbsoluteLimit
    /\ Aligning /\ turn = "recovery" =>
         /\ 0 <= (guard_start - command) * dir
         /\ (guard_start - command) * dir <= RecoveryAngle

\* "Avoid a jump of the target that makes the yaw loop give its full output":
\* in a turn and in a recovery the command moves by no more than a ramp step.
NoJump ==
    [][Aligning /\ turn = turn' /\ turn \in {"blind", "recovery"} =>
         Abs(command' - command) <= (IF turn = "blind" THEN TurnStep ELSE RecoveryStep)]_vars
=============================================================================
