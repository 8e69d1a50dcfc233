----------------------------- MODULE JumpStage -----------------------------
(***************************************************************************)
(* The jumping stage: core 1 sees an edge and sends a word, the callback   *)
(* of core 0 marks it, the main loop asks for a leap, and the 1 ms timer   *)
(* interrupt takes the legs through it.  Nothing is acknowledged, and a    *)
(* request made during a leap is counted and forgotten: that every edge is *)
(* jumped over once rests on the lengths of the course, the leap and the   *)
(* loops, which are therefore part of the model.  Time is counted in ticks *)
(* of the timer.  A protected car has its motors and legs switched off; it *)
(* drives no further, and a leap under way stands still until it is freed. *)
(***************************************************************************)
EXTENDS Naturals, Sequences, JumpDetect

CONSTANTS
    StepEnds,   \* column max of jump_control_config
    LegPeriod,  \* ticks between two calls of leg_control (5)
    Border,     \* ticks in which an edge passes through the camera's box
    FrameTime,  \* a picture is looked at within so many ticks
    LoopTime,   \* and so many ticks is a round of core 0's main loop at most
    Spacing     \* least number of ticks from one edge to the next

LeapTime == StepEnds[Len(StepEnds)]

\* An edge that came into the box is seen in less ticks: a picture between its
\* two sides breaks the run of MultiFrame.
Seeing == Border + MultiFrame * FrameTime

\* An edge leads from ground of one kind to the other, as dot_type_list has it.
ASSUME CourseAssumption ==
    \A i \in 1 .. Len(DotTypes) - 1 : DotTypes[i] # DotTypes[i + 1]

\* The word of an edge waits for the rest of a round that has just made its
\* test and for the test of the next, and the leap has to be over, and so has
\* the cooldown, when the next edge comes: this is the least distance that does.
ASSUME TimesAssumption ==
    /\ StepEnds \in Seq(Nat) /\ Len(StepEnds) = 4
    /\ 1 <= StepEnds[1] /\ StepEnds[1] < StepEnds[2] /\ StepEnds[2] < StepEnds[3]
    /\ StepEnds[3] + 1 < StepEnds[4]
    /\ {LegPeriod, Border, FrameTime, LoopTime} \subseteq Nat \ {0}
    /\ Spacing \in Nat
    /\ Spacing + 2 >= Seeing + 2 * LoopTime + LeapTime
    /\ Spacing + 2 >= Seeing + Cooldown

Poses == <<"thrust", "tuck", "prepare", "buffer">>
Commands == {"thrust", "tuck", "buffer", "drive", "off"}

VARIABLES
    \* the course and the car on it
    region,         \* stretches between edges that the box has reached
    age,            \* ticks since it reached the last one, up to Spacing
    fallen,         \* auto_protect_flag: latched beyond 75 degrees of pitch
    \* core 1
    detection,      \* the state of camera_jump_processing
    unseen,         \* ticks since the last picture was looked at
    main1,          \* next step of its main loop
    \* core 0: link, main loop
    mail,           \* the word 1 is in the link
    jump_updated,   \* is_jump_updated; is_jump_from_core1 is 1 with it
    jump_count,     \* jump_count
    done,           \* vision_phase_done_flag
    manual,         \* manual_protect_flag
    main0,          \* next step of its main loop
    spent,          \* ticks since its round began
    \* core 0: timer
    ticks,          \* system_time modulo LegPeriod
    jump_flag, jump_time,
    legs,           \* the last command to the servos
    \* history
    leaps,          \* leaps begun, up to one too many
    poses           \* commands since the last leap began

course == <<region, age>>
camera == <<detection, unseen, main1>>
requests == <<mail, jump_updated, jump_count, done>>
loop0 == <<manual, main0, spent>>
leap == <<jump_flag, jump_time, legs, leaps, poses>>
vars == <<course, fallen, camera, requests, loop0, ticks, leap>>

\* Course, camera and core 0; the duration of a leap is never exceeded.
TypeOK ==
    /\ region \in 0 .. Len(DotTypes) /\ age \in 0 .. Spacing /\ fallen \in BOOLEAN
    /\ detection \in Detections /\ unseen \in 0 .. FrameTime /\ main1 \in {"look", "send"}
    /\ mail \in BOOLEAN /\ jump_updated \in BOOLEAN
    /\ jump_count \in 0 .. Len(DotTypes) /\ done \in BOOLEAN
    /\ manual \in BOOLEAN /\ main0 \in {"switch", "stage", "jump"} /\ spent \in 0 .. LoopTime
    /\ ticks \in 0 .. LegPeriod - 1
    /\ jump_flag \in BOOLEAN /\ jump_time \in 0 .. LeapTime - 1
    /\ legs \in Commands
    /\ leaps \in 0 .. Len(DotTypes) + 1 /\ poses \in Seq(Commands)

Init ==
    /\ region = 0 /\ age = Border /\ fallen = FALSE
    /\ detection = NewDetection /\ unseen = 0 /\ main1 = "look"
    /\ mail = FALSE /\ jump_updated = FALSE /\ jump_count = 0 /\ done = FALSE
    /\ manual = FALSE /\ main0 = "switch" /\ spent = 0
    /\ ticks = 0 /\ jump_flag = FALSE /\ jump_time = 0 /\ legs = "drive"
    /\ leaps = 0 /\ poses = <<>>

-----------------------------------------------------------------------------
(* Core 1: the main loop                                                    *)

\* The course: stretches of the kinds that are awaited, after one that is not.
Ground == IF region > 0 THEN DotTypes[region]
          ELSE CHOOSE kind \in {"white", "black"} : kind # DotTypes[1]
Pictures == {Ground} \union (IF age < Border THEN {"neither"} ELSE {})

Look ==
    /\ main1 = "look"
    /\ \E picture \in Pictures :
          /\ detection' = JumpProcessing(detection, picture)
          /\ main1' = IF detection'.triggers > detection.triggers THEN "send" ELSE "look"
    /\ unseen' = 0
    /\ UNCHANGED <<course, fallen, requests, loop0, ticks, leap>>

\* appipc_send_u32(1); whether the link has taken it is not looked at.
Send ==
    /\ main1 = "send"
    /\ mail' = TRUE
    /\ main1' = "look"
    /\ UNCHANGED <<course, fallen, detection, unseen, jump_updated, jump_count, done,
                   loop0, ticks, leap>>

-----------------------------------------------------------------------------
(* Core 0: appipc_callback and the main loop                                *)

Callback ==
    /\ mail
    /\ mail' = FALSE /\ jump_updated' = TRUE
    /\ UNCHANGED <<course, fallen, camera, jump_count, done, loop0, ticks, leap>>

\* remote_left_02_switch_ctrl, after the wait of the round: a radio that is
\* lost protects nothing.
ReadSwitch(online, up) ==
    /\ main0 = "switch" /\ spent > 0
    /\ manual' = (online /\ up)
    /\ main0' = "stage" /\ spent' = 0
    /\ UNCHANGED <<course, fallen, camera, requests, ticks, leap>>

\* Mutant: the mark is not taken away.
StageKeepsMark ==
    /\ main0 = "stage"
    /\ main0' = IF jump_updated /\ jump_count < Len(DotTypes) THEN "jump" ELSE "switch"
    /\ UNCHANGED <<course, fallen, camera, requests, manual, spent, ticks, leap>>

Stage ==
    /\ main0 = "stage"
    /\ main0' = IF jump_updated /\ jump_count < Len(DotTypes) THEN "jump" ELSE "switch"
    /\ jump_updated' = FALSE
    /\ UNCHANGED <<course, fallen, camera, mail, jump_count, done, manual, spent, ticks, leap>>

Jump ==
    /\ main0 = "jump"
    /\ jump_flag' = TRUE
    /\ jump_count' = jump_count + 1
    /\ done' = (done \/ jump_count' = Len(DotTypes))
    /\ main0' = "switch"
    /\ UNCHANGED <<course, fallen, camera, mail, jump_updated, manual, spent, ticks,
                   jump_time, legs, leaps, poses>>

-----------------------------------------------------------------------------
(* Core 0: the timer interrupt                                              *)

Protected == fallen \/ manual

\* Mutant: the legs are steered during a leap, too.
LegControlAlways ==
    IF ticks # 0 THEN {} ELSE IF Protected THEN {"off"} ELSE {"drive"}

\* leg_control: the command it gives, if any.
LegControl ==
    IF ticks # 0 THEN {}
    ELSE IF Protected THEN {"off"}
    ELSE IF jump_flag THEN {} ELSE {"drive"}

\* The first step whose range the time is in; "prepare" moves nothing.
Pose(time) ==
    Poses[CHOOSE i \in 1 .. 4 : /\ time <= StepEnds[i]
                                /\ \A j \in 1 .. i - 1 : time > StepEnds[j]]

\* Mutant: a leap is a tick too long.
JumpControlLate ==
    \/ ~jump_flag /\ UNCHANGED <<jump_flag, jump_time>>
    \/ /\ jump_flag /\ jump_time < LeapTime
       /\ jump_time' = jump_time + 1 /\ UNCHANGED jump_flag
    \/ jump_flag /\ jump_time = LeapTime /\ jump_flag' = FALSE /\ jump_time' = 0

\* Mutant: the request is not taken back.
JumpControlStays ==
    \/ ~jump_flag /\ UNCHANGED <<jump_flag, jump_time>>
    \/ /\ jump_flag /\ jump_time + 1 < LeapTime
       /\ jump_time' = jump_time + 1 /\ UNCHANGED jump_flag
    \/ jump_flag /\ jump_time + 1 = LeapTime /\ jump_time' = 0 /\ UNCHANGED jump_flag

JumpControl ==
    \/ ~jump_flag /\ UNCHANGED <<jump_flag, jump_time>>
    \/ /\ jump_flag /\ jump_time + 1 < LeapTime
       /\ jump_time' = jump_time + 1 /\ UNCHANGED jump_flag
    \/ jump_flag /\ jump_time + 1 = LeapTime /\ jump_flag' = FALSE /\ jump_time' = 0

\* What the servos are told: by leg_control, then by jump_control.
Told == LegControl \union (IF jump_time' > jump_time THEN {Pose(jump_time')} \ {"prepare"} ELSE {})
Leaping == {"thrust", "tuck", "buffer"}
Begins == jump_time = 0 /\ jump_time' > 0

MoveLegs ==
    /\ legs' = IF Told \intersect Leaping # {} THEN CHOOSE c \in Told : c \in Leaping
               ELSE IF Told # {} THEN CHOOSE c \in Told : TRUE ELSE legs
    /\ leaps' = IF Begins /\ leaps <= Len(DotTypes) THEN leaps + 1 ELSE leaps
    /\ poses' = IF Begins THEN <<legs'>>
                ELSE IF jump_time = 0 \/ legs' \in {"off", poses[Len(poses)]} THEN poses
                ELSE Append(poses, legs')

\* The car drives on, unless it is protected, and reaches the next edge at
\* some time after Spacing.
Drive ==
    \/ /\ ~Protected' /\ region < Len(DotTypes) /\ age = Spacing
       /\ region' = region + 1 /\ age' = 0
    \/ /\ age' = IF ~Protected' /\ age < Spacing THEN age + 1 ELSE age
       /\ UNCHANGED region

\* One call of the interrupt.  Both loops keep their times, and a word is
\* fetched before the next tick.
Tick(falls) ==
    /\ ~mail /\ main1 = "look" /\ unseen < FrameTime /\ spent < LoopTime
    /\ ticks' = (ticks + 1) % LegPeriod
    /\ fallen' = (fallen \/ falls) /\ UNCHANGED manual
    /\ IF Protected' THEN UNCHANGED <<jump_flag, jump_time>> ELSE JumpControl
    /\ MoveLegs
    /\ Drive
    /\ unseen' = unseen + 1 /\ spent' = spent + 1
    /\ detection' = Elapse(detection)
    /\ UNCHANGED <<main1, requests, main0>>

Timer == \E falls \in BOOLEAN : Tick(falls)
MainLoop0 == (\E online, up \in BOOLEAN : ReadSwitch(online, up)) \/ Stage \/ Jump
MainLoop1 == Look \/ Send

Next == Timer \/ Callback \/ MainLoop0 \/ MainLoop1

Spec == Init /\ [][Next]_vars

\* The timer recurs, the loops run, and the protection switch is let go of
\* time and again.
Fairness ==
    /\ WF_vars(Timer) /\ WF_vars(Callback) /\ WF_vars(MainLoop0) /\ WF_vars(MainLoop1)
    /\ SF_vars(ReadSwitch(TRUE, FALSE))

FairSpec == Spec /\ Fairness

-----------------------------------------------------------------------------
(* Properties                                                               *)

Number(b) == IF b THEN 1 ELSE 0

\* Each edge sets off one jump, when it is seen and never again, though the
\* cooldown that is to avoid "repeated triggering" (camera.c) is 0: that the
\* kind awaited alternates is what keeps the box from setting off another.
OneJumpPerEdge ==
    /\ region \in {detection.triggers, detection.triggers + 1}
    /\ age >= Seeing => detection.triggers = region

\* Each jump that core 1 has seen is under way to core 0, or marked, or asked
\* for, or has been one leap of the legs: no request is made while a leap is
\* under way, and none is overwritten by the next before the main loop sees it.
EveryJumpIsALeap ==
    /\ jump_count = leaps + Number(jump_flag /\ jump_time = 0)
    /\ detection.triggers = jump_count + Number(main1 = "send") + Number(mail)
                            + Number(jump_updated) + Number(main0 = "jump")

\* A leap is whole when it ends: the legs thrust, are tucked in and cushion
\* the landing, in this order and with no other command between, however often
\* it stood still under protection.
LeapIsWhole ==
    [][jump_flag /\ ~jump_flag' => poses = <<"thrust", "tuck", "buffer">>]_vars

\* A leap comes to its end, unless the car falls.
LeapEnds == jump_flag ~> ~jump_flag \/ fallen
=============================================================================
