---------------------------- MODULE JumpDetect ----------------------------
(***************************************************************************)
(* Where to jump, as core 1's camera sees it (camera_jump_processing): the *)
(* box in front of the car is full of points of the kind that is awaited,  *)
(* for MultiFrame pictures in a row and not within Cooldown of the last    *)
(* jump.  The kinds are awaited in the order of a list.                    *)
(***************************************************************************)
EXTENDS Naturals, Sequences

CONSTANTS
    DotTypes,       \* dot_type_list
    MultiFrame,     \* JUMP_MULTI_FRAME
    Cooldown        \* JUMP_COOLDOWN_MS

ASSUME DetectAssumption ==
    /\ DotTypes \in Seq({"white", "black"}) /\ DotTypes # <<>>
    /\ MultiFrame \in Nat \ {0} /\ Cooldown \in Nat

\* multi_frame_count, jump_trigger_count (steps is a copy of it) and the time
\* since last_jump_time, up to Cooldown.
Detections == [ frames : 0 .. MultiFrame - 1, triggers : 0 .. Len(DotTypes), since : 0 .. Cooldown ]
NewDetection == [frames |-> 0, triggers |-> 0, since |-> Cooldown]

Finished(d) == d.triggers = Len(DotTypes)

\* Mutant: the first kind is awaited all the time.
FirstDotType(d) == DotTypes[1]

\* camproc_jump_dot_type_switch; of no account once the list is through.
DotType(d) == IF Finished(d) THEN DotTypes[d.triggers] ELSE DotTypes[d.triggers + 1]

Counted(d) == [d EXCEPT !.frames = @ + 1]
Restarted(d) == [d EXCEPT !.frames = 0]
Triggered(d) == [frames |-> 0, triggers |-> d.triggers + 1, since |-> 0]

\* One new picture, whose box is full of white points, of black ones (at least
\* 1600 of 1825 points, so never of both) or of neither.
JumpProcessing(d, picture) ==
    IF Finished(d) \/ picture # DotType(d) THEN Restarted(d)
    ELSE IF d.frames + 1 < MultiFrame THEN Counted(d)
    ELSE IF d.since < Cooldown THEN Restarted(d)
    ELSE Triggered(d)

Elapse(d) == [d EXCEPT !.since = IF @ < Cooldown THEN @ + 1 ELSE @]
=============================================================================
