---------------------------- MODULE BridgeAlign ----------------------------
(***************************************************************************)
(* Core 1 while the car lines up with the bridge: the alignment of one     *)
(* frame after the other (tracking, blind turn, complete) and the requests *)
(* to core 0 that the main loop derives from it (forced turn, its release, *)
(* fresh target).                                                          *)
(*                                                                         *)
(* The geometry of a line is arbitrary, but for what its box and its slope *)
(* have to do with each other; headings are absolute values in degrees,    *)
(* offsets are what gain, dead band and limit make of the look-ahead       *)
(* target.  The line filter keeps only whether it has begun: its output    *)
(* lies anywhere, except for the first line, which it passes on.  The      *)
(* times that the code compares with its clock are ages, which stop at     *)
(* their limit.  The check for the end of the bridge is in Mission, and so *)
(* is what the way back makes of its lines; that it sees them with the     *)
(* same recognition is here.                                               *)
(***************************************************************************)
EXTENDS Integers, BridgeDetect

CONSTANTS
    Headings,                       \* absolute headings of a line
    Offsets,                        \* offsets that a look-ahead target asks for
    BoxHeading,                     \* the steepest line that fits the fallback box
    NearEnter, NearExit,            \* BRIDGE_NEAR_ENTER_ANGLE_D10, _EXIT_
    FullAngle,                      \* BRIDGE_LOOKAHEAD_FULL_ANGLE_D10
    TriggerAngle,                   \* BRIDGE_BLIND_TRIGGER_ANGLE_D10
    ForceAngle,                     \* BRIDGE_FORCE_BLIND_TRIGGER_ANGLE_D10
    ReleaseAngle, ReleaseReset,     \* BRIDGE_BLIND_RELEASE_ANGLE_D10, _RESET_D10
    Slew, NearSlew,                 \* BRIDGE_ALIGN_YAW_SLEW_LIMIT_D10, _NEAR_
    Gain, NearGain,                 \* BRIDGE_CONTROL_GAIN_PER_DEG, _NEAR_
    ControlLimit, StableDelta,      \* BRIDGE_CONTROL_LIMIT, _STABLE_DELTA
    ConfirmFrames, LostReset,       \* BRIDGE_ALIGN_COMPLETE_CONFIRM_FRAMES, _LOST_RESET_
    ReverseFrames,                  \* BRIDGE_NEAR_REVERSE_CONFIRM_FRAMES
    FallbackTime, Grace,            \* BRIDGE_FALLBACK_TIMEOUT_MS, _ESTIMATED_GRACE_
    ReliableFrames, EstimatedFrames,\* BRIDGE_BLIND_RELIABLE_FRAMES, _ESTIMATED_
    Percent, BlindTime,             \* BRIDGE_BLIND_CONTROL_PERCENT, _TURN_TIME_MS
    FreshFrames,                    \* BRIDGE_FRESH_TARGET_CONFIRM_FRAMES
    ReleaseFrames, ReleaseTime      \* BRIDGE_BLIND_RELEASE_CONFIRM_FRAMES, _MIN_TIME_MS

\* What the function demands of its parameters (1069-1108).
ASSUME ParametersAssumption ==
    /\ Headings \subseteq Nat /\ Offsets \subseteq Int
    /\ {BoxHeading, FullAngle, TriggerAngle, ForceAngle, ReleaseAngle, ReleaseReset,
        StableDelta} \subseteq Nat
    /\ {NearEnter, NearExit, Slew, NearSlew, Gain, NearGain, ControlLimit, ConfirmFrames,
        LostReset, ReverseFrames, FallbackTime, Grace, ReliableFrames, EstimatedFrames,
        Percent, BlindTime, FreshFrames, ReleaseFrames, ReleaseTime} \subseteq Nat \ {0}
    /\ NearEnter < NearExit /\ Percent <= 100

\* What main_cm7_1.c makes of them (75, 87, 88, 99): a bend is known and a reversal
\* made after more than one frame, and a bend is as steep as a forced turn.
ASSUME SettingsAssumption ==
    ReliableFrames > 1 /\ ReverseFrames > 1 /\ ForceAngle <= TriggerAngle

VARIABLES
    stage,          \* what core 1 looks at lines for: function_option and phase
    align,          \* bridge_align_state
    answer,         \* bridge_align_result, and whether the update reported success
    request,        \* the main loop's counters and requests
    view            \* history: what the tracker has seen lately

alignVars == <<align, answer, request, view>>
vars == <<stage, detectVars, alignVars>>

\* The aligning phase, the way back, and everything that looks at no lines.
Stages == {"ALIGN", "BACK", "OTHER"}

Least(a, b) == IF a < b THEN a ELSE b
Within(n, low, high) == IF n < low THEN low ELSE IF n > high THEN high ELSE n
Sign(n) == IF n > 0 THEN 1 ELSE IF n < 0 THEN -1 ELSE 0
Abs(n) == IF n < 0 THEN -n ELSE n
\* Division in C, and a division by 10 rounded half away from zero.
Quotient(n, d) == Sign(n) * (Abs(n) \div d)
Tenth(n) == Sign(n) * ((Abs(n) + 5) \div 10)

Phases == {"TRACK", "BLIND_TURN", "COMPLETE"}

\* camproc_bridge_align_reset.
Reset == [
    phase |-> "TRACK", age |-> 0, blind |-> 0,
    near |-> FALSE, sign |-> 0, pending |-> 0, reversed |-> 0,
    inside |-> 0, fallback |-> FALSE, dwell |-> 0, filled |-> 0,
    reliable |-> 0, estimated |-> 0, reference |-> 0,
    lost |-> 0, filtered |-> FALSE, offset |-> 0, control |-> 0 ]

\* The result as it is cleared at the start of an update.
NoAnswer == [ updated |-> FALSE, valid |-> FALSE, aligned |-> FALSE,
              phase |-> "TRACK", control |-> 0, heading |-> 0 ]

NoRequest == [ seen |-> FALSE, force |-> FALSE, monitor |-> FALSE, age |-> 0,
               stable |-> 0, release |-> FALSE, fresh |-> 0, steep |-> FALSE ]

NothingSeen == [ streak |-> 0, since |-> 0, bends |-> 0 ]

Controls == -ControlLimit .. ControlLimit

Alignments == [
    phase : Phases, age : 0 .. BlindTime, blind : Controls,
    near : BOOLEAN, sign : -1 .. 1, pending : -1 .. 1, reversed : 0 .. ReverseFrames - 1,
    inside : 0 .. ConfirmFrames, fallback : BOOLEAN, dwell : 0 .. FallbackTime,
    filled : 0 .. Grace,
    reliable : 0 .. ReliableFrames, estimated : 0 .. EstimatedFrames,
    reference : Controls,
    lost : 0 .. LostReset - 1, filtered : BOOLEAN, offset : Int, control : Controls ]

Answers == [
    updated : BOOLEAN, valid : BOOLEAN, aligned : BOOLEAN,
    phase : Phases, control : Controls, heading : Headings \union {0} ]

Requests == [
    seen : BOOLEAN, force : BOOLEAN, monitor : BOOLEAN, age : 0 .. ReleaseTime,
    stable : 0 .. ReleaseFrames - 1, release : BOOLEAN, fresh : 0 .. FreshFrames,
    steep : BOOLEAN ]

Views == [
    streak : 0 .. ConfirmFrames, since : 0 .. FallbackTime, bends : 0 .. ReliableFrames ]

\* The alignment of core 1, its counters and ages within their limits.
TypeOK ==
    /\ DetectType /\ stage \in Stages
    /\ align \in Alignments /\ answer \in Answers /\ request \in Requests /\ view \in Views

\* A seen line: the box that its ends are in, its slope now and filtered, the
\* offset it asks for.  Out of the box the slope now does not matter, except to
\* the filter.
Lines ==
    { l \in [ box : {"strict", "fallback", "outside"}, raw : Headings, heading : Headings,
              offset : Offsets ] :
        IF l.box = "outside" THEN l.raw = l.heading ELSE l.raw <= BoxHeading }

-----------------------------------------------------------------------------
(* Parts of an update                                                       *)

LeaveNear(a) == [ a EXCEPT !.near = FALSE, !.sign = 0, !.pending = 0, !.reversed = 0 ]
LeaveBox(a) == [ a EXCEPT !.fallback = FALSE, !.dwell = 0, !.filled = 0 ]
Forget(a) == [ a EXCEPT !.reliable = 0, !.estimated = 0, !.reference = 0 ]

\* A share of the reliable control, but never none.
Share(reference) ==
    LET share == Quotient(reference * Percent, 100)
    IN IF share # 0 THEN share ELSE IF reference > 0 THEN 1 ELSE -1

BeginTurn(a) ==
    [ Forget(LeaveBox(LeaveNear(a))) EXCEPT
        !.phase = "BLIND_TURN", !.age = 0, !.blind = Share(a.reference) ]

\* The blind turn is over: the frame at hand is looked at afresh.
EndTurn(a) ==
    [ Forget(LeaveBox(LeaveNear(a))) EXCEPT
        !.phase = "TRACK", !.age = 0, !.blind = 0, !.filtered = FALSE, !.offset = 0, !.control = 0 ]

StillTurning == align.phase = "BLIND_TURN" /\ align.age < BlindTime
Resumed == IF align.phase = "BLIND_TURN" THEN EndTurn(align) ELSE align

\* Close to the target and nearly straight, with hysteresis.
NearMode(a, l) ==
    IF ~a.near
    THEN IF sight' = "fresh" /\ l.box # "outside" /\ l.raw <= NearEnter
         THEN [ LeaveNear(a) EXCEPT !.near = TRUE ] ELSE a
    ELSE IF l.box = "outside" \/ l.raw >= NearExit THEN LeaveNear(a) ELSE a

\* Fresh lines in the narrow box, in a row.
CountInside(a, l) ==
    [ a EXCEPT !.inside =
        IF sight' = "fresh" /\ l.box = "strict" THEN Least(@ + 1, ConfirmFrames) ELSE 0 ]

\* Mutant: the grace is counted one frame too long.
StayInBoxLonger(a, l) ==
    CASE l.box = "outside" -> LeaveBox(a)
      [] l.box # "outside" /\ sight' = "fresh" -> [ a EXCEPT !.fallback = TRUE, !.filled = 0 ]
      [] OTHER -> IF a.fallback /\ a.filled <= Grace THEN [ a EXCEPT !.filled = @ + 1 ]
                  ELSE LeaveBox(a)

\* Mutant: leaving the wide box does not stop the time of the stay.
StayInBoxAnyway(a, l) ==
    CASE l.box = "outside" -> a
      [] l.box # "outside" /\ sight' = "fresh" -> [ a EXCEPT !.fallback = TRUE, !.filled = 0 ]
      [] OTHER -> IF a.fallback /\ a.filled < Grace THEN [ a EXCEPT !.filled = @ + 1 ]
                  ELSE LeaveBox(a)

\* The stay in the wide box, which a few estimated lines do not end.
StayInBox(a, l) ==
    CASE l.box = "outside" -> LeaveBox(a)
      [] l.box # "outside" /\ sight' = "fresh" -> [ a EXCEPT !.fallback = TRUE, !.filled = 0 ]
      [] OTHER -> IF a.fallback /\ a.filled < Grace THEN [ a EXCEPT !.filled = @ + 1 ]
                  ELSE LeaveBox(a)

\* The line was in the wide box and fresh for the first time long enough ago.
Watched(a, l) == [ StayInBox(CountInside(NearMode(a, l), l), l) EXCEPT !.lost = 0 ]
IsConfirmed(a, l) ==
    \/ a.inside >= ConfirmFrames
    \/ l.box # "outside" /\ sight' = "fresh" /\ a.dwell >= FallbackTime

\* The offset moves by limited steps; camproc_bridge_yaw_offset_to_control.
NextOffset(a, l) ==
    LET slew == IF a.near THEN NearSlew ELSE Slew
    IN Within(l.offset, a.offset - slew, a.offset + slew)
ControlOf(a, offset) ==
    Within(Tenth(offset * (IF a.near THEN NearGain ELSE Gain)), -ControlLimit, ControlLimit)

\* In the near mode a change of sides is made only when it is asked for in
\* several frames in a row; until then the car goes straight.
Reverses(a, c) == a.near /\ c # 0 /\ a.sign # 0 /\ Sign(c) # a.sign
Repeats(a, c) == IF Sign(c) = a.pending THEN Least(a.reversed + 1, ReverseFrames) ELSE 1
\* Mutant: the reversal is confirmed by the frame that asks for it first.
IsWithheldShort(a, c) == Reverses(a, c) /\ Repeats(a, c) < ReverseFrames - 1

IsWithheld(a, c) == Reverses(a, c) /\ Repeats(a, c) < ReverseFrames
KeepSide(a, c) ==
    CASE ~a.near -> a
      [] IsWithheld(a, c) -> [ a EXCEPT !.pending = Sign(c), !.reversed = Repeats(a, c) ]
      [] OTHER -> [ a EXCEPT !.pending = 0, !.reversed = 0,
                             !.sign = IF c = 0 THEN @ ELSE Sign(c) ]

IsStable(a, c) ==
    a.control = 0 \/ (Sign(c) * Sign(a.control) # -1 /\ Abs(c - a.control) <= StableDelta)
IsBend(l, c) == sight' = "fresh" /\ Least(l.heading, FullAngle) >= TriggerAngle /\ c # 0

\* The side of a bend is learnt from fresh frames; estimated ones only tell how
\* long ago that was.
Learn(a, l, c) ==
    LET n == Least(a.reliable + 1, ReliableFrames)
    IN CASE IsBend(l, c) /\ IsStable(a, c) ->
              [ a EXCEPT !.reliable = n, !.estimated = 0,
                  !.reference = IF n = 1 THEN c ELSE Quotient(@ * (n - 1) + c, n) ]
         [] IsBend(l, c) /\ ~IsStable(a, c) ->
              [ a EXCEPT !.reliable = 1, !.estimated = 0, !.reference = c ]
         [] ~IsBend(l, c) /\ sight' = "fresh" -> Forget(a)
         [] OTHER -> IF a.reliable >= ReliableFrames
                     THEN [ a EXCEPT !.estimated = Least(@ + 1, EstimatedFrames) ] ELSE a

\* Whether an edge is close to the border of the picture is arbitrary.
MayLoseBend(a) == a.reliable >= ReliableFrames
LosesBend(a) == MayLoseBend(a) /\ a.estimated >= EstimatedFrames

-----------------------------------------------------------------------------
(* camproc_bridge_align_update                                              *)

Completed ==
    /\ align.phase = "COMPLETE"
    /\ answer' = [ NoAnswer EXCEPT !.updated = TRUE, !.valid = TRUE, !.aligned = TRUE,
                                   !.phase = "COMPLETE" ]
    /\ UNCHANGED align

Turning ==
    /\ StillTurning
    /\ align' = LeaveBox(LeaveNear(align))
    /\ answer' = [ NoAnswer EXCEPT !.updated = TRUE, !.valid = TRUE,
                                   !.phase = "BLIND_TURN", !.control = align.blind ]

\* The remaining cases look at the frame.
Looks == align.phase # "COMPLETE" /\ ~StillTurning

Unseen == [ LeaveBox(LeaveNear(Resumed)) EXCEPT !.inside = 0 ]
KnowsBend == Unseen.reliable >= ReliableFrames /\ Unseen.reference # 0

\* The line is lost in a bend whose side is known.
LoseInBend ==
    /\ Looks /\ sight' = "none" /\ KnowsBend
    /\ align' = BeginTurn(Unseen)
    /\ answer' = [ NoAnswer EXCEPT !.updated = TRUE, !.valid = TRUE,
                                   !.phase = "BLIND_TURN", !.control = align'.blind ]

\* The line is lost elsewhere.  The frame that ends a blind turn is marked valid.
Lose ==
    /\ Looks /\ sight' = "none" /\ ~KnowsBend
    /\ align' = IF Unseen.lost + 1 >= LostReset THEN Reset
                ELSE [ Unseen EXCEPT !.lost = @ + 1, !.filtered = FALSE, !.offset = 0 ]
    /\ answer' = [ NoAnswer EXCEPT !.valid = align.phase = "BLIND_TURN",
                                   !.phase = align'.phase ]

\* The first line after a reset is passed on by the filter as it is.
Shows(l) ==
    /\ Looks /\ sight' # "none"
    /\ Resumed.filtered \/ l.heading = l.raw

Confirm(a) ==
    /\ align' = [ a EXCEPT !.phase = "COMPLETE", !.offset = 0, !.control = 0 ]
    /\ answer' = [ NoAnswer EXCEPT !.updated = TRUE, !.valid = TRUE, !.aligned = TRUE,
                                   !.phase = "COMPLETE" ]

\* Steering: the offset, the control it gives, and what is learnt from it.  Nobody
\* reads the heading of an estimated line.
Steer(a, l) ==
    LET offset == NextOffset(a, l)
        asked == ControlOf(a, offset)
        given == IF IsWithheld(a, asked) THEN 0 ELSE asked
        b == Learn([ KeepSide(a, asked) EXCEPT !.filtered = TRUE, !.offset = offset ],
                   l, given)
        turn == BeginTurn(b)
        seen == [ NoAnswer EXCEPT !.updated = TRUE, !.valid = TRUE,
                    !.heading = IF sight' = "fresh" THEN l.heading ELSE 0 ]
    IN \/ /\ MayLoseBend(b)
          /\ align' = [ turn EXCEPT !.control = turn.blind ]
          /\ answer' = [ seen EXCEPT !.phase = "BLIND_TURN", !.control = turn.blind ]
       \/ /\ ~LosesBend(b)
          /\ align' = [ b EXCEPT !.control = given ]
          /\ answer' = [ seen EXCEPT !.control = given ]

Look(l) ==
    /\ Shows(l)
    /\ LET a == Watched(Resumed, l)
       IN IF IsConfirmed(a, l) THEN Confirm(a) ELSE Steer(a, l)

-----------------------------------------------------------------------------
(* The main loop                                                            *)

\* Mutant: the request is not withdrawn when the blind turn ends.
AskOn(r) ==
    CASE answer'.phase # "BLIND_TURN" -> [ r EXCEPT !.seen = FALSE ]
      [] answer'.phase = "BLIND_TURN" /\ ~r.seen ->
           IF r.steep
           THEN [ r EXCEPT !.seen = TRUE, !.force = TRUE, !.monitor = TRUE,
                           !.stable = 0, !.age = 0 ]
           ELSE [ r EXCEPT !.seen = TRUE, !.force = FALSE ]
      [] OTHER -> r

\* A forced turn is asked for once in a blind turn, if the line was steep when it
\* was last seen; from then on its release is watched for.
Ask(r) ==
    CASE answer'.phase # "BLIND_TURN" -> [ r EXCEPT !.seen = FALSE, !.force = FALSE ]
      [] answer'.phase = "BLIND_TURN" /\ ~r.seen ->
           IF r.steep
           THEN [ r EXCEPT !.seen = TRUE, !.force = TRUE, !.monitor = TRUE,
                           !.stable = 0, !.age = 0 ]
           ELSE [ r EXCEPT !.seen = TRUE, !.force = FALSE ]
      [] OTHER -> r

\* Fresh lines in a row that are straight enough release the turn.
Straight == answer'.updated /\ sight' = "fresh" /\ answer'.phase # "BLIND_TURN"
Watch(r) ==
    CASE ~(r.monitor /\ r.age >= ReleaseTime) -> r
      [] r.monitor /\ r.age >= ReleaseTime /\ ~Straight -> [ r EXCEPT !.stable = 0 ]
      [] OTHER ->
           IF answer'.heading <= ReleaseAngle
           THEN IF r.stable + 1 >= ReleaseFrames
                THEN [ r EXCEPT !.release = TRUE, !.monitor = FALSE, !.stable = 0,
                                 !.age = 0 ]
                ELSE [ r EXCEPT !.stable = @ + 1 ]
           ELSE IF answer'.heading >= ReleaseReset THEN [ r EXCEPT !.stable = 0 ] ELSE r

\* Mutant: every frame is noted, not only fresh ones.
NotedAlways(r) ==
    [ r EXCEPT
        !.fresh = IF sight' = "fresh" THEN Least(@ + 1, FreshFrames) ELSE 0,
        !.steep = IF answer'.phase # "BLIND_TURN" THEN answer'.heading >= ForceAngle ELSE @ ]

Noted(r) ==
    [ r EXCEPT
        !.fresh = IF sight' = "fresh" THEN Least(@ + 1, FreshFrames) ELSE 0,
        !.steep = IF sight' = "fresh" /\ answer'.phase # "BLIND_TURN"
                  THEN answer'.heading >= ForceAngle ELSE @ ]

\* The word for core 0 is refused while the mailbox is taken; the release is
\* withdrawn only when it has been taken.
MakeRequests ==
    LET r == Watch(Ask(Noted(request)))
    IN \/ request' = [ r EXCEPT !.release = FALSE ]
       \/ r.release /\ request' = r

\* History, kept for the properties.  The tracker looks at a frame unless it is
\* turning blindly: of those frames, fresh lines in the narrow box in a row, the
\* time that the line has been in the wide one without being estimated for long
\* (no frame at all does not end it), and fresh bends in a row with a steady
\* control, as long as after enough of them the line is at least estimated.
IsSteepNow(l) == sight' = "fresh" /\ l.heading >= TriggerAngle /\ align'.control # 0
IsSteady ==
    view.bends = 0 \/ (Sign(align'.control) = Sign(align.control)
                       /\ Abs(align'.control - align.control) <= StableDelta)
Ignore == view' = [ view EXCEPT !.since = 0, !.bends = 0 ]
Overlook == view' = NothingSeen
See(l) ==
    view' = [
        streak |-> IF sight' = "fresh" /\ l.box = "strict"
                   THEN Least(view.streak + 1, ConfirmFrames) ELSE 0,
        since |-> IF l.box = "outside" \/ estimates' > Grace THEN 0 ELSE view.since,
        bends |->
            CASE align'.phase # "TRACK" -> 0
              [] align'.phase = "TRACK" /\ IsSteepNow(l) ->
                   IF IsSteady THEN Least(view.bends + 1, ReliableFrames) ELSE 1
              [] OTHER -> IF sight' = "estimated" /\ view.bends >= ReliableFrames
                          THEN view.bends ELSE 0 ]

\* One frame, from the image to the word.
Frame ==
    /\ stage = "ALIGN"
    /\ Detect
    /\ \/ Completed /\ Ignore
       \/ Turning /\ Ignore
       \/ LoseInBend /\ Overlook
       \/ Lose /\ Overlook
       \/ \E l \in Lines : Look(l) /\ See(l)
    /\ MakeRequests
    /\ UNCHANGED stage

\* sys_ms goes on.
Tick ==
    /\ align' = [ align EXCEPT
         !.age = IF align.phase = "BLIND_TURN" THEN Least(@ + 1, BlindTime) ELSE @,
         !.dwell = IF align.fallback THEN Least(@ + 1, FallbackTime) ELSE @ ]
    /\ request' = [ request EXCEPT !.age = IF request.monitor THEN Least(@ + 1, ReleaseTime)
                                           ELSE @ ]
    /\ view' = [ view EXCEPT !.since = Least(@ + 1, FallbackTime) ]
    /\ UNCHANGED <<stage, detectVars, answer>>

\* Core 1 gets to know of another phase or mode.
Leave ==
    /\ stage = "ALIGN" /\ stage' = "OTHER"
    /\ UNCHANGED <<detectVars, alignVars>>

\* ... and of this one again.  If the phase has changed, all begins afresh; if it
\* was only the mode, or the change came and went unseen, nothing is reset.
Return ==
    /\ stage = "OTHER" /\ stage' = "ALIGN"
    /\ \/ /\ detect' = Blank /\ estimates' = 0
          /\ align' = Reset /\ request' = NoRequest /\ view' = NothingSeen
          /\ UNCHANGED <<sight, answer>>
       \/ UNCHANGED <<detectVars, alignVars>>

\* The way back is the last stage of a plan.  It begins with the recognition
\* reset, but the alignment as it was left, and has a lane state of its own.
EnterBack ==
    /\ stage # "BACK" /\ stage' = "BACK"
    /\ detect' = Blank /\ estimates' = 0
    /\ UNCHANGED <<sight, alignVars>>

BackFrame ==
    /\ stage = "BACK"
    /\ Detect
    /\ UNCHANGED <<stage, alignVars>>

Init ==
    /\ stage = "ALIGN" /\ detect = Blank /\ sight = "none" /\ estimates = 0
    /\ align = Reset /\ answer = NoAnswer /\ request = NoRequest /\ view = NothingSeen

Next == Frame \/ Tick \/ Leave \/ Return \/ EnterBack \/ BackFrame

Spec == Init /\ [][Next]_vars

-----------------------------------------------------------------------------
(* Properties                                                               *)

\* A blind turn of the camera is always handed over to the inertial sensor: as
\* long as it lasts core 1 asks for the forced turn, and tells the side.
TurnIsRequested ==
    align.phase = "BLIND_TURN" => request.force /\ answer.control # 0

\* A request belongs to one blind turn and to one side; before the next turn
\* there is a word without a request, without which core 0 would not begin it.
OneRequestPerTurn ==
    [][request.force /\ request'.force =>
         align'.age >= align.age /\ answer'.control = answer.control]_vars

\* "Once the side is reliably known at a large angle, go on with segments of blind
\* turns when the line is briefly lost" (camera_proc.c:1172).
LostBendTurnsBlind ==
    [][/\ view.bends >= ReliableFrames
       /\ sight' = "none" \/ estimates' >= EstimatedFrames
       /\ Frame
       => align'.phase = "BLIND_TURN"]_vars

\* "Completes when the ends are in the red frame in fresh frames in a row", or when
\* the line has stayed in the wider box, which a few estimated frames do not break.
CompleteIsConfirmed ==
    [][align.phase # "COMPLETE" /\ align'.phase = "COMPLETE" =>
         view'.streak >= ConfirmFrames \/ view'.since >= FallbackTime]_vars

\* "Near the target a reversed control must come in a row, so that a jittering
\* line does not make the car swing" (camera_proc.c:1504): never side to side.
NoSuddenReverse ==
    [][align.near /\ align'.near => Sign(align.control) * Sign(align'.control) # -1]_vars
=============================================================================
