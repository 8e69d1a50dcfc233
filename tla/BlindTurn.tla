----------------------------- MODULE BlindTurn -----------------------------
(***************************************************************************)
(* Core 0 while the car lines up with the single-plank bridge: the flags   *)
(* shared by three pieces of code that preempt one another,                *)
(*   - the inter-core interrupt (appipc_callback, main_cm7_0.c),           *)
(*   - the 1 ms timer interrupt (pit0_ch0_isr, cm7_0_isr.c), and           *)
(*   - the main loop (main_cm7_0.c), which both interrupts preempt.        *)
(* The two interrupts have the same NVIC priority: each of them is atomic  *)
(* for the other, so each is one action; the main loop is one action per   *)
(* condition it evaluates and per group of writes.                         *)
(*                                                                         *)
(* Angles are left to YawGuard: here the gyro answers each question of the *)
(* interrupt ("past the limit?") either way.  The distance over the bumps  *)
(* and the plan of stages are left to Mission.  Time counts the 5 ms       *)
(* rounds of the angle loop.                                               *)
(***************************************************************************)
EXTENDS Integers

CONSTANTS
    Words,              \* decoded words of core 1 (appipc_bridge_data_t)
    ConfirmCount,       \* BRIDGE_ALIGNED_CONFIRM_COUNT
    BlindTimeout,       \* VISION_FORCE_BLIND_TIMEOUT_MS, in rounds
    RecoveryMin,        \* VISION_BLIND_RECOVERY_MIN_TIME_MS, in rounds
    RecoveryMax,        \* VISION_BLIND_RECOVERY_MAX_TIME_MS, in rounds
    Cooldown            \* VISION_BLIND_RECOVERY_COOLDOWN_MS, in rounds

\* The fields of a word; of the distance only "too near", of the control
\* value only the sign.
Fields == [ valid : BOOLEAN, aligned : BOOLEAN, force_blind : BOOLEAN,
            blind_release : BOOLEAN, fresh_target : BOOLEAN,
            near : BOOLEAN, control : {-1, 0, 1},
            exited : BOOLEAN, bump_start : BOOLEAN ]

\* appipc_decode_bridge_data: an invalid word is not aligned and has no
\* position and no control value.
ASSUME WordsAssumption ==
    /\ Words \subseteq Fields
    /\ \A w \in Words : w.valid \/ (~w.aligned /\ ~w.near /\ w.control = 0)
ASSUME TimesAssumption ==
    /\ ConfirmCount \in Nat \ {0}
    /\ BlindTimeout \in Nat \ {0}
    /\ RecoveryMin \in Nat /\ RecoveryMax \in Nat \ {0} /\ RecoveryMin <= RecoveryMax
    /\ Cooldown \in Nat

Phases == {"ALIGN", "EXIT_CHECK", "BUMP_DISTANCE", "COMPLETE"}
Modes == {"OTHER", "BRIDGE_BUMP"}

\* Speeds of the main loop (mm/s): the sign and the identity matter.
ALIGN_SPEED == 30
RECOVERY_SPEED == -80
BACK_OFF_SPEED == -120
CROSS_SPEED == 150
BUMP_SPEED == 300
Speeds == {0, ALIGN_SPEED, RECOVERY_SPEED, -RECOVERY_SPEED, BACK_OFF_SPEED,
           -BACK_OFF_SPEED, CROSS_SPEED, BUMP_SPEED}

VARIABLES
    mode,           \* vision_detect_mode
    phase,          \* vision_phase_bab
    core1,          \* the xxx_from_core1 variables
    updated,        \* bridge_control_updated
    aligned_count,  \* bridge_aligned_count
    bump_start,     \* vision_bump_start
    active,         \* bridge_forced_blind_active
    recovery,       \* bridge_blind_recovery_active
    fault,          \* bridge_forced_blind_fault
    latched,        \* force_blind_request_latched
    guard_active,   \* vision_yaw_guard_active
    guard_reached,  \* vision_yaw_guard_reached
    rounds,         \* angle rounds since the turn or the recovery began
    cooldown,       \* angle rounds until the next turn may begin
    speed,          \* vision_target_speed
    driven,         \* the last speed loop was given a speed other than 0
    main,           \* next step of the main loop: a place, a branch, a register
    served,         \* history: this force_blind request has begun a turn
    asked           \* history: control of the last word received

shared == <<mode, phase, core1, updated, aligned_count, bump_start>>
turnVars == <<active, recovery, fault, latched, guard_active, guard_reached, rounds, cooldown>>
history == <<served, asked>>
vars == <<shared, turnVars, speed, driven, main, history>>

NoData == [ valid |-> FALSE, aligned |-> FALSE, force_blind |-> FALSE,
            blind_release |-> FALSE, fresh_target |-> FALSE, near |-> FALSE,
            control |-> 0, exited |-> FALSE, bump_start |-> FALSE ]

\* The branches of the main loop's stage code, in the order they are tried.
Branches == <<"complete", "exit", "bump", "fault", "recovery", "blind", "align">>
BranchNumbers == 1 .. 7
Top == [at |-> "top", branch |-> 1, negated |-> 0]

\* The places of the main loop; those of the second row lie in the branch that
\* follows vision.
Places == {"top", "test", "clear", "write",
           "seen", "apart", "lost", "halt", "ahead", "back", "load", "store"}

\* Flags, timers and speed of core 0, and the places of its three contexts.
TypeOK ==
    /\ mode \in Modes /\ phase \in Phases
    /\ core1 \in Fields
    /\ updated \in BOOLEAN
    /\ aligned_count \in 0 .. ConfirmCount
    /\ bump_start \in BOOLEAN
    /\ active \in BOOLEAN /\ recovery \in BOOLEAN /\ fault \in BOOLEAN
    /\ latched \in BOOLEAN
    /\ guard_active \in BOOLEAN /\ guard_reached \in BOOLEAN
    /\ rounds \in Nat
    /\ cooldown \in 0 .. Cooldown
    /\ speed \in Speeds
    /\ driven \in BOOLEAN
    /\ main \in [at : Places, branch : BranchNumbers, negated : {-1, 0, 1}]
    /\ served \in BOOLEAN
    /\ asked \in {-1, 0, 1}

Init ==
    /\ mode = "OTHER" /\ phase = "ALIGN"
    /\ core1 = NoData
    /\ updated = FALSE /\ aligned_count = 0 /\ bump_start = FALSE
    /\ active = FALSE /\ recovery = FALSE /\ fault = FALSE /\ latched = FALSE
    /\ guard_active = FALSE /\ guard_reached = FALSE
    /\ rounds = 0 /\ cooldown = 0
    /\ speed = 0 /\ driven = FALSE
    /\ main = Top
    /\ served = FALSE /\ asked = 0

Aligning == mode = "BRIDGE_BUMP" /\ phase = "ALIGN"
Turning == active \/ recovery \/ fault

-----------------------------------------------------------------------------
(* The inter-core interrupt                                                 *)

EndTurnFlags == active' = FALSE /\ recovery' = FALSE /\ fault' = FALSE

\* A word with bump_start, now or earlier, ends the aligning stage at once.
Starting(w) == bump_start \/ w.bump_start

StartBumps(w) ==
    /\ Starting(w) /\ phase \in {"ALIGN", "EXIT_CHECK"}
    /\ phase' = "BUMP_DISTANCE"
    /\ core1' = NoData
    /\ aligned_count' = 0
    /\ bump_start' = TRUE
    /\ EndTurnFlags

\* Aligned words count only while no turn is requested or under way.
CountAligned(w) ==
    /\ ~Starting(w) /\ phase = "ALIGN"
    /\ core1' = [w EXCEPT !.bump_start = FALSE]
    /\ aligned_count' =
          IF w.force_blind \/ w.blind_release \/ Turning \/ ~(w.valid /\ w.aligned)
            THEN 0
            ELSE IF aligned_count < ConfirmCount THEN aligned_count + 1 ELSE aligned_count
    /\ phase' = IF aligned_count' >= ConfirmCount THEN "EXIT_CHECK" ELSE phase
    /\ UNCHANGED <<bump_start, active, recovery, fault>>

FinishBumps(w) ==
    /\ phase = "BUMP_DISTANCE" /\ w.exited
    /\ core1' = [w EXCEPT !.bump_start = FALSE, !.exited = FALSE]
    /\ phase' = "COMPLETE"
    /\ bump_start' = FALSE
    /\ UNCHANGED <<aligned_count, active, recovery, fault>>

JustStore(w) ==
    /\ \/ phase = "COMPLETE"
       \/ phase = "BUMP_DISTANCE" /\ ~w.exited
       \/ phase = "EXIT_CHECK" /\ ~Starting(w)
    /\ core1' = [w EXCEPT !.bump_start = FALSE]
    /\ bump_start' = Starting(w)
    /\ UNCHANGED <<phase, aligned_count, active, recovery, fault>>

\* appipc_callback in the bridge stage; the other modes leave the turn alone.
Callback(w) ==
    /\ mode = "BRIDGE_BUMP"
    /\ updated' = TRUE
    /\ asked' = w.control
    /\ UNCHANGED <<mode, latched, guard_active, guard_reached, rounds, cooldown,
                   speed, driven, main>>
    /\ StartBumps(w) \/ CountAligned(w) \/ FinishBumps(w) \/ JustStore(w)
    /\ served' = (served /\ core1'.force_blind)

-----------------------------------------------------------------------------
(* The timer interrupt.  kind tells which of the nested rates are due:      *)
(* every ms the guard, every 5 ms the angle loop, every 20 ms the speed     *)
(* loop, always together with the angle loop.                               *)

Kinds == {"guard", "angle", "speed"}

\* Mutant: a setpoint of 0 is not passed on to the driver.
SpeedLoopUnlessZero(kind, setpoint) ==
    driven' = (driven \/ (kind = "speed" /\ setpoint # 0))

SpeedLoop(kind, setpoint) ==
    driven' = IF kind = "speed" THEN setpoint # 0 ELSE driven

\* Mutant: the countdown runs past zero.
DecrementAlways(n) == n - 1

Decrement(n) == IF n > 0 THEN n - 1 ELSE 0

\* Outside the aligning stage the interrupt clears every flag of the turn.
TimerOutside(kind) ==
    /\ ~Aligning
    /\ UNCHANGED <<mode, phase, updated, aligned_count, bump_start, speed, main, asked>>
    /\ guard_active' = FALSE /\ guard_reached' = FALSE /\ latched' = FALSE
    /\ EndTurnFlags
    /\ core1' = [core1 EXCEPT !.force_blind = FALSE, !.blind_release = FALSE,
                              !.fresh_target = FALSE]
    /\ served' = FALSE
    /\ \/ mode = "BRIDGE_BUMP" /\ SpeedLoop(kind, speed)
       \/ /\ mode = "OTHER" \/ phase = "COMPLETE"   \* remote control or replay
          /\ driven' \in BOOLEAN
    /\ rounds' = 0
    /\ cooldown' = IF kind = "guard" THEN cooldown ELSE Decrement(cooldown)

\* Mutant: the guard lets go when the car is turned back.
ReachedNow(far) == guard_active /\ far /\ ~active /\ ~recovery

\* Mutant: a tripped guard does not stop the car.
UnguardedSpeed(far) == speed

\* The guard block, first in every tick: far is the gyro's answer to "at
\* least 90 degrees from the start?".  A guard that is armed now starts here.
Reached(far) ==
    guard_active /\ (guard_reached \/ (far /\ ~active /\ ~recovery))
GuardedSpeed(far) == IF Reached(far) THEN 0 ELSE speed

\* Mutant: the latch is opened by the end of the turn, request or not.
LatchedWhileActive == latched /\ active

\* A request that has been dropped while no turn is under way may be made again.
StillLatched == latched /\ (core1.force_blind \/ active)

\* Mutant: a turn may begin in a fault.
CanStartInFault ==
    /\ core1.force_blind /\ ~StillLatched
    /\ ~active /\ ~recovery
    /\ Decrement(cooldown) = 0
    /\ core1.control # 0

CanStart ==
    /\ core1.force_blind /\ ~StillLatched
    /\ ~active /\ ~recovery /\ ~fault
    /\ Decrement(cooldown) = 0
    /\ core1.control # 0

\* Vision takes over again: the guard is re-armed at the present heading.
\* aligned_count is 0 afterwards in every case below.
BackToVision ==
    /\ active' = FALSE /\ recovery' = FALSE
    /\ guard_reached' = FALSE
    /\ rounds' = 0

\* Mutant: the turn that failed stays active.
StopInFaultActive ==
    /\ recovery' = FALSE /\ fault' = TRUE
    /\ guard_reached' = TRUE
    /\ speed' = 0 /\ updated' = FALSE /\ rounds' = 0
    /\ UNCHANGED active

\* Mutant: the fault is not recorded.
StopWithoutFault ==
    /\ active' = FALSE /\ recovery' = FALSE
    /\ guard_reached' = TRUE
    /\ speed' = 0 /\ updated' = FALSE /\ rounds' = 0
    /\ UNCHANGED fault

StopInFault ==
    /\ active' = FALSE /\ recovery' = FALSE /\ fault' = TRUE
    /\ guard_reached' = TRUE
    /\ speed' = 0
    /\ updated' = FALSE
    /\ rounds' = 0

Forget(c) == [c EXCEPT !.valid = FALSE, !.aligned = FALSE]

\* Mutant: time starts again instead of running out.
RecoveryWithoutLimit(setpoint) ==
    /\ IF rounds + 1 >= RecoveryMin /\ core1.fresh_target
         THEN /\ BackToVision
              /\ cooldown' = Cooldown
              /\ speed' = IF setpoint < 0 THEN -setpoint ELSE setpoint
              /\ updated' = TRUE /\ aligned_count' = 0
              /\ UNCHANGED fault
         ELSE /\ cooldown' = Decrement(cooldown)
              /\ rounds' = (rounds + 1) % RecoveryMax
              /\ guard_reached' = guard_reached /\ speed' = setpoint
              /\ UNCHANGED <<active, recovery, fault, updated, aligned_count>>
    /\ latched' = StillLatched
    /\ UNCHANGED <<core1, served>>

\* The recovery branch: the course is seen again, or time is up, or go on.
RecoveryStep(setpoint) ==
    /\ IF rounds + 1 >= RecoveryMin /\ core1.fresh_target
         THEN /\ BackToVision
              /\ cooldown' = Cooldown
              /\ speed' = IF setpoint < 0 THEN -setpoint ELSE setpoint
              /\ updated' = TRUE /\ aligned_count' = 0
              /\ UNCHANGED fault
         ELSE /\ cooldown' = Decrement(cooldown)
              /\ IF rounds + 1 >= RecoveryMax
                   THEN StopInFault /\ aligned_count' = 0
                   ELSE /\ rounds' = rounds + 1
                        /\ guard_reached' = guard_reached /\ speed' = setpoint
                        /\ UNCHANGED <<active, recovery, fault, updated, aligned_count>>
    /\ UNCHANGED <<core1, served>>
    /\ latched' = StillLatched

\* The forced-turn branch, in the tick that begins the turn and in those
\* after it.  done: 55 degrees are turned; over: 90 degrees, either way.
TurnStep(begin, c, reached, setpoint, done, over) ==
    LET now == IF begin THEN 0 ELSE rounds + 1 IN
    /\ latched' = (begin \/ StillLatched)
    /\ served' = ((begin \/ served) /\ c.force_blind)
    /\ \/ /\ c.blind_release
          /\ BackToVision /\ fault' = FALSE
          /\ core1' = Forget([c EXCEPT !.blind_release = FALSE])
          /\ cooldown' = Cooldown
          /\ updated' = FALSE /\ aligned_count' = 0 /\ speed' = setpoint
       \/ /\ ~c.blind_release /\ done
          /\ active' = FALSE /\ fault' = FALSE
          /\ recovery' = ~c.fresh_target
          /\ cooldown' = IF c.fresh_target THEN Cooldown ELSE Decrement(cooldown)
          /\ guard_reached' = FALSE /\ rounds' = 0
          /\ core1' = Forget(c)
          /\ updated' = FALSE /\ aligned_count' = 0 /\ speed' = setpoint
       \/ /\ ~c.blind_release /\ ~done /\ (over \/ now >= BlindTimeout)
          /\ StopInFault /\ aligned_count' = 0
          /\ core1' = c
          /\ cooldown' = Decrement(cooldown)
       \/ /\ ~c.blind_release /\ ~done /\ ~over /\ now < BlindTimeout
          /\ active' = TRUE /\ rounds' = now
          /\ guard_reached' = reached /\ speed' = setpoint
          /\ core1' = c
          /\ aligned_count' = IF begin THEN 0 ELSE aligned_count
          /\ cooldown' = Decrement(cooldown)
          /\ UNCHANGED <<recovery, fault, updated>>

NoTurn(kind, far) ==
    /\ guard_reached' = Reached(far) /\ speed' = GuardedSpeed(far)
    /\ latched' = StillLatched
    /\ cooldown' = IF kind = "guard" THEN cooldown ELSE Decrement(cooldown)
    /\ UNCHANGED <<core1, updated, aligned_count, active, recovery, fault, rounds, served>>

TimerAligning(kind, far, done, over) ==
    /\ Aligning
    /\ UNCHANGED <<mode, phase, bump_start, main, asked>>
    /\ guard_active' = TRUE
    /\ SpeedLoop(kind, GuardedSpeed(far))
    /\ IF kind = "guard" THEN NoTurn(kind, far)
       ELSE IF recovery THEN RecoveryStep(GuardedSpeed(far))
       ELSE IF active THEN TurnStep(FALSE, core1, Reached(far), GuardedSpeed(far), done, over)
       ELSE IF CanStart
              THEN TurnStep(TRUE, [core1 EXCEPT !.fresh_target = FALSE], FALSE,
                            GuardedSpeed(far), FALSE, FALSE)
              ELSE NoTurn(kind, far)

\* A question whose answer makes no difference in this tick is answered no.
Asked(kind, far, done, over) ==
    /\ far => ~guard_reached /\ ~active /\ ~recovery
    /\ done \/ over => active /\ kind # "guard"
    /\ ~(done /\ over)

Timer(kind) ==
    \/ TimerOutside(kind)
    \/ \E far, done, over \in BOOLEAN :
          Asked(kind, far, done, over) /\ TimerAligning(kind, far, done, over)

-----------------------------------------------------------------------------
(* The main loop, preempted by both interrupts between its steps            *)

mainUnchanged == <<phase, aligned_count, bump_start, turnVars, driven, history>>

\* The mode follows the plan.  The bridge stage, once current, stays current
\* until its completion has been seen; then the car is handed back to the path
\* replay with speed 0 (Mission models the plan itself).
LoopTop ==
    /\ main.at = "top"
    /\ \E m \in Modes :
          /\ m = "BRIDGE_BUMP" \/ mode = "OTHER" \/ phase = "COMPLETE"
          /\ mode' = m
          /\ main' = IF m = "BRIDGE_BUMP" THEN [Top EXCEPT !.at = "test"] ELSE Top
          /\ speed' = IF m = "OTHER" /\ mode = "BRIDGE_BUMP" THEN 0 ELSE speed
    /\ UNCHANGED <<mainUnchanged, core1, updated>>

Holds(b) ==
    CASE b = "complete" -> phase = "COMPLETE"
      [] b = "exit"     -> phase = "EXIT_CHECK"
      [] b = "bump"     -> phase = "BUMP_DISTANCE"
      [] b = "fault"    -> phase = "ALIGN" /\ fault
      [] b = "recovery" -> phase = "ALIGN" /\ recovery
      [] b = "blind"    -> phase = "ALIGN" /\ (core1.force_blind \/ active)
      [] b = "align"    -> phase = "ALIGN" /\ updated

Test ==
    /\ main.at = "test"
    /\ main' = IF Holds(Branches[main.branch]) THEN [main EXCEPT !.at = "clear"]
               ELSE IF main.branch < 7 THEN [main EXCEPT !.branch = @ + 1]
               ELSE Top
    /\ UNCHANGED <<mainUnchanged, mode, core1, updated, speed>>

\* Every branch first marks the word as used.
ClearUpdated ==
    /\ main.at = "clear"
    /\ updated' = FALSE
    /\ main' = [main EXCEPT !.at = "write"]
    /\ UNCHANGED <<mainUnchanged, mode, core1, speed>>

\* The branch that follows vision reads one field of the stored word after the
\* other; a word that comes between two reads is seen by the second.
Look ==
    /\ \/ /\ main.at = "write" /\ Branches[main.branch] = "align"
          /\ main' = [main EXCEPT !.at = IF core1.valid THEN "seen" ELSE "lost"]
       \/ /\ main.at = "seen"
          /\ main' = [main EXCEPT !.at = IF core1.aligned THEN "halt" ELSE "apart"]
       \/ /\ main.at = "apart"
          /\ main' = [main EXCEPT !.at = IF core1.near THEN "back" ELSE "ahead"]
    /\ UNCHANGED <<mainUnchanged, mode, core1, updated, speed>>

\* Mutant: while nothing is seen the old speed is kept.
AlignSpeedWhenSeen ==
    [ lost |-> speed, halt |-> 0, ahead |-> ALIGN_SPEED, back |-> BACK_OFF_SPEED ]

AlignSpeed ==
    [ lost |-> ALIGN_SPEED, halt |-> 0, ahead |-> ALIGN_SPEED, back |-> BACK_OFF_SPEED ]

WriteAlign ==
    /\ main.at \in DOMAIN AlignSpeed
    /\ speed' = AlignSpeed[main.at]
    /\ main' = IF main.at = "back" THEN [main EXCEPT !.at = "load"] ELSE Top
    /\ UNCHANGED <<mainUnchanged, mode, core1, updated>>

\* Too near, it also turns the stored control value round: it is loaded, and
\* its negation stored over whatever word has come meanwhile.
LoadControl ==
    /\ main.at = "load"
    /\ main' = [main EXCEPT !.at = "store", !.negated = -core1.control]
    /\ UNCHANGED <<mainUnchanged, mode, core1, updated, speed>>

StoreControl ==
    /\ main.at = "store"
    /\ core1' = [core1 EXCEPT !.control = main.negated]
    /\ main' = Top
    /\ UNCHANGED <<mainUnchanged, mode, updated, speed>>

AlignBranch == Look \/ WriteAlign \/ LoadControl \/ StoreControl

BranchSpeed == [ complete |-> 0, exit |-> CROSS_SPEED, bump |-> BUMP_SPEED,
                 fault |-> 0, recovery |-> RECOVERY_SPEED, blind |-> ALIGN_SPEED ]

\* Every other branch has a speed of its own; the finished stage ends the mode.
Write ==
    /\ main.at = "write" /\ Branches[main.branch] \in DOMAIN BranchSpeed
    /\ speed' = BranchSpeed[Branches[main.branch]]
    /\ mode' = IF Branches[main.branch] = "complete" THEN "OTHER" ELSE mode
    /\ main' = Top
    /\ UNCHANGED <<mainUnchanged, core1, updated>>

MainLoop == LoopTop \/ Test \/ ClearUpdated \/ AlignBranch \/ Write

Next ==
    \/ MainLoop
    \/ \E w \in Words : Callback(w)
    \/ \E kind \in Kinds : Timer(kind)

Spec == Init /\ [][Next]_vars

\* The timer interrupt recurs every ms and reaches its 20 ms round; the main
\* loop always gets the processor back; the camera keeps delivering frames, so
\* core 1 keeps sending.  Fairness never picks the answers of the gyro or of the
\* plan: it is asked of ticks only while those change a count whatever the gyro
\* says (or repeat themselves), and of the loop only in the bridge stage.
Fairness ==
    /\ WF_vars(Turning /\ Timer("speed"))
    /\ WF_vars(mode = "BRIDGE_BUMP" /\ MainLoop)
    /\ WF_vars(\E w \in Words : Callback(w))

FairSpec == Spec /\ Fairness

-----------------------------------------------------------------------------
(* Properties                                                               *)

\* A forced turn, a recovery and a fault exclude one another: the three
\* branches of pit0_ch0_isr and of the main loop never fight for the heading.
TurnsExclusive ==
    /\ ~(active /\ recovery)
    /\ ~(active /\ fault)
    /\ ~(recovery /\ fault)

\* They exist only in the aligning stage: neither an aligned word of core 1
\* (appipc_callback) nor the main loop's mode leaves a turn running behind.
TurnOnlyWhileAligning == Turning => Aligning /\ guard_active

\* "Stop and keep the fault" (pit0_ch0_isr): the guard that re-zeroes the
\* speed in every tick stays tripped as long as the fault lasts, although a
\* new turn, the end of a turn and the re-arming of the guard all reset it.
FaultKeepsGuard == fault => guard_reached

\* Standing in a fault, the car is not set in motion again, whatever speed the
\* main loop, preempted between its test and its write, stores meanwhile ...
FaultNeverDrives == [][fault /\ fault' => (driven' => driven)]_vars

\* ... and it does come to stand, at the next speed loop.
FaultStops == fault ~> (~driven \/ ~fault)

\* A fault ends only with the aligning stage ("reset on leaving this stage").
FaultIsKept == [][fault /\ ~fault' => phase' # "ALIGN"]_vars

\* One request of core 1, however long it is held and however the words of it
\* interleave with the timer, begins one turn ("latched on the rising edge").
OneTurnPerRequest == [][~active /\ active' => ~served]_vars
ServedIsLatched == served => latched /\ core1.force_blind

\* The state machine the heading control promises, with its time limits.
turnState ==
    IF ~Aligning THEN "off"
    ELSE IF fault THEN "fault"
    ELSE IF recovery THEN "recovery"
    ELSE IF active THEN "blind"
    ELSE IF ~guard_active THEN "off"
    ELSE IF guard_reached THEN "held"
    ELSE "guard"

Heading == INSTANCE TurnSpec WITH turn <- turnState
ImplementsTurn == Heading!Spec

\* A forced turn and a recovery end by the timer interrupt alone, whatever
\* core 1 sends or fails to send: the progress the state machine promises.
ImplementsTurnProgress == Heading!FairSpec

\* The car stops backing out when the recovery is over, although the main
\* loop may store the reverse speed after the interrupt has ended it, and then
\* clear the update mark the interrupt had set: unless a further turn begins,
\* a later word of core 1 corrects the speed.
ReverseEnds ==
    (Aligning /\ ~Turning /\ speed = RECOVERY_SPEED)
        ~> (~Aligning \/ Turning \/ speed # RECOVERY_SPEED)

\* The turn goes to the side core 1 asked for: the control value whose sign
\* pit0_ch0_isr takes is the one of the last word, which the main loop may
\* have turned round meanwhile.
TurnFollowsCore1 == [][~active /\ active' => core1.control = asked]_vars
=============================================================================
