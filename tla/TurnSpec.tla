----------------------------- MODULE TurnSpec -----------------------------
(***************************************************************************)
(* What core 0 promises about its heading while the car lines up with the  *)
(* single-plank bridge (cm7_0_isr.c, pit0_ch0_isr): one state machine,     *)
(* whatever the flags and timers that implement it.                        *)
(*                                                                         *)
(*   off       the car is not lining up, or the guard is not armed yet     *)
(*   guard     vision steers, inside the permitted heading range           *)
(*   held      the permitted range was left: the car stands still          *)
(*   blind     a forced turn: the gyro steers, vision is ignored           *)
(*   recovery  the turn missed the course: the car backs out               *)
(*   fault     turn or recovery failed: the car stands still for good      *)
(***************************************************************************)
VARIABLE turn

TurnStates == {"off", "guard", "held", "blind", "recovery", "fault"}

\* The states a turn may go to from each state, besides "off".
Successors ==
    [ off      |-> {"guard", "blind"},
      guard    |-> {"held", "blind"},
      held     |-> {"blind", "guard"},      \* guard: released in its first tick
      blind    |-> {"guard", "recovery", "fault"},
      recovery |-> {"guard", "fault"},
      fault    |-> {} ]

Init == turn = "off"

Change == turn' \in Successors[turn]

\* The aligning stage is left (or the mode), from any state.
Leave == turn # "off" /\ turn' = "off"

\* A forced turn and a recovery are bounded in time.
EndBlind == turn = "blind" /\ (Change \/ Leave)
EndRecovery == turn = "recovery" /\ (Change \/ Leave)

Next == Change \/ Leave

Spec == Init /\ [][Next]_turn

FairSpec == Spec /\ WF_turn(EndBlind) /\ WF_turn(EndRecovery)
=============================================================================
