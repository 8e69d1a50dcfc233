---------------------------- MODULE MissionSpec ----------------------------
(***************************************************************************)
(* What the two cores together promise about the course: the car follows   *)
(* its recorded path until a segment ends, then does the next vision stage *)
(* of the plan, and goes back to the path only when that stage has really  *)
(* been done.  The stages are done in the order of the plan, each once.    *)
(***************************************************************************)
EXTENDS Naturals, Sequences

CONSTANTS
    Plan,           \* vision_mode_plan
    JumpTarget      \* jumps of a jumping stage

VARIABLES
    index,          \* stages done
    driving,        \* TRUE: path replay, FALSE: a vision stage
    bridge,         \* progress of the bridge and the bumps behind it
    jumps           \* jumps made

vars == <<index, driving, bridge, jumps>>

Stage == IF index < Len(Plan) THEN Plan[index + 1] ELSE "IDLE"

Init == index = 0 /\ driving = TRUE /\ bridge = "ALIGN" /\ jumps = 0

\* The end of a path segment hands the car to vision.
Interrupt ==
    /\ driving /\ driving' = FALSE
    /\ UNCHANGED <<index, bridge, jumps>>

\* Cross the bridge, measure the bumps, arrive.  The aligning step may be cut
\* short when the car is seen to be beyond the bridge already.
BridgeProgress ==
    /\ ~driving /\ Stage = "BRIDGE_BUMP"
    /\ <<bridge, bridge'>> \in { <<"ALIGN", "EXIT_CHECK">>, <<"ALIGN", "BUMP_DISTANCE">>,
                                 <<"EXIT_CHECK", "BUMP_DISTANCE">>,
                                 <<"BUMP_DISTANCE", "COMPLETE">> }
    /\ UNCHANGED <<index, driving, jumps>>

Jump ==
    /\ ~driving /\ Stage = "JUMP" /\ jumps < JumpTarget
    /\ jumps' = jumps + 1
    /\ UNCHANGED <<index, driving, bridge>>

StageDone ==
    \/ Stage = "BRIDGE_BUMP" /\ bridge = "COMPLETE"
    \/ Stage = "JUMP" /\ jumps = JumpTarget

Resume ==
    /\ ~driving /\ StageDone
    /\ index' = index + 1
    /\ driving' = TRUE
    /\ UNCHANGED <<bridge, jumps>>

Next == Interrupt \/ BridgeProgress \/ Jump \/ Resume

Spec == Init /\ [][Next]_vars
=============================================================================
