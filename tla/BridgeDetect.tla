---------------------------- MODULE BridgeDetect ----------------------------
(***************************************************************************)
(* What core 1 makes of one camera image of the bridge: a line seen with   *)
(* both its edges, one estimated from what was seen before, or none.  The  *)
(* images are arbitrary; what is kept here is how long the recognition may *)
(* go on estimating.                                                       *)
(***************************************************************************)
EXTENDS Naturals

CONSTANTS
    SingleHold,     \* BRIDGE_SINGLE_EDGE_HOLD_FRAMES
    LostHold        \* BRIDGE_LOST_HOLD_FRAMES

ASSUME HoldAssumption == SingleHold \in Nat /\ LostHold \in Nat

VARIABLES
    detect,         \* camera_bridge_detect_state: last result, lane width, counts
    sight,          \* what the last image gave: bridge_result.valid and .estimated
    estimates       \* history: images in a row that were estimated

detectVars == <<detect, sight, estimates>>

Sights == {"fresh", "estimated", "none"}

\* "Frames for which the edge may be filled in while one is briefly out of the
\* picture" and "frames for which the last result is kept" (main_cm7_1.c): the two
\* kinds of estimate prolong each other, but without a fresh line they run out.
DetectType ==
    /\ detect \in [ last_valid : BOOLEAN, width : BOOLEAN,
                    single : 0 .. SingleHold, lost : 0 .. LostHold ]
    /\ sight \in Sights
    /\ estimates \in 0 .. SingleHold + (SingleHold + 1) * LostHold

\* camproc_bridge_detect_reset.
Blank == [ last_valid |-> FALSE, width |-> FALSE, single |-> 0, lost |-> 0 ]

\* Both edges are found, and they span a plausible lane.
BothEdges ==
    /\ detect' = [ last_valid |-> TRUE, width |-> TRUE, single |-> 0, lost |-> 0 ]
    /\ sight' = "fresh"

\* One edge is found, the other follows from the width learnt before.
OneEdge ==
    /\ detect.width /\ detect.single < SingleHold
    /\ detect' = [ detect EXCEPT !.single = @ + 1, !.last_valid = TRUE, !.lost = 0 ]
    /\ sight' = "estimated"

MayHold == detect.last_valid /\ detect.lost < LostHold

\* No usable edge, or an implausible lane: the last result stands for a while.
Hold ==
    /\ MayHold
    /\ detect' = [ detect EXCEPT !.lost = @ + 1 ]
    /\ sight' = "estimated"

\* ... and then nothing is seen, and the width is forgotten.
GiveUp ==
    /\ ~MayHold
    /\ detect' = [ detect EXCEPT !.last_valid = FALSE, !.width = FALSE, !.single = 0 ]
    /\ sight' = "none"

\* camproc_bridge_detect.
Detect ==
    /\ BothEdges \/ OneEdge \/ Hold \/ GiveUp
    /\ estimates' = IF sight' = "estimated" THEN estimates + 1 ELSE 0
=============================================================================
