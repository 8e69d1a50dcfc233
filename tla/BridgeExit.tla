---------------------------- MODULE BridgeExit ----------------------------
(***************************************************************************)
(* Leaving the bridge, as core 1's camera sees it                          *)
(* (camera_bridge_exit_processing): the box below the middle of the        *)
(* picture is white for WhiteFrames pictures in a row, the plate behind    *)
(* the bridge, and black in a later one, the bumps.  A box that is black   *)
(* all over ends the search at once.                                       *)
(***************************************************************************)
EXTENDS Naturals

CONSTANT WhiteFrames    \* BRIDGE_EXIT_WHITE_CONFIRM_FRAMES

ASSUME WhiteAssumption == WhiteFrames \in Nat \ {0}

\* A box is black all over, black enough, white enough (10000 of 12800
\* points, so never both) or neither.
Boxes == {"all_black", "black", "white", "mixed"}

\* white_frame_count matters only while white is awaited.
Searches == [ stage : {"WAIT_WHITE", "WAIT_BLACK", "COMPLETE"}, white : 0 .. WhiteFrames - 1 ]
At(stage) == [stage |-> stage, white |-> 0]
NewSearch == At("WAIT_WHITE")

\* "exited" of the source is set whenever the stage becomes COMPLETE.
Exited(search) == search.stage = "COMPLETE"

\* camera_bridge_failsafe_exit_check
Failsafe(box) == box = "all_black"

\* A picture that is not white breaks the run.
WaitWhite(search, box) ==
    IF box # "white" THEN NewSearch
    ELSE IF search.white + 1 = WhiteFrames THEN At("WAIT_BLACK")
    ELSE [search EXCEPT !.white = @ + 1]

\* One picture in which the exit is not yet known.
ExitProcessing(search, box) ==
    IF Failsafe(box) \/ (search.stage = "WAIT_BLACK" /\ box = "black")
      THEN At("COMPLETE")
      ELSE IF search.stage = "WAIT_WHITE" THEN WaitWhite(search, box) ELSE search
=============================================================================
