---------------------------- MODULE MCJumpStage ----------------------------
(* The list of the source, and a leap of six ticks.                        *)
EXTENDS JumpStage

WhiteBlackWhite == <<"white", "black", "white">>
SixTicks == <<1, 2, 4, 6>>
=============================================================================
