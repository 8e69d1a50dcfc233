----------------------------- MODULE MCMission -----------------------------
(* Plans of the course.                                                    *)
EXTENDS Mission

JumpFirst == <<"JUMP", "BRIDGE_BUMP", "BACK">>
BackOnly == <<"BACK">>
=============================================================================
