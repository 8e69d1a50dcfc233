---------------------------- MODULE MCPathStore ----------------------------
(* Layouts of the flash.                                                   *)
EXTENDS PathStore, TLC

\* Courses 0 and 2, each with room for the longest path.
RoomyHeader == (0 :> 0) @@ (2 :> 3)
RoomyPoint == (0 :> 1) @@ (2 :> 5)

\* Courses 0 and 1 as in the source, where the longest path of course 0 takes
\* 13 pages and the header of course 1 is 9 pages after its start.
SourceHeader == (0 :> 0) @@ (1 :> 2)
SourcePoint == (0 :> 1) @@ (1 :> 3)
=============================================================================
