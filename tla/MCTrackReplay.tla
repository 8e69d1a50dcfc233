--------------------------- MODULE MCTrackReplay ---------------------------
(* Paths of one segment and of several, also of a single point.            *)
EXTENDS TrackReplay

MCPaths ==
    { <<n>> : n \in 1 .. 6 } \union { <<a, a + b>> : a \in 1 .. 4, b \in 1 .. 4 }
    \union { <<a, a + b, a + b + c>> : a \in 1 .. 3, b \in 1 .. 3, c \in 1 .. 3 }
=============================================================================
