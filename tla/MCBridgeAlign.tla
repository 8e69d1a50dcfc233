--------------------------- MODULE MCBridgeAlign ---------------------------
(* Sample lines: headings in degrees on either side of every threshold.    *)
EXTENDS BridgeAlign

MCHeadings == {0, 20, 45}
MCOffsets == {-2, 0, 1}
=============================================================================
