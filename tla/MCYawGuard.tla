---------------------------- MODULE MCYawGuard ----------------------------
(* Small angles: the limits keep the order of 55, 90 and 15 degrees.       *)
EXTENDS YawGuard

MCHeadings == -6 .. 6
MCCorrections == {-3, 0, 1}
MCExitHeading == -1

\* Vision keeps no bound of its own over the bumps.
CommandBound == command \in -12 .. 12
=============================================================================
