------------------------------ MODULE MCTraffic ------------------------------
(* Instances of Traffic for TLC.                                           *)
EXTENDS Traffic

CONSTANTS c1, c2

MCChannels == {c1, c2}
=============================================================================
