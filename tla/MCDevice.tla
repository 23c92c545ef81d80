------------------------------ MODULE MCDevice ------------------------------
(* Instances of DeviceFacade for TLC.                                      *)
EXTENDS DeviceFacade

CONSTANTS c1, c2

MCChannels == {c1, c2}
=============================================================================
