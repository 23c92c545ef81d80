-------------------------- MODULE MCDeviceProgram --------------------------
(* Instances of DeviceProgram for TLC.                                     *)
EXTENDS DeviceProgram

CONSTANTS c1, c2, c3

MCChannels == {c1, c2, c3}
=============================================================================
