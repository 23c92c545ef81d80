--------------------------- MODULE MCPilotProgram ---------------------------
(* Instances of PilotProgram for TLC: the program's pilot p1, and p2 with  *)
(* whom it shares the device's channels c1 and c8.                         *)
EXTENDS PilotProgram, TLC

CONSTANTS p1, p2, c1, c8

MCPilots == {p1, p2}

\* The other pilot's user starts, closes channels and answers.
MCUsers == p1 :> Scripted
           @@ p2 :> {"OPERATE", "CLOSE_CHANNELS", "RELEASE_ACCEPTED"}

\* How often each user acts unasked.
MCMaxCalls == p1 :> 4 @@ p2 :> 2

MCChannels == {c1, c8}
MCClosed == {c8}
=============================================================================
