---------------------------- MODULE ControlLock ----------------------------
(***************************************************************************)
(* What the pilots of a fleet promise about control, however the handover  *)
(* comes about: a channel is a lock.  A pilot takes only channels that     *)
(* nobody holds, so control never goes from one pilot to another at once,  *)
(* and lets go only of its own.                                            *)
(***************************************************************************)
CONSTANTS Pilots, Channels

VARIABLE holders   \* the pilots that act as the owner of each channel

Init == holders = [c \in Channels |-> {}]

Acquire(p, C) == /\ \A c \in C : holders[c] = {}
                 /\ holders' = [c \in Channels |-> IF c \in C THEN {p} ELSE holders[c]]

Release(p, C) == /\ \A c \in C : holders[c] = {p}
                 /\ holders' = [c \in Channels |-> IF c \in C THEN {} ELSE holders[c]]

Next == \E p \in Pilots, C \in SUBSET Channels : Acquire(p, C) \/ Release(p, C)

Spec == Init /\ [][Next]_holders
=============================================================================
