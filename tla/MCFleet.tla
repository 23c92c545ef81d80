------------------------------- MODULE MCFleet -------------------------------
(* Instances of Fleet for TLC: pilots p1 and p2 that share a device.       *)
EXTENDS Fleet, TLC

CONSTANTS p1, p2, c1, c2

MCPilots == {p1, p2}

\* Every user may do everything.
AnyUser == [p \in MCPilots |-> UserEvents]

\* Channels are opened and closed one by one; RELEASE closes all.
OneByOne == {{c1}, {c2}}

\* Every user acts three times, or twice.
Thrice == [p \in MCPilots |-> 3]
Twice == [p \in MCPilots |-> 2]

Symmetry == Permutations(MCPilots) \cup Permutations({c1, c2})
=============================================================================
