------------------------- MODULE MCDiscoveryCluster -------------------------
(***************************************************************************)
(* A small instance of DiscoveryCluster: one server is there, two join     *)
(* through it, and a bridge registers with any of them.                    *)
(***************************************************************************)
EXTENDS DiscoveryCluster

CONSTANTS s1, s2, s3, b1, a

Servers3 == {s1, s2, s3}
Founders == {s1}
Bridges1 == {b1}
IDSet == {a}
ThroughFirst == [s \in Server |-> IF s \in Founder THEN <<>> ELSE <<s1>>]
MCServiceOf == [c \in Bridge |-> [id |-> a, address |-> "x", type |-> "bridge"]]
===============================================================================
