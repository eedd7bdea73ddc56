-------------------------- MODULE MCBridgeCommand --------------------------
(***************************************************************************)
(* Small instances of BridgeCommand: two runs that overlap, each of a user *)
(* and a solution of its own, or a single run.                             *)
(***************************************************************************)
EXTENDS BridgeCommand

CONSTANTS r1, r2, u1, u2, sa, sb

Runs1 == {r1}
Runs2 == {r1, r2}
Users == {u1, u2}
Solutions == {sa, sb}
OwnUser == [r \in Run |-> IF r = r1 THEN u1 ELSE u2]
OwnSolution == [r \in Run |-> IF r = r1 THEN sa ELSE sb]
FirstRun == {r1}
SecondRun == {r2}
SecondUser == {u2}
===============================================================================
