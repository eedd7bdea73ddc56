---------------------------- MODULE MCProblemSync ----------------------------
(***************************************************************************)
(* A small instance of ProblemSync: two good contents, of which the second *)
(* lacks a file of the first, and two bad ones.                            *)
(***************************************************************************)
EXTENDS ProblemSync

CONSTANTS c1, c2, c3, c4, f1, f2

GoodAndBad == {c1, c2, c3, c4}
OneBare == {c3}
OneBroken == {c4}
OneDropped == [c \in Content |-> IF c = c1 THEN {f1, f2} ELSE {f1}]
===============================================================================
