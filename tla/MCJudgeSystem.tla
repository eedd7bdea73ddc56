---------------------------- MODULE MCJudgeSystem ----------------------------
(***************************************************************************)
(* Small instances of JudgeSystem: one or two judgers with one handler     *)
(* each, at most two messages, one solution.                               *)
(***************************************************************************)
EXTENDS JudgeSystem, TLC

CONSTANTS j1, j2, m1, m2, s1

Judgers1 == {j1}
Judgers2 == {j1, j2}
Messages1 == {m1}
Messages2 == {m1, m2}
Solutions1 == {s1}

(* Both messages ask for the same solution, or one is not a JudgeMessage.   *)
SameBody == [m \in Msg |-> s1]
OneMalformed == [m \in Msg |-> IF m = m1 THEN s1 ELSE Malformed]

Full == [done |-> TRUE, score |-> 1]
Partial == [done |-> FALSE, score |-> 1]
FullOnly == {Full}
PartialAndFull == {Partial, Full}
NoResult == {}

(* Judgers and messages are interchangeable where all messages have the     *)
(* same body.                                                               *)
JudgerSymmetry == Permutations(Judger)
Interchangeable == Permutations(Judger) \cup Permutations(Msg)
=============================================================================
