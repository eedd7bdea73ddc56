------------------------------ MODULE Submission ------------------------------
(***************************************************************************)
(* What hpc-judge promises its clients, without queue, claims or marks: a  *)
(* submitted solution is taken by one attempt at a time, an attempt starts *)
(* its judge script at most once, and a final report is published of a     *)
(* submitted solution, as a verdict only after some script was started.    *)
(* Only after the first final report may attempts overlap: the promise has *)
(* been kept by then. JudgeSystem is shown to implement this.              *)
(***************************************************************************)
CONSTANTS
    Solution,   \* solution IDs
    Try,        \* the attempts at judging them
    For,        \* [Try -> the solution it judges, or something else]
    Nobody      \* no attempt, and none of them

Answer == {"verdict", "failure"}

VARIABLES
    asked,      \* the solutions that were submitted
    owner,      \* the attempt that judges each solution
    started,    \* the attempts whose script was started
    answers     \* the final reports of each solution

abstractVars == <<asked, owner, started, answers>>

Init ==
    /\ asked = {}
    /\ owner = [s \in Solution |-> Nobody]
    /\ started = {}
    /\ answers = [s \in Solution |-> {}]

Open(s) == s \in asked /\ answers[s] = {}

(* A client submits a solution, for the first time or again.                *)
Ask(s) ==
    /\ asked' = asked \cup {s}
    /\ UNCHANGED <<owner, started, answers>>

(* An attempt takes a solution that nobody judges ...                       *)
Take(s, r) ==
    /\ Open(s)
    /\ owner[s] = Nobody
    /\ For[r] = s
    /\ r \notin started
    /\ owner' = [owner EXCEPT ![s] = r]
    /\ UNCHANGED <<asked, started, answers>>

(* ... starts its script, only while it owns it or after a final report ... *)
Start(s, r) ==
    /\ For[r] = s
    /\ r \notin started
    /\ owner[s] = r \/ answers[s] # {}
    /\ started' = started \cup {r}
    /\ UNCHANGED <<asked, owner, answers>>

(* ... and is over, or gives up: one attempt, or all that stop together.    *)
LetGo(S) ==
    /\ owner' = [s \in Solution |-> IF s \in S THEN Nobody ELSE owner[s]]
    /\ UNCHANGED <<asked, started, answers>>

(* A final report: nobody owns the solution from then on.                   *)
Report(s, a) ==
    /\ s \in asked
    /\ a = "verdict" => \E r \in started : For[r] = s
    /\ answers' = [answers EXCEPT ![s] = @ \cup {a}]
    /\ owner' = [owner EXCEPT ![s] = Nobody]
    /\ UNCHANGED <<asked, started>>

Next ==
    \/ \E S \in SUBSET Solution : LetGo(S)
    \/ \E s \in Solution :
        \/ Ask(s)
        \/ \E r \in Try : Take(s, r) \/ Start(s, r)
        \/ \E a \in Answer : Report(s, a)

Spec == Init /\ [][Next]_abstractVars
===============================================================================
