------------------------------ MODULE ScriptLife ------------------------------
(***************************************************************************)
(* What the judgers can expect of a judge script they have started: it     *)
(* lives, ends, and then its exit status is stored; what it reports is     *)
(* stored under its own solution before that, and of a script that ended   *)
(* well before it ended, except for a report that nobody waits for any     *)
(* more. JudgeResults treats scripts this way, without that exception, and *)
(* its check 2.5 s after the exit status rests on it. BridgeCommand is     *)
(* shown to implement it.                                                  *)
(***************************************************************************)
CONSTANTS
    Run,        \* the judge scripts to start
    Own,        \* [Run -> the solution each judges]
    Solution    \* solution IDs

VARIABLES
    life,       \* "none", "live", "exited" and "settled", as in JudgeResults
    well,       \* the scripts that ended well
    adrift,     \* those with a report on its way that nobody waits for
    stored      \* the runs whose report was stored, per solution

lifeVars == <<life, well, adrift, stored>>

Init ==
    /\ life = [r \in Run |-> "none"]
    /\ well = {}
    /\ adrift = {}
    /\ stored = [s \in Solution |-> {}]

Become(r, stage) == life' = [life EXCEPT ![r] = stage]

Begin(r) ==
    /\ life[r] = "none"
    /\ Become(r, "live")
    /\ UNCHANGED <<well, adrift, stored>>

(* It may still report: it lives, or was killed while it did.               *)
Reporting(r) == life[r] = "live" \/ (life[r] = "exited" /\ r \notin well)

Store(r) ==
    /\ Reporting(r) \/ r \in adrift
    /\ stored' = [stored EXCEPT ![Own[r]] = @ \cup {r}]
    /\ UNCHANGED <<life, well, adrift>>

LoseSight(r) ==
    /\ Reporting(r)
    /\ adrift' = adrift \cup {r}
    /\ UNCHANGED <<life, well, stored>>

End(r) ==
    /\ life[r] = "live"
    /\ Become(r, "exited")
    /\ well' \in {well, well \cup {r}}
    /\ UNCHANGED <<adrift, stored>>

Settle(r) ==
    /\ life[r] = "exited"
    /\ Become(r, "settled")
    /\ UNCHANGED <<well, adrift, stored>>

Next == \E r \in Run : Begin(r) \/ Store(r) \/ LoseSight(r) \/ End(r) \/ Settle(r)

Spec == Init /\ [][Next]_lifeVars
===============================================================================
