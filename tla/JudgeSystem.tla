----------------------------- MODULE JudgeSystem -----------------------------
(***************************************************************************)
(* The judgers of a cluster: the judge topic and its handlers, the scripts *)
(* they start and the listeners that report what the scripts said, over    *)
(* one Redis, one MinIO and one bridge.                                    *)
(***************************************************************************)
EXTENDS JudgeQueue, JudgeResults

vars == <<queueVars, handlerVars, up, sharedVars, listenerVars, timer>>
queueState == <<queueVars, handlerVars, up>>
resultsState == <<listenerVars, timer>>

Init == QueueInit /\ ResultsInit /\ SharedInit

(* A judger stops, with its handlers, its listeners and its timers.         *)
Crash(j) ==
    /\ "crash" \in Faults
    /\ up[j]
    /\ StopHandlers(j)
    /\ StopListeners(j)
    /\ UNCHANGED sharedVars

QueueStep == QueueNext /\ UNCHANGED resultsState
RestartStep == \E j \in Judger : Restart(j) /\ UNCHANGED resultsState
CrashStep == \E j \in Judger : Crash(j)
ScriptStep == \E r \in ValidRun : ScriptNext(r, up) /\ UNCHANGED queueState
ListenerStepNext == \E l \in Listener : ListenerNext(l) /\ UNCHANGED queueState
TimerStepNext == \E t \in Timer : TimerNext(t) /\ UNCHANGED queueState
ForgetStep ==
    /\ (\E k \in ClaimKey : ForgetClaim(k)) \/ (\E k \in EventKey : ForgetEvent(k))
    /\ UNCHANGED <<queueState, resultsState>>

Next ==
    \/ QueueStep \/ RestartStep \/ CrashStep \/ ScriptStep
    \/ ListenerStepNext \/ TimerStepNext \/ ForgetStep

Spec == Init /\ [][Next]_vars

-----------------------------------------------------------------------------
(* Fairness: the processes run. nsqd delivers what it holds, a handler, a   *)
(* listener and a timer make their next call, a stopped judger is started   *)
(* again, and a script ends and has its status stored. The last is an       *)
(* assumption about scripts: one with a TimeLimit is killed, but the bridge *)
(* also waits for every process it has started (EveryCommandSettles of      *)
(* BridgeCommand). Nothing is assumed of the faults, nor of what a script   *)
(* reports.                                                                 *)
Fairness ==
    /\ \A m \in Msg : WF_vars(Drop(m) /\ UNCHANGED resultsState)
    /\ \A m \in Msg : WF_vars((\E h \in Handler : HandleMessage(h, m)) /\ UNCHANGED resultsState)
    /\ \A h \in Handler : WF_vars(HandlerStep(h) /\ UNCHANGED resultsState)
    /\ WF_vars(RestartStep)
    /\ \A r \in ValidRun :
          WF_vars((EndScript(r) \/ \E e \in Exit : StoreExit(r, e, up)) /\ UNCHANGED queueState)
    /\ \A l \in Listener : WF_vars(ListenerNext(l) /\ UNCHANGED queueState)
    /\ \A t \in Timer : WF_vars(TimerNext(t) /\ UNCHANGED queueState)

FairSpec == Spec /\ Fairness

-----------------------------------------------------------------------------
(* Every variable has its type.                                             *)
TypeOK == SharedTypeOK /\ QueueTypeOK /\ ResultsTypeOK

(* The deliveries of a solution that own its claim: the handler may still   *)
(* start the script, or the script has not ended.                           *)
MayStart(r) ==
    \E h \in Handler : job[h] = r /\ pc[h] \in {"expire", "fetch", "execute", "release"}
Judging(s) ==
    {r \in ValidRun : SolutionOf(r) = s /\ (MayStart(r) \/ script[r] = "live")}

(* Until a final report of a solution is published, at most one delivery    *)
(* judges it, whatever is redelivered, retried or submitted again, and it   *)
(* holds the claim (ProcessJudge's duplicate check).                        *)
OneJudgeUntilReported ==
    \A s \in Solution : ~Reported(s) =>
        /\ \A r1, r2 \in Judging(s) : r1 = r2
        /\ Judging(s) # {} => Exists(claim, s)

(* A script that runs for an unreported solution has its files: the end of  *)
(* an earlier script (AutoRemoveSolution) does not take them away.          *)
FilesWhileJudging ==
    \A r \in ValidRun :
        script[r] = "live" /\ ~Reported(SolutionOf(r)) => dir[SolutionOf(r)]

(* A claim without a deadline would block its solution for ever: whoever    *)
(* created it by INCR is about to give it one (checkIfRequestExists).       *)
ClaimsExpire ==
    \A s \in Solution : claim[s] = "lasting" =>
        \/ \E h \in Handler : pc[h] = "expire" /\ JobSolution(h) = s
        \/ \E t \in Timer : timer[t] = "expire" /\ SolutionOf(t[2]) = s

(* Every judger is notified of a result, one of them reports it: no result  *)
(* of a solution is reported twice (the marks of listenMinIOEvent).         *)
PublishedOnce ==
    \A l \in Listener : lpc[l] = "publish" /\ got[l] \in Result =>
        ReportFor(l) \notin reports[ReportKey(l)]

(* The failure "Judge script exited before reporting done" is only reported *)
(* of a script that did not report done.                                    *)
ReportedDone(r) == \E c \in uploaded[r] \cap Result : c.done
NoReportIsTrue ==
    \A t \in Timer : timer[t] = "publish" => ~ReportedDone(t[2])

(* A submission is answered by a final report in the end.                   *)
EverySubmissionReported ==
    \A m \in Msg : Body[m] \in Solution =>
        (place[m] = "ready" ~> Reported(Body[m]))

-----------------------------------------------------------------------------
(* The refinement of Submission. A solution is owned by the delivery that   *)
(* judges it, and by nobody once a final report is published.               *)
Answers(s) ==
    {IF r.kind = "result" THEN "verdict" ELSE "failure" : r \in {q \in reports[s] : q.done}}

Owner(s) ==
    IF Reported(s) \/ Judging(s) = {} THEN NoJob ELSE CHOOSE r \in Judging(s) : TRUE

Promise == INSTANCE Submission WITH
    Try     <- Run,
    For     <- [r \in Run |-> SolutionOf(r)],
    Nobody  <- NoJob,
    asked   <- {s \in Solution : \E m \in Msg : Body[m] = s /\ place[m] # "new"},
    owner   <- [s \in Solution |-> Owner(s)],
    started <- {r \in ValidRun : script[r] # "none"},
    answers <- [s \in Solution |-> Answers(s)]

(* JudgeSystem keeps the promise of Submission: until the first final       *)
(* report, attempts take a solution only when nobody has it and start its   *)
(* script only while they have it, across redelivery, retry and crash.      *)
ImplementsSubmission == Promise!Spec
=============================================================================
