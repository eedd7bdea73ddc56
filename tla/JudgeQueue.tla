----------------------------- MODULE JudgeQueue -----------------------------
(***************************************************************************)
(* The judge topic and the judgers' HandleMessage. nsqd delivers a message *)
(* at least once: it takes it back when the judger's connection closes or  *)
(* when the handler is slower than Nsq.MsgTimeout, and a FIN or REQ only   *)
(* counts while the message is in flight to the connection that sends it.  *)
(* A handler claims the solution in Redis, prepares the bridge and starts  *)
(* the judge script; every call to another process is a step of its own,   *)
(* so that the other handlers, listeners and nsqd may act between any two. *)
(***************************************************************************)
EXTENDS JudgerBase

VARIABLES
    place,      \* where nsqd has each message
    attempts,   \* how often nsqd has delivered it
    pc,         \* the call each handler makes next
    job,        \* the delivery each handler works on
    up          \* the judgers that run

(* A judger is not one of the other places of a message.                    *)
ASSUME PlaceAssumption == Judger \cap {"new", "ready", "gone"} = {}

queueVars == <<place, attempts>>
handlerVars == <<pc, job>>

NoJob == <<NoSolution, 0>>
Delivery == Msg \X (1 .. MaxAttempts + 1)
Step == {"idle", "claim", "expire", "fetch", "execute", "release",
         "fail", "unclaim", "started", "finish", "requeue"}

JobSolution(h) == Body[job[h][1]]
Attempt(h) == job[h][2]

QueueTypeOK ==
    /\ place \in [Msg -> {"new", "ready", "gone"} \cup Judger]
    /\ attempts \in [Msg -> 0 .. MaxAttempts + 2]
    /\ pc \in [Handler -> Step]
    /\ job \in [Handler -> Delivery \cup {NoJob}]
    /\ up \in [Judger -> BOOLEAN]

QueueInit ==
    /\ place = [m \in Msg |-> "new"]
    /\ attempts = [m \in Msg |-> 0]
    /\ pc = [h \in Handler |-> "idle"]
    /\ job = [h \in Handler |-> NoJob]
    /\ up = [j \in Judger |-> TRUE]

Goto(h, step) == pc' = [pc EXCEPT ![h] = step]
Return(h) ==
    /\ Goto(h, "idle")
    /\ job' = [job EXCEPT ![h] = NoJob]

-----------------------------------------------------------------------------
(* nsqd *)

(* A client publishes the message to the judge topic.                       *)
Submit(m) ==
    /\ place[m] = "new"
    /\ place' = [place EXCEPT ![m] = "ready"]
    /\ UNCHANGED <<attempts, handlerVars, up, sharedVars>>

(* The consumer library finishes by itself a message delivered more often   *)
(* than the MaxAttempts it was configured with, one more than the judger's. *)
Drop(m) ==
    /\ place[m] = "ready"
    /\ attempts[m] = MaxAttempts + 1
    /\ attempts' = [attempts EXCEPT ![m] = @ + 1]
    /\ place' = [place EXCEPT ![m] = "gone"]
    /\ UNCHANGED <<handlerVars, up, sharedVars>>

(* Variant: the library is configured for one delivery more.                *)
DeliverableOnceMore(m) == place[m] = "ready" /\ attempts[m] <= MaxAttempts + 1

(* nsqd holds the message, and the consumer library lets it pass.           *)
Deliverable(m) == place[m] = "ready" /\ attempts[m] <= MaxAttempts

(* HandleMessage up to its first call: the body and the attempts decide.    *)
HandleMessage(h, m) ==
    /\ up[JudgerOf(h)]
    /\ pc[h] = "idle"
    /\ Deliverable(m)
    /\ attempts' = [attempts EXCEPT ![m] = @ + 1]
    /\ place' = [place EXCEPT ![m] = JudgerOf(h)]
    /\ job' = [job EXCEPT ![h] = <<m, attempts'[m]>>]
    /\ Goto(h, CASE Body[m] = Malformed /\ attempts'[m] > MaxAttempts -> "finish"
                 [] Body[m] = Malformed /\ attempts'[m] <= MaxAttempts -> "requeue"
                 [] Body[m] # Malformed /\ attempts'[m] > MaxAttempts -> "fail"
                 [] OTHER -> "claim")
    /\ UNCHANGED <<up, sharedVars>>

(* The handler has not answered within Nsq.MsgTimeout: nsqd queues the      *)
(* message again, and the handler does not learn of it.                     *)
MsgTimeout(m) ==
    /\ "timeout" \in Faults
    /\ place[m] \in Judger
    /\ place' = [place EXCEPT ![m] = "ready"]
    /\ UNCHANGED <<attempts, handlerVars, up, sharedVars>>

(* FIN: the message is gone if it is still in flight to this connection.    *)
Finish(h) ==
    /\ pc[h] = "finish"
    /\ place' = [place EXCEPT ![job[h][1]] = IF @ = JudgerOf(h) THEN "gone" ELSE @]
    /\ Return(h)
    /\ UNCHANGED <<attempts, up, sharedVars>>

(* REQ, likewise: RequeueWithoutBackoff.                                    *)
Requeue(h) ==
    /\ pc[h] = "requeue"
    /\ place' = [place EXCEPT ![job[h][1]] = IF @ = JudgerOf(h) THEN "ready" ELSE @]
    /\ Return(h)
    /\ UNCHANGED <<attempts, up, sharedVars>>

-----------------------------------------------------------------------------
(* ProcessJudge *)

(* INCR. A claim that exists is success: another handler judges it. An      *)
(* error is reported as "exists" too, and ProcessJudge returns it.          *)
Claim(h) ==
    /\ pc[h] = "claim"
    /\ \E answer \in checkIfRequestExists(claim, JobSolution(h)) :
          /\ claim' = AfterIncr(claim, JobSolution(h), answer)
          /\ Goto(h, CASE answer = "first" -> "expire"
                       [] answer = "again" -> "started"
                       [] answer = "error" -> "release")
    /\ UNCHANGED <<queueVars, job, up, seen, reports, scriptVars>>

(* EXPIRE. Its error is overwritten by GetProblemMeta's.                    *)
SetExpire(h) ==
    /\ pc[h] = "expire"
    /\ claim' \in AfterExpire(claim, JobSolution(h))
    /\ Goto(h, "fetch")
    /\ UNCHANGED <<queueVars, job, up, seen, reports, scriptVars>>

(* Problem meta, discovery of a bridge, presigning and fetch-object: the    *)
(* bridge has the solution's file, or one of them answers an error.         *)
Fetch(h) ==
    /\ pc[h] = "fetch"
    /\ \/ /\ HandleFetchObject(JobSolution(h))
          /\ Goto(h, "execute")
       \/ /\ "refuse" \in Faults
          /\ Goto(h, "release")
          /\ UNCHANGED dir
    /\ UNCHANGED <<queueVars, job, up, claim, seen, reports, script, uploaded, latest>>

(* Variant: the deferred RemoveFile of the solution is enabled again.       *)
ExecuteAndRemove(h) ==
    /\ pc[h] = "execute"
    /\ HandleExecuteCommand(job[h])
    /\ dir' = [dir EXCEPT ![JobSolution(h)] = FALSE]
    /\ Goto(h, "started")
    /\ UNCHANGED <<queueVars, job, up, claim, seen, reports, uploaded, latest>>

(* execute-command with async: the script starts, or the bridge refuses, or *)
(* the script starts and the judger gets an error all the same.             *)
Execute(h) ==
    /\ pc[h] = "execute"
    /\ \/ /\ HandleExecuteCommand(job[h])
          /\ \/ Goto(h, "started")
             \/ "lostReply" \in Faults /\ Goto(h, "release")
       \/ /\ "refuse" \in Faults
          /\ Goto(h, "release")
          /\ UNCHANGED script
    /\ UNCHANGED <<queueVars, job, up, claim, seen, reports, uploaded, latest, dir>>

-----------------------------------------------------------------------------
(* HandleMessage after ProcessJudge *)

(* ProcessJudge failed: the claim is removed for the next attempt.          *)
Release(h) ==
    /\ pc[h] = "release"
    /\ claim' \in setRequestNotExist(claim, JobSolution(h))
    /\ Goto(h, IF Attempt(h) = MaxAttempts THEN "fail" ELSE "requeue")
    /\ UNCHANGED <<queueVars, job, up, seen, reports, scriptVars>>

(* The final report of a message that is given up.                          *)
Fail(h) ==
    /\ pc[h] = "fail"
    /\ \/ /\ publishToReport(JobSolution(h),
                ReportOf(IF Attempt(h) > MaxAttempts THEN "maxAttempts" ELSE "failed", TRUE, 0))
          /\ Goto(h, "unclaim")
       \/ LoseReport /\ Goto(h, "finish")
    /\ UNCHANGED <<queueVars, job, up, claim, seen, scriptVars>>

Unclaim(h) ==
    /\ pc[h] = "unclaim"
    /\ claim' \in setRequestNotExist(claim, JobSolution(h))
    /\ Goto(h, "finish")
    /\ UNCHANGED <<queueVars, job, up, seen, reports, scriptVars>>

(* Variant: the claim only lasts as long as ProcessJudge.                   *)
StartedAndUnclaimed(h) ==
    /\ pc[h] = "started"
    /\ publishToReport(JobSolution(h), ReportOf("started", FALSE, 0))
    /\ claim' \in setRequestNotExist(claim, JobSolution(h))
    /\ Goto(h, "finish")
    /\ UNCHANGED <<queueVars, job, up, seen, scriptVars>>

(* ProcessJudge succeeded: "Judge started", whose loss is not even logged.  *)
Started(h) ==
    /\ pc[h] = "started"
    /\ \/ publishToReport(JobSolution(h), ReportOf("started", FALSE, 0))
       \/ LoseReport
    /\ Goto(h, "finish")
    /\ UNCHANGED <<queueVars, job, up, claim, seen, scriptVars>>

HandlerStep(h) ==
    \/ Claim(h) \/ SetExpire(h) \/ Fetch(h) \/ Execute(h) \/ Release(h)
    \/ Fail(h) \/ Unclaim(h) \/ Started(h) \/ Finish(h) \/ Requeue(h)

-----------------------------------------------------------------------------
(* A judger stops: its handlers are gone, and nsqd takes back its messages. *)
StopHandlers(j) ==
    /\ up' = [up EXCEPT ![j] = FALSE]
    /\ place' = [m \in Msg |-> IF place[m] = j THEN "ready" ELSE place[m]]
    /\ pc' = [h \in Handler |-> IF JudgerOf(h) = j THEN "idle" ELSE pc[h]]
    /\ job' = [h \in Handler |-> IF JudgerOf(h) = j THEN NoJob ELSE job[h]]
    /\ UNCHANGED attempts

Restart(j) ==
    /\ ~up[j]
    /\ up' = [up EXCEPT ![j] = TRUE]
    /\ UNCHANGED <<queueVars, handlerVars, sharedVars>>

QueueNext ==
    \/ \E m \in Msg : Submit(m) \/ Drop(m) \/ MsgTimeout(m)
    \/ \E h \in Handler, m \in Msg : HandleMessage(h, m)
    \/ \E h \in Handler : HandlerStep(h)
=============================================================================
