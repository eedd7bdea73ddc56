---------------------------- MODULE JudgeResults ----------------------------
(***************************************************************************)
(* What becomes of a judge script: it stores result.json files, ends, and  *)
(* the bridge stores its exit status as run-command-report.json. MinIO     *)
(* tells every judger that listens; Redis marks choose the judger that     *)
(* handles an event. That judger reports the result, or the failure of the *)
(* script, or, 2.5 s after a script that ended well, that the script did   *)
(* not report at all if the solution still has its claim.                  *)
(***************************************************************************)
EXTENDS JudgerBase

VARIABLES
    inbox,      \* the notifications each listener has yet to handle
    lpc,        \* the call each listener makes next for the first of them
    got,        \* the contents it has read
    timer       \* the 2.5 s check that a judger has pending for a script

listenerVars == <<inbox, lpc, got>>

Listener == Judger \X Listening
Timer == Judger \X Run
Event == [run : Run, body : Upload \cup Exit]

ListenerStep == {"check", "expire", "read", "unmark", "publish", "unclaim"}
TimerStep == {"off", "sleep", "expire", "release", "publish", "unclaim"}

ResultsTypeOK ==
    /\ inbox \in [Listener -> Seq(Event)]
    /\ lpc \in [Listener -> ListenerStep]
    /\ got \in [Listener -> Upload \cup Exit \cup {Nothing}]
    /\ timer \in [Timer -> TimerStep]

ResultsInit ==
    /\ inbox = [l \in Listener |-> <<>>]
    /\ lpc = [l \in Listener |-> "check"]
    /\ got = [l \in Listener |-> Nothing]
    /\ timer = [t \in Timer |-> "off"]

(* MinIO notifies the listeners of the judgers that run.                    *)
Notify(running, kind, e) ==
    inbox' = [l \in Listener |-> IF l[2] = kind /\ running[l[1]]
                                 THEN Append(inbox[l], e) ELSE inbox[l]]

-----------------------------------------------------------------------------
(* The judge script and the bridge *)

(* `hpcgame report' stores result.json. A script stores each contents once, *)
(* and nothing after its end: no report is taken to be adrift, as ScriptLife *)
(* calls it.                                                                *)
StoreResult(r, c, running) ==
    /\ script[r] = "live"
    /\ c \notin uploaded[r]
    /\ uploaded' = [uploaded EXCEPT ![r] = @ \cup {c}]
    /\ HandleUploadFile(<<SolutionOf(r), "result">>, c)
    /\ Notify(running, "result", [run |-> r, body |-> c])
    /\ UNCHANGED <<claim, seen, reports, script, dir, lpc, got, timer>>

(* hpc-spawn returns: it has removed the solution directory. (BridgeCommand *)
(* has the failures after which the directory stays.)                        *)
EndScript(r) ==
    /\ script[r] = "live"
    /\ script' = [script EXCEPT ![r] = "exited"]
    /\ dir' = [dir EXCEPT ![SolutionOf(r)] = FALSE]
    /\ UNCHANGED <<claim, seen, reports, uploaded, latest, listenerVars, timer>>

(* The bridge stores the exit status, or only logs that it cannot. It holds *)
(* the script's output as well; here it is taken to be the same, so that of *)
(* two runs that end alike only the first has its end noticed.              *)
StoreExit(r, e, running) ==
    /\ script[r] = "exited"
    /\ script' = [script EXCEPT ![r] = "settled"]
    /\ \/ /\ latest' = [latest EXCEPT ![<<SolutionOf(r), "command">>] = e]
          /\ Notify(running, "command", [run |-> r, body |-> e])
       \/ "silent" \in Faults /\ UNCHANGED <<latest, inbox>>
    /\ UNCHANGED <<claim, seen, reports, uploaded, dir, lpc, got, timer>>

-----------------------------------------------------------------------------
(* The two listeners of a judger *)

First(l) == Head(inbox[l])
EventSolution(l) == SolutionOf(First(l).run)
Mark(l) == <<EventSolution(l), First(l).body>>

Proceed(l, step) ==
    /\ lpc' = [lpc EXCEPT ![l] = step]
    /\ UNCHANGED <<inbox, got>>

(* Go on to the next notification.                                          *)
Skip(l) ==
    /\ inbox' = [inbox EXCEPT ![l] = Tail(@)]
    /\ lpc' = [lpc EXCEPT ![l] = "check"]
    /\ got' = [got EXCEPT ![l] = Nothing]

(* INCR of the mark: only the first judger to see the event goes on.        *)
Check(l) ==
    /\ lpc[l] = "check"
    /\ inbox[l] # <<>>
    /\ \E answer \in checkIfRequestExists(seen, Mark(l)) :
          /\ seen' = AfterIncr(seen, Mark(l), answer)
          /\ IF answer = "first" THEN Proceed(l, "expire") ELSE Skip(l)
    /\ UNCHANGED <<claim, reports, scriptVars, timer>>

(* EXPIRE of the mark. When it fails, the result listener drops the event,  *)
(* while the command listener goes on.                                      *)
ExpireMark(l) ==
    /\ lpc[l] = "expire"
    /\ \/ /\ seen' = Expire(seen, Mark(l))
          /\ Proceed(l, "read")
       \/ /\ "expire" \in Faults
          /\ IF l[2] = "result" THEN Skip(l) ELSE Proceed(l, "read")
          /\ UNCHANGED seen
    /\ UNCHANGED <<claim, reports, scriptVars, timer>>

(* GetObject and ReadAll, of the version the event names if there is one.   *)
(* A report of success arms the timer, every other contents is published.   *)
Contents(l) == IF Versioned THEN First(l).body ELSE latest[<<EventSolution(l), l[2]>>]

Read(l) ==
    /\ lpc[l] = "read"
    /\ IF Contents(l) = ExitOK
       THEN /\ timer' = [timer EXCEPT ![<<l[1], First(l).run>>] = "sleep"]
            /\ Skip(l)
       ELSE /\ got' = [got EXCEPT ![l] = Contents(l)]
            /\ lpc' = [lpc EXCEPT ![l] = "publish"]
            /\ UNCHANGED <<inbox, timer>>
    /\ UNCHANGED sharedVars

(* The object cannot be read: the mark is removed, unless it is the body of *)
(* a command report that breaks off.                                        *)
ReadFails(l) ==
    /\ lpc[l] = "read"
    /\ "read" \in Faults
    /\ Proceed(l, "unmark") \/ (l[2] = "command" /\ Skip(l))
    /\ UNCHANGED <<sharedVars, timer>>

Unmark(l) ==
    /\ lpc[l] = "unmark"
    /\ seen' \in setRequestNotExist(seen, Mark(l))
    /\ Skip(l)
    /\ UNCHANGED <<claim, reports, scriptVars, timer>>

(* What is reported: the result as it stands, a result that does not parse  *)
(* (final, and without a solution ID), or the failure of the script.        *)
ReportKey(l) == IF got[l] = Garbled THEN NoSolution ELSE EventSolution(l)
ReportFor(l) ==
    CASE got[l] = Garbled -> ReportOf("invalid", TRUE, 0)
      [] got[l] = ExitError -> ReportOf("badExit", TRUE, 0)
      [] OTHER            -> ReportOf("result", got[l].done, got[l].score)

Publish(l) ==
    /\ lpc[l] = "publish"
    /\ \/ /\ publishToReport(ReportKey(l), ReportFor(l))
          /\ IF ReportFor(l).done THEN Proceed(l, "unclaim") ELSE Skip(l)
       \/ LoseReport /\ Skip(l)
    /\ UNCHANGED <<claim, seen, scriptVars, timer>>

(* Variant: the mark of the event is cleaned up with the claim.             *)
UnclaimAndUnmark(l) ==
    /\ lpc[l] = "unclaim"
    /\ claim' \in setRequestNotExist(claim, ReportKey(l))
    /\ seen' = Del(seen, Mark(l))
    /\ Skip(l)
    /\ UNCHANGED <<reports, scriptVars, timer>>

UnclaimReported(l) ==
    /\ lpc[l] = "unclaim"
    /\ claim' \in setRequestNotExist(claim, ReportKey(l))
    /\ Skip(l)
    /\ UNCHANGED <<seen, reports, scriptVars, timer>>

ListenerNext(l) ==
    \/ Check(l) \/ ExpireMark(l) \/ Read(l) \/ ReadFails(l)
    \/ Unmark(l) \/ Publish(l) \/ UnclaimReported(l)

-----------------------------------------------------------------------------
(* The check 2.5 s after a script that ended well *)

Set(t, step) == timer' = [timer EXCEPT ![t] = step]

(* Variant: there is no delay.                                              *)
NoDelay(r) == TRUE

(* Every result of the script has been handled by then unless a listener    *)
(* lags ("late").                                                           *)
ResultsHandled(r) ==
    \A j \in Judger : \A i \in DOMAIN inbox[<<j, "result">>] :
        inbox[<<j, "result">>][i].run # r

(* Variant: the check for the claim is the wrong way round.                 *)
AfterWakeInverted(answer) == IF answer = "first" THEN "release" ELSE "off"
AfterWake(answer) == IF answer = "first" THEN "expire" ELSE "release"

(* INCR of the claim: if it exists the script has not reported. If it does  *)
(* not, the INCR itself has created it, and nothing removes it.             *)
Wake(t) ==
    /\ timer[t] = "sleep"
    /\ "late" \in Faults \/ ResultsHandled(t[2])
    /\ \E answer \in checkIfRequestExists(claim, SolutionOf(t[2])) :
          /\ claim' = AfterIncr(claim, SolutionOf(t[2]), answer)
          /\ Set(t, AfterWake(answer))
    /\ UNCHANGED <<seen, reports, scriptVars, listenerVars>>

ExpireWoken(t) ==
    /\ timer[t] = "expire"
    /\ claim' \in AfterExpire(claim, SolutionOf(t[2]))
    /\ Set(t, "off")
    /\ UNCHANGED <<seen, reports, scriptVars, listenerVars>>

(* The claim is removed before the failure is reported ...                  *)
ReleaseWoken(t) ==
    /\ timer[t] = "release"
    /\ claim' \in setRequestNotExist(claim, SolutionOf(t[2]))
    /\ Set(t, "publish")
    /\ UNCHANGED <<seen, reports, scriptVars, listenerVars>>

ReportWoken(t) ==
    /\ timer[t] = "publish"
    /\ \/ /\ publishToReport(SolutionOf(t[2]), ReportOf("noReport", TRUE, 0))
          /\ Set(t, "unclaim")
       \/ LoseReport /\ Set(t, "off")
    /\ UNCHANGED <<claim, seen, scriptVars, listenerVars>>

(* ... and once more after it, by publishToReport.                          *)
UnclaimWoken(t) ==
    /\ timer[t] = "unclaim"
    /\ claim' \in setRequestNotExist(claim, SolutionOf(t[2]))
    /\ Set(t, "off")
    /\ UNCHANGED <<seen, reports, scriptVars, listenerVars>>

TimerNext(t) ==
    \/ Wake(t) \/ ExpireWoken(t) \/ ReleaseWoken(t)
    \/ ReportWoken(t) \/ UnclaimWoken(t)

-----------------------------------------------------------------------------
(* A judger stops: what it had not handled is lost, MinIO repeats nothing.  *)
StopListeners(j) ==
    /\ inbox' = [l \in Listener |-> IF l[1] = j THEN <<>> ELSE inbox[l]]
    /\ lpc' = [l \in Listener |-> IF l[1] = j THEN "check" ELSE lpc[l]]
    /\ got' = [l \in Listener |-> IF l[1] = j THEN Nothing ELSE got[l]]
    /\ timer' = [t \in Timer |-> IF t[1] = j THEN "off" ELSE timer[t]]

ScriptNext(r, running) ==
    \/ \E c \in Upload : StoreResult(r, c, running)
    \/ EndScript(r)
    \/ \E e \in Exit : StoreExit(r, e, running)
=============================================================================
