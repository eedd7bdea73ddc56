------------------------- MODULE JudgeRefinement_proofs -------------------------
(***************************************************************************)
(* The judgers implement Submission: the proof that every step of theirs   *)
(* is a step of the promise, or none of it.                                *)
(***************************************************************************)
EXTENDS JudgeSafety_proofs

(* What is worked on was submitted, and what a listener hears of is about a *)
(* script that was started.                                                 *)
Submitted(m) == place[m] # "new"

Asked ==
    /\ \A h \in Handler : pc[h] # "idle" => Submitted(job[h][1])
    /\ \A r \in Run : script[r] # "none" => Submitted(r[1])

Heard == \A l \in Listener : \A i \in 1 .. Len(inbox[l]) : script[inbox[l][i].run] # "none"

AskInv == Asked /\ Heard

(* A message that was submitted stays so.                                   *)
LEMMA PlaceMoves ==
    ASSUME TypeInv, [Next]_vars, NEW m \in Msg, place'[m] # place[m]
    PROVE  /\ place'[m] # "new"
           /\ place[m] = "new" => QueueStep /\ Submit(m)
<1>0. place \in [Msg -> {"new", "ready", "gone"} \cup Judger] /\ "new" \notin Judger
  BY PlaceAssumption DEF TypeInv, TypeOK, QueueTypeOK
<1>1. \A h \in Handler : JudgerOf(h) \in Judger
  BY DEF Handler, JudgerOf
<1>2. CASE QueueStep
  <2>1. ASSUME NEW x \in Msg, Submit(x) \/ Drop(x) \/ MsgTimeout(x)
        PROVE  place'[m] # "new" /\ (place[m] = "new" => Submit(m))
    BY <1>0, <2>1 DEF Submit, Drop, MsgTimeout
  <2>2. ASSUME NEW h \in Handler, NEW x \in Msg, HandleMessage(h, x)
        PROVE  place'[m] # "new" /\ place[m] # "new"
    <3>1. place[x] = "ready" /\ place' = [place EXCEPT ![x] = JudgerOf(h)]
      BY <2>2 DEF HandleMessage, Deliverable
    <3> QED
      BY <1>0, <1>1, <3>1
  <2>3. ASSUME NEW h \in Handler, HandlerStep(h)
        PROVE  place'[m] # "new" /\ place[m] # "new"
    BY <1>0, <1>1, <2>3 DEF HandlerStep, Claim, SetExpire, Fetch, Execute, Release, Fail, Unclaim, Started, Finish,
       Requeue, queueVars
  <2> QED
    BY <1>2, <2>1, <2>2, <2>3 DEF QueueStep, QueueNext
<1>3. CASE CrashStep
  <2>1. PICK j \in Judger : place'[m] = IF place[m] = j THEN "ready" ELSE place[m]
    BY <1>3, Zenon DEF CrashStep, Crash, StopHandlers
  <2> QED
    BY <1>0, <2>1
<1>4. CASE RestartStep \/ ScriptStep \/ ListenerStepNext \/ TimerStepNext \/ ForgetStep \/ UNCHANGED vars
  BY <1>4 DEF RestartStep, Restart, ScriptStep, ListenerStepNext, TimerStepNext, ForgetStep, queueState, queueVars, vars
<1> QED
  BY <1>2, <1>3, <1>4 DEF Next

LEMMA SubmittedKept ==
    ASSUME TypeInv, [Next]_vars, NEW m \in Msg, place[m] # "new"
    PROVE  place'[m] # "new"
BY PlaceMoves

LEMMA AskedStep ==
    ASSUME TypeInv, Deliveries, Asked, [Next]_vars
    PROVE  Asked'
<1>1. ASSUME NEW h \in Handler, pc'[h] # "idle"
      PROVE  place'[job'[h][1]] # "new"
  <2>1. CASE job'[h] = job[h] /\ pc[h] # "idle"
    <3>1. place[job[h][1]] # "new" /\ job[h][1] \in Msg
      BY <2>1 DEF Asked, Submitted, Deliveries, Counted, Delivery
    <3> QED
      BY <2>1, <3>1, SubmittedKept
  <2>2. ASSUME NEW m \in Msg, HandleMessage(h, m)
        PROVE  place'[job'[h][1]] # "new"
    <3>1. job'[h][1] = m /\ place[m] = "ready"
      BY <2>2 DEF HandleMessage, Deliverable, TypeInv, TypeOK, QueueTypeOK
    <3> QED
      BY <3>1, SubmittedKept
  <2>3. HandlerStep(h) => pc[h] # "idle"
    BY DEF HandlerStep, Claim, SetExpire, Fetch, Execute, Release, Fail, Unclaim, Started, Finish, Requeue
  <2> QED
    BY <1>1, <2>1, <2>2, <2>3, HandlerMoves
<1>2. ASSUME NEW r \in Run, script'[r] # "none"
      PROVE  place'[r[1]] # "new"
  <2>0. r[1] \in Msg
    BY DEF Run
  <2>1. CASE script[r] # "none"
    BY <2>0, <2>1, SubmittedKept DEF Asked, Submitted
  <2>2. ASSUME NEW h \in Handler, Execute(h), job[h] = r
        PROVE  place'[r[1]] # "new"
    <3>1. place[r[1]] # "new"
      BY <2>2 DEF Execute, Asked, Submitted
    <3> QED
      BY <2>0, <3>1, SubmittedKept
  <2> QED
    BY <1>2, <2>1, <2>2, ScriptMoves
<1> QED
  BY <1>1, <1>2 DEF Asked, Submitted

LEMMA StartedStays ==
    ASSUME TypeInv, Deliveries, [Next]_vars, NEW r \in Run, script[r] # "none"
    PROVE  script'[r] # "none"
BY ScriptMoves

LEMMA HeardStep ==
    ASSUME TypeInv, Deliveries, Heard, [Next]_vars
    PROVE  Heard'
<1>0. inbox \in [Listener -> Seq(Event)] /\ script \in [Run -> ScriptState]
  BY DEF TypeInv, TypeOK, ResultsTypeOK, SharedTypeOK
<1> SUFFICES ASSUME NEW l \in Listener, NEW i \in 1 .. Len(inbox'[l])
             PROVE  script'[inbox'[l][i].run] # "none"
  BY DEF Heard
<1>1. inbox[l] \in Seq(Event)
  BY <1>0
<1>2. ASSUME NEW k \in 1 .. Len(inbox[l]), inbox'[l][i] = inbox[l][k]
      PROVE  script'[inbox'[l][i].run] # "none"
  <2>1. inbox[l][k] \in Event
    BY <1>1, ElementOfSeq
  <2>2. inbox[l][k].run \in Run
    BY <2>1 DEF Event
  <2> QED
    BY <1>2, <2>2, StartedStays DEF Heard
<1>3. CASE inbox'[l] = inbox[l] \/ inbox'[l] = Tail(inbox[l]) \/ inbox'[l] = <<>>
  <2>1. CASE inbox'[l] = Tail(inbox[l]) /\ inbox[l] # <<>>
    <3>1. i + 1 \in 1 .. Len(inbox[l]) /\ Tail(inbox[l])[i] = inbox[l][i + 1]
      BY <1>1, <2>1, HeadTailProperties
    <3> QED
      BY <1>2, <2>1, <3>1
  <2>2. CASE inbox[l] = <<>> /\ inbox'[l] = Tail(inbox[l])
    BY <2>2
  <2>3. CASE inbox'[l] = inbox[l] \/ inbox'[l] = <<>>
    BY <1>2, <2>3
  <2> QED
    BY <1>3, <2>1, <2>2, <2>3
<1>4. CASE ListenerStepNext
  <2>1. PICK x \in Listener : ListenerNext(x)
    BY <1>4 DEF ListenerStepNext
  <2>2. inbox'[l] = inbox[l] \/ inbox'[l] = Tail(inbox[l])
    BY <2>1, ListenerFrame
  <2> QED
    BY <1>3, <2>2
<1>5. CASE CrashStep
  <2>1. PICK y \in Judger : StopListeners(y)
    BY <1>5 DEF CrashStep, Crash
  <2>2. inbox'[l] = IF l[1] = y THEN <<>> ELSE inbox[l]
    BY <2>1, Zenon DEF StopListeners
  <2> QED
    BY <1>3, <2>2
<1>6. CASE ScriptStep
  <2>1. PICK r \in ValidRun : ScriptNext(r, up)
    BY <1>6 DEF ScriptStep
  <2>2. CASE inbox' = inbox
    BY <1>3, <2>2
  <2>3. ASSUME NEW kind, NEW c, Notify(up, kind, [run |-> r, body |-> c]), script'[r] # "none"
        PROVE  script'[inbox'[l][i].run] # "none"
    <3> DEFINE ev == [run |-> r, body |-> c]
    <3>1. inbox'[l] = inbox[l] \/ inbox'[l] = Append(inbox[l], ev)
      BY <2>3 DEF Notify
    <3>2. CASE inbox'[l] = Append(inbox[l], ev)
      <4> HIDE DEF ev
      <4>1. (i \in 1 .. Len(inbox[l]) /\ inbox'[l][i] = inbox[l][i]) \/ inbox'[l][i] = ev
        BY <1>1, <3>2
      <4>2. CASE inbox'[l][i] = ev
        BY <2>3, <4>2 DEF ev
      <4> QED
        BY <1>2, <4>1, <4>2
    <3> QED
      BY <1>3, <3>1, <3>2
  <2>4. inbox' # inbox => script'[r] # "none" /\ \E kind, c : Notify(up, kind, [run |-> r, body |-> c])
    BY <1>0, <2>1 DEF ScriptNext, StoreResult, EndScript, StoreExit, listenerVars, ValidRun
  <2> QED
    BY <2>2, <2>3, <2>4
<1>7. CASE QueueStep \/ RestartStep \/ TimerStepNext \/ ForgetStep \/ UNCHANGED vars
  <2>1. inbox' = inbox
    BY <1>7 DEF QueueStep, RestartStep, TimerStepNext, ForgetStep, TimerNext, Wake, ExpireWoken, ReleaseWoken,
       ReportWoken, UnclaimWoken, resultsState, vars, listenerVars
  <2> QED
    BY <1>3, <2>1
<1> QED
  BY <1>4, <1>5, <1>6, <1>7 DEF Next

LEMMA AskInvariant == Spec => []AskInv
<1>1. Init => AskInv
  <2> SUFFICES ASSUME Init PROVE AskInv
    OBVIOUS
  <2>1. /\ \A h \in Handler : pc[h] = "idle"
        /\ \A r \in Run : script[r] = "none"
        /\ \A l \in Listener : inbox[l] = <<>>
    BY DEF Init, QueueInit, ResultsInit, SharedInit
  <2> QED
    BY <2>1 DEF AskInv, Asked, Heard
<1>2. CoreInv /\ AskInv /\ [Next]_vars => AskInv'
  BY AskedStep, HeardStep DEF CoreInv, AskInv
<1> QED
  BY CoreInvariant, <1>1, <1>2, PTL DEF Spec

-----------------------------------------------------------------------------
(* The variables of Submission.                                             *)
AskedS == {s \in Solution : \E m \in Msg : Body[m] = s /\ place[m] # "new"}
OwnerS == [s \in Solution |-> Owner(s)]
StartedS == {r \in ValidRun : script[r] # "none"}
AnswersS == [s \in Solution |-> Answers(s)]

(* An owner is the one delivery that judges, or nobody.                     *)
LEMMA OwnerIs ==
    ASSUME OneJudgeUntilReported, NEW s \in Solution
    PROVE  /\ Reported(s) \/ Judging(s) = {} => Owner(s) = NoJob
           /\ ~Reported(s) => \A r \in Judging(s) : Owner(s) = r
<1>1. ~Reported(s) => \A r1, r2 \in Judging(s) : r1 = r2
  BY DEF OneJudgeUntilReported
<1> HIDE DEF Judging
<1> QED
  BY <1>1 DEF Owner

LEMMA OwnerWillBe ==
    ASSUME OneJudgeUntilReported', NEW s \in Solution
    PROVE  /\ Reported(s)' \/ Judging(s)' = {} => Owner(s)' = NoJob
           /\ ~Reported(s)' => \A r \in Judging(s)' : Owner(s)' = r
<1>1. ~Reported(s)' => \A r1, r2 \in Judging(s)' : r1 = r2
  BY DEF OneJudgeUntilReported
<1> QED
  BY <1>1 DEF Owner

LEMMA NobodyIsNoRun == NoJob \notin Run
<1>1. \A r \in Run : r[2] # 0
  BY MaxAttemptsType DEF Run
<1>2. NoJob[2] = 0
  BY DEF NoJob
<1> QED
  BY <1>1, <1>2

(* A final report is an answer, and there is no other.                      *)
LEMMA AnswersReported ==
    ASSUME NEW s \in Solution
    PROVE  Answers(s) = {} <=> ~Reported(s)
BY DEF Answers, Reported

(* If deliveries are only let go, Submission lets them go.                  *)
LEMMA LetGoStep ==
    ASSUME OneJudgeUntilReported, OneJudgeUntilReported', TypeInv, [Next]_vars,
           AskedS' = AskedS, StartedS' = StartedS, AnswersS' = AnswersS,
           \A s \in Solution : ~Reported(s) => Judging(s)' \subseteq Judging(s)
    PROVE  \E S \in SUBSET Solution :
               /\ OwnerS' = [s \in Solution |-> IF s \in S THEN NoJob ELSE OwnerS[s]]
               /\ UNCHANGED <<AskedS, StartedS, AnswersS>>
<1> DEFINE S == {s \in Solution : Owner(s)' = NoJob}
<1>1. ASSUME NEW s \in Solution, Owner(s)' # NoJob
      PROVE  Owner(s)' = Owner(s)
  <2>1. ~Reported(s)' /\ \E r : r \in Judging(s)'
    BY <1>1, OwnerWillBe
  <2>2. ~Reported(s)
    <3>1. s \in ClaimKey
      BY DEF ClaimKey
    <3> QED
      BY <2>1, <3>1, ReportedKept
  <2>3. PICK r : r \in Judging(s)' /\ r \in Judging(s)
    BY <2>1, <2>2
  <2> QED
    BY <2>1, <2>2, <2>3, OwnerIs, OwnerWillBe
<1>2. OwnerS' = [s \in Solution |-> Owner(s)']
  BY DEF OwnerS
<1>3. \A s \in Solution : OwnerS[s] = Owner(s)
  BY DEF OwnerS
<1>4. OwnerS' = [s \in Solution |-> IF s \in S THEN NoJob ELSE OwnerS[s]]
  BY <1>1, <1>2, <1>3
<1> QED
  BY <1>4

LEMMA JudgingKept ==
    ASSUME TypeInv, Deliveries, Quiet, [Next]_vars, NEW s \in Solution,
           \A h \in Handler : QueueStep /\ Claim(h) /\ JobSolution(h) = s => Exists(claim, s)
    PROVE  Judging(s)' \subseteq Judging(s)
<1>1. \A r \in RunsOf(s) : MayStart(r)' \/ script'[r] = "live" => MayStart(r) \/ script[r] = "live"
  BY RunMoves
<1>2. \A r \in ValidRun : SolutionOf(r) = s => r \in RunsOf(s)
  BY DEF ValidRun, RunsOf
<1> QED
  BY <1>1, <1>2 DEF Judging

(* A report, whose it is and what is left alone.                            *)
Reporting(k, q) ==
    \/ \E h \in Handler : QueueStep /\ Fail(h) /\ k = JobSolution(h) /\ q.done /\ q.kind # "result"
    \/ \E h \in Handler : QueueStep /\ Started(h) /\ k = JobSolution(h) /\ ~q.done
    \/ \E l \in Listener : ListenerStepNext /\ Publish(l) /\ k = ReportKey(l) /\ q = ReportFor(l)
    \/ \E t \in Timer :
          TimerStepNext /\ ReportWoken(t) /\ k = SolutionOf(t[2]) /\ q.done /\ q.kind # "result"

LEMMA ReportMoves ==
    ASSUME TypeInv, [Next]_vars, reports' # reports
    PROVE  \E k, q : Reporting(k, q) /\ publishToReport(k, q)
<1>2. ASSUME QueueStep PROVE \E h \in Handler : Fail(h) \/ Started(h)
  <2>1. \A h \in Handler, m \in Msg : ~HandleMessage(h, m)
    BY DEF HandleMessage, sharedVars
  <2>2. \A m \in Msg : ~(Submit(m) \/ Drop(m) \/ MsgTimeout(m))
    BY DEF Submit, Drop, MsgTimeout, sharedVars
  <2>3. \A h \in Handler : HandlerStep(h) => Fail(h) \/ Started(h)
    BY DEF HandlerStep, Claim, SetExpire, Fetch, Execute, Release, Unclaim, Finish, Requeue, sharedVars
  <2> QED
    BY <1>2, <2>1, <2>2, <2>3 DEF QueueStep, QueueNext
<1>3. ASSUME NEW h \in Handler, QueueStep, Fail(h) PROVE \E k, q : Reporting(k, q) /\ publishToReport(k, q)
  <2> DEFINE q == ReportOf(IF Attempt(h) > MaxAttempts THEN "maxAttempts" ELSE "failed", TRUE, 0)
  <2>1. q.done /\ q.kind # "result"
    BY DEF ReportOf
  <2>2. publishToReport(JobSolution(h), q)
    BY <1>3 DEF Fail, LoseReport
  <2> HIDE DEF q
  <2>3. Reporting(JobSolution(h), q)
    BY <1>3, <2>1 DEF Reporting
  <2> QED
    BY <2>2, <2>3
<1>4. ASSUME NEW h \in Handler, QueueStep, Started(h) PROVE \E k, q : Reporting(k, q) /\ publishToReport(k, q)
  <2> DEFINE q == ReportOf("started", FALSE, 0)
  <2>1. ~q.done
    BY DEF ReportOf
  <2>2. publishToReport(JobSolution(h), q)
    BY <1>4 DEF Started, LoseReport
  <2> HIDE DEF q
  <2>3. Reporting(JobSolution(h), q)
    BY <1>4, <2>1 DEF Reporting
  <2> QED
    BY <2>2, <2>3
<1>5. ASSUME ListenerStepNext PROVE \E k, q : Reporting(k, q) /\ publishToReport(k, q)
  <2>1. PICK l \in Listener : Publish(l)
    BY <1>5 DEF ListenerStepNext, ListenerNext, Check, ExpireMark, Read, ReadFails, Unmark, UnclaimReported, sharedVars
  <2>2. publishToReport(ReportKey(l), ReportFor(l))
    BY <2>1 DEF Publish, LoseReport
  <2>3. Reporting(ReportKey(l), ReportFor(l))
    BY <1>5, <2>1 DEF Reporting
  <2> QED
    BY <2>2, <2>3
<1>6. ASSUME TimerStepNext PROVE \E k, q : Reporting(k, q) /\ publishToReport(k, q)
  <2>1. PICK t \in Timer : ReportWoken(t)
    BY <1>6 DEF TimerStepNext, TimerNext, Wake, ExpireWoken, ReleaseWoken, UnclaimWoken
  <2> DEFINE q == ReportOf("noReport", TRUE, 0)
  <2>2. q.done /\ q.kind # "result"
    BY DEF ReportOf
  <2>3. publishToReport(SolutionOf(t[2]), q)
    BY <2>1 DEF ReportWoken, LoseReport
  <2> HIDE DEF q
  <2>4. Reporting(SolutionOf(t[2]), q)
    BY <1>6, <2>1, <2>2 DEF Reporting
  <2> QED
    BY <2>3, <2>4
<1>7. ASSUME RestartStep \/ CrashStep \/ ScriptStep \/ ForgetStep \/ UNCHANGED vars PROVE FALSE
  BY <1>7 DEF RestartStep, Restart, CrashStep, Crash, ScriptStep, ScriptNext, StoreResult, EndScript, StoreExit,
     ForgetStep, ForgetClaim, ForgetEvent, vars, sharedVars
<1> QED
  BY <1>2, <1>3, <1>4, <1>5, <1>6, <1>7 DEF Next

(* Reporting starts nothing and takes up nothing.                           *)
LEMMA ReportFrame ==
    ASSUME TypeInv, NEW k, NEW q, Reporting(k, q), NEW s \in Solution
    PROVE  script' = script /\ place' = place /\ Judging(s)' = Judging(s)
<1>0. pc \in [Handler -> Step]
  BY DEF TypeInv, TypeOK, QueueTypeOK
<1>1. /\ script' = script /\ place' = place /\ job' = job
      /\ \A h \in Handler : pc'[h] = pc[h]
            \/ (pc[h] \in {"fail", "started"} /\ pc'[h] \in {"unclaim", "finish"})
  BY <1>0 DEF Reporting, Fail, Started, Publish, ReportWoken, ListenerStepNext, TimerStepNext, Goto, queueVars,
     queueState, handlerVars, scriptVars
<1>2. ASSUME NEW r PROVE MayStart(r)' <=> MayStart(r)
  BY <1>1 DEF MayStart
<1> QED
  BY <1>1, <1>2 DEF Judging

(* What is reported was asked for, and a result comes from a script.        *)
LEMMA ReportAsked ==
    ASSUME CoreInv, AskInv, NEW s \in Solution, NEW q, Reporting(s, q), q.done
    PROVE  /\ \E m \in Msg : Body[m] = s /\ place[m] # "new"
           /\ q.kind = "result" => \E r \in ValidRun : script[r] # "none" /\ SolutionOf(r) = s
<1>1. ASSUME NEW h \in Handler, Fail(h), s = JobSolution(h)
      PROVE  \E m \in Msg : Body[m] = s /\ place[m] # "new"
  <2>1. pc[h] # "idle"
    BY <1>1 DEF Fail
  <2>2. job[h][1] \in Msg /\ place[job[h][1]] # "new"
    BY <2>1 DEF CoreInv, Deliveries, Counted, Delivery, AskInv, Asked, Submitted
  <2> QED
    BY <1>1, <2>2 DEF JobSolution
<1>2. ASSUME NEW r \in Run, script[r] # "none", SolutionOf(r) = s
      PROVE  /\ \E m \in Msg : Body[m] = s /\ place[m] # "new"
             /\ \E x \in ValidRun : script[x] # "none" /\ SolutionOf(x) = s
  <2>1. r[1] \in Msg /\ place[r[1]] # "new"
    BY <1>2 DEF Run, AskInv, Asked, Submitted
  <2> QED
    BY <1>2, <2>1 DEF SolutionOf, ValidRun
<1>3. ASSUME NEW l \in Listener, Publish(l), s = ReportKey(l)
      PROVE  \E r \in Run : script[r] # "none" /\ SolutionOf(r) = s
  <2>0. TypeInv
    BY DEF CoreInv
  <2>1. inbox[l] # <<>>
    BY <1>3, <2>0 DEF Publish, TypeInv, Busy
  <2>2. First(l) = inbox[l][1] /\ 1 \in 1 .. Len(inbox[l]) /\ First(l).run \in Run
    BY <2>0, <2>1, HeadFacts
  <2>3. script[First(l).run] # "none"
    BY <2>2 DEF AskInv, Heard
  <2>4. SolutionOf(First(l).run) = s
    BY <1>3, JudgerBaseAssumption DEF ReportKey, EventSolution
  <2> QED
    BY <2>2, <2>3, <2>4
<1>4. ASSUME NEW t \in Timer, ReportWoken(t), s = SolutionOf(t[2])
      PROVE  \E r \in Run : script[r] # "none" /\ SolutionOf(r) = s
  <2>1. t[2] \in Run /\ script[t[2]] = "settled"
    BY <1>4, CheckingSettled DEF ReportWoken
  <2> QED
    BY <1>4, <2>1
<1> QED
  BY <1>1, <1>2, <1>3, <1>4 DEF Reporting

-----------------------------------------------------------------------------
(* Each kind of step as the step of Submission that it is. Submit: Ask.     *)
LEMMA AskStep ==
    ASSUME TypeInv, NEW m \in Msg, Submit(m), Body[m] \in Solution
    PROVE  /\ AskedS' = AskedS \cup {Body[m]}
           /\ UNCHANGED <<OwnerS, StartedS, AnswersS>>
<1>1. /\ place' = [place EXCEPT ![m] = "ready"] /\ place \in [Msg -> {"new", "ready", "gone"} \cup Judger]
      /\ pc' = pc /\ job' = job /\ script' = script /\ reports' = reports
  BY DEF Submit, handlerVars, sharedVars, TypeInv, TypeOK, QueueTypeOK
<1>2. AskedS' = AskedS \cup {Body[m]}
  BY <1>1 DEF AskedS
<1>3. \A s \in Solution : Judging(s)' = Judging(s) /\ (Reported(s)' <=> Reported(s)) /\ Answers(s)' = Answers(s)
  BY <1>1 DEF Judging, MayStart, Reported, Answers
<1>4. \A s \in Solution : Owner(s)' = Owner(s)
  <2> SUFFICES ASSUME NEW s \in Solution PROVE Owner(s)' = Owner(s)
    OBVIOUS
  <2>1. Judging(s)' = Judging(s) /\ (Reported(s)' <=> Reported(s))
    BY <1>3
  <2> QED
    BY <2>1 DEF Owner
<1>5. StartedS' = StartedS
  BY <1>1 DEF StartedS
<1> QED
  BY <1>2, <1>3, <1>4, <1>5 DEF OwnerS, AnswersS

(* The INCR that makes the claim: Take.                                     *)
LEMMA TakeStep ==
    ASSUME CoreInv, AskInv, Quiet, OneJudgeUntilReported, OneJudgeUntilReported',
           NEW h \in Handler, Claim(h), NEW s \in Solution, s = JobSolution(h),
           ~Exists(claim, s), ~Reported(s)
    PROVE  /\ s \in AskedS /\ AnswersS[s] = {} /\ OwnerS[s] = NoJob
           /\ job[h] \in Run /\ SolutionOf(job[h]) = s /\ job[h] \notin StartedS
           /\ OwnerS' = [OwnerS EXCEPT ![s] = job[h]]
           /\ UNCHANGED <<AskedS, StartedS, AnswersS>>
<1>0. /\ pc \in [Handler -> Step] /\ pc[h] = "claim"
      /\ place' = place /\ job' = job /\ script' = script /\ reports' = reports
  BY DEF CoreInv, TypeInv, TypeOK, QueueTypeOK, Claim, queueVars, scriptVars
<1>1. job[h] \in Run /\ script[job[h]] = "none" /\ SolutionOf(job[h]) = s
  BY <1>0, JobKeys DEF CoreInv, Deliveries, Fresh, Starting
<1>2. pc' = [pc EXCEPT ![h] = "expire"]
  <2>1. checkIfRequestExists(claim, s) = {"first"}
    BY DEF checkIfRequestExists, Quiet
  <2> QED
    BY <2>1 DEF Claim, Goto
<1>3. s \in AskedS
  <2>1. job[h][1] \in Msg /\ place[job[h][1]] # "new"
    BY <1>0, <1>1 DEF AskInv, Asked, Submitted, Run
  <2> QED
    BY <2>1 DEF AskedS, JobSolution
<1>4. Judging(s) = {}
  BY DEF OneJudgeUntilReported
<1>5. \A x \in Solution : (Reported(x)' <=> Reported(x)) /\ Answers(x)' = Answers(x)
  BY <1>0 DEF Reported, Answers
<1>6. \A r : r # job[h] => (MayStart(r)' <=> MayStart(r))
  BY <1>0, <1>2 DEF MayStart
<1>7. \A x \in Solution \ {s} : Judging(x)' = Judging(x)
  BY <1>0, <1>1, <1>6 DEF Judging
<1>8. job[h] \in Judging(s)'
  BY <1>0, <1>1, <1>2 DEF Judging, MayStart, ValidRun, SolutionOf
<1>9. Owner(s)' = job[h]
  BY <1>5, <1>8, OwnerWillBe
<1>10. \A x \in Solution \ {s} : Owner(x)' = Owner(x)
  <2> SUFFICES ASSUME NEW x \in Solution \ {s} PROVE Owner(x)' = Owner(x)
    OBVIOUS
  <2>1. Judging(x)' = Judging(x) /\ (Reported(x)' <=> Reported(x))
    BY <1>5, <1>7
  <2> QED
    BY <2>1 DEF Owner
<1>11. OwnerS' = [OwnerS EXCEPT ![s] = job[h]]
  BY <1>9, <1>10 DEF OwnerS
<1>12. UNCHANGED <<AskedS, StartedS, AnswersS>>
  BY <1>0, <1>5 DEF AskedS, StartedS, AnswersS
<1>13. AnswersS[s] = {} /\ OwnerS[s] = NoJob
  BY <1>4, OwnerIs, AnswersReported DEF AnswersS, OwnerS
<1>14. job[h] \notin StartedS
  BY <1>1 DEF StartedS
<1> QED
  BY <1>1, <1>3, <1>11, <1>12, <1>13, <1>14

(* The execute-command that starts the script: Start.                       *)
LEMMA StartStep ==
    ASSUME CoreInv, Quiet, OneJudgeUntilReported, NEW h \in Handler, Execute(h),
           script' # script, NEW r \in ValidRun, r = job[h]
    PROVE  /\ r \notin StartedS
           /\ OwnerS[SolutionOf(r)] = r \/ AnswersS[SolutionOf(r)] # {}
           /\ StartedS' = StartedS \cup {r}
           /\ UNCHANGED <<AskedS, OwnerS, AnswersS>>
<1>0. /\ pc \in [Handler -> Step] /\ pc[h] = "execute" /\ script \in [Run -> ScriptState]
      /\ place' = place /\ job' = job /\ reports' = reports
      /\ script' = [script EXCEPT ![r] = "live"] /\ pc' = [pc EXCEPT ![h] = "started"]
  BY DEF CoreInv, TypeInv, TypeOK, QueueTypeOK, SharedTypeOK, Execute, queueVars, HandleExecuteCommand, Goto, Quiet
<1>1. script[r] = "none" /\ r \in Run
  BY <1>0 DEF CoreInv, Deliveries, Fresh, Starting, ValidRun
<1>2. \A x \in Solution : (Reported(x)' <=> Reported(x)) /\ Answers(x)' = Answers(x)
  BY <1>0 DEF Reported, Answers
<1>3. \A q : q # r => (MayStart(q)' <=> MayStart(q))
  BY <1>0 DEF MayStart
<1>4. MayStart(r)
  BY <1>0 DEF MayStart
<1>5. script'[r] = "live" /\ \A q \in Run : q # r => script'[q] = script[q]
  BY <1>0, <1>1
<1>6. \A x \in Solution : Judging(x)' = Judging(x)
  BY <1>3, <1>4, <1>5 DEF Judging, ValidRun, SolutionOf
<1>7. \A x \in Solution : Owner(x)' = Owner(x)
  <2> SUFFICES ASSUME NEW x \in Solution PROVE Owner(x)' = Owner(x)
    OBVIOUS
  <2>1. Judging(x)' = Judging(x) /\ (Reported(x)' <=> Reported(x))
    BY <1>2, <1>6
  <2> QED
    BY <2>1 DEF Owner
<1>8. StartedS' = StartedS \cup {r}
  BY <1>1, <1>5 DEF StartedS, ValidRun
<1>9. UNCHANGED <<AskedS, OwnerS, AnswersS>>
  BY <1>0, <1>2, <1>7 DEF AskedS, OwnerS, AnswersS
<1>10. OwnerS[SolutionOf(r)] = r \/ AnswersS[SolutionOf(r)] # {}
  <2>1. SolutionOf(r) \in Solution
    BY DEF ValidRun
  <2>2. r \in Judging(SolutionOf(r))
    BY <1>4 DEF Judging
  <2> QED
    BY <2>1, <2>2, OwnerIs, AnswersReported DEF OwnerS, AnswersS
<1> QED
  BY <1>1, <1>8, <1>9, <1>10 DEF StartedS

(* A final report: Report.                                                  *)
LEMMA ReportStep ==
    ASSUME CoreInv, AskInv, OneJudgeUntilReported', NEW s \in Solution, NEW q,
           Reporting(s, q), publishToReport(s, q), q.done,
           NEW a, a = IF q.kind = "result" THEN "verdict" ELSE "failure"
    PROVE  /\ s \in AskedS
           /\ a = "verdict" => \E r \in StartedS : SolutionOf(r) = s
           /\ AnswersS' = [AnswersS EXCEPT ![s] = @ \cup {a}]
           /\ OwnerS' = [OwnerS EXCEPT ![s] = NoJob]
           /\ UNCHANGED <<AskedS, StartedS>>
<1>0. TypeInv /\ reports \in [ClaimKey -> SUBSET Report] /\ Solution \subseteq ClaimKey
  BY DEF CoreInv, TypeInv, TypeOK, SharedTypeOK, ClaimKey
<1>1. script' = script /\ place' = place /\ \A x \in Solution : Judging(x)' = Judging(x)
  BY <1>0, ReportFrame
<1>2. reports'[s] = reports[s] \cup {q} /\ \A x \in Solution : x # s => reports'[x] = reports[x]
  BY <1>0 DEF publishToReport
<1>3. s \in AskedS /\ (a = "verdict" => \E r \in StartedS : SolutionOf(r) = s)
  BY ReportAsked DEF AskedS, StartedS
<1>4. UNCHANGED <<AskedS, StartedS>>
  BY <1>1 DEF AskedS, StartedS
<1>5. Answers(s)' = Answers(s) \cup {a}
  BY <1>2 DEF Answers
<1>6. \A x \in Solution : x # s => Answers(x)' = Answers(x) /\ (Reported(x)' <=> Reported(x))
  BY <1>2 DEF Answers, Reported
<1>7. Owner(s)' = NoJob
  BY <1>2, OwnerWillBe DEF Reported
<1>8. \A x \in Solution : x # s => Owner(x)' = Owner(x)
  <2> SUFFICES ASSUME NEW x \in Solution, x # s PROVE Owner(x)' = Owner(x)
    OBVIOUS
  <2>1. Judging(x)' = Judging(x) /\ (Reported(x)' <=> Reported(x))
    BY <1>1, <1>6
  <2> QED
    BY <2>1 DEF Owner
<1>9. AnswersS' = [AnswersS EXCEPT ![s] = @ \cup {a}]
  BY <1>5, <1>6 DEF AnswersS
<1>10. OwnerS' = [OwnerS EXCEPT ![s] = NoJob]
  BY <1>7, <1>8 DEF OwnerS
<1> QED
  BY <1>3, <1>4, <1>9, <1>10

-----------------------------------------------------------------------------
(* Every other step lets deliveries go, or does nothing to the promise.     *)
LEMMA RestStep ==
    ASSUME CoreInv, Quiet, OneJudgeUntilReported, OneJudgeUntilReported', [Next]_vars,
           \A m \in Msg : QueueStep /\ Submit(m) => Body[m] \notin Solution,
           \A h \in Handler : QueueStep /\ Claim(h) /\ JobSolution(h) \in Solution =>
               Exists(claim, JobSolution(h)) \/ Reported(JobSolution(h)),
           \A h \in Handler : QueueStep /\ Execute(h) /\ script' # script => job[h] \notin ValidRun,
           \A s \in Solution : \A q : Reporting(s, q) /\ publishToReport(s, q) => ~q.done
    PROVE  \E S \in SUBSET Solution :
               /\ OwnerS' = [s \in Solution |-> IF s \in S THEN NoJob ELSE OwnerS[s]]
               /\ UNCHANGED <<AskedS, StartedS, AnswersS>>
<1>0. TypeInv /\ Deliveries /\ reports \in [ClaimKey -> SUBSET Report] /\ Solution \subseteq ClaimKey
  BY DEF CoreInv, TypeInv, TypeOK, SharedTypeOK, ClaimKey
<1>1. AskedS' = AskedS
  <2>1. ASSUME NEW m \in Msg, Body[m] \in Solution
        PROVE  place'[m] # "new" <=> place[m] # "new"
    BY <1>0, <2>1, PlaceMoves
  <2> QED
    BY <2>1 DEF AskedS
<1>2. StartedS' = StartedS
  <2>1. ASSUME NEW r \in ValidRun
        PROVE  script'[r] # "none" <=> script[r] # "none"
    <3>1. r \in Run
      BY DEF ValidRun
    <3>2. ASSUME NEW h \in Handler, QueueStep, Execute(h), job[h] = r
          PROVE  script' = script
      BY <3>2
    <3> QED
      BY <1>0, <3>1, <3>2, ScriptMoves
  <2> QED
    BY <2>1 DEF StartedS
<1>3. AnswersS' = AnswersS
  <2>1. ASSUME NEW s \in Solution PROVE Answers(s)' = Answers(s)
    <3>1. CASE reports'[s] = reports[s]
      BY <3>1 DEF Answers
    <3>2. CASE reports'[s] # reports[s]
      <4>1. PICK k : \E q : Reporting(k, q) /\ publishToReport(k, q)
        BY <1>0, <3>2, ReportMoves
      <4>2. PICK q : Reporting(k, q) /\ publishToReport(k, q)
        BY <4>1
      <4>3. k = s /\ reports'[s] = reports[s] \cup {q}
        BY <1>0, <3>2, <4>2 DEF publishToReport
      <4>4. ~q.done
        BY <4>2, <4>3
      <4> QED
        BY <4>3, <4>4 DEF Answers
    <3> QED
      BY <3>1, <3>2
  <2> QED
    BY <2>1 DEF AnswersS
<1>4. ASSUME NEW s \in Solution, ~Reported(s)
      PROVE  Judging(s)' \subseteq Judging(s)
  BY <1>0, <1>4, JudgingKept
<1> QED
  BY <1>0, <1>1, <1>2, <1>3, <1>4, LetGoStep

(* Every step of the judgers is a step of Submission or none.               *)
LEMMA PromiseStep ==
    ASSUME CoreInv, AskInv, Quiet, OneJudgeUntilReported, OneJudgeUntilReported', [Next]_vars
    PROVE  [Promise!Next]_(Promise!abstractVars)
<1> USE DEF Promise!Next, Promise!Open, Promise!Ask, Promise!Take, Promise!Start, Promise!LetGo, Promise!Report,
       Promise!Answer
<1>0. TypeInv
  BY DEF CoreInv
<1>a. /\ {s \in Solution : \E m \in Msg : Body[m] = s /\ place[m] # "new"} = AskedS
      /\ [s \in Solution |-> Owner(s)] = OwnerS
      /\ {r \in ValidRun : script[r] # "none"} = StartedS
      /\ [s \in Solution |-> Answers(s)] = AnswersS
  BY DEF AskedS, OwnerS, StartedS, AnswersS
<1>b. /\ {s \in Solution : \E m \in Msg : Body[m] = s /\ place'[m] # "new"} = AskedS'
      /\ [s \in Solution |-> Owner(s)'] = OwnerS'
      /\ {r \in ValidRun : script'[r] # "none"} = StartedS'
      /\ [s \in Solution |-> Answers(s)'] = AnswersS'
  BY DEF AskedS, OwnerS, StartedS, AnswersS
<1>1. ASSUME NEW m \in Msg, Submit(m), Body[m] \in Solution
      PROVE  Promise!Next
  <2>1. Promise!Ask(Body[m])
    BY <1>0, <1>1, <1>a, <1>b, AskStep
  <2> QED
    BY <1>1, <2>1
<1>2. ASSUME NEW h \in Handler, Claim(h), JobSolution(h) \in Solution,
             ~Exists(claim, JobSolution(h)), ~Reported(JobSolution(h))
      PROVE  Promise!Next
  <2>1. job[h] \in Run /\ Promise!Take(JobSolution(h), job[h])
    BY <1>2, <1>a, <1>b, TakeStep
  <2> QED
    BY <1>2, <2>1
<1>3. ASSUME NEW h \in Handler, Execute(h), script' # script, job[h] \in ValidRun
      PROVE  Promise!Next
  <2>1. job[h] \in Run /\ SolutionOf(job[h]) \in Solution
    BY <1>3 DEF ValidRun
  <2>2. Promise!Start(SolutionOf(job[h]), job[h])
    BY <1>3, <2>1, <1>a, <1>b, StartStep
  <2> QED
    BY <2>1, <2>2
<1>4. ASSUME NEW s \in Solution, NEW q, Reporting(s, q), publishToReport(s, q), q.done
      PROVE  Promise!Next
  <2> DEFINE a == IF q.kind = "result" THEN "verdict" ELSE "failure"
  <2>1. a \in {"verdict", "failure"}
    OBVIOUS
  <2>2. a = IF q.kind = "result" THEN "verdict" ELSE "failure"
    OBVIOUS
  <2> HIDE DEF a
  <2>3. /\ s \in AskedS
        /\ a = "verdict" => \E r \in StartedS : SolutionOf(r) = s
        /\ AnswersS' = [AnswersS EXCEPT ![s] = @ \cup {a}]
        /\ OwnerS' = [OwnerS EXCEPT ![s] = NoJob]
        /\ UNCHANGED <<AskedS, StartedS>>
    BY <1>4, <2>2, ReportStep
  <2>4. \A r \in StartedS : r \in Run
    BY DEF StartedS, ValidRun
  <2>5. a = "verdict" => \E r \in StartedS : [x \in Run |-> SolutionOf(x)][r] = s
    BY <2>3, <2>4
  <2>6. Promise!Report(s, a)
    BY <2>3, <2>5, <1>a, <1>b
  <2> QED
    BY <2>1, <2>6
<1>5. CASE /\ \A m \in Msg : QueueStep /\ Submit(m) => Body[m] \notin Solution
           /\ \A h \in Handler : QueueStep /\ Claim(h) /\ JobSolution(h) \in Solution =>
                  Exists(claim, JobSolution(h)) \/ Reported(JobSolution(h))
           /\ \A h \in Handler : QueueStep /\ Execute(h) /\ script' # script => job[h] \notin ValidRun
           /\ \A s \in Solution : \A q : Reporting(s, q) /\ publishToReport(s, q) => ~q.done
  <2>1. PICK S \in SUBSET Solution :
               /\ OwnerS' = [s \in Solution |-> IF s \in S THEN NoJob ELSE OwnerS[s]]
               /\ UNCHANGED <<AskedS, StartedS, AnswersS>>
    BY <1>5, RestStep
  <2>2. Promise!LetGo(S)
    BY <2>1, <1>a, <1>b
  <2> QED
    BY <2>2
<1> QED
  BY <1>1, <1>2, <1>3, <1>4, <1>5

(* The judgers keep the promise of Submission: a solution is taken by one   *)
(* delivery at a time and only when nobody judges it, a delivery starts the *)
(* script at most once and only while the solution is its own, and a final  *)
(* report ends that. This is the behaviour of HandleMessage and ProcessJudge *)
(* across redelivery, MaxAttempts, crashes and the listeners of all judgers, *)
(* as long as INCR answers, a claim and a mark outlive what they stand for, *)
(* and a started script is answered for.                                    *)
THEOREM JudgersKeepThePromise ==
    ASSUME "incr" \notin Faults, "lostReply" \notin Faults,
           "claimExpiry" \notin Faults, "markExpiry" \notin Faults
    PROVE  Spec => ImplementsSubmission
<1>1. Quiet
  BY DEF Quiet
<1>2. Init => Promise!Init
  <2> SUFFICES ASSUME Init PROVE Promise!Init
    OBVIOUS
  <2>1. /\ \A m \in Msg : place[m] = "new"
        /\ \A h \in Handler : pc[h] = "idle"
        /\ \A r \in Run : script[r] = "none"
        /\ \A s \in Solution : reports[s] = {}
    BY DEF Init, QueueInit, SharedInit, ClaimKey
  <2>2. \A s \in Solution : Answers(s) = {}
    BY <2>1 DEF Answers
  <2>3. \A s \in Solution : Judging(s) = {}
    BY <2>1 DEF Judging, MayStart, ValidRun
  <2>4. \A s \in Solution : Owner(s) = NoJob
    BY <2>3 DEF Owner
  <2> QED
    BY <2>1, <2>2, <2>4 DEF Promise!Init, ValidRun
<1>3. CoreInv /\ AskInv /\ OneJudgeUntilReported /\ OneJudgeUntilReported' /\ [Next]_vars
         => [Promise!Next]_(Promise!abstractVars)
  BY <1>1, PromiseStep
<1>4. Spec => []OneJudgeUntilReported
  BY OneJudgeAtATime
<1> QED
  BY <1>2, <1>3, <1>4, CoreInvariant, AskInvariant, PTL DEF Spec, ImplementsSubmission, Promise!Spec
===============================================================================
