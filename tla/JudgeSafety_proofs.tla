--------------------------- MODULE JudgeSafety_proofs ---------------------------
(***************************************************************************)
(* What the marks and the claims in Redis achieve, whatever is redelivered,*)
(* refused, lost or stopped: every event has one listener, every result is *)
(* published once, an unreported solution has one judge at a time, and     *)
(* while nothing fails no script is said not to have reported that did.    *)
(***************************************************************************)
EXTENDS JudgeSystem_proofs

(* What the head of an inbox is about.                                      *)
LEMMA HeadFacts ==
    ASSUME TypeInv, NEW l \in Listener, inbox[l] # <<>>
    PROVE  /\ inbox[l] \in Seq(Event) /\ First(l) = inbox[l][1] /\ 1 \in 1 .. Len(inbox[l])
           /\ First(l).run \in Run /\ EventSolution(l) \in Solution
           /\ First(l).body \in Objects(l[2]) /\ Mark(l) \in EventKey
           /\ latest[<<EventSolution(l), l[2]>>] \in Objects(l[2])
<1>1. inbox[l] \in Seq(Event)
  BY DEF TypeInv, TypeOK, ResultsTypeOK
<1>2. Head(inbox[l]) = inbox[l][1] /\ 1 \in 1 .. Len(inbox[l]) /\ inbox[l][1] \in Event
  BY <1>1
<1>3. First(l) = inbox[l][1]
  BY <1>2 DEF First
<1>4. /\ EventSolution(l) \in Solution /\ First(l).body \in Objects(l[2])
      /\ latest[<<EventSolution(l), l[2]>>] \in Objects(l[2])
  BY <1>2, <1>3 DEF TypeInv, Notified, EventSolution
<1>5. First(l).run \in Run
  BY <1>2, <1>3 DEF Event
<1>6. First(l).body \in Upload \cup Exit
  BY <1>4 DEF Objects
<1>7. Mark(l) \in EventKey
  BY <1>4, <1>6 DEF Mark, EventKey
<1> QED
  BY <1>1, <1>2, <1>3, <1>4, <1>5, <1>7

(* A step of one listener leaves the others alone.                          *)
LEMMA ListenerFrame ==
    ASSUME TypeInv, NEW l \in Listener, ListenerNext(l)
    PROVE  /\ inbox[l] # <<>>
           /\ \A x \in Listener : x # l =>
                 lpc'[x] = lpc[x] /\ got'[x] = got[x] /\ inbox'[x] = inbox[x]
           /\ lpc'[l] # "check" => inbox'[l] = inbox[l]
           /\ inbox'[l] = inbox[l] \/ inbox'[l] = Tail(inbox[l])
<1>0. /\ inbox \in [Listener -> Seq(Event)] /\ lpc \in [Listener -> ListenerStep]
      /\ got \in [Listener -> Upload \cup Exit \cup {Nothing}]
  BY DEF TypeInv, TypeOK, ResultsTypeOK
<1>1. inbox[l] # <<>>
  BY DEF TypeInv, Busy, ListenerNext, Check, ExpireMark, Read, ReadFails, Unmark, Publish, UnclaimReported
<1>2. CASE Skip(l)
  BY <1>0, <1>1, <1>2 DEF Skip
<1>3. CASE \E step \in ListenerStep : Proceed(l, step)
  BY <1>0, <1>1, <1>3 DEF Proceed
<1>4. CASE Read(l)
  BY <1>0, <1>1, <1>4 DEF Read, Skip
<1> QED
  BY <1>2, <1>3, <1>4 DEF ListenerNext, Check, ExpireMark, ReadFails, Unmark, Publish, UnclaimReported, ListenerStep

(* A listener at work keeps its step, its contents and its event while      *)
(* others act: notifications go to the end of its inbox.                    *)
LEMMA WorkKept ==
    ASSUME TypeInv, [Next]_vars, NEW l \in Listener, lpc'[l] # "check"
    PROVE  \/ ListenerStepNext /\ ListenerNext(l)
           \/ /\ lpc'[l] = lpc[l] /\ got'[l] = got[l]
              /\ First(l)' = First(l)
<1>0. /\ inbox \in [Listener -> Seq(Event)] /\ lpc \in [Listener -> ListenerStep]
      /\ got \in [Listener -> Upload \cup Exit \cup {Nothing}]
  BY DEF TypeInv, TypeOK, ResultsTypeOK
<1>1. CASE QueueStep \/ RestartStep \/ TimerStepNext \/ ForgetStep \/ UNCHANGED vars
  <2>1. UNCHANGED listenerVars
    BY <1>1 DEF QueueStep, RestartStep, TimerStepNext, ForgetStep, TimerNext, Wake, ExpireWoken, ReleaseWoken,
       ReportWoken, UnclaimWoken, resultsState, vars
  <2> QED
    BY <2>1 DEF listenerVars, First
<1>2. CASE CrashStep
  <2>1. PICK y \in Judger : StopListeners(y)
    BY <1>2 DEF CrashStep, Crash
  <2>2. l[1] # y
    BY <1>0, <2>1 DEF StopListeners
  <2> QED
    BY <1>0, <2>1, <2>2 DEF StopListeners, First
<1>3. CASE ScriptStep
  <2>1. PICK r \in ValidRun : ScriptNext(r, up)
    BY <1>3 DEF ScriptStep
  <2>2. UNCHANGED <<lpc, got>>
    BY <2>1 DEF ScriptNext, StoreResult, EndScript, StoreExit, listenerVars
  <2>3. inbox'[l] = inbox[l] \/ \E e : inbox'[l] = Append(inbox[l], e)
    <3>1. CASE inbox' = inbox
      BY <3>1
    <3>2. CASE \E kind, e : Notify(up, kind, e)
      BY <1>0, <3>2 DEF Notify
    <3> QED
      BY <2>1, <3>1, <3>2 DEF ScriptNext, StoreResult, EndScript, StoreExit, listenerVars
  <2>4. inbox[l] # <<>>
    BY <2>2 DEF TypeInv, Busy
  <2>5. inbox[l] \in Seq(Event)
    BY <1>0
  <2>6. First(l)' = First(l)
    BY <2>3, <2>4, <2>5 DEF First
  <2> QED
    BY <2>2, <2>6
<1>4. CASE ListenerStepNext
  <2>1. PICK x \in Listener : ListenerNext(x)
    BY <1>4 DEF ListenerStepNext
  <2>2. x = l \/ (lpc'[l] = lpc[l] /\ got'[l] = got[l] /\ inbox'[l] = inbox[l])
    BY <2>1, ListenerFrame
  <2> QED
    BY <1>4, <2>1, <2>2 DEF First
<1> QED
  BY <1>1, <1>2, <1>3, <1>4 DEF Next

(* Marks are touched by listeners, and by time.                             *)
LEMMA SeenKept ==
    ASSUME [Next]_vars, ~ListenerStepNext, "markExpiry" \notin Faults
    PROVE  seen' = seen
BY DEF Next, QueueStep, QueueNext, Submit, Drop, MsgTimeout, HandleMessage, Deliverable, HandlerStep, Claim, SetExpire,
   Fetch, HandleFetchObject, Execute, HandleExecuteCommand, Release, Fail, Unclaim, Started, Finish, Requeue,
   RestartStep, Restart, CrashStep, Crash, ScriptStep, ScriptNext, StoreResult, HandleUploadFile, EndScript, StoreExit,
   TimerStepNext, TimerNext, Wake, ExpireWoken, ReleaseWoken, ReportWoken, UnclaimWoken, ForgetStep, ForgetClaim,
   ForgetEvent, vars, sharedVars

-----------------------------------------------------------------------------
(* A listener past its check owns the mark of its event.                    *)
MarkOwned ==
    /\ \A l \in Listener : lpc[l] # "check" => Exists(seen, Mark(l))
    /\ \A l1, l2 \in Listener :
          lpc[l1] # "check" /\ lpc[l2] # "check" /\ Mark(l1) = Mark(l2) => l1 = l2

(* The event with mark k is done with: its mark is there, and no listener   *)
(* that is at one of these steps works on it.                               *)
Shut(k, steps) ==
    /\ Exists(seen, k)
    /\ \A l \in Listener : lpc[l] \in steps => Mark(l) # k

(* What a listener does to the marks: INCR of a mark that is absent makes   *)
(* it go on, and only a read that failed removes one.                       *)
LEMMA MarkStep ==
    ASSUME TypeInv, NEW l \in Listener, ListenerNext(l)
    PROVE  /\ \A k \in EventKey : Exists(seen, k) /\ ~Exists(seen, k)' =>
                 k = Mark(l) /\ lpc[l] = "unmark"
           /\ lpc[l] = "check" /\ lpc'[l] # "check" =>
                 /\ lpc'[l] = "expire"
                 /\ ~Exists(seen, Mark(l)) /\ Exists(seen, Mark(l))'
           /\ lpc[l] = "unmark" => lpc'[l] = "check"
<1>0. /\ lpc \in [Listener -> ListenerStep] /\ seen \in [EventKey -> KeyState]
  BY DEF TypeInv, TypeOK, SharedTypeOK, ResultsTypeOK
<1>1. Mark(l) \in EventKey
  BY ListenerFrame, HeadFacts
<1>2. CASE Check(l)
  <2>1. PICK answer \in checkIfRequestExists(seen, Mark(l)) :
           /\ seen' = AfterIncr(seen, Mark(l), answer)
           /\ IF answer = "first" THEN Proceed(l, "expire") ELSE Skip(l)
    BY <1>2 DEF Check
  <2>2. lpc[l] = "check" /\ answer \in {"first", "again", "error"}
    BY <1>2, <2>1 DEF Check, checkIfRequestExists
  <2>3. \A k \in EventKey : Exists(seen, k) => Exists(seen, k)'
    BY <1>0, <2>1 DEF AfterIncr, Incr, Exists
  <2>4. CASE answer = "first"
    <3>1. ~Exists(seen, Mark(l))
      BY <2>1, <2>4 DEF checkIfRequestExists
    <3>2. seen'[Mark(l)] = "lasting"
      BY <1>0, <1>1, <2>1, <2>4, <3>1 DEF AfterIncr, Incr, Exists
    <3>3. lpc'[l] = "expire"
      BY <1>0, <2>1, <2>4 DEF Proceed
    <3>4. inbox' = inbox
      BY <2>1, <2>4 DEF Proceed
    <3> QED
      BY <2>2, <2>3, <3>1, <3>2, <3>3, <3>4 DEF Exists, Mark, EventSolution, First
  <2>5. CASE answer # "first"
    BY <1>0, <2>1, <2>2, <2>3, <2>5 DEF Skip
  <2> QED
    BY <2>4, <2>5
<1>3. CASE ExpireMark(l)
  BY <1>0, <1>3 DEF ExpireMark, Expire, Exists
<1>4. CASE Unmark(l)
  BY <1>0, <1>1, <1>4 DEF Unmark, setRequestNotExist, Del, Exists, Skip
<1>5. CASE Read(l) \/ ReadFails(l) \/ Publish(l) \/ UnclaimReported(l)
  BY <1>5 DEF Read, ReadFails, Publish, UnclaimReported, sharedVars, Exists
<1> QED
  BY <1>2, <1>3, <1>4, <1>5 DEF ListenerNext

(* A listener that stays at work keeps the mark.                            *)
LEMMA MarkKept ==
    ASSUME TypeInv, [Next]_vars, NEW l \in Listener, lpc'[l] # "check"
    PROVE  Mark(l)' = Mark(l) /\ inbox[l] # <<>>
<1>1. CASE ListenerNext(l)
  BY <1>1, ListenerFrame DEF Mark, EventSolution, First
<1>2. CASE ~ListenerNext(l)
  <2>1. lpc'[l] = lpc[l] /\ First(l)' = First(l)
    BY <1>2, WorkKept
  <2> QED
    BY <2>1 DEF Mark, EventSolution, TypeInv, Busy
<1> QED
  BY <1>1, <1>2

LEMMA MarkOwnedStep ==
    ASSUME TypeInv, MarkOwned, [Next]_vars, "markExpiry" \notin Faults
    PROVE  MarkOwned'
<1>1. \A l \in Listener : lpc'[l] # "check" =>
         Mark(l)' = Mark(l) /\ inbox[l] # <<>> /\ Mark(l) \in EventKey
  BY MarkKept, HeadFacts
<1>2. CASE ~ListenerStepNext
  <2>1. \A l \in Listener : lpc'[l] # "check" => lpc'[l] = lpc[l]
    BY <1>2, WorkKept
  <2> QED
    BY <1>1, <1>2, <2>1, SeenKept DEF MarkOwned, Exists
<1>3. CASE ListenerStepNext
  <2>1. PICK x \in Listener : ListenerNext(x)
    BY <1>3 DEF ListenerStepNext
  <2>2. \A l \in Listener : l # x => lpc'[l] = lpc[l]
    BY <2>1, ListenerFrame
  <2>3. ASSUME NEW l \in Listener, lpc'[l] # "check"
        PROVE  Exists(seen, Mark(l))'
    <3>1. CASE lpc[l] = "check"
      BY <2>1, <2>2, <2>3, <3>1, MarkStep
    <3>2. CASE lpc[l] # "check"
      <4>1. Exists(seen, Mark(l))
        BY <3>2 DEF MarkOwned
      <4>2. ~(lpc[x] = "unmark" /\ Mark(l) = Mark(x))
        <5> SUFFICES ASSUME lpc[x] = "unmark", Mark(l) = Mark(x) PROVE FALSE
          OBVIOUS
        <5>1. l = x
          BY <3>2 DEF MarkOwned
        <5> QED
          BY <2>1, <2>3, <5>1, MarkStep
      <4>3. Exists(seen, Mark(l))' <=> seen'[Mark(l)] # "absent"
        BY <1>1, <2>3 DEF Exists
      <4> QED
        BY <1>1, <2>1, <2>3, <4>1, <4>2, <4>3, MarkStep DEF Exists
    <3> QED
      BY <3>1, <3>2
  <2>4. ASSUME NEW l1 \in Listener, NEW l2 \in Listener,
               lpc'[l1] # "check", lpc'[l2] # "check", Mark(l1)' = Mark(l2)'
        PROVE  l1 = l2
    <3>1. Mark(l1) = Mark(l2)
      BY <1>1, <2>4
    <3>2. \A l \in Listener : lpc[l] = "check" /\ lpc'[l] # "check" => l = x /\ ~Exists(seen, Mark(l))
      BY <2>1, <2>2, MarkStep
    <3> QED
      BY <2>4, <3>1, <3>2 DEF MarkOwned
  <2> QED
    BY <2>3, <2>4 DEF MarkOwned
<1> QED
  BY <1>2, <1>3

(* An event that is done with stays so: whoever sees it again finds the     *)
(* mark, which its former listener does not remove.                         *)
LEMMA ShutKept ==
    ASSUME TypeInv, [Next]_vars, "markExpiry" \notin Faults,
           NEW k \in EventKey, NEW steps,
           steps = {"expire", "read", "unmark"}
              \/ steps = {"expire", "read", "unmark", "publish"},
           Shut(k, steps)
    PROVE  Shut(k, steps)'
<1>1. \A l \in Listener : lpc'[l] # "check" => Mark(l)' = Mark(l)
  BY MarkKept
<1>2. CASE ~ListenerStepNext
  <2>1. \A l \in Listener : lpc'[l] # "check" => lpc'[l] = lpc[l]
    BY <1>2, WorkKept
  <2>2. seen' = seen
    BY <1>2, SeenKept
  <2> QED
    BY <1>1, <2>1, <2>2 DEF Shut, Exists
<1>3. CASE ListenerStepNext
  <2>1. PICK x \in Listener : ListenerNext(x)
    BY <1>3 DEF ListenerStepNext
  <2>2. \A l \in Listener : l # x => lpc'[l] = lpc[l]
    BY <2>1, ListenerFrame
  <2>3. Exists(seen, k)'
    BY <2>1, MarkStep DEF Shut
  <2>4. lpc'[x] \in steps => lpc[x] = "check" \/ lpc[x] \in steps
    <3>0. lpc \in [Listener -> ListenerStep]
      BY DEF TypeInv, TypeOK, ResultsTypeOK
    <3> QED
      BY <2>1, <3>0 DEF ListenerNext, Check, ExpireMark, Read, ReadFails, Unmark, Publish, UnclaimReported,
         Proceed, Skip
  <2>5. ASSUME NEW l \in Listener, lpc'[l] \in steps
        PROVE  Mark(l)' # k
    <3>1. Mark(l)' = Mark(l)
      BY <1>1, <2>5
    <3>2. CASE lpc[l] \in steps
      BY <3>1, <3>2 DEF Shut
    <3>3. CASE lpc[l] \notin steps
      BY <2>1, <2>2, <2>4, <2>5, <3>1, <3>3, MarkStep DEF Shut
    <3> QED
      BY <3>2, <3>3
  <2> QED
    BY <2>3, <2>5 DEF Shut
<1> QED
  BY <1>2, <1>3

-----------------------------------------------------------------------------
(* A result that was published has a mark that no listener will remove or   *)
(* publish again.                                                           *)
Spent(s, c) == Shut(<<s, c>>, {"expire", "read", "unmark", "publish"})

Published(s, c) == ReportOf("result", c.done, c.score) \in reports[s]

PublishInv ==
    /\ \A s \in Solution, c \in Result : Published(s, c) => Spent(s, c)
    /\ \A l \in Listener : lpc[l] = "publish" => got[l] = First(l).body


(* Reports are only added, and results only by listeners.                   *)
LEMMA ReportsKept ==
    ASSUME TypeInv, [Next]_vars, NEW k \in ClaimKey
    PROVE  /\ reports[k] \subseteq reports'[k]
           /\ \A q \in reports'[k] \ reports[k] :
                 \/ q.kind # "result"
                 \/ \E l \in Listener : /\ ListenerStepNext /\ ListenerNext(l) /\ lpc[l] = "publish"
                                       /\ k = ReportKey(l) /\ q = ReportFor(l)
<1>0. reports \in [ClaimKey -> SUBSET Report]
  BY DEF TypeInv, TypeOK, SharedTypeOK
<1>1. ASSUME NEW key, NEW q, publishToReport(key, q) \/ LoseReport
      PROVE  reports[k] \subseteq reports'[k] /\ \A x \in reports'[k] \ reports[k] : key = k /\ x = q
  BY <1>0, <1>1 DEF publishToReport, LoseReport
<1>2. CASE \E h \in Handler : Fail(h) \/ Started(h)
  <2>1. PICK h \in Handler : Fail(h) \/ Started(h)
    BY <1>2
  <2>2. PICK q : q.kind # "result" /\ (publishToReport(JobSolution(h), q) \/ LoseReport)
    <3>1. CASE Fail(h)
      <4> DEFINE q == ReportOf(IF Attempt(h) > MaxAttempts THEN "maxAttempts" ELSE "failed", TRUE, 0)
      <4>1. q.kind # "result"
        BY DEF ReportOf
      <4>2. publishToReport(JobSolution(h), q) \/ LoseReport
        BY <3>1 DEF Fail
      <4> QED
        BY <4>1, <4>2
    <3>2. CASE Started(h)
      <4>1. ReportOf("started", FALSE, 0).kind # "result"
        BY DEF ReportOf
      <4> QED
        BY <3>2, <4>1 DEF Started
    <3> QED
      BY <2>1, <3>1, <3>2
  <2> QED
    BY <1>1, <2>2
<1>3. CASE \E t \in Timer : ReportWoken(t)
  <2>1. ReportOf("noReport", TRUE, 0).kind # "result"
    BY DEF ReportOf
  <2>2. PICK t \in Timer : \E q : q.kind # "result" /\ (publishToReport(SolutionOf(t[2]), q) \/ LoseReport)
    BY <1>3, <2>1 DEF ReportWoken
  <2>3. PICK q : q.kind # "result" /\ (publishToReport(SolutionOf(t[2]), q) \/ LoseReport)
    BY <2>2
  <2> QED
    BY <1>1, <2>3
<1>4. CASE ListenerStepNext /\ \E l \in Listener : Publish(l)
  <2>1. PICK l \in Listener : Publish(l)
    BY <1>4
  <2>2. publishToReport(ReportKey(l), ReportFor(l)) \/ LoseReport
    BY <2>1 DEF Publish
  <2>3. \A q \in reports'[k] \ reports[k] : ReportKey(l) = k /\ q = ReportFor(l)
    BY <1>1, <2>2
  <2>4. lpc[l] = "publish" /\ ListenerNext(l)
    BY <2>1 DEF Publish, ListenerNext
  <2> QED
    BY <1>1, <1>4, <2>2, <2>3, <2>4
<1>5. CASE reports' = reports
  BY <1>5
<1>6. QueueStep => reports' = reports \/ \E h \in Handler : Fail(h) \/ Started(h)
  <2>1. \A h \in Handler, m \in Msg : HandleMessage(h, m) => reports' = reports
    BY DEF HandleMessage, sharedVars
  <2>2. \A m \in Msg : Submit(m) \/ Drop(m) \/ MsgTimeout(m) => reports' = reports
    BY DEF Submit, Drop, MsgTimeout, sharedVars
  <2>3. \A h \in Handler : HandlerStep(h) => reports' = reports \/ Fail(h) \/ Started(h)
    BY DEF HandlerStep, Claim, SetExpire, Fetch, Execute, Release, Unclaim, Finish, Requeue, sharedVars
  <2> QED
    BY <2>1, <2>2, <2>3 DEF QueueStep, QueueNext
<1>7. TimerStepNext => reports' = reports \/ \E t \in Timer : ReportWoken(t)
  BY DEF TimerStepNext, TimerNext, Wake, ExpireWoken, ReleaseWoken, UnclaimWoken
<1>8. ListenerStepNext => reports' = reports \/ \E l \in Listener : Publish(l)
  BY DEF ListenerStepNext, ListenerNext, Check, ExpireMark, Read, ReadFails, Unmark, UnclaimReported, sharedVars
<1>9. RestartStep \/ CrashStep \/ ScriptStep \/ ForgetStep \/ UNCHANGED vars => reports' = reports
  BY DEF RestartStep, Restart, CrashStep, Crash, ScriptStep, ScriptNext, StoreResult, EndScript, StoreExit,
     ForgetStep, ForgetClaim, ForgetEvent, vars, sharedVars
<1> QED
  BY <1>2, <1>3, <1>4, <1>5, <1>6, <1>7, <1>8, <1>9 DEF Next

(* What a listener publishes as a result is the result its event named.     *)
LEMMA ResultPublished ==
    ASSUME TypeInv, NEW l \in Listener, lpc[l] = "publish", ReportFor(l).kind = "result"
    PROVE  /\ got[l] \in Result
           /\ ReportFor(l) = ReportOf("result", got[l].done, got[l].score)
           /\ ReportKey(l) = EventSolution(l)
<1>1. got[l] \in Objects(l[2]) \ {ExitOK} /\ l[2] \in Listening
  BY DEF TypeInv, Busy, Listener
<1>2. got[l] # Garbled
  <2> SUFFICES ASSUME got[l] = Garbled PROVE FALSE
    OBVIOUS
  <2>1. ReportFor(l) = ReportOf("invalid", TRUE, 0)
    BY ContentsAssumption DEF ReportFor
  <2> QED
    BY <2>1 DEF ReportOf
<1>3. got[l] # ExitError
  <2> SUFFICES ASSUME got[l] = ExitError PROVE FALSE
    OBVIOUS
  <2>1. ReportFor(l) = ReportOf("badExit", TRUE, 0)
    BY <1>2 DEF ReportFor
  <2> QED
    BY <2>1 DEF ReportOf
<1>4. got[l] \in Result
  BY <1>1, <1>2, <1>3 DEF Objects, Upload, Exit
<1> QED
  BY <1>2, <1>3, <1>4 DEF ReportFor, ReportKey

(* Results differ in what a report says of them.                            *)
LEMMA SameResult ==
    ASSUME NEW c1 \in Result, NEW c2 \in Result,
           ReportOf("result", c1.done, c1.score) = ReportOf("result", c2.done, c2.score)
    PROVE  c1 = c2
<1>1. c1.done = c2.done /\ c1.score = c2.score
  BY DEF ReportOf
<1>2. c1 \in [done : BOOLEAN, score : Nat] /\ c2 \in [done : BOOLEAN, score : Nat]
  BY ContentsAssumption
<1> QED
  BY <1>1, <1>2

LEMMA PublishStep ==
    ASSUME Versioned = TRUE, "markExpiry" \notin Faults,
           TypeInv, MarkOwned, PublishInv, [Next]_vars
    PROVE  PublishInv'
<1>1. ASSUME NEW l \in Listener, lpc'[l] = "publish"
      PROVE  got'[l] = First(l)'.body
  <2>1. CASE ListenerNext(l)
    <3>0. lpc \in [Listener -> ListenerStep] /\ got \in [Listener -> Upload \cup Exit \cup {Nothing}]
      BY DEF TypeInv, TypeOK, ResultsTypeOK
    <3>1. Read(l) /\ Contents(l) # ExitOK
      BY <1>1, <2>1, <3>0 DEF ListenerNext, Check, ExpireMark, Read, ReadFails, Unmark, Publish, UnclaimReported,
         Proceed, Skip
    <3>2. got'[l] = Contents(l) /\ inbox' = inbox
      BY <3>0, <3>1 DEF Read
    <3> QED
      BY <3>2 DEF Contents, First
  <2>2. CASE ~ListenerNext(l)
    BY <1>1, <2>2, WorkKept DEF PublishInv
  <2> QED
    BY <2>1, <2>2
<1>2. ASSUME NEW s \in Solution, NEW c \in Result, Published(s, c)'
      PROVE  Spent(s, c)'
  <2>0. <<s, c>> \in EventKey /\ s \in ClaimKey
    BY DEF EventKey, Upload, ClaimKey
  <2>1. CASE Published(s, c)
    <3>1. Spent(s, c)
      BY <2>1 DEF PublishInv
    <3> QED
      BY <2>0, <3>1, ShutKept DEF Spent
  <2>2. CASE ~Published(s, c)
    <3> DEFINE q == ReportOf("result", c.done, c.score)
    <3>1. q.kind = "result" /\ q \in reports'[s] \ reports[s]
      BY <1>2, <2>2 DEF Published, ReportOf
    <3>2. PICK l \in Listener : /\ ListenerNext(l) /\ lpc[l] = "publish"
                                /\ s = ReportKey(l) /\ q = ReportFor(l)
      BY <2>0, <3>1, ReportsKept
    <3>3. got[l] = c /\ EventSolution(l) = s
      BY <3>1, <3>2, ResultPublished, SameResult
    <3>4. Mark(l) = <<s, c>>
      BY <3>2, <3>3 DEF PublishInv, Mark
    <3>5. Exists(seen, <<s, c>>)
      BY <3>2, <3>4 DEF MarkOwned
    <3>6. Exists(seen, <<s, c>>)'
      BY <2>0, <3>2, <3>5, MarkStep
    <3>7. lpc'[l] \in {"unclaim", "check"}
      <4>0. lpc \in [Listener -> ListenerStep]
        BY DEF TypeInv, TypeOK, ResultsTypeOK
      <4> QED
        BY <3>2, <4>0 DEF ListenerNext, Check, ExpireMark, Read, ReadFails, Unmark, Publish, UnclaimReported,
           Proceed, Skip
    <3>8. ASSUME NEW x \in Listener, lpc'[x] \in {"expire", "read", "unmark", "publish"}
          PROVE  Mark(x)' # <<s, c>>
      <4>1. x # l
        BY <3>7, <3>8
      <4>2. lpc'[x] = lpc[x] /\ Mark(x)' = Mark(x)
        BY <3>2, <3>8, <4>1, ListenerFrame, MarkKept
      <4> QED
        BY <3>2, <3>4, <3>8, <4>1, <4>2 DEF MarkOwned
    <3> QED
      BY <3>6, <3>8 DEF Spent, Shut
  <2> QED
    BY <2>1, <2>2
<1> QED
  BY <1>1, <1>2 DEF PublishInv

(* Every judger hears of a result, and each result of a solution is         *)
(* published once: whoever is about to publish it does so for the first     *)
(* time (the marks of listenMinIOEvent). It takes a bucket that keeps       *)
(* versions, so that a listener reads what its event is about, and marks    *)
(* that outlive the events.                                                 *)
THEOREM EachResultPublishedOnce ==
    ASSUME Versioned = TRUE, "markExpiry" \notin Faults
    PROVE  Spec => []PublishedOnce
<1> DEFINE Inv == TypeInv /\ MarkOwned /\ PublishInv
<1>1. Init => Inv
  <2> SUFFICES ASSUME Init PROVE MarkOwned /\ PublishInv
    BY TypeInit
  <2>1. /\ \A l \in Listener : lpc[l] = "check"
        /\ \A s \in Solution : reports[s] = {}
    BY DEF Init, ResultsInit, SharedInit, ClaimKey
  <2> QED
    BY <2>1 DEF MarkOwned, PublishInv, Published
<1>2. Inv /\ [Next]_vars => Inv'
  BY TypeStep, MarkOwnedStep, PublishStep
<1>3. Inv => PublishedOnce
  <2> SUFFICES ASSUME Inv, NEW l \in Listener, lpc[l] = "publish", got[l] \in Result,
                      ReportFor(l) \in reports[ReportKey(l)]
               PROVE  FALSE
    BY DEF PublishedOnce
  <2>1. got[l] # Garbled /\ got[l] # ExitError
    BY ContentsAssumption
  <2>2. /\ ReportFor(l) = ReportOf("result", got[l].done, got[l].score)
        /\ ReportKey(l) = EventSolution(l)
    BY <2>1 DEF ReportFor, ReportKey
  <2>3. inbox[l] # <<>>
    BY DEF TypeInv, Busy
  <2>4. EventSolution(l) \in Solution
    BY <2>3, HeadFacts
  <2>5. Published(EventSolution(l), got[l])
    BY <2>2 DEF Published
  <2>6. Mark(l) = <<EventSolution(l), got[l]>>
    BY DEF PublishInv, Mark
  <2> QED
    BY <2>4, <2>5, <2>6 DEF PublishInv, Spent, Shut
<1> QED
  BY <1>1, <1>2, <1>3, PTL DEF Spec

-----------------------------------------------------------------------------
(* The exit status "ended well" of a solution is marked, and no listener    *)
(* that could remove the mark or arm a timer works on it.                   *)
Closed(s) == Shut(<<s, ExitOK>>, {"expire", "read", "unmark"})

Checking(t) == timer[t] \in {"sleep", "release"}

(* The runs on whose behalf the claim is there: somebody will still start   *)
(* the script, or remove the claim after it.                                *)
Began(r) == MayStart(r) \/ script[r] # "none"
Holding(r) ==
    \/ MayStart(r)
    \/ script[r] \in {"live", "exited"}
    \/ \E j \in Judger : Checking(<<j, r>>)

RunsOf(s) == {r \in Run : SolutionOf(r) = s}

(* One run holds the claim of an unreported solution, and one timer checks. *)
OneHolder(s) ==
    /\ \A r1, r2 \in RunsOf(s) : Holding(r1) /\ Holding(r2) => r1 = r2
    /\ \A r \in RunsOf(s) : Holding(r) => Exists(claim, s)
    /\ \A t1, t2 \in Timer :
          SolutionOf(t1[2]) = s /\ SolutionOf(t2[2]) = s /\ Checking(t1) /\ Checking(t2) => t1 = t2

(* Until the mark is closed no timer was armed, so that the claim has not   *)
(* been passed on: there is one run at most.                                *)
OneRunUntilClosed(s) ==
    ~Closed(s) =>
        /\ \A t \in Timer : SolutionOf(t[2]) = s => ~Checking(t)
        /\ \A r1, r2 \in RunsOf(s) : Began(r1) /\ Began(r2) => r1 = r2
        /\ \A r \in RunsOf(s) : Began(r) => Exists(claim, s)

(* After a script that failed nobody holds the claim, and it stays until    *)
(* the failure is reported.                                                 *)
CommandEvent(s, e) ==
    \E j \in Judger : \E i \in 1 .. Len(ExitEvents(j)) :
        SolutionOf(ExitEvents(j)[i].run) = s /\ ExitEvents(j)[i].body = e
FailureKeepsClaim(s) ==
    /\ CommandEvent(s, ExitError) => latest[<<s, "command">>] = ExitError
    /\ latest[<<s, "command">>] = ExitError =>
          /\ \A r \in RunsOf(s) : ~Holding(r)
          /\ Exists(claim, s)
          /\ Closed(s) \/ ~CommandEvent(s, ExitOK)

(* Who removes a claim after a final report.                                *)
UnclaimsReported ==
    /\ \A h \in Handler :
          pc[h] = "unclaim" /\ JobSolution(h) \in Solution => Reported(JobSolution(h))
    /\ \A l \in Listener : lpc[l] = "unclaim" => Reported(ReportKey(l))
    /\ \A t \in Timer :
          timer[t] = "unclaim" /\ SolutionOf(t[2]) \in Solution => Reported(SolutionOf(t[2]))

(* A delivery that gives up has started nothing; an exit status is heard of *)
(* after the end, a result after the start.                                 *)
GivingUp == \A h \in Handler : pc[h] = "release" => job[h] \in Run /\ script[job[h]] = "none"
ExitHeard ==
    \A j \in Judger : \A i \in 1 .. Len(ExitEvents(j)) : script[ExitEvents(j)[i].run] = "settled"

Held(s) == OneHolder(s) /\ OneRunUntilClosed(s) /\ FailureKeepsClaim(s)
HolderInv ==
    \A s \in Solution : ~Reported(s) => Held(s)

JudgeInv == MarkOwned /\ UnclaimsReported /\ GivingUp /\ ExitHeard /\ HolderInv

(* Everything the proof of one judge at a time needs to know of a state.    *)
Quiet == {"incr", "lostReply", "claimExpiry", "markExpiry"} \cap Faults = {}

-----------------------------------------------------------------------------
(* What a step may do to each part of the state.                            *)
LEMMA ReportedKept ==
    ASSUME TypeInv, [Next]_vars, NEW k \in ClaimKey, Reported(k)
    PROVE  Reported(k)'
BY ReportsKept DEF Reported

LEMMA JobKeys ==
    ASSUME TypeInv, Deliveries
    PROVE  /\ \A h \in Handler : pc[h] \in Starting =>
                 job[h] \in Run /\ JobSolution(h) = SolutionOf(job[h])
           /\ \A h \in Handler : JobSolution(h) = SolutionOf(job[h])
           /\ \A r \in Run : SolutionOf(r) \in Solution \cup {Malformed}
<1>1. \A r \in Run : SolutionOf(r) \in Solution \cup {Malformed}
  <2>1. \A r \in Run : r[1] \in Msg
    BY DEF Run
  <2>2. \A m \in Msg : Body[m] \in Solution \cup {Malformed}
    BY JudgerBaseAssumption
  <2> QED
    BY <2>1, <2>2 DEF SolutionOf
<1>2. \A h \in Handler : JobSolution(h) = SolutionOf(job[h])
  BY DEF JobSolution, SolutionOf
<1> QED
  BY <1>1, <1>2 DEF Deliveries, Fresh

MayBegin == {"expire", "fetch", "execute", "release"}

LEMMA HandlerMoves ==
    ASSUME TypeInv, [Next]_vars, NEW h \in Handler
    PROVE  \/ pc'[h] = pc[h] /\ job'[h] = job[h]
           \/ pc'[h] = "idle"
           \/ /\ pc[h] = "idle" /\ pc'[h] \in {"finish", "requeue", "fail", "claim"}
              /\ \E m \in Msg : HandleMessage(h, m)
           \/ QueueStep /\ HandlerStep(h) /\ job'[h] = job[h]
<1>0. pc \in [Handler -> Step] /\ job \in [Handler -> Delivery \cup {NoJob}]
  BY DEF TypeInv, TypeOK, QueueTypeOK
<1>1. CASE QueueStep
  <2>1. ASSUME NEW m \in Msg, Submit(m) \/ Drop(m) \/ MsgTimeout(m)
        PROVE  UNCHANGED handlerVars
    BY <2>1 DEF Submit, Drop, MsgTimeout
  <2>2. ASSUME NEW x \in Handler, NEW m \in Msg, HandleMessage(x, m)
        PROVE  \/ pc'[h] = pc[h] /\ job'[h] = job[h]
               \/ /\ pc[h] = "idle" /\ pc'[h] \in {"finish", "requeue", "fail", "claim"}
                  /\ HandleMessage(h, m)
    <3> DEFINE step == CASE Body[m] = Malformed /\ attempts'[m] > MaxAttempts -> "finish"
                         [] Body[m] = Malformed /\ attempts'[m] <= MaxAttempts -> "requeue"
                         [] Body[m] # Malformed /\ attempts'[m] > MaxAttempts -> "fail"
                         [] OTHER -> "claim"
    <3>0. step \in {"finish", "requeue", "fail", "claim"}
      OBVIOUS
    <3>1. pc[x] = "idle" /\ pc' = [pc EXCEPT ![x] = step]
      BY <2>2 DEF HandleMessage, Goto
    <3>2. \E d : job' = [job EXCEPT ![x] = d]
      BY <2>2 DEF HandleMessage
    <3> HIDE DEF step
    <3> QED
      BY <1>0, <2>2, <3>0, <3>1, <3>2
  <2>3. ASSUME NEW x \in Handler, x # h, HandlerStep(x)
        PROVE  pc'[h] = pc[h] /\ job'[h] = job[h]
    <3>1. \E step : pc' = [pc EXCEPT ![x] = step]
      BY <2>3 DEF HandlerStep, Claim, SetExpire, Fetch, Execute, Release, Fail, Unclaim, Started, Finish, Requeue,
         Return, Goto
    <3>2. job' = job \/ \E d : job' = [job EXCEPT ![x] = d]
      BY <2>3 DEF HandlerStep, Claim, SetExpire, Fetch, Execute, Release, Fail, Unclaim, Started, Finish, Requeue,
         Return
    <3> QED
      BY <1>0, <2>3, <3>1, <3>2
  <2>4. HandlerStep(h) => job' = job \/ pc'[h] = "idle"
    BY <1>0 DEF HandlerStep, Claim, SetExpire, Fetch, Execute, Release, Fail, Unclaim, Started, Finish, Requeue,
       Return, Goto
  <2> QED
    BY <1>1, <2>1, <2>2, <2>3, <2>4 DEF QueueStep, QueueNext, handlerVars
<1>2. CASE CrashStep
  <2>1. PICK y \in Judger : StopHandlers(y)
    BY <1>2 DEF CrashStep, Crash
  <2>2. /\ pc'[h] = IF JudgerOf(h) = y THEN "idle" ELSE pc[h]
        /\ job'[h] = IF JudgerOf(h) = y THEN NoJob ELSE job[h]
    BY <2>1, Zenon DEF StopHandlers
  <2> QED
    BY <2>2
<1>3. CASE RestartStep \/ ScriptStep \/ ListenerStepNext \/ TimerStepNext \/ ForgetStep \/ UNCHANGED vars
  BY <1>3 DEF RestartStep, Restart, ScriptStep, ListenerStepNext, TimerStepNext, ForgetStep, queueState, handlerVars, vars
<1> QED
  BY <1>1, <1>2, <1>3 DEF Next

(* A delivery goes on to its next call.                                     *)
LEMMA HandlerGoesOn ==
    ASSUME TypeInv, Quiet, NEW h \in Handler, HandlerStep(h)
    PROVE  /\ pc'[h] = "expire" => Claim(h) /\ ~Exists(claim, JobSolution(h))
           /\ pc'[h] = "fetch" => pc[h] = "expire"
           /\ pc'[h] = "execute" => pc[h] = "fetch" /\ HandleFetchObject(JobSolution(h))
           /\ pc'[h] = "release" => pc[h] \in {"fetch", "execute"} /\ script' = script
           /\ pc'[h] = "unclaim" =>
                 (JobSolution(h) \in Solution => Reported(JobSolution(h))')
<1>0. pc \in [Handler -> Step] /\ reports \in [ClaimKey -> SUBSET Report]
  BY DEF TypeInv, TypeOK, QueueTypeOK, SharedTypeOK
<1>1. CASE Claim(h)
  <2>1. PICK answer \in checkIfRequestExists(claim, JobSolution(h)) :
           Goto(h, CASE answer = "first" -> "expire"
                     [] answer = "again" -> "started"
                     [] answer = "error" -> "release")
    BY <1>1 DEF Claim
  <2>2. answer = "again" \/ (answer = "first" /\ ~Exists(claim, JobSolution(h)))
    BY <2>1 DEF checkIfRequestExists, Quiet
  <2>3. CASE answer = "again"
    <3>1. Goto(h, "started")
      BY <2>1, <2>3
    <3> QED
      BY <1>0, <3>1 DEF Goto
  <2>4. CASE answer = "first" /\ ~Exists(claim, JobSolution(h))
    <3>1. Goto(h, "expire")
      BY <2>1, <2>4
    <3> QED
      BY <1>0, <1>1, <2>4, <3>1 DEF Goto
  <2> QED
    BY <2>2, <2>3, <2>4
<1>2. CASE SetExpire(h) \/ Finish(h) \/ Requeue(h)
  BY <1>0, <1>2 DEF SetExpire, Finish, Requeue, Return, Goto
<1>3. CASE Fetch(h)
  BY <1>0, <1>3 DEF Fetch, Goto
<1>4. CASE Execute(h)
  BY <1>0, <1>4 DEF Execute, Goto, Quiet
<1>5. CASE Release(h) \/ Unclaim(h) \/ Started(h)
  BY <1>0, <1>5 DEF Release, Unclaim, Started, Goto
<1>6. CASE Fail(h)
  <2>1. CASE Goto(h, "finish")
    BY <1>0, <2>1 DEF Goto
  <2>2. CASE Goto(h, "unclaim") /\ \E q : q.done /\ publishToReport(JobSolution(h), q)
    <3>1. pc'[h] = "unclaim" /\ UNCHANGED job
      BY <1>0, <1>6, <2>2 DEF Goto, Fail
    <3>2. JobSolution(h)' = JobSolution(h)
      BY <3>1 DEF JobSolution
    <3>3. ASSUME JobSolution(h) \in Solution PROVE \E q \in reports'[JobSolution(h)] : q.done
      <4>1. JobSolution(h) \in ClaimKey
        BY <3>3 DEF ClaimKey
      <4> QED
        BY <1>0, <2>2, <4>1 DEF publishToReport
    <3> QED
      BY <3>1, <3>2, <3>3 DEF Reported
  <2>3. ReportOf(IF Attempt(h) > MaxAttempts THEN "maxAttempts" ELSE "failed", TRUE, 0).done
    BY DEF ReportOf
  <2> QED
    BY <1>6, <2>1, <2>2, <2>3 DEF Fail
<1> QED
  BY <1>1, <1>2, <1>3, <1>4, <1>5, <1>6 DEF HandlerStep

(* A script is started by its delivery, ends, and settles.                  *)
LEMMA ScriptMoves ==
    ASSUME TypeInv, [Next]_vars, NEW r \in Run
    PROVE  \/ script'[r] = script[r]
           \/ /\ script'[r] = "live"
              /\ \E h \in Handler : QueueStep /\ Execute(h) /\ job[h] = r
           \/ script[r] = "live" /\ script'[r] = "exited" /\ r \in ValidRun /\ EndScript(r)
           \/ /\ script[r] = "exited" /\ script'[r] = "settled" /\ r \in ValidRun
              /\ \E e \in Exit : ScriptStep /\ StoreExit(r, e, up)
<1>0. script \in [Run -> ScriptState]
  BY DEF TypeInv, TypeOK, SharedTypeOK
<1>1. CASE QueueStep
  <2>1. \A h \in Handler, m \in Msg : HandleMessage(h, m) => script' = script
    BY DEF HandleMessage, sharedVars
  <2>2. \A m \in Msg : Submit(m) \/ Drop(m) \/ MsgTimeout(m) => script' = script
    BY DEF Submit, Drop, MsgTimeout, sharedVars
  <2>3. ASSUME NEW h \in Handler, HandlerStep(h)
        PROVE  script' = script \/ (Execute(h) /\ script' = [script EXCEPT ![job[h]] = "live"])
    BY <2>3 DEF HandlerStep, Claim, SetExpire, Fetch, Execute, HandleExecuteCommand, Release, Fail, Unclaim,
       Started, Finish, Requeue, scriptVars, sharedVars
  <2> QED
    BY <1>0, <1>1, <2>1, <2>2, <2>3 DEF QueueStep, QueueNext
<1>2. CASE ScriptStep
  BY <1>0, <1>2 DEF ScriptStep, ScriptNext, StoreResult, EndScript, StoreExit
<1>3. CASE RestartStep \/ CrashStep \/ ListenerStepNext \/ TimerStepNext \/ ForgetStep \/ UNCHANGED vars
  BY <1>3 DEF RestartStep, Restart, CrashStep, Crash, ListenerStepNext, ListenerNext, Check, ExpireMark, Read,
     ReadFails, Unmark, Publish, UnclaimReported, TimerStepNext, TimerNext, Wake, ExpireWoken, ReleaseWoken,
     ReportWoken, UnclaimWoken, ForgetStep, ForgetClaim, ForgetEvent, vars, sharedVars, scriptVars
<1> QED
  BY <1>1, <1>2, <1>3 DEF Next

(* A timer is armed by the command listener of its judger.                  *)
LEMMA TimerMoves ==
    ASSUME TypeInv, [Next]_vars, NEW t \in Timer
    PROVE  \/ timer'[t] = timer[t] \/ timer'[t] = "off"
           \/ TimerStepNext /\ TimerNext(t)
           \/ \E l \in Listener : /\ ListenerStepNext /\ Read(l) /\ Contents(l) = ExitOK
                                 /\ t = <<l[1], First(l).run>> /\ timer'[t] = "sleep"
<1>0. timer \in [Timer -> TimerStep]
  BY DEF TypeInv, TypeOK, ResultsTypeOK
<1>1. CASE TimerStepNext
  BY <1>0, <1>1 DEF TimerStepNext, TimerNext, Wake, ExpireWoken, ReleaseWoken, ReportWoken, UnclaimWoken, Set
<1>2. CASE ListenerStepNext
  BY <1>0, <1>2 DEF ListenerStepNext, ListenerNext, Check, ExpireMark, Read, ReadFails, Unmark, Publish,
     UnclaimReported
<1>3. CASE CrashStep
  BY <1>0, <1>3, Zenon DEF CrashStep, Crash, StopListeners
<1>4. CASE QueueStep \/ RestartStep \/ ScriptStep \/ ForgetStep \/ UNCHANGED vars
  BY <1>4 DEF QueueStep, RestartStep, ScriptStep, ScriptNext, StoreResult, EndScript, StoreExit, ForgetStep,
     resultsState, vars
<1> QED
  BY <1>1, <1>2, <1>3, <1>4 DEF Next

(* Who removes a claim.                                                     *)
Removes(s) ==
    \/ \E h \in Handler : QueueStep /\ JobSolution(h) = s /\ (Release(h) \/ Unclaim(h))
    \/ \E l \in Listener : ListenerStepNext /\ UnclaimReported(l) /\ ReportKey(l) = s
    \/ \E t \in Timer :
          TimerStepNext /\ SolutionOf(t[2]) = s /\ (ReleaseWoken(t) \/ UnclaimWoken(t))

LEMMA ClaimMoves ==
    ASSUME TypeInv, [Next]_vars, Quiet, NEW s \in Solution,
           Exists(claim, s), ~Exists(claim, s)'
    PROVE  Removes(s)
<1>0. claim \in [ClaimKey -> KeyState] /\ s \in ClaimKey /\ claim[s] # "absent" /\ claim'[s] = "absent"
  BY DEF TypeInv, TypeOK, SharedTypeOK, ClaimKey, Exists
<1>1. \A k, answer : claim' # AfterIncr(claim, k, answer)
  BY <1>0 DEF AfterIncr, Incr
<1>2. \A k : claim' \notin AfterExpire(claim, k)
  BY <1>0 DEF AfterExpire, Expire
<1>3. \A k : claim' \in setRequestNotExist(claim, k) => k = s
  BY <1>0 DEF setRequestNotExist, Del
<1>4. claim' # claim
  BY <1>0
<1>5. CASE QueueStep
  <2>1. \A h \in Handler, m \in Msg : ~HandleMessage(h, m)
    BY <1>4 DEF HandleMessage, sharedVars
  <2>2. \A m \in Msg : ~(Submit(m) \/ Drop(m) \/ MsgTimeout(m))
    BY <1>4 DEF Submit, Drop, MsgTimeout, sharedVars
  <2>3. \A h \in Handler : ~Claim(h)
    BY <1>1 DEF Claim
  <2>4. \A h \in Handler : HandlerStep(h) => (Release(h) \/ Unclaim(h)) /\ JobSolution(h) = s
    BY <1>2, <1>3, <1>4, <2>3 DEF HandlerStep, SetExpire, Fetch, Execute, Release, Fail, Unclaim, Started, Finish,
       Requeue, sharedVars
  <2> QED
    BY <1>5, <2>1, <2>2, <2>4 DEF QueueStep, QueueNext, Removes
<1>6. CASE ListenerStepNext
  BY <1>3, <1>4, <1>6 DEF ListenerStepNext, ListenerNext, Check, ExpireMark, Read, ReadFails, Unmark, Publish,
     UnclaimReported, sharedVars, Removes
<1>7. CASE TimerStepNext
  <2>1. \A t \in Timer : ~Wake(t)
    BY <1>1 DEF Wake
  <2> QED
    BY <1>2, <1>3, <1>4, <1>7, <2>1 DEF TimerStepNext, TimerNext, ExpireWoken, ReleaseWoken, ReportWoken, UnclaimWoken,
       Removes
<1>8. CASE RestartStep \/ CrashStep \/ ScriptStep \/ ForgetStep \/ UNCHANGED vars
  BY <1>4, <1>8 DEF RestartStep, Restart, CrashStep, Crash, ScriptStep, ScriptNext, StoreResult, EndScript,
     StoreExit, ForgetStep, ForgetClaim, ForgetEvent, vars, sharedVars, Quiet
<1> QED
  BY <1>5, <1>6, <1>7, <1>8 DEF Next

(* The exit status of a script is stored, and the judgers are notified.     *)
Stores(r, e) ==
    /\ ScriptStep /\ StoreExit(r, e, up)
    /\ latest' = [latest EXCEPT ![<<SolutionOf(r), "command">>] = e]
    /\ Notify(up, "command", [run |-> r, body |-> e])

LEMMA LatestMoves ==
    ASSUME TypeInv, [Next]_vars, NEW s \in Solution,
           latest'[<<s, "command">>] # latest[<<s, "command">>]
    PROVE  \E r \in ValidRun, e \in Exit :
               Stores(r, e) /\ SolutionOf(r) = s /\ latest'[<<s, "command">>] = e
<1>0. latest \in [Object -> Upload \cup Exit \cup {Nothing}] /\ <<s, "command">> \in Object
  BY DEF TypeInv, TypeOK, SharedTypeOK, Object, Listening
<1>1. latest' # latest
  OBVIOUS
<1>2. ScriptStep
  <2>1. QueueStep => latest' = latest
    <3>1. \A h \in Handler, m \in Msg : HandleMessage(h, m) => latest' = latest
      BY DEF HandleMessage, sharedVars
    <3>2. \A m \in Msg : Submit(m) \/ Drop(m) \/ MsgTimeout(m) => latest' = latest
      BY DEF Submit, Drop, MsgTimeout, sharedVars
    <3>3. \A h \in Handler : HandlerStep(h) => latest' = latest
      BY DEF HandlerStep, Claim, SetExpire, Fetch, Execute, Release, Fail, Unclaim, Started, Finish, Requeue,
         scriptVars, sharedVars
    <3> QED
      BY <3>1, <3>2, <3>3 DEF QueueStep, QueueNext
  <2>2. RestartStep \/ CrashStep \/ ListenerStepNext \/ TimerStepNext \/ ForgetStep \/ UNCHANGED vars =>
           latest' = latest
    BY DEF RestartStep, Restart, CrashStep, Crash, ListenerStepNext, ListenerNext, Check, ExpireMark, Read,
       ReadFails, Unmark, Publish, UnclaimReported, TimerStepNext, TimerNext, Wake, ExpireWoken, ReleaseWoken,
       ReportWoken, UnclaimWoken, ForgetStep, ForgetClaim, ForgetEvent, vars, sharedVars, scriptVars
  <2> QED
    BY <1>1, <2>1, <2>2 DEF Next
<1>3. PICK r \in ValidRun : ScriptNext(r, up)
  BY <1>2 DEF ScriptStep
<1>4. \A c \in Upload : ~StoreResult(r, c, up)
  BY <1>0 DEF StoreResult, HandleUploadFile
<1>5. PICK e \in Exit : StoreExit(r, e, up)
  BY <1>1, <1>3, <1>4 DEF ScriptNext, EndScript
<1>6. /\ latest' = [latest EXCEPT ![<<SolutionOf(r), "command">>] = e]
      /\ Notify(up, "command", [run |-> r, body |-> e])
  BY <1>1, <1>5 DEF StoreExit
<1>7. SolutionOf(r) = s /\ latest'[<<s, "command">>] = e
  BY <1>0, <1>6
<1> QED
  BY <1>2, <1>5, <1>6, <1>7 DEF Stores

LEMMA EventMoves ==
    ASSUME TypeInv, [Next]_vars, NEW j \in Judger, NEW i \in 1 .. Len(ExitEvents(j)')
    PROVE  \/ \E k \in 1 .. Len(ExitEvents(j)) : ExitEvents(j)'[i] = ExitEvents(j)[k]
           \/ \E r \in ValidRun, e \in Exit :
                 Stores(r, e) /\ ExitEvents(j)'[i] = [run |-> r, body |-> e]
<1> DEFINE l == <<j, "command">>
<1>0. /\ inbox \in [Listener -> Seq(Event)] /\ l \in Listener
      /\ ExitEvents(j) = inbox[l] /\ ExitEvents(j)' = inbox'[l]
  BY DEF TypeInv, TypeOK, ResultsTypeOK, Listener, Listening, ExitEvents
<1>1. inbox[l] \in Seq(Event)
  BY <1>0
<1>2. CASE inbox'[l] = inbox[l] \/ inbox'[l] = Tail(inbox[l]) \/ inbox'[l] = <<>>
  <2>1. CASE inbox'[l] = Tail(inbox[l]) /\ inbox[l] # <<>>
    <3>1. i + 1 \in 1 .. Len(inbox[l]) /\ Tail(inbox[l])[i] = inbox[l][i + 1]
      BY <1>0, <1>1, <2>1, HeadTailProperties
    <3> QED
      BY <1>0, <2>1, <3>1
  <2>2. CASE inbox[l] = <<>> /\ inbox'[l] = Tail(inbox[l])
    BY <1>0, <2>2
  <2>3. CASE inbox'[l] = inbox[l] \/ inbox'[l] = <<>>
    BY <1>0, <2>3
  <2> QED
    BY <1>2, <2>1, <2>2, <2>3
<1>3. CASE ListenerStepNext
  <2>1. PICK x \in Listener : ListenerNext(x)
    BY <1>3 DEF ListenerStepNext
  <2>2. inbox'[l] = inbox[l] \/ inbox'[l] = Tail(inbox[l])
    BY <1>0, <2>1, ListenerFrame
  <2> QED
    BY <1>2, <2>2
<1>4. CASE CrashStep
  <2>1. PICK y \in Judger : StopListeners(y)
    BY <1>4 DEF CrashStep, Crash
  <2>2. inbox'[l] = IF l[1] = y THEN <<>> ELSE inbox[l]
    BY <1>0, <2>1, Zenon DEF StopListeners
  <2> QED
    BY <1>2, <2>2
<1>5. CASE ScriptStep
  <2>1. PICK r \in ValidRun : ScriptNext(r, up)
    BY <1>5 DEF ScriptStep
  <2>2. CASE inbox' = inbox
    BY <1>2, <2>2
  <2>3. CASE \E c \in Upload : StoreResult(r, c, up)
    <3>1. PICK e : Notify(up, "result", e)
      BY <2>3 DEF StoreResult
    <3>2. inbox'[l] = inbox[l]
      BY <1>0, <3>1 DEF Notify
    <3> QED
      BY <1>2, <3>2
  <2>4. CASE inbox' # inbox /\ \E e \in Exit : StoreExit(r, e, up)
    <3>1. PICK e \in Exit : StoreExit(r, e, up)
      BY <2>4
    <3> DEFINE ev == [run |-> r, body |-> e]
    <3>2. Stores(r, e)
      BY <1>5, <2>4, <3>1 DEF StoreExit, Stores
    <3>3. inbox'[l] = inbox[l] \/ inbox'[l] = Append(inbox[l], ev)
      BY <1>0, <3>2 DEF Stores, Notify
    <3>4. CASE inbox'[l] = Append(inbox[l], ev)
      <4> HIDE DEF ev
      <4>1. (i \in 1 .. Len(inbox[l]) /\ inbox'[l][i] = inbox[l][i]) \/ inbox'[l][i] = ev
        BY <1>0, <1>1, <3>4
      <4> QED
        BY <1>0, <3>2, <4>1 DEF ev
    <3> QED
      BY <1>2, <3>3, <3>4
  <2> QED
    BY <2>1, <2>2, <2>3, <2>4 DEF ScriptNext, EndScript, listenerVars
<1>6. CASE QueueStep \/ RestartStep \/ TimerStepNext \/ ForgetStep \/ UNCHANGED vars
  <2>1. inbox' = inbox
    BY <1>6 DEF QueueStep, RestartStep, TimerStepNext, ForgetStep, TimerNext, Wake, ExpireWoken, ReleaseWoken,
       ReportWoken, UnclaimWoken, resultsState, vars, listenerVars
  <2> QED
    BY <1>2, <2>1
<1> QED
  BY <1>3, <1>4, <1>5, <1>6 DEF Next

-----------------------------------------------------------------------------
(* The parts of JudgeInv that need no claim.                                *)
LEMMA UnclaimsReportedStep ==
    ASSUME TypeInv, Deliveries, Quiet, UnclaimsReported, [Next]_vars
    PROVE  UnclaimsReported'
<1>1. ASSUME NEW h \in Handler, pc'[h] = "unclaim", JobSolution(h)' \in Solution
      PROVE  Reported(JobSolution(h))'
  <2>1. JobSolution(h)' = Body[job'[h][1]] /\ Solution \subseteq ClaimKey
    BY DEF JobSolution, ClaimKey
  <2>2. CASE pc'[h] = pc[h] /\ job'[h] = job[h]
    BY <1>1, <2>1, <2>2, ReportedKept DEF UnclaimsReported, JobSolution
  <2>3. CASE HandlerStep(h) /\ job'[h] = job[h]
    BY <1>1, <2>1, <2>3, HandlerGoesOn DEF JobSolution
  <2> QED
    BY <1>1, <2>2, <2>3, HandlerMoves
<1>2. ASSUME NEW l \in Listener, lpc'[l] = "unclaim"
      PROVE  Reported(ReportKey(l))'
  <2>0. /\ reports \in [ClaimKey -> SUBSET Report] /\ lpc \in [Listener -> ListenerStep]
    BY DEF TypeInv, TypeOK, SharedTypeOK, ResultsTypeOK
  <2>1. inbox[l] # <<>> /\ Mark(l)' = Mark(l)
    BY <1>2, MarkKept
  <2>2. ReportKey(l) \in ClaimKey
    BY <2>1, HeadFacts DEF ReportKey, ClaimKey
  <2>3. CASE ListenerNext(l)
    <3>1. Publish(l)
      BY <1>2, <2>0, <2>3 DEF ListenerNext, Check, ExpireMark, Read, ReadFails, Unmark, Publish, UnclaimReported,
         Proceed, Skip
    <3>2. /\ publishToReport(ReportKey(l), ReportFor(l))
          /\ ReportFor(l).done /\ Proceed(l, "unclaim")
      BY <1>2, <2>0, <3>1 DEF Publish, Skip
    <3>3. ReportKey(l)' = ReportKey(l)
      BY <3>2 DEF Proceed, ReportKey, EventSolution, First
    <3>4. ReportFor(l) \in reports'[ReportKey(l)]
      BY <2>0, <2>2, <3>2 DEF publishToReport
    <3> QED
      BY <3>2, <3>3, <3>4 DEF Reported
  <2>4. CASE ~ListenerNext(l)
    <3>1. lpc'[l] = lpc[l] /\ got'[l] = got[l] /\ First(l)' = First(l)
      BY <1>2, <2>4, WorkKept
    <3>2. ReportKey(l)' = ReportKey(l) /\ Reported(ReportKey(l))
      BY <1>2, <3>1 DEF ReportKey, EventSolution, UnclaimsReported
    <3> QED
      BY <2>2, <3>2, ReportedKept DEF Reported
  <2> QED
    BY <2>3, <2>4
<1>3. ASSUME NEW t \in Timer, timer'[t] = "unclaim", SolutionOf(t[2]) \in Solution
      PROVE  Reported(SolutionOf(t[2]))'
  <2>0. /\ reports \in [ClaimKey -> SUBSET Report] /\ timer \in [Timer -> TimerStep]
        /\ SolutionOf(t[2]) \in ClaimKey
    BY <1>3 DEF TypeInv, TypeOK, SharedTypeOK, ResultsTypeOK, ClaimKey
  <2>1. CASE timer'[t] = timer[t]
    BY <1>3, <2>0, <2>1, ReportedKept DEF UnclaimsReported, Reported
  <2>2. CASE TimerNext(t)
    <3>1. publishToReport(SolutionOf(t[2]), ReportOf("noReport", TRUE, 0))
      BY <1>3, <2>0, <2>2 DEF TimerNext, Wake, AfterWake, ExpireWoken, ReleaseWoken, ReportWoken, UnclaimWoken, Set
    <3>2. ReportOf("noReport", TRUE, 0) \in reports'[SolutionOf(t[2])]
      BY <2>0, <3>1 DEF publishToReport
    <3>3. ReportOf("noReport", TRUE, 0).done
      BY DEF ReportOf
    <3> QED
      BY <3>2, <3>3 DEF Reported
  <2> QED
    BY <1>3, <2>1, <2>2, TimerMoves
<1> QED
  BY <1>1, <1>2, <1>3 DEF UnclaimsReported

LEMMA GivingUpStep ==
    ASSUME TypeInv, Deliveries, Quiet, GivingUp, [Next]_vars
    PROVE  GivingUp'
<1> SUFFICES ASSUME NEW h \in Handler, pc'[h] = "release"
             PROVE  job'[h] \in Run /\ script'[job'[h]] = "none"
  BY DEF GivingUp
<1>1. job'[h] = job[h] /\ pc[h] \in {"fetch", "execute", "release"}
      /\ (pc[h] = "release" \/ script' = script)
  BY HandlerMoves, HandlerGoesOn
<1>2. job[h] \in Run /\ script[job[h]] = "none"
  BY <1>1 DEF Deliveries, Fresh, Starting, GivingUp
<1>3. ASSUME NEW x \in Handler, Execute(x), job[x] = job[h]
      PROVE  script' = script
  <2>1. pc[x] = "execute" /\ x = h
    BY <1>1, <1>3 DEF Execute, Deliveries, Apart
  <2> QED
    BY <1>1, <2>1
<1> QED
  BY <1>1, <1>2, <1>3, ScriptMoves

LEMMA ExitHeardStep ==
    ASSUME TypeInv, Deliveries, ExitHeard, [Next]_vars
    PROVE  ExitHeard'
<1>0. script \in [Run -> ScriptState] /\ inbox \in [Listener -> Seq(Event)]
  BY DEF TypeInv, TypeOK, SharedTypeOK, ResultsTypeOK
<1>1. ASSUME NEW r \in Run, script[r] = "settled" PROVE script'[r] = "settled"
  <2>1. ASSUME NEW h \in Handler, Execute(h), job[h] = r PROVE FALSE
    BY <1>1, <2>1 DEF Execute, Deliveries, Fresh, Starting
  <2> QED
    BY <1>1, <2>1, ScriptMoves
<1> SUFFICES ASSUME NEW j \in Judger, NEW i \in 1 .. Len(ExitEvents(j)')
             PROVE  script'[ExitEvents(j)'[i].run] = "settled"
  BY DEF ExitHeard
<1>2. CASE \E k \in 1 .. Len(ExitEvents(j)) : ExitEvents(j)'[i] = ExitEvents(j)[k]
  <2>1. PICK k \in 1 .. Len(ExitEvents(j)) : ExitEvents(j)'[i] = ExitEvents(j)[k]
    BY <1>2
  <2>2. ExitEvents(j) \in Seq(Event)
    BY <1>0 DEF ExitEvents, Listener, Listening
  <2>3. ExitEvents(j)[k] \in Event
    BY <2>2, ElementOfSeq
  <2>4. ExitEvents(j)[k].run \in Run
    BY <2>3 DEF Event
  <2> QED
    BY <1>1, <2>1, <2>4 DEF ExitHeard
<1>3. ASSUME NEW r \in ValidRun, NEW e \in Exit, Stores(r, e), ExitEvents(j)'[i] = [run |-> r, body |-> e]
      PROVE  script'[ExitEvents(j)'[i].run] = "settled"
  BY <1>0, <1>3 DEF Stores, StoreExit, ValidRun
<1> QED
  BY <1>2, <1>3, EventMoves

-----------------------------------------------------------------------------
(* The claim of one solution: steps that take nothing from the claim and    *)
(* add nobody to those who hold it.                                         *)
LEMMA HeldKept ==
    ASSUME NEW s \in Solution, Held(s),
           Exists(claim, s) => Exists(claim, s)',
           \A r \in RunsOf(s) : Holding(r)' => Holding(r),
           \A r \in RunsOf(s) : Began(r)' => Began(r),
           \A t \in Timer : SolutionOf(t[2]) = s /\ Checking(t)' => Checking(t),
           Closed(s) => Closed(s)',
           \A e \in Exit : CommandEvent(s, e)' => CommandEvent(s, e),
           latest'[<<s, "command">>] = latest[<<s, "command">>]
    PROVE  Held(s)'
<1>1. OneHolder(s)'
  BY DEF Held, OneHolder
<1>2. OneRunUntilClosed(s)'
  BY DEF Held, OneRunUntilClosed
<1>3. FailureKeepsClaim(s)'
  BY DEF Held, FailureKeepsClaim, Exit
<1> QED
  BY <1>1, <1>2, <1>3 DEF Held

LEMMA ClosedKept ==
    ASSUME TypeInv, [Next]_vars, Quiet, NEW s \in Solution, Closed(s)
    PROVE  Closed(s)'
<1>1. <<s, ExitOK>> \in EventKey
  BY DEF EventKey, Exit
<1>2. "markExpiry" \notin Faults
  BY DEF Quiet
<1> QED
  BY <1>1, <1>2, ShutKept DEF Closed

(* Who may start a script after a step, or runs one: whoever could before,  *)
(* unless the claim was free.                                               *)
LEMMA RunMoves ==
    ASSUME TypeInv, Deliveries, Quiet, [Next]_vars, NEW s \in Solution,
           \A h \in Handler : QueueStep /\ Claim(h) /\ JobSolution(h) = s => Exists(claim, s)
    PROVE  \A r \in RunsOf(s) :
               /\ MayStart(r)' => MayStart(r)
               /\ script'[r] = "live" => MayStart(r) \/ script[r] = "live"
               /\ script'[r] \in {"live", "exited"} => MayStart(r) \/ script[r] \in {"live", "exited"}
               /\ script'[r] # "none" => MayStart(r) \/ script[r] # "none"
<1>1. ASSUME NEW r \in RunsOf(s), MayStart(r)'
      PROVE  MayStart(r)
  <2>1. PICK h \in Handler : job'[h] = r /\ pc'[h] \in {"expire", "fetch", "execute", "release"}
    BY <1>1 DEF MayStart
  <2>2. CASE pc'[h] = pc[h] /\ job'[h] = job[h]
    BY <2>1, <2>2 DEF MayStart
  <2>3. CASE QueueStep /\ HandlerStep(h) /\ job'[h] = job[h]
    <3>1. JobSolution(h) = s
      BY <2>1, <2>3, JobKeys DEF RunsOf
    <3>2. pc'[h] # "expire"
      BY <2>3, <3>1, HandlerGoesOn
    <3>3. pc[h] \in {"expire", "fetch", "execute"}
      BY <2>1, <2>3, <3>2, HandlerGoesOn
    <3> QED
      BY <2>1, <2>3, <3>3 DEF MayStart
  <2> QED
    BY <2>1, <2>2, <2>3, HandlerMoves
<1>2. ASSUME NEW r \in RunsOf(s)
      PROVE  /\ script'[r] = "live" => MayStart(r) \/ script[r] = "live"
             /\ script'[r] \in {"live", "exited"} => MayStart(r) \/ script[r] \in {"live", "exited"}
             /\ script'[r] # "none" => MayStart(r) \/ script[r] # "none"
  <2>1. r \in Run
    BY DEF RunsOf
  <2>2. ASSUME NEW h \in Handler, Execute(h), job[h] = r PROVE MayStart(r)
    BY <2>2 DEF MayStart, Execute
  <2> QED
    BY <2>1, <2>2, ScriptMoves
<1> QED
  BY <1>1, <1>2

(* Who may hold the claim after a step: whoever held it, or who has just    *)
(* got it.                                                                  *)
LEMMA HoldingMoves ==
    ASSUME TypeInv, Deliveries, Quiet, [Next]_vars, NEW s \in Solution,
           \A h \in Handler : QueueStep /\ Claim(h) /\ JobSolution(h) = s => Exists(claim, s),
           \A l \in Listener :
               ListenerStepNext /\ Read(l) /\ Contents(l) = ExitOK => EventSolution(l) # s
    PROVE  /\ \A r \in RunsOf(s) : MayStart(r)' => MayStart(r)
           /\ \A r \in RunsOf(s) : Holding(r)' => Holding(r)
           /\ \A r \in RunsOf(s) : Began(r)' => Began(r)
           /\ \A t \in Timer : SolutionOf(t[2]) = s /\ Checking(t)' => Checking(t)
<1>1. ASSUME NEW t \in Timer, SolutionOf(t[2]) = s, Checking(t)'
      PROVE  Checking(t)
  <2>1. timer'[t] \in {"sleep", "release"}
    BY <1>1 DEF Checking
  <2>2. ASSUME NEW l \in Listener, ListenerStepNext, Read(l), Contents(l) = ExitOK,
               t = <<l[1], First(l).run>>
        PROVE  FALSE
    <3>1. EventSolution(l) = s
      BY <1>1, <2>2 DEF EventSolution
    <3> QED
      BY <2>2, <3>1
  <2>3. TimerNext(t) => timer[t] = "sleep"
    <3>0. timer \in [Timer -> TimerStep]
      BY DEF TypeInv, TypeOK, ResultsTypeOK
    <3> QED
      BY <2>1, <3>0 DEF TimerNext, Wake, ExpireWoken, ReleaseWoken, ReportWoken, UnclaimWoken, Set
  <2> QED
    BY <2>1, <2>2, <2>3, TimerMoves DEF Checking
<1>2. \A r \in RunsOf(s) :
         /\ MayStart(r)' => MayStart(r)
         /\ script'[r] \in {"live", "exited"} => MayStart(r) \/ script[r] \in {"live", "exited"}
         /\ script'[r] # "none" => MayStart(r) \/ script[r] # "none"
  BY RunMoves
<1>3. \A r \in RunsOf(s), j \in Judger : <<j, r>> \in Timer /\ SolutionOf(<<j, r>>[2]) = s
  BY DEF RunsOf, Timer
<1> QED
  BY <1>1, <1>2, <1>3 DEF Holding, Began

(* A timer that checks is one of a script that has settled.                 *)
LEMMA CheckingSettled ==
    ASSUME CoreInv, NEW t \in Timer, timer[t] # "off"
    PROVE  t[2] \in Run /\ t = <<t[1], t[2]>> /\ t[1] \in Judger /\ script[t[2]] = "settled"
<1>1. t[2] \in Run /\ t = <<t[1], t[2]>> /\ t[1] \in Judger
  BY DEF Timer
<1> QED
  BY <1>1 DEF CoreInv, OneExit

LEMMA NoneMayStart ==
    ASSUME CoreInv, GivingUp, NEW r \in Run, script[r] # "none"
    PROVE  ~MayStart(r)
BY DEF CoreInv, Deliveries, Fresh, GivingUp, MayStart, Starting

(* The five steps that change who holds a claim. INCR of an absent key: the *)
(* delivery becomes the holder.                                             *)
LEMMA HeldByClaim ==
    ASSUME CoreInv, GivingUp, Quiet, [Next]_vars, NEW s \in Solution, Held(s),
           NEW h \in Handler, QueueStep, Claim(h), JobSolution(h) = s, ~Exists(claim, s)
    PROVE  Held(s)'
<1>0. /\ TypeInv /\ Deliveries
      /\ claim \in [ClaimKey -> KeyState] /\ pc \in [Handler -> Step] /\ s \in ClaimKey
  BY DEF CoreInv, TypeInv, TypeOK, SharedTypeOK, QueueTypeOK, ClaimKey
<1>1. /\ UNCHANGED <<job, script, latest, inbox, timer>>
      /\ pc[h] = "claim" /\ \A x \in Handler : x # h => pc'[x] = pc[x]
  BY <1>0 DEF Claim, Goto, QueueStep, resultsState, listenerVars, scriptVars
<1>2. Exists(claim, s)'
  BY <1>0 DEF Claim, checkIfRequestExists, Quiet, AfterIncr, Incr, Exists
<1>3. \A r \in RunsOf(s) : ~Holding(r)
  BY DEF Held, OneHolder
<1>4. ~Closed(s) => \A r \in RunsOf(s) : ~Began(r)
  BY DEF Held, OneRunUntilClosed
<1>5. ASSUME NEW r \in RunsOf(s), MayStart(r)' PROVE r = job[h]
  <2>1. PICK x \in Handler : job'[x] = r /\ pc'[x] \in {"expire", "fetch", "execute", "release"}
    BY <1>5 DEF MayStart
  <2>2. x # h => MayStart(r)
    BY <1>1, <2>1 DEF MayStart
  <2> QED
    BY <1>1, <1>3, <2>1, <2>2 DEF Holding
<1>6. \A t \in Timer : Checking(t)' <=> Checking(t)
  BY <1>1 DEF Checking
<1>7. \A r \in RunsOf(s) : Holding(r)' => r = job[h]
  <2>1. \A r \in RunsOf(s), j \in Judger : <<j, r>> \in Timer
    BY DEF RunsOf, Timer
  <2> QED
    BY <1>1, <1>3, <1>5, <1>6, <2>1 DEF Holding
<1>8. ~Closed(s) => \A r \in RunsOf(s) : Began(r)' => r = job[h]
  BY <1>1, <1>4, <1>5 DEF Began
<1>9. \A t \in Timer : SolutionOf(t[2]) = s => ~Checking(t)
  <2> SUFFICES ASSUME NEW t \in Timer, SolutionOf(t[2]) = s, Checking(t) PROVE FALSE
    OBVIOUS
  <2>1. t = <<t[1], t[2]>> /\ t[1] \in Judger /\ t[2] \in RunsOf(s)
    BY DEF Timer, RunsOf
  <2> QED
    BY <1>3, <2>1 DEF Holding
<1>10. Closed(s) => Closed(s)'
  BY <1>0, ClosedKept
<1>11. OneHolder(s)'
  BY <1>2, <1>6, <1>7, <1>9 DEF OneHolder
<1>12. OneRunUntilClosed(s)'
  BY <1>2, <1>6, <1>8, <1>9, <1>10 DEF OneRunUntilClosed
<1>13. FailureKeepsClaim(s)'
  <2>1. latest[<<s, "command">>] # ExitError /\ ~CommandEvent(s, ExitError)
    BY DEF Held, FailureKeepsClaim
  <2>2. ~CommandEvent(s, ExitError)'
    BY <1>1, <2>1 DEF CommandEvent, ExitEvents
  <2> QED
    BY <1>1, <2>1, <2>2 DEF FailureKeepsClaim
<1> QED
  BY <1>11, <1>12, <1>13 DEF Held

(* A holder that removes the claim is one no more.                          *)
LEMMA HeldLetGo ==
    ASSUME TypeInv, Quiet, [Next]_vars, NEW s \in Solution, Held(s),
           NEW r \in RunsOf(s), Holding(r), ~Holding(r)',
           ~Began(r)' \/ Closed(s),
           \A q \in RunsOf(s) : Holding(q)' => Holding(q),
           \A q \in RunsOf(s) : Began(q)' => Began(q),
           \A t \in Timer : SolutionOf(t[2]) = s /\ Checking(t)' => Checking(t),
           UNCHANGED <<latest, inbox>>
    PROVE  Held(s)'
<1>1. \A q \in RunsOf(s) : ~Holding(q)'
  BY DEF Held, OneHolder
<1>2. Closed(s) => Closed(s)'
  BY ClosedKept
<1>3. OneHolder(s)'
  BY <1>1 DEF Held, OneHolder
<1>4. ~Closed(s)' => \A q \in RunsOf(s) : ~Began(q)'
  <2> SUFFICES ASSUME ~Closed(s)', NEW q \in RunsOf(s), Began(q)' PROVE FALSE
    OBVIOUS
  <2>1. ~Closed(s)
    BY <1>2
  <2>2. Began(r)
    <3>1. \A j \in Judger : ~Checking(<<j, r>>)
      <4>1. \A j \in Judger : <<j, r>> \in Timer /\ SolutionOf(<<j, r>>[2]) = s
        BY DEF RunsOf, Timer
      <4> QED
        BY <2>1, <4>1 DEF Held, OneRunUntilClosed
    <3> QED
      BY <3>1 DEF Holding, Began
  <2> QED
    BY <2>1, <2>2 DEF Held, OneRunUntilClosed
<1>5. OneRunUntilClosed(s)'
  BY <1>2, <1>4 DEF Held, OneRunUntilClosed
<1>6. FailureKeepsClaim(s)'
  <2>1. latest[<<s, "command">>] # ExitError /\ ~CommandEvent(s, ExitError)
    BY DEF Held, FailureKeepsClaim
  <2>2. ~CommandEvent(s, ExitError)'
    BY <2>1 DEF CommandEvent, ExitEvents
  <2> QED
    BY <2>1, <2>2 DEF FailureKeepsClaim
<1> QED
  BY <1>3, <1>5, <1>6 DEF Held

(* The exit status of the holder's script is stored.                        *)
LEMMA HeldByExit ==
    ASSUME CoreInv, GivingUp, ExitHeard, Quiet, [Next]_vars, NEW s \in Solution, Held(s),
           NEW r \in ValidRun, NEW e \in Exit, Stores(r, e), SolutionOf(r) = s
    PROVE  Held(s)'
<1>0. /\ TypeInv /\ Deliveries /\ script \in [Run -> ScriptState]
      /\ latest \in [Object -> Upload \cup Exit \cup {Nothing}] /\ <<s, "command">> \in Object
      /\ r \in Run /\ r \in RunsOf(s)
  BY DEF CoreInv, TypeInv, TypeOK, SharedTypeOK, Object, Listening, ValidRun, RunsOf
<1>1. /\ script[r] = "exited" /\ script' = [script EXCEPT ![r] = "settled"]
      /\ UNCHANGED <<claim, pc, job, timer>> /\ latest'[<<s, "command">>] = e
  BY <1>0 DEF Stores, ScriptStep, StoreExit, queueState, handlerVars
<1>2. Holding(r) /\ Began(r)
  BY <1>1 DEF Holding, Began
<1>3. ~Holding(r)'
  <2>1. ~MayStart(r)'
    BY <1>0, <1>1, NoneMayStart DEF MayStart
  <2>2. \A j \in Judger : timer'[<<j, r>>] = "off"
    BY <1>0, <1>1 DEF CoreInv, OneExit
  <2> QED
    BY <1>0, <1>1, <2>1, <2>2 DEF Holding, Checking
<1>4. /\ \A q \in RunsOf(s) : Holding(q)' => Holding(q)
      /\ \A q \in RunsOf(s) : Began(q)' => Began(q)
      /\ \A t \in Timer : Checking(t)' => Checking(t)
  <2>1. \A q \in Run : MayStart(q)' <=> MayStart(q)
    BY <1>1 DEF MayStart
  <2>2. \A q \in Run : q # r => script'[q] = script[q]
    BY <1>0, <1>1
  <2>3. \A t : Checking(t)' <=> Checking(t)
    BY <1>1 DEF Checking
  <2> QED
    BY <1>2, <1>3, <2>1, <2>2, <2>3 DEF Holding, Began, RunsOf
<1>5. Closed(s) => Closed(s)'
  BY <1>0, ClosedKept
<1>6. Exists(claim, s)' /\ Exists(claim, s)
  BY <1>0, <1>1, <1>2 DEF Held, OneHolder, Exists
<1>7. \A q \in RunsOf(s) : ~Holding(q)'
  BY <1>0, <1>2, <1>3, <1>4 DEF Held, OneHolder
<1>8. OneHolder(s)'
  BY <1>4, <1>6, <1>7 DEF Held, OneHolder
<1>9. OneRunUntilClosed(s)'
  BY <1>4, <1>5, <1>6 DEF Held, OneRunUntilClosed
<1>10. latest[<<s, "command">>] # ExitError /\ ~CommandEvent(s, ExitError)
  BY <1>0, <1>2 DEF Held, FailureKeepsClaim
<1>11. ASSUME NEW x \in Exit, x # e, CommandEvent(s, x)' PROVE CommandEvent(s, x)
  <2>0. PICK j \in Judger : \E i \in 1 .. Len(ExitEvents(j)') :
           SolutionOf(ExitEvents(j)'[i].run) = s /\ ExitEvents(j)'[i].body = x
    BY <1>11 DEF CommandEvent
  <2>1. PICK i \in 1 .. Len(ExitEvents(j)') :
           SolutionOf(ExitEvents(j)'[i].run) = s /\ ExitEvents(j)'[i].body = x
    BY <2>0
  <2>2. ASSUME NEW q \in ValidRun, NEW y \in Exit, Stores(q, y), ExitEvents(j)'[i] = [run |-> q, body |-> y]
        PROVE  FALSE
    <3>1. y = x /\ SolutionOf(q) = s
      BY <2>1, <2>2
    <3>2. latest'[<<s, "command">>] = y
      BY <1>0, <2>2, <3>1 DEF Stores
    <3> QED
      BY <1>1, <1>11, <3>1, <3>2
  <2>3. PICK k \in 1 .. Len(ExitEvents(j)) : ExitEvents(j)'[i] = ExitEvents(j)[k]
    BY <1>0, <2>2, EventMoves
  <2> QED
    BY <2>1, <2>3 DEF CommandEvent
<1>12. ASSUME ~Closed(s), NEW x \in Exit, CommandEvent(s, x) PROVE FALSE
  <2>0. PICK j \in Judger : \E i \in 1 .. Len(ExitEvents(j)) : SolutionOf(ExitEvents(j)[i].run) = s
    BY <1>12 DEF CommandEvent
  <2>1. PICK i \in 1 .. Len(ExitEvents(j)) : SolutionOf(ExitEvents(j)[i].run) = s
    BY <2>0
  <2>2. ExitEvents(j) \in Seq(Event)
    BY <1>0 DEF TypeInv, TypeOK, ResultsTypeOK, ExitEvents, Listener, Listening
  <2>3. ExitEvents(j)[i] \in Event
    BY <2>2, ElementOfSeq
  <2>4. ExitEvents(j)[i].run \in RunsOf(s)
    BY <2>1, <2>3 DEF Event, RunsOf
  <2>5. script[ExitEvents(j)[i].run] = "settled"
    BY DEF ExitHeard
  <2>6. Began(ExitEvents(j)[i].run)
    BY <2>5 DEF Began
  <2>7. ExitEvents(j)[i].run = r
    BY <1>0, <1>2, <1>12, <2>4, <2>6 DEF Held, OneRunUntilClosed
  <2> QED
    BY <1>1, <2>5, <2>7
<1>13. FailureKeepsClaim(s)'
  <2>1. ExitOK \in Exit /\ ExitError \in Exit /\ ExitOK # ExitError
    BY ContentsAssumption DEF Exit
  <2>2. CASE e = ExitError
    <3>1. ~Closed(s)' => ~CommandEvent(s, ExitOK)'
      BY <1>5, <1>11, <1>12, <2>1, <2>2
    <3> QED
      BY <1>1, <1>6, <1>7, <2>2, <3>1 DEF FailureKeepsClaim
  <2>3. CASE e # ExitError
    <3>1. ~CommandEvent(s, ExitError)'
      BY <1>10, <1>11, <2>1, <2>3
    <3> QED
      BY <1>1, <2>3, <3>1 DEF FailureKeepsClaim
  <2> QED
    BY <2>2, <2>3
<1> QED
  BY <1>8, <1>9, <1>13 DEF Held

(* A listener reads that the script ended well, and arms the timer: nobody  *)
(* has done so before, and nobody will again.                               *)
LEMMA HeldByArming ==
    ASSUME CoreInv, GivingUp, ExitHeard, MarkOwned, Quiet, [Next]_vars, NEW s \in Solution, Held(s),
           NEW l \in Listener, ListenerStepNext, Read(l), Contents(l) = ExitOK, EventSolution(l) = s
    PROVE  Held(s)'
<1> DEFINE r == First(l).run
           t == <<l[1], r>>
<1>0. /\ TypeInv /\ Deliveries /\ lpc \in [Listener -> ListenerStep] /\ timer \in [Timer -> TimerStep]
      /\ lpc[l] = "read" /\ ListenerNext(l)
  BY DEF CoreInv, TypeInv, TypeOK, ResultsTypeOK, Read, ListenerNext
<1>1. inbox[l] # <<>>
  BY <1>0 DEF TypeInv, Busy
<1>2. /\ r \in Run /\ r \in RunsOf(s) /\ First(l) = inbox[l][1] /\ 1 \in 1 .. Len(inbox[l])
      /\ First(l).body \in Objects(l[2]) /\ latest[<<s, l[2]>>] \in Objects(l[2]) /\ Mark(l) \in EventKey
  BY <1>0, <1>1, HeadFacts DEF RunsOf, EventSolution
<1>3. /\ l[1] \in Judger /\ l = <<l[1], l[2]>> /\ l[2] \in Listening
  BY DEF Listener
<1>4. l[2] = "command"
  BY <1>2, <1>3, UploadIsNoExit DEF Contents, Objects, Listening
<1>5. inbox[l] = ExitEvents(l[1])
  BY <1>3, <1>4 DEF ExitEvents
<1>6. First(l).body = ExitOK
  <2> SUFFICES ASSUME First(l).body # ExitOK PROVE FALSE
    OBVIOUS
  <2>1. latest[<<s, "command">>] = ExitOK
    BY <1>4 DEF Contents
  <2>2. First(l).body = ExitError
    BY <1>2, <1>4 DEF Objects, Exit
  <2>3. CommandEvent(s, ExitError)
    BY <1>2, <1>3, <1>5, <2>2 DEF CommandEvent, EventSolution
  <2> QED
    BY <2>1, <2>3, ContentsAssumption DEF Held, FailureKeepsClaim
<1>7. Mark(l) = <<s, ExitOK>> /\ ~Closed(s)
  BY <1>0, <1>6 DEF Mark, Closed, Shut
<1>8. script[r] = "settled" /\ Began(r)
  BY <1>2, <1>3, <1>5 DEF ExitHeard, Began
<1>9. /\ Exists(claim, s)
      /\ \A q \in RunsOf(s) : Began(q) => q = r
      /\ \A x \in Timer : SolutionOf(x[2]) = s => ~Checking(x)
  BY <1>2, <1>7, <1>8 DEF Held, OneRunUntilClosed
<1>10. /\ timer' = [timer EXCEPT ![t] = "sleep"] /\ Skip(l)
       /\ UNCHANGED <<claim, seen, script, latest, pc, job>>
  BY DEF Read, sharedVars, ListenerStepNext, queueState, handlerVars
<1>11. Closed(s)'
  <2>1. Exists(seen, <<s, ExitOK>>)'
    BY <1>0, <1>7, <1>10 DEF MarkOwned, Exists
  <2>2. lpc'[l] = "check"
    BY <1>0, <1>10 DEF Skip
  <2>3. ASSUME NEW x \in Listener, lpc'[x] \in {"expire", "read", "unmark"}
        PROVE  Mark(x)' # <<s, ExitOK>>
    <3>1. x # l /\ lpc'[x] = lpc[x] /\ Mark(x)' = Mark(x)
      BY <1>0, <2>2, <2>3, ListenerFrame, MarkKept
    <3> QED
      BY <1>0, <1>7, <2>3, <3>1 DEF MarkOwned
  <2> QED
    BY <2>1, <2>3 DEF Closed, Shut
<1>12. \A x \in Timer : SolutionOf(x[2]) = s /\ Checking(x)' => x = t
  BY <1>0, <1>9, <1>10 DEF Checking
<1>13. \A q \in RunsOf(s) : Holding(q)' => q = r
  <2> SUFFICES ASSUME NEW q \in RunsOf(s), Holding(q)', q # r PROVE FALSE
    OBVIOUS
  <2>1. ~Began(q)
    BY <1>9
  <2>2. ~MayStart(q)' /\ script'[q] = "none"
    BY <1>10, <2>1 DEF Began, MayStart
  <2>3. PICK j \in Judger : Checking(<<j, q>>)'
    BY <2>2 DEF Holding
  <2>4. <<j, q>> \in Timer /\ SolutionOf(<<j, q>>[2]) = s
    BY DEF RunsOf, Timer
  <2>5. <<j, q>> = t
    BY <1>12, <2>3, <2>4
  <2> QED
    BY <2>5
<1>14. Exists(claim, s)'
  BY <1>9, <1>10 DEF Exists
<1>15. OneHolder(s)'
  BY <1>12, <1>13, <1>14 DEF OneHolder
<1>16. OneRunUntilClosed(s)'
  BY <1>11 DEF OneRunUntilClosed
<1>17. FailureKeepsClaim(s)'
  <2>1. CommandEvent(s, ExitOK)
    BY <1>2, <1>3, <1>5, <1>6 DEF CommandEvent, EventSolution
  <2>2. latest[<<s, "command">>] # ExitError /\ ~CommandEvent(s, ExitError)
    BY <1>7, <2>1 DEF Held, FailureKeepsClaim
  <2>3. ~CommandEvent(s, ExitError)'
    <3> SUFFICES ASSUME CommandEvent(s, ExitError)' PROVE CommandEvent(s, ExitError)
      BY <2>2
    <3>0. PICK j \in Judger : \E i \in 1 .. Len(ExitEvents(j)') :
             SolutionOf(ExitEvents(j)'[i].run) = s /\ ExitEvents(j)'[i].body = ExitError
      BY DEF CommandEvent
    <3>1. PICK i \in 1 .. Len(ExitEvents(j)') :
             SolutionOf(ExitEvents(j)'[i].run) = s /\ ExitEvents(j)'[i].body = ExitError
      BY <3>0
    <3>2. ASSUME NEW q \in ValidRun, NEW e \in Exit, Stores(q, e) PROVE FALSE
      <4>1. script'[q] = "settled" /\ script[q] = "exited"
        BY <1>0, <3>2 DEF Stores, StoreExit, TypeInv, TypeOK, SharedTypeOK, ValidRun
      <4> QED
        BY <1>10, <4>1
    <3>3. PICK k \in 1 .. Len(ExitEvents(j)) : ExitEvents(j)'[i] = ExitEvents(j)[k]
      BY <1>0, <3>2, EventMoves
    <3> QED
      BY <3>1, <3>3 DEF CommandEvent
  <2> QED
    BY <1>10, <2>2, <2>3 DEF FailureKeepsClaim
<1> QED
  BY <1>15, <1>16, <1>17 DEF Held

LEMMA HolderStep ==
    ASSUME CoreInv, JudgeInv, Quiet, [Next]_vars
    PROVE  HolderInv'
<1> SUFFICES ASSUME NEW s \in Solution, ~Reported(s)'
             PROVE  Held(s)'
  BY DEF HolderInv
<1>0. TypeInv /\ Deliveries /\ s \in ClaimKey
  BY DEF CoreInv, ClaimKey
<1>1. ~Reported(s) /\ Held(s)
  BY <1>0, ReportedKept DEF JudgeInv, HolderInv
<1>2. /\ MarkOwned /\ UnclaimsReported /\ GivingUp /\ ExitHeard
  BY DEF JudgeInv
<1>3. CASE \E h \in Handler : QueueStep /\ Claim(h) /\ JobSolution(h) = s /\ ~Exists(claim, s)
  BY <1>1, <1>2, <1>3, HeldByClaim
<1>4. CASE \E r \in ValidRun, e \in Exit : Stores(r, e) /\ SolutionOf(r) = s
  BY <1>1, <1>2, <1>4, HeldByExit
<1>5. CASE \E l \in Listener :
              ListenerStepNext /\ Read(l) /\ Contents(l) = ExitOK /\ EventSolution(l) = s
  BY <1>1, <1>2, <1>5, HeldByArming
<1>6. CASE /\ \A h \in Handler : QueueStep /\ Claim(h) /\ JobSolution(h) = s => Exists(claim, s)
           /\ \A l \in Listener :
                 ListenerStepNext /\ Read(l) /\ Contents(l) = ExitOK => EventSolution(l) # s
           /\ \A r \in ValidRun, e \in Exit : Stores(r, e) => SolutionOf(r) # s
  <2>1. /\ \A r \in RunsOf(s) : MayStart(r)' => MayStart(r)
        /\ \A r \in RunsOf(s) : Holding(r)' => Holding(r)
        /\ \A r \in RunsOf(s) : Began(r)' => Began(r)
        /\ \A t \in Timer : SolutionOf(t[2]) = s /\ Checking(t)' => Checking(t)
    BY <1>0, <1>6, HoldingMoves
  <2>2. CASE \E h \in Handler : QueueStep /\ Release(h) /\ JobSolution(h) = s
    <3>1. PICK h \in Handler : QueueStep /\ Release(h) /\ JobSolution(h) = s
      BY <2>2
    <3>2. PICK r \in RunsOf(s) : job[h] = r
      BY <1>0, <1>2, <3>1, JobKeys DEF Release, GivingUp, RunsOf
    <3>3. Holding(r) /\ script[r] = "none"
      BY <1>2, <3>1, <3>2 DEF Holding, MayStart, Release, GivingUp
    <3>4. ~MayStart(r)'
      <4>1. pc[h] = "release" /\ pc'[h] \in {"fail", "requeue"} /\ job' = job
            /\ \A x \in Handler : x # h => pc'[x] = pc[x]
        BY <1>0, <3>1 DEF Release, Goto, TypeInv, TypeOK, QueueTypeOK
      <4> QED
        BY <1>0, <3>2, <4>1 DEF MayStart, Deliveries, Apart
    <3>5. UNCHANGED <<script, timer, latest, inbox>>
      BY <3>1 DEF Release, QueueStep, resultsState, listenerVars, scriptVars
    <3>6. \A j \in Judger : timer[<<j, r>>] = "off"
      BY <3>3 DEF CoreInv, OneExit, RunsOf
    <3>7. ~Holding(r)' /\ ~Began(r)'
      BY <3>3, <3>4, <3>5, <3>6 DEF Holding, Began, Checking
    <3> QED
      BY <1>0, <1>1, <2>1, <3>3, <3>5, <3>7, HeldLetGo
  <2>3. CASE \E t \in Timer : TimerStepNext /\ ReleaseWoken(t) /\ SolutionOf(t[2]) = s
    <3>1. PICK t \in Timer : TimerStepNext /\ ReleaseWoken(t) /\ SolutionOf(t[2]) = s
      BY <2>3
    <3> DEFINE r == t[2]
    <3>2. /\ timer[t] = "release" /\ r \in Run /\ r \in RunsOf(s) /\ t = <<t[1], r>> /\ t[1] \in Judger
          /\ script[r] = "settled" /\ Checking(t)
      BY <3>1, CheckingSettled DEF ReleaseWoken, RunsOf, Checking
    <3>3. Holding(r)
      BY <3>2 DEF Holding
    <3>4. /\ timer'[t] = "publish" /\ \A x \in Timer : x # t => timer'[x] = timer[x]
          /\ UNCHANGED <<script, pc, job, latest, inbox>>
      BY <1>0, <3>1 DEF ReleaseWoken, Set, TypeInv, TypeOK, ResultsTypeOK, TimerStepNext, queueState, handlerVars,
         listenerVars, scriptVars
    <3>5. \A x \in Timer : SolutionOf(x[2]) = s => ~Checking(x)'
      <4>1. ~Checking(t)'
        BY <3>4 DEF Checking
      <4>2. \A x \in Timer : SolutionOf(x[2]) = s /\ Checking(x) => x = t
        BY <1>1, <3>1, <3>2 DEF Held, OneHolder
      <4> QED
        BY <2>1, <4>1, <4>2
    <3>6. ~MayStart(r)'
      <4>1. ~MayStart(r)
        BY <1>2, <3>2, NoneMayStart
      <4> QED
        BY <2>1, <3>2, <4>1
    <3>7. ~Holding(r)'
      <4>1. \A j \in Judger : <<j, r>> \in Timer /\ SolutionOf(<<j, r>>[2]) = s
        BY <3>2 DEF RunsOf, Timer
      <4> QED
        BY <3>2, <3>4, <3>5, <3>6, <4>1 DEF Holding
    <3>8. Closed(s)
      BY <1>1, <3>1, <3>2 DEF Held, OneRunUntilClosed
    <3> QED
      BY <1>0, <1>1, <2>1, <3>2, <3>3, <3>4, <3>7, <3>8, HeldLetGo
  <2>4. CASE /\ ~ \E h \in Handler : QueueStep /\ Release(h) /\ JobSolution(h) = s
             /\ ~ \E t \in Timer : TimerStepNext /\ ReleaseWoken(t) /\ SolutionOf(t[2]) = s
    <3>1. Exists(claim, s) => Exists(claim, s)'
      <4> SUFFICES ASSUME Exists(claim, s), ~Exists(claim, s)' PROVE FALSE
        OBVIOUS
      <4>1. \A h \in Handler : Unclaim(h) => JobSolution(h) # s
        BY <1>1, <1>2 DEF Unclaim, UnclaimsReported
      <4>2. \A l \in Listener : UnclaimReported(l) => ReportKey(l) # s
        BY <1>1, <1>2 DEF UnclaimReported, UnclaimsReported
      <4>3. \A t \in Timer : UnclaimWoken(t) => SolutionOf(t[2]) # s
        BY <1>1, <1>2 DEF UnclaimWoken, UnclaimsReported
      <4>4. Removes(s)
        BY <1>0, ClaimMoves
      <4> QED
        BY <2>4, <4>1, <4>2, <4>3, <4>4 DEF Removes
    <3>2. latest'[<<s, "command">>] = latest[<<s, "command">>]
      BY <1>0, <1>6, LatestMoves
    <3>3. ASSUME NEW e \in Exit, CommandEvent(s, e)' PROVE CommandEvent(s, e)
      <4>0. PICK j \in Judger : \E i \in 1 .. Len(ExitEvents(j)') :
               SolutionOf(ExitEvents(j)'[i].run) = s /\ ExitEvents(j)'[i].body = e
        BY <3>3 DEF CommandEvent
      <4>1. PICK i \in 1 .. Len(ExitEvents(j)') :
               SolutionOf(ExitEvents(j)'[i].run) = s /\ ExitEvents(j)'[i].body = e
        BY <4>0
      <4>2. ASSUME NEW r \in ValidRun, NEW x \in Exit, Stores(r, x), ExitEvents(j)'[i] = [run |-> r, body |-> x]
            PROVE  FALSE
        BY <1>6, <4>1, <4>2
      <4>3. PICK k \in 1 .. Len(ExitEvents(j)) : ExitEvents(j)'[i] = ExitEvents(j)[k]
        BY <1>0, <4>2, EventMoves
      <4> QED
        BY <4>1, <4>3 DEF CommandEvent
    <3>4. Closed(s) => Closed(s)'
      BY <1>0, ClosedKept
    <3> QED
      BY <1>1, <2>1, <3>1, <3>2, <3>3, <3>4, HeldKept
  <2> QED
    BY <2>2, <2>3, <2>4
<1> QED
  BY <1>3, <1>4, <1>5, <1>6

LEMMA JudgeInit == Init => JudgeInv
<1> SUFFICES ASSUME Init PROVE JudgeInv
  OBVIOUS
<1>1. /\ \A l \in Listener : lpc[l] = "check"
      /\ \A h \in Handler : pc[h] = "idle"
      /\ \A t \in Timer : timer[t] = "off"
      /\ \A r \in Run : script[r] = "none"
      /\ \A s \in Solution : latest[<<s, "command">>] = Nothing
      /\ \A j \in Judger : ExitEvents(j) = <<>>
  BY DEF Init, QueueInit, ResultsInit, SharedInit, Object, Listening, Listener, ExitEvents
<1>2. MarkOwned /\ UnclaimsReported /\ GivingUp
  BY <1>1 DEF MarkOwned, UnclaimsReported, GivingUp
<1>3. ExitHeard /\ \A s \in Solution, e \in Exit : ~CommandEvent(s, e)
  <2> HIDE DEF ExitEvents
  <2> QED
    BY <1>1 DEF ExitHeard, CommandEvent
<1>4. ASSUME NEW s \in Solution PROVE Held(s)
  <2>1. \A r \in RunsOf(s) : ~Holding(r) /\ ~Began(r)
    <3>1. \A r \in RunsOf(s) : r \in Run /\ \A j \in Judger : <<j, r>> \in Timer
      BY DEF RunsOf, Timer
    <3> QED
      BY <1>1, <3>1 DEF Holding, Began, MayStart, Checking
  <2>2. \A t \in Timer : ~Checking(t)
    BY <1>1 DEF Checking
  <2>3. latest[<<s, "command">>] # ExitError /\ ~CommandEvent(s, ExitError)
    BY <1>1, <1>3, ContentsAssumption DEF Exit
  <2> QED
    BY <2>1, <2>2, <2>3 DEF Held, OneHolder, OneRunUntilClosed, FailureKeepsClaim
<1> QED
  BY <1>2, <1>3, <1>4 DEF JudgeInv, HolderInv

LEMMA JudgeInvariant == ASSUME Quiet PROVE Spec => [](CoreInv /\ JudgeInv)
<1>1. CoreInv /\ JudgeInv /\ [Next]_vars => JudgeInv'
  <2> SUFFICES ASSUME CoreInv, JudgeInv, [Next]_vars PROVE JudgeInv'
    OBVIOUS
  <2>1. TypeInv /\ Deliveries /\ "markExpiry" \notin Faults
    BY DEF CoreInv, Quiet
  <2> QED
    BY <2>1, MarkOwnedStep, UnclaimsReportedStep, GivingUpStep, ExitHeardStep, HolderStep DEF JudgeInv
<1> QED
  BY CoreInvariant, JudgeInit, <1>1, PTL DEF Spec

(* Until a final report of a solution is published, one delivery at most    *)
(* judges it, whatever is submitted twice, redelivered, requeued, refused   *)
(* or stopped, and it holds the claim (ProcessJudge's duplicate check). It  *)
(* takes Redis to answer INCR, the bridge's answers to arrive, and claims   *)
(* and marks that outlive what they protect.                                *)
THEOREM OneJudgeAtATime ==
    ASSUME "incr" \notin Faults, "lostReply" \notin Faults,
           "claimExpiry" \notin Faults, "markExpiry" \notin Faults
    PROVE  Spec => []OneJudgeUntilReported
<1>1. Quiet
  BY DEF Quiet
<1>2. CoreInv /\ JudgeInv => OneJudgeUntilReported
  <2> SUFFICES ASSUME JudgeInv, NEW s \in Solution, ~Reported(s)
               PROVE  /\ \A r1, r2 \in Judging(s) : r1 = r2
                      /\ Judging(s) # {} => Exists(claim, s)
    BY DEF OneJudgeUntilReported
  <2>1. OneHolder(s)
    BY DEF JudgeInv, HolderInv, Held
  <2>2. \A r \in Judging(s) : r \in RunsOf(s) /\ Holding(r)
    BY DEF Judging, RunsOf, ValidRun, Holding
  <2> QED
    BY <2>1, <2>2 DEF OneHolder
<1> QED
  BY <1>1, <1>2, JudgeInvariant, PTL

-----------------------------------------------------------------------------
(* A delivery that is about to start its script, or has, has its files.     *)
FilesInv ==
    \A s \in Solution : ~Reported(s) =>
        /\ \A h \in Handler : pc[h] = "execute" /\ JobSolution(h) = s => dir[s]
        /\ \A r \in RunsOf(s) : script[r] = "live" => dir[s]

(* The directory of a solution goes with the end of a script of it.         *)
LEMMA DirMoves ==
    ASSUME TypeInv, [Next]_vars, NEW s \in Solution, dir[s], ~dir'[s]
    PROVE  \E r \in RunsOf(s) : script[r] = "live" /\ script'[r] = "exited"
<1>0. dir \in [Solution -> BOOLEAN] /\ script \in [Run -> ScriptState] /\ dir' # dir
  BY DEF TypeInv, TypeOK, SharedTypeOK
<1>1. CASE ScriptStep
  <2>1. PICK r \in ValidRun : ScriptNext(r, up)
    BY <1>1 DEF ScriptStep
  <2>2. EndScript(r)
    BY <1>0, <2>1 DEF ScriptNext, StoreResult, StoreExit
  <2>3. SolutionOf(r) = s /\ r \in Run
    BY <1>0, <2>2 DEF EndScript, ValidRun
  <2> QED
    BY <1>0, <2>2, <2>3 DEF EndScript, RunsOf
<1>2. CASE QueueStep
  <2>1. \A h \in Handler, m \in Msg : ~HandleMessage(h, m)
    BY <1>0 DEF HandleMessage, sharedVars
  <2>2. \A m \in Msg : ~(Submit(m) \/ Drop(m) \/ MsgTimeout(m))
    BY <1>0 DEF Submit, Drop, MsgTimeout, sharedVars
  <2>3. \A h \in Handler : ~Fetch(h)
    BY <1>0 DEF Fetch, HandleFetchObject
  <2>4. \A h \in Handler : ~HandlerStep(h)
    BY <1>0, <2>3 DEF HandlerStep, Claim, SetExpire, Execute, Release, Fail, Unclaim, Started, Finish, Requeue,
       scriptVars, sharedVars
  <2> QED
    BY <1>2, <2>1, <2>2, <2>4 DEF QueueStep, QueueNext
<1>3. CASE RestartStep \/ CrashStep \/ ListenerStepNext \/ TimerStepNext \/ ForgetStep \/ UNCHANGED vars
  BY <1>0, <1>3 DEF RestartStep, Restart, CrashStep, Crash, ListenerStepNext, ListenerNext, Check, ExpireMark, Read,
     ReadFails, Unmark, Publish, UnclaimReported, TimerStepNext, TimerNext, Wake, ExpireWoken, ReleaseWoken,
     ReportWoken, UnclaimWoken, ForgetStep, ForgetClaim, ForgetEvent, vars, sharedVars, scriptVars
<1> QED
  BY <1>1, <1>2, <1>3 DEF Next

LEMMA FilesStep ==
    ASSUME CoreInv, JudgeInv, Quiet, FilesInv, [Next]_vars
    PROVE  FilesInv'
<1> SUFFICES ASSUME NEW s \in Solution, ~Reported(s)'
             PROVE  /\ \A h \in Handler : pc'[h] = "execute" /\ JobSolution(h)' = s => dir'[s]
                    /\ \A r \in RunsOf(s) : script'[r] = "live" => dir'[s]
  BY DEF FilesInv
<1>0. TypeInv /\ Deliveries /\ s \in ClaimKey /\ dir \in [Solution -> BOOLEAN]
  BY DEF CoreInv, TypeInv, TypeOK, SharedTypeOK, ClaimKey
<1>1. ~Reported(s)
  BY <1>0, ReportedKept
<1>2. \A r1, r2 \in RunsOf(s) : Holding(r1) /\ Holding(r2) => r1 = r2
  BY <1>1 DEF JudgeInv, HolderInv, Held, OneHolder
<1>3. ASSUME NEW h \in Handler, pc'[h] = "execute", JobSolution(h)' = s
      PROVE  dir'[s]
  <2>1. CASE pc'[h] = pc[h] /\ job'[h] = job[h]
    <3>1. pc[h] = "execute" /\ JobSolution(h) = s
      BY <1>3, <2>1 DEF JobSolution
    <3>2. dir[s]
      BY <1>1, <3>1 DEF FilesInv
    <3>3. job[h] \in RunsOf(s) /\ script[job[h]] = "none" /\ Holding(job[h])
      BY <1>0, <3>1, JobKeys DEF Deliveries, Fresh, Starting, RunsOf, Holding, MayStart
    <3>4. \A r \in RunsOf(s) : script[r] = "live" => r = job[h]
      BY <1>2, <3>3 DEF Holding
    <3> QED
      BY <1>0, <3>2, <3>3, <3>4, DirMoves
  <2>2. CASE HandlerStep(h) /\ job'[h] = job[h]
    <3>1. HandleFetchObject(JobSolution(h)) /\ JobSolution(h) = s
      BY <1>0, <1>3, <2>2, HandlerGoesOn DEF JobSolution
    <3> QED
      BY <1>0, <3>1 DEF HandleFetchObject
  <2> QED
    BY <1>0, <1>3, <2>1, <2>2, HandlerMoves
<1>4. ASSUME NEW r \in RunsOf(s), script'[r] = "live"
      PROVE  dir'[s]
  <2>0. r \in Run
    BY DEF RunsOf
  <2>1. CASE script[r] = "live"
    <3>1. dir[s]
      BY <1>1, <2>1 DEF FilesInv
    <3>2. \A q \in RunsOf(s) : script[q] = "live" => q = r
      BY <1>2, <2>1 DEF Holding
    <3> QED
      BY <1>0, <1>4, <3>1, <3>2, DirMoves
  <2>2. CASE \E h \in Handler : Execute(h) /\ job[h] = r
    <3>1. PICK h \in Handler : Execute(h) /\ job[h] = r
      BY <2>2
    <3>2. pc[h] = "execute" /\ JobSolution(h) = s /\ dir' = dir
      BY <1>0, <3>1, JobKeys DEF Execute, RunsOf
    <3> QED
      BY <1>1, <3>2 DEF FilesInv
  <2> QED
    BY <1>0, <1>4, <2>0, <2>1, <2>2, ScriptMoves
<1> QED
  BY <1>3, <1>4

(* A script that runs for an unreported solution has its files: no other    *)
(* delivery's script ends meanwhile and removes the solution's directory    *)
(* (AutoRemoveSolution).                                                    *)
THEOREM FilesStay ==
    ASSUME "incr" \notin Faults, "lostReply" \notin Faults,
           "claimExpiry" \notin Faults, "markExpiry" \notin Faults
    PROVE  Spec => []FilesWhileJudging
<1>1. Quiet
  BY DEF Quiet
<1>2. Init => FilesInv
  <2> SUFFICES ASSUME Init PROVE FilesInv
    OBVIOUS
  <2>1. (\A h \in Handler : pc[h] = "idle") /\ \A r \in Run : script[r] = "none"
    BY DEF Init, QueueInit, SharedInit
  <2> QED
    BY <2>1 DEF FilesInv, RunsOf
<1>3. CoreInv /\ JudgeInv /\ FilesInv /\ [Next]_vars => FilesInv'
  BY <1>1, FilesStep
<1>4. FilesInv => FilesWhileJudging
  BY DEF FilesInv, FilesWhileJudging, RunsOf, ValidRun
<1> QED
  BY <1>1, <1>2, <1>3, <1>4, JudgeInvariant, PTL DEF Spec

-----------------------------------------------------------------------------
(* That a script has not reported is true of the scripts of which it is     *)
(* said if no call that would report it or remove its claim fails, no       *)
(* listener lags, and every solution is judged once.                        *)
Smooth ==
    /\ {"timeout", "crash", "incr", "expire", "del", "publish", "read", "late", "markExpiry"} \cap Faults = {}
    /\ "lostReply" \in Faults => MaxAttempts = 1
    /\ Versioned
    /\ \A m1, m2 \in Msg : Body[m1] \in Solution /\ Body[m1] = Body[m2] => m1 = m2

(* A message is with the handler that works on it.                          *)
Alone ==
    \A h \in Handler : pc[h] # "idle" =>
        /\ place[job[h][1]] = JudgerOf(h)
        /\ \A x \in Handler : pc[x] # "idle" /\ job[x][1] = job[h][1] => x = h

(* Once a script was started for a message, none will be.                   *)
Closing(h) ==
    \/ pc[h] \in {"fail", "unclaim", "started", "finish"}
    \/ pc[h] = "release" /\ Attempt(h) = MaxAttempts
Judged(m) ==
    /\ place[m] # "new"
    /\ place[m] = "ready" => attempts[m] >= MaxAttempts
    /\ \A h \in Handler : pc[h] # "idle" /\ job[h][1] = m => Closing(h)
OneScript ==
    /\ \A r \in ValidRun : script[r] # "none" => Judged(r[1])
    /\ \A r1, r2 \in ValidRun : script[r1] # "none" /\ script[r2] # "none" /\ r1[1] = r2[1] => r1 = r2

(* Listeners go through their calls with the event they started with.       *)
Listened ==
    /\ \A j \in Judger : up[j]
    /\ \A l \in Listener : lpc[l] # "unmark"
    /\ \A l \in Listener : lpc[l] \in {"publish", "unclaim"} => got[l] = First(l).body

(* Marks and notifications are of results that were stored.                 *)
Entries(q) == {q[i] : i \in 1 .. Len(q)}
ResultEvents(j) == inbox[<<j, "result">>]
Stored ==
    /\ \A r \in Run : uploaded[r] # {} => script[r] # "none"
    /\ \A j \in Judger : \A e \in Entries(ResultEvents(j)) : e.body \in uploaded[e.run]
    /\ \A s \in Solution, c \in Upload :
          Exists(seen, <<s, c>>) => \E r \in RunsOf(s) : c \in uploaded[r]

(* One timer checks a solution, once its script has ended well.             *)
OneTimer ==
    /\ \A t \in Timer : timer[t] # "off" => t[2] \in ValidRun /\ Closed(SolutionOf(t[2]))
    /\ \A t1, t2 \in Timer :
          timer[t1] # "off" /\ timer[t2] # "off" /\ SolutionOf(t1[2]) = SolutionOf(t2[2]) => t1 = t2

(* While the check of a script is to come, a claim of its solution means    *)
(* that no result with "done" was stored, or that it is still to be handled.*)
Awaited(r) == ~Closed(SolutionOf(r)) \/ \E j \in Judger : timer[<<j, r>>] = "sleep"
ResultEvent(r, c) == [run |-> r, body |-> c]
Queued(r, c) == \A j \in Judger : ResultEvent(r, c) \in Entries(ResultEvents(j))
AtWork(r, c) ==
    \E l \in Listener : l[2] = "result" /\ lpc[l] # "check" /\ First(l) = ResultEvent(r, c)
Waiting(r, c) == (Queued(r, c) /\ ~Exists(seen, <<SolutionOf(r), c>>)) \/ AtWork(r, c)
ClaimTells ==
    \A r \in ValidRun : \A c \in uploaded[r] \cap Result :
        c.done /\ Awaited(r) /\ Exists(claim, SolutionOf(r)) => Waiting(r, c)

NotDone == \A t \in Timer : timer[t] \in {"release", "publish"} => ~ReportedDone(t[2])

ReportInv == MarkOwned /\ Alone /\ OneScript /\ Listened /\ Stored /\ OneTimer /\ ClaimTells /\ NotDone

LEMMA SmoothFacts ==
    ASSUME Smooth
    PROVE  /\ "timeout" \notin Faults /\ "crash" \notin Faults /\ "incr" \notin Faults /\ "expire" \notin Faults
           /\ "del" \notin Faults /\ "publish" \notin Faults /\ "read" \notin Faults /\ "late" \notin Faults
           /\ "markExpiry" \notin Faults
BY DEF Smooth

(* Where a message goes.                                                    *)
MessageMoves(m) ==
    \/ place'[m] = place[m]
    \/ place[m] = "new" /\ place'[m] = "ready"
    \/ place[m] = "ready" /\ place'[m] = "gone"
    \/ \E h \in Handler : HandleMessage(h, m) /\ place'[m] = JudgerOf(h)
    \/ \E h \in Handler : /\ pc[h] \in {"finish", "requeue"} /\ job[h][1] = m /\ place[m] = JudgerOf(h)
                          /\ place'[m] = (IF pc[h] = "finish" THEN "gone" ELSE "ready")
                          /\ pc'[h] = "idle"

LEMMA MessagePlaces ==
    ASSUME TypeInv, Smooth, [Next]_vars, NEW m \in Msg
    PROVE  /\ attempts'[m] \in Nat /\ attempts[m] \in Nat /\ attempts[m] <= attempts'[m]
           /\ MessageMoves(m)
<1>0. /\ place \in [Msg -> {"new", "ready", "gone"} \cup Judger] /\ attempts \in [Msg -> 0 .. MaxAttempts + 2]
      /\ pc \in [Handler -> Step] /\ attempts[m] \in Nat
  BY MaxAttemptsType DEF TypeInv, TypeOK, QueueTypeOK
<1> DEFINE Counts == attempts'[m] \in Nat /\ attempts[m] <= attempts'[m]
<1>1. ASSUME attempts' = attempts, place'[m] = place[m] PROVE Counts /\ MessageMoves(m)
  BY <1>0, <1>1 DEF MessageMoves
<1>2. CASE QueueStep
  <2>1. ASSUME NEW x \in Msg, Submit(x) \/ Drop(x) \/ MsgTimeout(x) PROVE Counts /\ MessageMoves(m)
    BY <1>0, <2>1, SmoothFacts DEF Submit, Drop, MsgTimeout, MessageMoves
  <2>2. ASSUME NEW h \in Handler, NEW x \in Msg, HandleMessage(h, x) PROVE Counts /\ MessageMoves(m)
    <3>1. place' = [place EXCEPT ![x] = JudgerOf(h)] /\ attempts' = [attempts EXCEPT ![x] = @ + 1]
      BY <2>2 DEF HandleMessage
    <3> QED
      BY <1>0, <2>2, <3>1 DEF MessageMoves
  <2>3. ASSUME NEW h \in Handler, HandlerStep(h) PROVE Counts /\ MessageMoves(m)
    <3>1. CASE Finish(h) \/ Requeue(h)
      BY <1>0, <3>1 DEF Finish, Requeue, Return, Goto, MessageMoves
    <3>2. CASE ~Finish(h) /\ ~Requeue(h)
      <4>1. UNCHANGED queueVars
        BY <2>3, <3>2 DEF HandlerStep, Claim, SetExpire, Fetch, Execute, Release, Fail, Unclaim, Started
      <4> QED
        BY <1>1, <4>1 DEF queueVars
    <3> QED
      BY <3>1, <3>2
  <2>4. Counts /\ MessageMoves(m)
    <3> HIDE DEF Counts
    <3> QED
      BY <1>2, <2>1, <2>2, <2>3 DEF QueueStep, QueueNext
  <2> QED
    BY <1>0, <2>4
<1>3. CASE RestartStep \/ ScriptStep \/ ListenerStepNext \/ TimerStepNext \/ ForgetStep \/ UNCHANGED vars
  BY <1>0, <1>1, <1>3 DEF RestartStep, Restart, ScriptStep, ListenerStepNext, TimerStepNext, ForgetStep, queueState,
     queueVars, vars
<1> QED
  BY <1>0, <1>2, <1>3, SmoothFacts DEF Next, CrashStep, Crash

(* A handler at work after a step was so before, or has taken its message.  *)
LEMMA BusyMoves ==
    ASSUME TypeInv, Smooth, [Next]_vars, NEW h \in Handler, pc'[h] # "idle"
    PROVE  \/ /\ pc[h] # "idle" /\ job'[h] = job[h]
              /\ pc'[h] = pc[h] \/ (QueueStep /\ HandlerStep(h))
           \/ \E m \in Msg : /\ HandleMessage(h, m) /\ job'[h] = <<m, attempts'[m]>>
                             /\ place[m] = "ready" /\ place'[m] = JudgerOf(h)
<1>0. /\ place \in [Msg -> {"new", "ready", "gone"} \cup Judger] /\ job \in [Handler -> Delivery \cup {NoJob}]
      /\ pc \in [Handler -> Step]
  BY DEF TypeInv, TypeOK, QueueTypeOK
<1>1. HandlerStep(h) => pc[h] # "idle"
  BY DEF HandlerStep, Claim, SetExpire, Fetch, Execute, Release, Fail, Unclaim, Started, Finish, Requeue
<1>2. ASSUME NEW m \in Msg, HandleMessage(h, m)
      PROVE  job'[h] = <<m, attempts'[m]>> /\ place[m] = "ready" /\ place'[m] = JudgerOf(h)
  BY <1>0, <1>2 DEF HandleMessage, Deliverable
<1> QED
  BY <1>1, <1>2, HandlerMoves

LEMMA AloneStep ==
    ASSUME TypeInv, Deliveries, Smooth, Alone, [Next]_vars
    PROVE  Alone'
<1>0. \A h \in Handler : JudgerOf(h) \in Judger /\ JudgerOf(h) \notin {"new", "ready", "gone"}
  BY PlaceAssumption DEF Handler, JudgerOf
<1>1. \A h \in Handler : pc[h] # "idle" => job[h][1] \in Msg
  BY DEF Deliveries, Counted, Delivery
<1> SUFFICES ASSUME NEW h \in Handler, pc'[h] # "idle"
             PROVE  /\ place'[job'[h][1]] = JudgerOf(h)
                    /\ \A x \in Handler : pc'[x] # "idle" /\ job'[x][1] = job'[h][1] => x = h
  BY DEF Alone
<1>2. CASE pc[h] # "idle" /\ job'[h] = job[h]
  <2> DEFINE m == job[h][1]
  <2>1. m \in Msg /\ place[m] = JudgerOf(h)
    BY <1>1, <1>2 DEF Alone
  <2>2. \A x \in Handler : pc[x] # "idle" /\ job[x][1] = m => x = h
    BY <1>2 DEF Alone
  <2>3. \A x \in Handler : ~HandleMessage(x, m)
    BY <1>0, <2>1 DEF HandleMessage, Deliverable
  <2>4. place'[m] = place[m]
    BY <1>0, <2>1, <2>2, <2>3, MessagePlaces DEF MessageMoves
  <2>5. ASSUME NEW x \in Handler, pc'[x] # "idle", job'[x][1] = m PROVE x = h
    BY <2>2, <2>3, <2>5, BusyMoves
  <2> QED
    BY <1>2, <2>1, <2>4, <2>5
<1>3. ASSUME NEW m \in Msg, HandleMessage(h, m), job'[h] = <<m, attempts'[m]>>, place[m] = "ready",
             place'[m] = JudgerOf(h)
      PROVE  /\ place'[job'[h][1]] = JudgerOf(h)
             /\ \A x \in Handler : pc'[x] # "idle" /\ job'[x][1] = job'[h][1] => x = h
  <2>1. \A x \in Handler : x # h => pc'[x] = pc[x] /\ job'[x] = job[x]
    <3>1. /\ \E d : pc' = [pc EXCEPT ![h] = d]
          /\ \E d : job' = [job EXCEPT ![h] = d]
      BY <1>3 DEF HandleMessage, Goto
    <3> QED
      BY <3>1 DEF TypeInv, TypeOK, QueueTypeOK
  <2>2. \A x \in Handler : pc[x] # "idle" => job[x][1] # m
    BY <1>0, <1>3 DEF Alone
  <2> QED
    BY <1>3, <2>1, <2>2
<1> QED
  BY <1>2, <1>3, BusyMoves

LEMMA ClosingStep ==
    ASSUME TypeInv, Smooth, NEW h \in Handler, HandlerStep(h), Closing(h), pc'[h] # "idle"
    PROVE  Closing(h)'
<1>0. pc \in [Handler -> Step]
  BY DEF TypeInv, TypeOK, QueueTypeOK
<1>1. CASE Release(h)
  <2>1. Attempt(h) = MaxAttempts /\ job' = job
    BY <1>1 DEF Release, Closing
  <2> QED
    BY <1>0, <1>1, <2>1 DEF Release, Goto, Closing
<1>2. CASE Fail(h) \/ Unclaim(h) \/ Started(h)
  BY <1>0, <1>2 DEF Fail, Unclaim, Started, Goto, Closing
<1>3. CASE Finish(h)
  BY <1>0, <1>3 DEF Finish, Return, Goto
<1>4. CASE Claim(h) \/ SetExpire(h) \/ Fetch(h) \/ Execute(h) \/ Requeue(h)
  BY <1>4 DEF Claim, SetExpire, Fetch, Execute, Requeue, Closing
<1> QED
  BY <1>1, <1>2, <1>3, <1>4 DEF HandlerStep

LEMMA OneScriptStep ==
    ASSUME TypeInv, Deliveries, Smooth, Alone, OneScript, [Next]_vars
    PROVE  OneScript'
<1>0. /\ \A h \in Handler : JudgerOf(h) \in Judger /\ JudgerOf(h) \notin {"new", "ready", "gone"}
      /\ pc \in [Handler -> Step] /\ script \in [Run -> ScriptState]
      /\ \A r \in ValidRun : r \in Run /\ r[1] \in Msg /\ r[2] \in 1 .. MaxAttempts /\ Body[r[1]] \in Solution
  BY PlaceAssumption DEF Handler, JudgerOf, TypeInv, TypeOK, QueueTypeOK, SharedTypeOK, ValidRun, Run, SolutionOf
<1>1. ASSUME NEW m \in Msg, Body[m] \in Solution, Judged(m) PROVE Judged(m)'
  <2>1. ASSUME NEW h \in Handler, HandleMessage(h, m), pc'[h] # "idle" PROVE Closing(h)'
    <3>1. place[m] = "ready" /\ attempts[m] >= MaxAttempts /\ attempts' = [attempts EXCEPT ![m] = @ + 1]
      BY <1>1, <2>1 DEF HandleMessage, Deliverable, Judged
    <3>2. attempts'[m] > MaxAttempts
      BY <3>1, MaxAttemptsType DEF TypeInv, TypeOK, QueueTypeOK
    <3>3. Body[m] # Malformed
      <4>1. Malformed \notin Solution
        BY JudgerBaseAssumption
      <4> QED
        BY <1>1, <4>1
    <3>4. Goto(h, "fail")
      BY <2>1, <3>2, <3>3, MaxAttemptsType DEF HandleMessage
    <3> QED
      BY <1>0, <3>4 DEF Goto, Closing
  <2>2. ASSUME NEW h \in Handler, pc'[h] # "idle", job'[h][1] = m PROVE Closing(h)'
    <3>1. CASE pc[h] # "idle" /\ job'[h] = job[h] /\ pc'[h] = pc[h]
      BY <1>1, <2>2, <3>1 DEF Judged, Closing, Attempt
    <3>2. CASE pc[h] # "idle" /\ job'[h] = job[h] /\ HandlerStep(h)
      BY <1>1, <2>2, <3>2, ClosingStep DEF Judged
    <3> QED
      BY <2>1, <2>2, <3>1, <3>2, BusyMoves
  <2>3. \A h \in Handler : pc[h] = "requeue" => job[h][1] # m
    BY <1>1 DEF Judged, Closing
  <2>4. place'[m] # "new" /\ (place'[m] = "ready" => attempts'[m] >= MaxAttempts)
    BY <1>0, <1>1, <2>3, MessagePlaces, MaxAttemptsType DEF Judged, MessageMoves
  <2> QED
    BY <2>2, <2>4 DEF Judged
<1>2. ASSUME NEW h \in Handler, NEW d \in ValidRun, Execute(h), job[h] = d, script' # script
      PROVE  Judged(d[1])' /\ \A r \in ValidRun : script[r] # "none" => r[1] # d[1]
  <2>0. PICK m \in Msg : m = d[1]
    BY <1>0
  <2>1. pc[h] = "execute" /\ place' = place /\ job' = job /\ attempts' = attempts
    BY <1>2 DEF Execute, queueVars
  <2>2. place[m] = JudgerOf(h) /\ \A x \in Handler : pc[x] # "idle" /\ job[x][1] = m => x = h
    BY <1>0, <1>2, <2>0, <2>1 DEF Alone
  <2>3. Goto(h, "started") \/ (MaxAttempts = 1 /\ Goto(h, "release"))
    BY <1>2 DEF Execute, Smooth
  <2>4. Attempt(h)' = d[2] /\ d[2] \in 1 .. MaxAttempts
    BY <1>0, <1>2, <2>1 DEF Attempt
  <2>5. Closing(h)'
    BY <1>0, <2>3, <2>4 DEF Goto, Closing
  <2>6. \A x \in Handler : x # h => pc'[x] = pc[x]
    BY <1>0, <2>3 DEF Goto
  <2>7. Judged(m)'
    BY <1>0, <2>1, <2>2, <2>5, <2>6 DEF Judged
  <2>8. \A r \in ValidRun : script[r] # "none" /\ r[1] = m => FALSE
    BY <1>2, <2>0, <2>1 DEF OneScript, Judged, Closing
  <2> QED
    BY <2>0, <2>7, <2>8
<1>3. ASSUME NEW r \in ValidRun, script[r] = "none", script'[r] # "none"
      PROVE  \E h \in Handler : Execute(h) /\ job[h] = r /\ script' # script
  BY <1>0, <1>3, ScriptMoves
<1>4. ASSUME NEW r \in ValidRun, script'[r] # "none" PROVE Judged(r[1])'
  BY <1>0, <1>1, <1>2, <1>3, <1>4 DEF OneScript
<1>5. ASSUME NEW r1 \in ValidRun, NEW r2 \in ValidRun, script'[r1] # "none", script'[r2] # "none", r1[1] = r2[1],
             script[r1] = "none"
      PROVE  r1 = r2
  <2>1. PICK h \in Handler : Execute(h) /\ job[h] = r1 /\ script' # script
    BY <1>3, <1>5
  <2>2. script[r2] = "none"
    BY <1>2, <1>5, <2>1
  <2>3. script' = [script EXCEPT ![r1] = "live"]
    BY <2>1 DEF Execute, HandleExecuteCommand
  <2> QED
    BY <1>0, <1>5, <2>2, <2>3
<1>6. ASSUME NEW r1 \in ValidRun, NEW r2 \in ValidRun, script'[r1] # "none", script'[r2] # "none", r1[1] = r2[1]
      PROVE  r1 = r2
  BY <1>5, <1>6 DEF OneScript
<1> QED
  BY <1>4, <1>6 DEF OneScript

-----------------------------------------------------------------------------
LEMMA EntriesOfAppend ==
    ASSUME NEW S, NEW q \in Seq(S), NEW e \in S
    PROVE  Entries(Append(q, e)) = Entries(q) \cup {e}
<1> DEFINE new == Append(q, e)
<1>1. /\ Len(q) \in Nat /\ Len(new) = Len(q) + 1
      /\ \A i \in 1 .. Len(q) : new[i] = q[i]
      /\ new[Len(q) + 1] = e
  BY AppendProperties
<1> HIDE DEF new
<1>2. \A i \in 1 .. Len(new) : (i \in 1 .. Len(q) /\ new[i] = q[i]) \/ new[i] = e
  BY <1>1
<1>3. Entries(new) = Entries(q) \cup {e}
  BY <1>1, <1>2 DEF Entries
<1> QED
  BY <1>3 DEF new

LEMMA EntriesOfTail ==
    ASSUME NEW S, NEW q \in Seq(S), q # <<>>
    PROVE  Entries(q) = Entries(Tail(q)) \cup {Head(q)}
<1> DEFINE t == Tail(q)
           e == Head(q)
<1>1. /\ Len(q) \in Nat \ {0} /\ Len(t) = Len(q) - 1 /\ e = q[1]
      /\ \A i \in 1 .. Len(t) : t[i] = q[i + 1]
  BY HeadTailProperties
<1> HIDE DEF t, e
<1>2. \A i \in 1 .. Len(q) : q[i] = e \/ (i - 1 \in 1 .. Len(t) /\ q[i] = t[i - 1])
  BY <1>1
<1>3. \A i \in 1 .. Len(t) : i + 1 \in 1 .. Len(q) /\ t[i] = q[i + 1]
  BY <1>1
<1>4. 1 \in 1 .. Len(q) /\ q[1] = e
  BY <1>1
<1>5. Entries(q) = Entries(t) \cup {e}
  <2>1. Entries(q) \subseteq Entries(t) \cup {e}
    BY <1>2 DEF Entries
  <2>2. Entries(t) \subseteq Entries(q) /\ e \in Entries(q)
    BY <1>3, <1>4 DEF Entries
  <2> QED
    BY <2>1, <2>2
<1> QED
  BY <1>5 DEF t, e

LEMMA ListenedStep ==
    ASSUME TypeInv, Smooth, Listened, [Next]_vars
    PROVE  Listened'
<1>0. lpc \in [Listener -> ListenerStep] /\ got \in [Listener -> Upload \cup Exit \cup {Nothing}]
  BY DEF TypeInv, TypeOK, ResultsTypeOK
<1>1. \A j \in Judger : up'[j]
  <2>1. CASE QueueStep
    BY <2>1 DEF QueueStep, QueueNext, Submit, Drop, MsgTimeout, HandleMessage, HandlerStep, Claim, SetExpire, Fetch,
       Execute, Release, Fail, Unclaim, Started, Finish, Requeue, Listened
  <2>2. CASE ScriptStep \/ ListenerStepNext \/ TimerStepNext \/ ForgetStep \/ UNCHANGED vars
    BY <2>2 DEF ScriptStep, ListenerStepNext, TimerStepNext, ForgetStep, queueState, vars, Listened
  <2> QED
    BY <2>1, <2>2, SmoothFacts DEF Next, RestartStep, Restart, CrashStep, Crash, Listened
<1>2. ASSUME NEW l \in Listener, ListenerNext(l)
      PROVE  /\ lpc'[l] # "unmark"
             /\ lpc'[l] \in {"publish", "unclaim"} => got'[l] = First(l)'.body
  <2>1. CASE Check(l) \/ ExpireMark(l) \/ ReadFails(l) \/ Unmark(l) \/ UnclaimReported(l)
    BY <1>0, <2>1, SmoothFacts DEF Check, ExpireMark, ReadFails, Unmark, UnclaimReported, Proceed, Skip
  <2>2. CASE Read(l)
    BY <1>0, <2>2 DEF Read, Skip, Contents, Smooth, First
  <2>3. CASE Publish(l)
    BY <1>0, <2>3 DEF Publish, Proceed, Skip, First, Listened
  <2> QED
    BY <1>2, <2>1, <2>2, <2>3 DEF ListenerNext
<1>3. ASSUME NEW l \in Listener, lpc'[l] # "check"
      PROVE  /\ lpc'[l] # "unmark"
             /\ lpc'[l] \in {"publish", "unclaim"} => got'[l] = First(l)'.body
  BY <1>2, <1>3, WorkKept DEF Listened
<1> QED
  BY <1>1, <1>3 DEF Listened

(* What becomes of the notifications of results: with every result all      *)
(* judgers get one more.                                                    *)
LEMMA InboxMoves ==
    ASSUME TypeInv, Smooth, Listened, [Next]_vars, NEW j \in Judger
    PROVE  \/ ResultEvents(j)' = ResultEvents(j)
           \/ /\ ListenerStepNext /\ ListenerNext(<<j, "result">>) /\ ResultEvents(j) # <<>>
              /\ ResultEvents(j)' = Tail(ResultEvents(j))
           \/ \E r \in ValidRun, c \in Upload :
                 /\ ScriptStep /\ StoreResult(r, c, up)
                 /\ ResultEvents(j)' = Append(ResultEvents(j), ResultEvent(r, c))
<1> DEFINE l == <<j, "result">>
<1>0. /\ inbox \in [Listener -> Seq(Event)] /\ l \in Listener
      /\ ResultEvents(j) = inbox[l] /\ ResultEvents(j)' = inbox'[l]
  BY DEF TypeInv, TypeOK, ResultsTypeOK, Listener, Listening, ResultEvents
<1>1. CASE ListenerStepNext
  <2>1. PICK x \in Listener : ListenerNext(x)
    BY <1>1 DEF ListenerStepNext
  <2>2. x # l => inbox'[l] = inbox[l]
    BY <1>0, <2>1, ListenerFrame
  <2>3. x = l => inbox[l] # <<>> /\ (inbox'[l] = inbox[l] \/ inbox'[l] = Tail(inbox[l]))
    BY <1>0, <2>1, ListenerFrame
  <2> QED
    BY <1>0, <1>1, <2>1, <2>2, <2>3
<1>2. CASE ScriptStep
  <2>1. PICK r \in ValidRun : ScriptNext(r, up)
    BY <1>2 DEF ScriptStep
  <2>2. ASSUME NEW c \in Upload, StoreResult(r, c, up)
        PROVE  ResultEvents(j)' = Append(ResultEvents(j), ResultEvent(r, c))
    <3>1. Notify(up, "result", ResultEvent(r, c))
      BY <2>2 DEF StoreResult, ResultEvent
    <3>2. up[j]
      BY DEF Listened
    <3> QED
      BY <1>0, <3>1, <3>2 DEF Notify
  <2>3. ASSUME NEW e, NEW f, Notify(up, "command", f) PROVE inbox'[l] = inbox[l]
    BY <1>0, <2>3 DEF Notify
  <2> QED
    BY <1>0, <1>2, <2>1, <2>2, <2>3 DEF ScriptNext, EndScript, StoreExit, listenerVars
<1>3. CASE QueueStep \/ RestartStep \/ TimerStepNext \/ ForgetStep \/ UNCHANGED vars
  <2>1. inbox' = inbox
    BY <1>3 DEF QueueStep, RestartStep, TimerStepNext, ForgetStep, TimerNext, Wake, ExpireWoken, ReleaseWoken,
       ReportWoken, UnclaimWoken, resultsState, vars, listenerVars
  <2> QED
    BY <1>0, <2>1
<1> QED
  BY <1>1, <1>2, <1>3, SmoothFacts DEF Next, CrashStep, Crash

(* A script that runs stores results.                                       *)
LEMMA UploadMoves ==
    ASSUME TypeInv, [Next]_vars, NEW r \in Run
    PROVE  \/ uploaded'[r] = uploaded[r]
           \/ \E c \in Upload : /\ ScriptStep /\ r \in ValidRun /\ StoreResult(r, c, up) /\ c \notin uploaded[r]
                                /\ uploaded'[r] = uploaded[r] \cup {c}
<1>0. uploaded \in [Run -> SUBSET Upload]
  BY DEF TypeInv, TypeOK, SharedTypeOK
<1>1. CASE QueueStep
  <2>1. \A h \in Handler, m \in Msg : HandleMessage(h, m) => uploaded' = uploaded
    BY DEF HandleMessage, sharedVars
  <2>2. \A m \in Msg : Submit(m) \/ Drop(m) \/ MsgTimeout(m) => uploaded' = uploaded
    BY DEF Submit, Drop, MsgTimeout, sharedVars
  <2>3. \A h \in Handler : HandlerStep(h) => uploaded' = uploaded
    BY DEF HandlerStep, Claim, SetExpire, Fetch, Execute, Release, Fail, Unclaim, Started, Finish, Requeue,
       scriptVars, sharedVars
  <2> QED
    BY <1>1, <2>1, <2>2, <2>3 DEF QueueStep, QueueNext
<1>2. CASE ScriptStep
  <2>1. PICK x \in ValidRun : ScriptNext(x, up)
    BY <1>2 DEF ScriptStep
  <2>2. CASE uploaded' = uploaded
    BY <2>2
  <2>3. ASSUME NEW c \in Upload, StoreResult(x, c, up)
        PROVE  c \notin uploaded[x] /\ uploaded' = [uploaded EXCEPT ![x] = @ \cup {c}]
    BY <2>3 DEF StoreResult
  <2> QED
    BY <1>0, <1>2, <2>1, <2>2, <2>3 DEF ScriptNext, EndScript, StoreExit
<1>3. CASE RestartStep \/ CrashStep \/ ListenerStepNext \/ TimerStepNext \/ ForgetStep \/ UNCHANGED vars
  BY <1>3 DEF RestartStep, Restart, CrashStep, Crash, ListenerStepNext, ListenerNext, Check, ExpireMark, Read,
     ReadFails, Unmark, Publish, UnclaimReported, TimerStepNext, TimerNext, Wake, ExpireWoken, ReleaseWoken,
     ReportWoken, UnclaimWoken, ForgetStep, ForgetClaim, ForgetEvent, vars, sharedVars, scriptVars
<1> QED
  BY <1>1, <1>2, <1>3 DEF Next

(* The event of a listener that handles a result.                           *)
LEMMA ResultMark ==
    ASSUME TypeInv, NEW l \in Listener, inbox[l] # <<>>, NEW s, NEW c \in Upload, Mark(l) = <<s, c>>
    PROVE  /\ l[1] \in Judger /\ l = <<l[1], "result">> /\ inbox[l] = ResultEvents(l[1])
           /\ First(l).run \in ValidRun /\ SolutionOf(First(l).run) = s
           /\ First(l) = ResultEvent(First(l).run, c)
           /\ First(l) \in Entries(ResultEvents(l[1]))
<1>1. First(l).body = c /\ EventSolution(l) = s
  BY DEF Mark
<1>2. l[1] \in Judger /\ l = <<l[1], "result">>
  <2>1. c \notin Exit
    BY ContentsAssumption DEF Upload, Exit
  <2>2. l[2] = "result"
    BY <1>1, <2>1, HeadFacts DEF Objects
  <2> QED
    BY <2>2 DEF Listener
<1>3. inbox[l] = ResultEvents(l[1])
  BY <1>2 DEF ResultEvents
<1>4. First(l).run \in ValidRun /\ SolutionOf(First(l).run) = s
  BY <1>1, HeadFacts DEF ValidRun, EventSolution
<1>5. First(l) \in Event /\ First(l) \in Entries(inbox[l])
  BY HeadFacts, ElementOfSeq DEF Entries
<1>6. First(l) = [run |-> First(l).run, body |-> First(l).body]
  BY <1>5 DEF Event
<1> QED
  BY <1>1, <1>2, <1>3, <1>4, <1>5, <1>6 DEF ResultEvent

(* A new mark is that of the event a listener goes on with.                 *)
LEMMA NewMark ==
    ASSUME TypeInv, Smooth, [Next]_vars, NEW k \in EventKey, ~Exists(seen, k), Exists(seen, k)'
    PROVE  \E l \in Listener : /\ ListenerStepNext /\ Check(l) /\ Mark(l) = k
                               /\ lpc'[l] = "expire" /\ inbox' = inbox /\ inbox[l] # <<>>
<1>0. seen \in [EventKey -> KeyState] /\ lpc \in [Listener -> ListenerStep]
  BY DEF TypeInv, TypeOK, SharedTypeOK, ResultsTypeOK
<1>1. ListenerStepNext
  BY SeenKept, SmoothFacts DEF Exists
<1>2. PICK l \in Listener : ListenerNext(l)
  BY <1>1 DEF ListenerStepNext
<1>3. ~ExpireMark(l)
  BY <1>0 DEF ExpireMark, Expire, Exists
<1>4. ~Unmark(l)
  BY <1>0 DEF Unmark, setRequestNotExist, Del, Exists
<1>5. ~(Read(l) \/ ReadFails(l) \/ Publish(l) \/ UnclaimReported(l))
  BY DEF Read, ReadFails, Publish, UnclaimReported, sharedVars, Exists
<1>6. Check(l)
  BY <1>2, <1>3, <1>4, <1>5 DEF ListenerNext
<1>7. PICK answer \in checkIfRequestExists(seen, Mark(l)) :
         /\ seen' = AfterIncr(seen, Mark(l), answer)
         /\ IF answer = "first" THEN Proceed(l, "expire") ELSE Skip(l)
  BY <1>6 DEF Check
<1>8. Mark(l) = k
  BY <1>0, <1>7 DEF AfterIncr, Incr, Exists
<1>9. answer = "first"
  BY <1>7, <1>8, SmoothFacts DEF checkIfRequestExists
<1> QED
  BY <1>0, <1>1, <1>6, <1>7, <1>8, <1>9, ListenerFrame, <1>2 DEF Proceed

(* Only one script was ever started for a solution.                         *)
LEMMA Sole ==
    ASSUME Smooth, OneScript, NEW r1 \in ValidRun, NEW r2 \in ValidRun,
           script[r1] # "none", script[r2] # "none", SolutionOf(r1) = SolutionOf(r2)
    PROVE  r1 = r2
<1>1. /\ r1[1] \in Msg /\ r2[1] \in Msg
      /\ Body[r1[1]] \in Solution /\ Body[r1[1]] = Body[r2[1]]
  BY DEF ValidRun, Run, SolutionOf
<1>2. r1[1] = r2[1]
  BY <1>1 DEF Smooth
<1> QED
  BY <1>2 DEF OneScript

LEMMA StoredStep ==
    ASSUME TypeInv, Smooth, Listened, Stored, [Next]_vars
    PROVE  Stored'
<1>0. /\ inbox \in [Listener -> Seq(Event)] /\ uploaded \in [Run -> SUBSET Upload]
      /\ script \in [Run -> ScriptState]
      /\ \A j \in Judger : ResultEvents(j) \in Seq(Event)
  BY DEF TypeInv, TypeOK, SharedTypeOK, ResultsTypeOK, ResultEvents, Listener, Listening
<1>1. \A r \in Run : uploaded[r] \subseteq uploaded'[r]
  BY UploadMoves
<1>2. ASSUME NEW r \in Run, uploaded'[r] # {} PROVE script'[r] # "none"
  <2>1. script[r] # "none"
    BY <1>2, UploadMoves DEF Stored, StoreResult
  <2> QED
    BY <2>1, ScriptMoves
<1>3. ASSUME NEW j \in Judger, NEW e \in Entries(ResultEvents(j)') PROVE e.body \in uploaded'[e.run]
  <2>1. CASE e \in Entries(ResultEvents(j))
    <3>1. e \in Event
      BY <1>0, <2>1, ElementOfSeq DEF Entries
    <3>2. e.run \in Run
      BY <3>1 DEF Event
    <3> QED
      BY <1>1, <2>1, <3>2 DEF Stored
  <2>2. CASE ResultEvents(j)' = Tail(ResultEvents(j)) /\ ResultEvents(j) # <<>>
    <3>1. e \in Entries(ResultEvents(j))
      BY <1>0, <1>3, <2>2, EntriesOfTail
    <3> QED
      BY <2>1, <3>1
  <2>3. ASSUME NEW r \in ValidRun, NEW c \in Upload, StoreResult(r, c, up),
               ResultEvents(j)' = Append(ResultEvents(j), ResultEvent(r, c))
        PROVE  e.body \in uploaded'[e.run]
    <3>1. r \in Run /\ ResultEvent(r, c) \in Event
      BY DEF ValidRun, ResultEvent, Event
    <3>2. e \in Entries(ResultEvents(j)) \/ e = ResultEvent(r, c)
      BY <1>0, <1>3, <2>3, <3>1, EntriesOfAppend
    <3>3. c \in uploaded'[r]
      BY <1>0, <2>3, <3>1 DEF StoreResult
    <3> QED
      BY <2>1, <3>2, <3>3 DEF ResultEvent
  <2> QED
    BY <1>3, <2>1, <2>2, <2>3, InboxMoves
<1>4. ASSUME NEW s \in Solution, NEW c \in Upload, Exists(seen, <<s, c>>)'
      PROVE  \E r \in RunsOf(s) : c \in uploaded'[r]
  <2>1. <<s, c>> \in EventKey
    BY DEF EventKey
  <2>2. CASE Exists(seen, <<s, c>>)
    BY <1>1, <2>2 DEF Stored, RunsOf
  <2>3. CASE ~Exists(seen, <<s, c>>)
    <3>1. PICK l \in Listener : Mark(l) = <<s, c>> /\ inbox[l] # <<>>
      BY <1>4, <2>1, <2>3, NewMark
    <3> DEFINE r == First(l).run
    <3>2. /\ l[1] \in Judger /\ r \in ValidRun /\ SolutionOf(r) = s
          /\ ResultEvent(r, c) \in Entries(ResultEvents(l[1]))
      BY <3>1, ResultMark
    <3> HIDE DEF r
    <3>3. c \in uploaded[r] /\ r \in Run
      BY <3>2 DEF Stored, ResultEvent, ValidRun
    <3> QED
      BY <1>1, <3>2, <3>3 DEF RunsOf
  <2> QED
    BY <2>2, <2>3
<1>5. \A j \in Judger : \A e \in Entries(ResultEvents(j)') : e.body \in uploaded'[e.run]
  BY <1>3
<1> QED
  BY <1>2, <1>4, <1>5 DEF Stored, Entries, ResultEvents, RunsOf

-----------------------------------------------------------------------------
LEMMA ClosedStays ==
    ASSUME TypeInv, Smooth, [Next]_vars, NEW s \in Solution, Closed(s)
    PROVE  Closed(s)'
<1>1. <<s, ExitOK>> \in EventKey
  BY DEF EventKey, Exit
<1> QED
  BY <1>1, ShutKept, SmoothFacts DEF Closed

(* A timer is armed by a listener that closes the solution with it.         *)
LEMMA Arming ==
    ASSUME TypeInv, Smooth, MarkOwned, [Next]_vars, NEW l \in Listener, Read(l), Contents(l) = ExitOK
    PROVE  \E r \in ValidRun, s \in Solution :
               /\ r = First(l).run /\ s = SolutionOf(r) /\ ~Closed(s) /\ Closed(s)'
               /\ timer' = [timer EXCEPT ![<<l[1], r>>] = "sleep"]
<1>0. lpc \in [Listener -> ListenerStep]
  BY DEF TypeInv, TypeOK, ResultsTypeOK
<1>1. /\ lpc[l] = "read" /\ inbox[l] # <<>> /\ seen' = seen
      /\ timer' = [timer EXCEPT ![<<l[1], First(l).run>>] = "sleep"]
      /\ lpc' = [lpc EXCEPT ![l] = "check"]
  BY DEF Read, Skip, sharedVars, TypeInv, Busy
<1>2. First(l).body = ExitOK
  BY DEF Contents, Smooth
<1>3. PICK s \in Solution : s = EventSolution(l)
  BY <1>1, HeadFacts
<1>4. First(l).run \in ValidRun /\ SolutionOf(First(l).run) = s /\ Mark(l) = <<s, ExitOK>>
  BY <1>1, <1>2, <1>3, HeadFacts DEF ValidRun, EventSolution, Mark
<1>5. ~Closed(s)
  BY <1>1, <1>4 DEF Closed, Shut
<1>6. Closed(s)'
  <2>1. Exists(seen, <<s, ExitOK>>)'
    BY <1>1, <1>4 DEF MarkOwned, Exists
  <2>2. ASSUME NEW x \in Listener, lpc'[x] \in {"expire", "read", "unmark"} PROVE Mark(x)' # <<s, ExitOK>>
    <3>1. x # l /\ lpc'[x] = lpc[x]
      BY <1>0, <1>1, <2>2
    <3>2. Mark(x)' = Mark(x)
      BY <2>2, MarkKept
    <3> QED
      BY <1>1, <1>4, <2>2, <3>1, <3>2 DEF MarkOwned
  <2> QED
    BY <2>1, <2>2 DEF Closed, Shut
<1>7. PICK r \in ValidRun : r = First(l).run
  BY <1>4
<1> QED
  BY <1>1, <1>4, <1>5, <1>6, <1>7

LEMMA OneTimerStep ==
    ASSUME TypeInv, Smooth, MarkOwned, OneTimer, [Next]_vars
    PROVE  OneTimer'
<1>0. /\ timer \in [Timer -> TimerStep]
      /\ \A t \in Timer : t[2] \in Run /\ t = <<t[1], t[2]>>
      /\ \A r \in ValidRun : SolutionOf(r) \in Solution
  BY DEF TypeInv, TypeOK, ResultsTypeOK, Timer, ValidRun
<1>1. ASSUME NEW t \in Timer, timer'[t] # "off", timer[t] # "off"
      PROVE  t[2] \in ValidRun /\ Closed(SolutionOf(t[2]))'
  <2>1. PICK s \in Solution : t[2] \in ValidRun /\ s = SolutionOf(t[2]) /\ Closed(s)
    BY <1>0, <1>1 DEF OneTimer
  <2>2. Closed(s)'
    BY <2>1, ClosedStays
  <2> QED
    BY <2>1, <2>2
<1>2. ASSUME NEW t \in Timer, timer'[t] # "off", timer[t] = "off"
      PROVE  /\ t[2] \in ValidRun /\ Closed(SolutionOf(t[2]))'
             /\ ~Closed(SolutionOf(t[2]))
             /\ \A x \in Timer : x # t => timer'[x] = timer[x]
  <2>1. PICK l \in Listener : Read(l) /\ Contents(l) = ExitOK /\ t = <<l[1], First(l).run>>
    BY <1>2, TimerMoves DEF TimerNext, Wake, ExpireWoken, ReleaseWoken, ReportWoken, UnclaimWoken
  <2>2. PICK r \in ValidRun, s \in Solution :
               /\ r = First(l).run /\ s = SolutionOf(r) /\ ~Closed(s) /\ Closed(s)'
               /\ timer' = [timer EXCEPT ![<<l[1], r>>] = "sleep"]
    BY <2>1, Arming
  <2>3. t[2] = r /\ t = <<l[1], r>>
    BY <2>1, <2>2
  <2> QED
    BY <1>0, <2>2, <2>3
<1>3. \A t \in Timer : timer'[t] # "off" => t[2] \in ValidRun /\ Closed(SolutionOf(t[2]))'
  BY <1>1, <1>2
<1>4. ASSUME NEW t1 \in Timer, NEW t2 \in Timer, timer'[t1] # "off", timer'[t2] # "off",
             SolutionOf(t1[2]) = SolutionOf(t2[2])
      PROVE  t1 = t2
  <2>1. CASE timer[t1] # "off" /\ timer[t2] # "off"
    BY <1>4, <2>1 DEF OneTimer
  <2>2. CASE timer[t1] = "off"
    <3>1. ~Closed(SolutionOf(t2[2])) /\ \A x \in Timer : x # t1 => timer'[x] = timer[x]
      BY <1>2, <1>4, <2>2
    <3> QED
      BY <1>4, <3>1 DEF OneTimer
  <2>3. CASE timer[t2] = "off"
    <3>1. ~Closed(SolutionOf(t1[2])) /\ \A x \in Timer : x # t2 => timer'[x] = timer[x]
      BY <1>2, <1>4, <2>3
    <3> QED
      BY <1>4, <3>1 DEF OneTimer
  <2> QED
    BY <2>1, <2>2, <2>3
<1> QED
  BY <1>3, <1>4 DEF OneTimer

(* Who makes a claim: a handler that begins, and the check that finds none. *)
LEMMA ClaimGain ==
    ASSUME TypeInv, [Next]_vars, NEW s \in Solution, ~Exists(claim, s), Exists(claim, s)'
    PROVE  \/ \E h \in Handler : Claim(h) /\ JobSolution(h) = s
           \/ \E t \in Timer : Wake(t) /\ SolutionOf(t[2]) = s /\ timer' = [timer EXCEPT ![t] = "expire"]
<1>0. claim \in [ClaimKey -> KeyState] /\ s \in ClaimKey /\ claim[s] = "absent" /\ claim'[s] # "absent"
  BY DEF TypeInv, TypeOK, SharedTypeOK, ClaimKey, Exists
<1>1. \A k, answer : claim' = AfterIncr(claim, k, answer) => k = s /\ answer # "error"
  BY <1>0 DEF AfterIncr, Incr
<1>2. \A k : claim' \notin AfterExpire(claim, k)
  BY <1>0 DEF AfterExpire, Expire
<1>3. \A k : claim' \notin setRequestNotExist(claim, k)
  BY <1>0 DEF setRequestNotExist, Del
<1>4. claim' # claim
  BY <1>0
<1>5. CASE QueueStep
  <2>1. \A h \in Handler, m \in Msg : ~HandleMessage(h, m)
    BY <1>4 DEF HandleMessage, sharedVars
  <2>2. \A m \in Msg : ~(Submit(m) \/ Drop(m) \/ MsgTimeout(m))
    BY <1>4 DEF Submit, Drop, MsgTimeout, sharedVars
  <2>3. \A h \in Handler : Claim(h) => JobSolution(h) = s
    BY <1>1 DEF Claim
  <2>4. \A h \in Handler : HandlerStep(h) => Claim(h)
    BY <1>2, <1>3, <1>4 DEF HandlerStep, SetExpire, Fetch, Execute, Release, Fail, Unclaim, Started, Finish,
       Requeue, sharedVars
  <2> QED
    BY <1>5, <2>1, <2>2, <2>3, <2>4 DEF QueueStep, QueueNext
<1>6. CASE TimerStepNext
  <2>1. PICK t \in Timer : TimerNext(t)
    BY <1>6 DEF TimerStepNext
  <2>2. Wake(t)
    BY <1>2, <1>3, <1>4, <2>1 DEF TimerNext, ExpireWoken, ReleaseWoken, ReportWoken, UnclaimWoken
  <2>3. PICK answer \in checkIfRequestExists(claim, SolutionOf(t[2])) :
           /\ claim' = AfterIncr(claim, SolutionOf(t[2]), answer)
           /\ Set(t, AfterWake(answer))
    BY <2>2 DEF Wake
  <2>4. SolutionOf(t[2]) = s /\ answer = "first"
    BY <1>0, <1>1, <2>3 DEF checkIfRequestExists, Exists
  <2> QED
    BY <2>2, <2>3, <2>4 DEF Set, AfterWake
<1>7. CASE ListenerStepNext
  BY <1>3, <1>4, <1>7 DEF ListenerStepNext, ListenerNext, Check, ExpireMark, Read, ReadFails, Unmark, Publish,
     UnclaimReported, sharedVars
<1>8. CASE RestartStep \/ CrashStep \/ ScriptStep \/ ForgetStep \/ UNCHANGED vars
  <2>1. \A k \in ClaimKey : ~ForgetClaim(k)
    BY <1>0, <1>3 DEF ForgetClaim, setRequestNotExist
  <2> QED
    BY <1>4, <1>8, <2>1 DEF RestartStep, Restart, CrashStep, Crash, ScriptStep, ScriptNext, StoreResult, EndScript,
       StoreExit, ForgetStep, ForgetEvent, vars, sharedVars
<1> QED
  BY <1>5, <1>6, <1>7, <1>8 DEF Next

(* A listener at work goes on with its event, unless it is its own turn.    *)
LEMMA StillAtWork ==
    ASSUME TypeInv, Smooth, [Next]_vars, NEW l \in Listener, lpc[l] # "check", ~ListenerNext(l)
    PROVE  lpc'[l] = lpc[l] /\ First(l)' = First(l)
<1>0. inbox \in [Listener -> Seq(Event)] /\ inbox[l] # <<>>
  BY DEF TypeInv, TypeOK, ResultsTypeOK, Busy
<1>1. CASE ListenerStepNext
  <2>1. PICK x \in Listener : ListenerNext(x)
    BY <1>1 DEF ListenerStepNext
  <2>2. lpc'[l] = lpc[l] /\ inbox'[l] = inbox[l]
    BY <2>1, ListenerFrame
  <2> QED
    BY <2>2 DEF First
<1>2. CASE ~ListenerStepNext
  <2>1. lpc' = lpc
    BY <1>2, SmoothFacts DEF Next, QueueStep, RestartStep, CrashStep, Crash, ScriptStep, ScriptNext, StoreResult, EndScript,
       StoreExit, TimerStepNext, TimerNext, Wake, ExpireWoken, ReleaseWoken, ReportWoken, UnclaimWoken, ForgetStep,
       resultsState, listenerVars, vars
  <2> QED
    BY <2>1, WorkKept
<1> QED
  BY <1>1, <1>2

LEMMA AwaitedKept ==
    ASSUME TypeInv, Smooth, MarkOwned, [Next]_vars, NEW r \in ValidRun, Awaited(r)'
    PROVE  Awaited(r)
<1>1. PICK s \in Solution : s = SolutionOf(r)
  BY DEF ValidRun
<1>2. CASE ~Closed(s)'
  BY <1>1, <1>2, ClosedStays DEF Awaited
<1>3. ASSUME NEW j \in Judger, timer'[<<j, r>>] = "sleep" PROVE Awaited(r)
  <2>1. <<j, r>> \in Timer
    BY DEF Timer, ValidRun
  <2>2. CASE timer[<<j, r>>] = "sleep"
    BY <2>2 DEF Awaited
  <2>3. ASSUME NEW l \in Listener, Read(l), Contents(l) = ExitOK, <<j, r>> = <<l[1], First(l).run>>
        PROVE  Awaited(r)
    <3>1. PICK q \in ValidRun, x \in Solution :
               /\ q = First(l).run /\ x = SolutionOf(q) /\ ~Closed(x) /\ Closed(x)'
               /\ timer' = [timer EXCEPT ![<<l[1], q>>] = "sleep"]
      BY <2>3, Arming
    <3>2. q = r /\ x = s
      BY <1>1, <2>3, <3>1
    <3> QED
      BY <1>1, <3>1, <3>2 DEF Awaited
  <2>4. ~TimerNext(<<j, r>>) \/ timer'[<<j, r>>] = timer[<<j, r>>]
    <3>1. timer \in [Timer -> TimerStep]
      BY DEF TypeInv, TypeOK, ResultsTypeOK
    <3> QED
      BY <1>3, <2>1, <3>1 DEF TimerNext, Wake, ExpireWoken, ReleaseWoken, ReportWoken, UnclaimWoken, Set, AfterWake
  <2> QED
    BY <1>3, <2>1, <2>2, <2>3, <2>4, TimerMoves
<1> QED
  BY <1>1, <1>2, <1>3 DEF Awaited

(* While the check of a script is to come, no claim of its solution is made.*)
LEMMA NoNewClaim ==
    ASSUME TypeInv, Deliveries, Smooth, OneScript, OneTimer, [Next]_vars,
           NEW r \in ValidRun, script[r] # "none", Awaited(r)', Exists(claim, SolutionOf(r))'
    PROVE  Exists(claim, SolutionOf(r))
<1>0. /\ r[1] \in Msg /\ SolutionOf(r) \in Solution /\ SolutionOf(r) = Body[r[1]] /\ r \in Run
  BY DEF ValidRun, Run, SolutionOf
<1>1. ASSUME NEW h \in Handler, Claim(h), JobSolution(h) = SolutionOf(r) PROVE FALSE
  <2>1. pc[h] = "claim"
    BY <1>1 DEF Claim
  <2>2. job[h][1] \in Msg
    BY <2>1 DEF Deliveries, Counted, Delivery
  <2>3. Body[job[h][1]] \in Solution /\ Body[job[h][1]] = Body[r[1]]
    BY <1>0, <1>1 DEF JobSolution
  <2>4. job[h][1] = r[1]
    BY <1>0, <2>2, <2>3 DEF Smooth
  <2> QED
    BY <2>1, <2>4 DEF OneScript, Judged, Closing
<1>2. ASSUME NEW t \in Timer, Wake(t), SolutionOf(t[2]) = SolutionOf(r), timer' = [timer EXCEPT ![t] = "expire"]
      PROVE  FALSE
  <2>1. timer \in [Timer -> TimerStep] /\ timer[t] = "sleep"
    BY <1>2 DEF TypeInv, TypeOK, ResultsTypeOK, Wake
  <2>2. PICK s \in Solution : s = SolutionOf(r)
    BY <1>0
  <2>3. Closed(s)'
    BY <1>2, <2>1, <2>2, ClosedStays DEF OneTimer
  <2>4. PICK j \in Judger : timer'[<<j, r>>] = "sleep"
    BY <2>2, <2>3 DEF Awaited
  <2>5. <<j, r>> \in Timer /\ <<j, r>> # t /\ timer[<<j, r>>] = "sleep"
    BY <1>0, <1>2, <2>1, <2>4 DEF Timer
  <2>6. <<j, r>>[2] = r
    OBVIOUS
  <2> QED
    BY <1>2, <2>1, <2>5, <2>6 DEF OneTimer
<1> QED
  BY <1>0, <1>1, <1>2, ClaimGain

(* A result with "done" that a listener works on stays with it until the    *)
(* claim is gone.                                                           *)
LEMMA WorkGoesOn ==
    ASSUME TypeInv, Smooth, Listened, [Next]_vars, NEW r \in ValidRun, NEW c \in Result, c.done,
           AtWork(r, c), Exists(claim, SolutionOf(r))'
    PROVE  AtWork(r, c)'
<1>1. PICK l \in Listener : l[2] = "result" /\ lpc[l] # "check" /\ First(l) = ResultEvent(r, c)
  BY DEF AtWork
<1>0. /\ lpc \in [Listener -> ListenerStep] /\ got \in [Listener -> Upload \cup Exit \cup {Nothing}]
      /\ claim \in [ClaimKey -> KeyState] /\ SolutionOf(r) \in ClaimKey
  BY DEF TypeInv, TypeOK, ResultsTypeOK, SharedTypeOK, ValidRun, ClaimKey
<1>2. First(l).body = c /\ EventSolution(l) = SolutionOf(r) /\ c # ExitOK /\ c # ExitError /\ c # Garbled
  BY <1>1, ContentsAssumption DEF ResultEvent, EventSolution
<1>3. ASSUME NEW step \in ListenerStep \ {"check"}, lpc' = [lpc EXCEPT ![l] = step], inbox' = inbox
      PROVE  AtWork(r, c)'
  <2>1. lpc'[l] # "check" /\ First(l)' = First(l)
    BY <1>0, <1>3 DEF First
  <2> QED
    BY <1>1, <2>1 DEF AtWork, ResultEvent
<1>4. CASE ListenerNext(l)
  <2>1. CASE ExpireMark(l)
    BY <1>3, <2>1, SmoothFacts DEF ExpireMark, Proceed, ListenerStep
  <2>2. CASE Read(l)
    <3>1. Contents(l) = c
      BY <1>2 DEF Contents, Smooth
    <3> QED
      BY <1>2, <1>3, <2>2, <3>1 DEF Read, ListenerStep
  <2>3. CASE Publish(l)
    <3>1. got[l] = c
      BY <1>2, <2>3 DEF Publish, Listened
    <3>2. ReportFor(l).done
      BY <1>2, <3>1 DEF ReportFor, ReportOf
    <3> QED
      BY <1>3, <2>3, <3>2, SmoothFacts DEF Publish, LoseReport, Proceed, ListenerStep
  <2>4. CASE UnclaimReported(l)
    <3>1. got[l] = c
      BY <1>2, <2>4 DEF UnclaimReported, Listened
    <3>2. ReportKey(l) = SolutionOf(r)
      BY <1>2, <3>1 DEF ReportKey
    <3>3. claim' = Del(claim, SolutionOf(r))
      BY <2>4, <3>2, SmoothFacts DEF UnclaimReported, setRequestNotExist
    <3> QED
      BY <1>0, <3>3 DEF Del, Exists
  <2>5. ~Check(l) /\ ~ReadFails(l) /\ ~Unmark(l)
    BY <1>1, SmoothFacts DEF Check, ReadFails, Unmark, Listened
  <2> QED
    BY <1>4, <2>1, <2>2, <2>3, <2>4, <2>5 DEF ListenerNext
<1>5. CASE ~ListenerNext(l)
  <2>1. lpc'[l] # "check" /\ First(l)' = ResultEvent(r, c)
    BY <1>1, <1>5, StillAtWork
  <2> QED
    BY <1>1, <2>1 DEF AtWork, ResultEvent
<1> QED
  BY <1>4, <1>5

(* The notification of a result stays with a judger that has not seen it    *)
(* marked, until it is marked: then a listener works on it.                 *)
LEMMA QueueGoesOn ==
    ASSUME TypeInv, Smooth, MarkOwned, OneScript, Listened, Stored, [Next]_vars,
           NEW r \in ValidRun, NEW c \in Upload, script[r] # "none",
           Queued(r, c), ~Exists(seen, <<SolutionOf(r), c>>)
    PROVE  Waiting(r, c)'
<1>0. /\ inbox \in [Listener -> Seq(Event)] /\ SolutionOf(r) \in Solution
      /\ \A j \in Judger : ResultEvents(j) \in Seq(Event)
  BY DEF TypeInv, TypeOK, ResultsTypeOK, ResultEvents, Listener, Listening, ValidRun
<1>1. PICK s \in Solution : s = SolutionOf(r)
  BY <1>0
<1>2. <<s, c>> \in EventKey
  BY DEF EventKey
<1>3. CASE Exists(seen, <<s, c>>)'
  <2>1. PICK l \in Listener : Mark(l) = <<s, c>> /\ lpc'[l] = "expire" /\ inbox' = inbox /\ inbox[l] # <<>>
    BY <1>1, <1>2, <1>3, NewMark
  <2>2. PICK q \in ValidRun : q = First(l).run
    BY <2>1, ResultMark
  <2>3. /\ l[1] \in Judger /\ l = <<l[1], "result">> /\ SolutionOf(q) = s
        /\ First(l) = ResultEvent(q, c) /\ First(l) \in Entries(ResultEvents(l[1]))
    BY <2>1, <2>2, ResultMark
  <2>4. script[q] # "none"
    BY <2>3 DEF Stored, ResultEvent, ValidRun
  <2>5. q = r
    BY <1>1, <2>3, <2>4, Sole
  <2>6. First(l)' = ResultEvent(r, c)
    BY <2>1, <2>3, <2>5 DEF First
  <2>7. l[2] = "result"
    BY <2>3
  <2> QED
    BY <2>1, <2>6, <2>7 DEF Waiting, AtWork, ResultEvent
<1>4. CASE ~Exists(seen, <<s, c>>)'
  <2>1. ASSUME NEW j \in Judger PROVE ResultEvent(r, c) \in Entries(ResultEvents(j)')
    <3>0. PICK e \in Event : e = ResultEvent(r, c)
      BY DEF ResultEvent, Event, ValidRun
    <3>1. e \in Entries(ResultEvents(j))
      BY <3>0 DEF Queued
    <3>2. ResultEvents(j)' = ResultEvents(j) => e \in Entries(ResultEvents(j)')
      BY <3>1
    <3>3. ASSUME NEW q \in ValidRun, NEW d \in Upload,
                 ResultEvents(j)' = Append(ResultEvents(j), ResultEvent(q, d))
          PROVE  e \in Entries(ResultEvents(j)')
      <4>1. ResultEvent(q, d) \in Event
        BY DEF ResultEvent, Event, ValidRun
      <4> QED
        BY <1>0, <3>1, <3>3, <4>1, EntriesOfAppend
    <3>4. ASSUME ListenerNext(<<j, "result">>), ResultEvents(j) # <<>>,
                 ResultEvents(j)' = Tail(ResultEvents(j)), e = Head(ResultEvents(j))
          PROVE  FALSE
      <4>1. PICK l \in Listener : l = <<j, "result">>
        BY DEF Listener, Listening
      <4>2. First(l) = e /\ inbox[l] # <<>> /\ inbox'[l] = Tail(inbox[l])
        BY <3>4, <4>1 DEF First, ResultEvents
      <4>3. Mark(l) = <<s, c>>
        BY <1>1, <3>0, <4>2 DEF Mark, EventSolution, ResultEvent
      <4>4. lpc[l] = "check"
        BY <1>1, <4>3 DEF MarkOwned
      <4>5. Check(l)
        BY <3>4, <4>1, <4>4 DEF ListenerNext, ExpireMark, Read, ReadFails, Unmark, Publish, UnclaimReported
      <4>6. seen' = AfterIncr(seen, <<s, c>>, "first")
        BY <1>1, <4>3, <4>5, SmoothFacts DEF Check, checkIfRequestExists
      <4> QED
        BY <1>2, <1>4, <4>6 DEF AfterIncr, Incr, Exists, TypeInv, TypeOK, SharedTypeOK
    <3>5. ASSUME ListenerNext(<<j, "result">>), ResultEvents(j) # <<>>,
                 ResultEvents(j)' = Tail(ResultEvents(j))
          PROVE  e \in Entries(ResultEvents(j)')
      BY <1>0, <3>1, <3>4, <3>5, EntriesOfTail
    <3>6. e \in Entries(ResultEvents(j)')
      BY <3>2, <3>3, <3>5, InboxMoves
    <3> QED
      BY <3>0, <3>6 DEF ResultEvent
  <2>2. Queued(r, c)'
    BY <2>1 DEF Queued, Entries, ResultEvent
  <2> QED
    BY <1>1, <1>4, <2>2 DEF Waiting
<1> QED
  BY <1>3, <1>4

(* A result that is stored is queued with every judger, and unmarked.       *)
LEMMA NewResult ==
    ASSUME TypeInv, Smooth, OneScript, Listened, Stored,
           NEW r \in ValidRun, NEW c \in Upload, StoreResult(r, c, up)
    PROVE  Waiting(r, c)'
<1>0. /\ inbox \in [Listener -> Seq(Event)] /\ SolutionOf(r) \in Solution
      /\ \A j \in Judger : ResultEvents(j) \in Seq(Event)
      /\ ResultEvent(r, c) \in Event
  BY DEF TypeInv, TypeOK, ResultsTypeOK, ResultEvents, Listener, Listening, ValidRun, ResultEvent, Event
<1>1. ASSUME NEW j \in Judger PROVE ResultEvent(r, c) \in Entries(ResultEvents(j)')
  <2>1. <<j, "result">> \in Listener /\ <<j, "result">>[1] = j /\ <<j, "result">>[2] = "result"
    BY DEF Listener, Listening
  <2>2. Notify(up, "result", ResultEvent(r, c)) /\ up[j]
    BY DEF StoreResult, ResultEvent, Listened
  <2>3. ResultEvents(j)' = Append(ResultEvents(j), ResultEvent(r, c))
    BY <2>1, <2>2 DEF Notify, ResultEvents
  <2> QED
    BY <1>0, <2>3, EntriesOfAppend
<1>2. ~Exists(seen, <<SolutionOf(r), c>>)'
  <2>1. script[r] = "live" /\ c \notin uploaded[r] /\ seen' = seen
    BY DEF StoreResult
  <2>2. ASSUME NEW q \in RunsOf(SolutionOf(r)), c \in uploaded[q] PROVE FALSE
    <3>1. q \in ValidRun /\ SolutionOf(q) = SolutionOf(r) /\ script[q] # "none"
      BY <1>0, <2>2 DEF RunsOf, ValidRun, Stored
    <3>2. q = r
      BY <2>1, <3>1, Sole
    <3> QED
      BY <2>1, <2>2, <3>2
  <2> QED
    BY <1>0, <2>1, <2>2 DEF Stored, Exists
<1>3. Queued(r, c)'
  BY <1>1 DEF Queued, Entries, ResultEvent
<1> QED
  BY <1>2, <1>3 DEF Waiting

LEMMA ClaimTellsStep ==
    ASSUME TypeInv, Deliveries, Smooth, MarkOwned, OneScript, Listened, Stored, OneTimer, ClaimTells, [Next]_vars
    PROVE  ClaimTells'
<1> SUFFICES ASSUME NEW r \in ValidRun, NEW c \in Result, c \in uploaded'[r], c.done, Awaited(r)',
                    Exists(claim, SolutionOf(r))'
             PROVE  Waiting(r, c)'
  BY DEF ClaimTells
<1>0. r \in Run /\ c \in Upload
  BY DEF ValidRun, Upload
<1>1. CASE c \notin uploaded[r]
  <2>1. ASSUME NEW d \in Upload, StoreResult(r, d, up), uploaded'[r] = uploaded[r] \cup {d} PROVE Waiting(r, c)'
    <3>1. c = d
      BY <1>1, <2>1
    <3> QED
      BY <1>0, <2>1, <3>1, NewResult
  <2> QED
    BY <1>0, <1>1, <2>1, UploadMoves
<1>2. CASE c \in uploaded[r]
  <2>1. script[r] # "none"
    BY <1>0, <1>2 DEF Stored
  <2>2. Exists(claim, SolutionOf(r))
    BY <2>1, NoNewClaim
  <2>3. Waiting(r, c)
    BY <1>2, <2>2, AwaitedKept DEF ClaimTells
  <2> QED
    BY <1>0, <2>1, <2>3, QueueGoesOn, WorkGoesOn DEF Waiting
<1> QED
  BY <1>1, <1>2

LEMMA NotDoneStep ==
    ASSUME CoreInv, Smooth, Listened, OneTimer, ClaimTells, NotDone, [Next]_vars
    PROVE  NotDone'
<1>0. TypeInv /\ timer \in [Timer -> TimerStep]
  BY DEF CoreInv, TypeInv, TypeOK, ResultsTypeOK
<1> SUFFICES ASSUME NEW t \in Timer, timer'[t] \in {"release", "publish"}, ReportedDone(t[2])'
             PROVE  FALSE
  BY DEF NotDone, ReportedDone
<1>1. timer[t] # "off"
  BY <1>0, TimerMoves DEF TimerNext, Wake, ExpireWoken, ReleaseWoken, ReportWoken, UnclaimWoken
<1>2. PICK r \in ValidRun : r = t[2]
  BY <1>1 DEF OneTimer
<1>3. t[1] \in Judger /\ t = <<t[1], r>> /\ script[r] = "settled" /\ r \in Run
  BY <1>1, <1>2, CheckingSettled
<1>4. PICK c \in uploaded[r] \cap Result : c.done
  <2>1. uploaded'[r] = uploaded[r]
    BY <1>0, <1>3, UploadMoves DEF StoreResult
  <2> QED
    BY <1>2, <2>1 DEF ReportedDone
<1>5. CASE timer[t] \in {"release", "publish"}
  BY <1>2, <1>4, <1>5 DEF NotDone, ReportedDone
<1>6. CASE Wake(t)
  <2>1. timer[t] = "sleep" /\ ResultsHandled(r)
    BY <1>2, <1>6, SmoothFacts DEF Wake
  <2>2. Awaited(r)
    BY <1>3, <2>1 DEF Awaited
  <2>3. Exists(claim, SolutionOf(r))
    BY <1>0, <1>2, <1>6, SmoothFacts DEF Wake, checkIfRequestExists, Set, AfterWake
  <2>4. Waiting(r, c)
    BY <1>4, <2>2, <2>3 DEF ClaimTells
  <2>5. \A j \in Judger : \A i \in 1 .. Len(ResultEvents(j)) : ResultEvents(j)[i].run # r
    <3>1. ASSUME NEW j \in Judger PROVE \A i \in 1 .. Len(ResultEvents(j)) : ResultEvents(j)[i].run # r
      <4>1. inbox[<<j, "result">>] \in Seq(Event)
        BY <1>0 DEF TypeInv, TypeOK, ResultsTypeOK, Listener, Listening
      <4>2. DOMAIN inbox[<<j, "result">>] = 1 .. Len(inbox[<<j, "result">>])
        BY <4>1
      <4> QED
        BY <2>1, <4>2 DEF ResultsHandled, ResultEvents
    <3> QED
      BY <3>1
  <2>6. ~Queued(r, c)
    BY <1>3, <2>5 DEF Queued, Entries, ResultEvent
  <2>7. ASSUME NEW l \in Listener, l[2] = "result", lpc[l] # "check", First(l) = ResultEvent(r, c) PROVE FALSE
    <3>1. inbox[l] # <<>>
      BY <1>0, <2>7 DEF TypeInv, Busy
    <3>2. First(l) = inbox[l][1] /\ 1 \in 1 .. Len(inbox[l])
      BY <1>0, <3>1, HeadFacts
    <3>3. l[1] \in Judger /\ inbox[l] = ResultEvents(l[1])
      BY <2>7 DEF Listener, ResultEvents
    <3> QED
      BY <2>5, <2>7, <3>2, <3>3 DEF ResultEvent
  <2> QED
    BY <2>4, <2>6, <2>7 DEF Waiting, AtWork
<1>7. timer[t] \in {"release", "publish"} \/ Wake(t)
  BY <1>0, <1>1, TimerMoves DEF TimerNext, Wake, ExpireWoken, ReleaseWoken, ReportWoken, UnclaimWoken, Set
<1> QED
  BY <1>5, <1>6, <1>7

-----------------------------------------------------------------------------
LEMMA ReportInit == Init => ReportInv
<1> SUFFICES ASSUME Init PROVE ReportInv
  OBVIOUS
<1>1. /\ \A h \in Handler : pc[h] = "idle"
      /\ \A j \in Judger : up[j]
  BY DEF Init, QueueInit
<1>2. /\ \A l \in Listener : inbox[l] = <<>> /\ lpc[l] = "check"
      /\ \A t \in Timer : timer[t] = "off"
      /\ \A j \in Judger : ResultEvents(j) = <<>>
  BY DEF Init, ResultsInit, ResultEvents, Listener, Listening
<1>3. /\ \A r \in Run : script[r] = "none" /\ uploaded[r] = {}
      /\ \A k \in EventKey : ~Exists(seen, k)
  BY DEF Init, SharedInit, Exists
<1>4. \A s \in Solution, c \in Upload : <<s, c>> \in EventKey
  BY DEF EventKey
<1>5. \A r \in ValidRun : r \in Run
  BY DEF ValidRun
<1>6. Entries(<<>>) = {}
  BY DEF Entries
<1>7. MarkOwned /\ Alone /\ OneScript
  BY <1>1, <1>2, <1>3, <1>5 DEF MarkOwned, Alone, OneScript
<1>8. Listened /\ Stored
  BY <1>1, <1>2, <1>3, <1>4, <1>6 DEF Listened, Stored
<1>9. OneTimer /\ ClaimTells /\ NotDone
  BY <1>2, <1>3, <1>5 DEF OneTimer, ClaimTells, NotDone
<1> QED
  BY <1>7, <1>8, <1>9 DEF ReportInv

LEMMA ReportInvariant == ASSUME Smooth PROVE Spec => [](CoreInv /\ ReportInv)
<1>1. CoreInv /\ ReportInv /\ [Next]_vars => ReportInv'
  <2> SUFFICES ASSUME CoreInv, ReportInv, [Next]_vars PROVE ReportInv'
    OBVIOUS
  <2>1. TypeInv /\ Deliveries
    BY DEF CoreInv
  <2>2. MarkOwned' /\ Alone' /\ OneScript'
    BY <2>1, MarkOwnedStep, AloneStep, OneScriptStep, SmoothFacts DEF ReportInv
  <2>3. Listened' /\ Stored'
    BY <2>1, ListenedStep, StoredStep DEF ReportInv
  <2>4. OneTimer' /\ ClaimTells' /\ NotDone'
    BY <2>1, OneTimerStep, ClaimTellsStep, NotDoneStep DEF ReportInv
  <2> QED
    BY <2>2, <2>3, <2>4 DEF ReportInv
<1> QED
  BY CoreInvariant, ReportInit, <1>1, PTL DEF Spec

(* "Judge script exited before reporting done" is only said of a script     *)
(* that did not report done (the check of the claim 2.5 s after the end in  *)
(* listenMinIOEvent). It takes calls and notifications that do not fail, a  *)
(* script that is started once for a solution, and contents of the version  *)
(* the notification is about.                                               *)
THEOREM NoFalseAlarm ==
    ASSUME {"timeout", "crash", "incr", "expire", "del", "publish", "read", "late", "markExpiry"} \cap Faults = {},
           "lostReply" \in Faults => MaxAttempts = 1,
           Versioned,
           \A m1, m2 \in Msg : Body[m1] \in Solution /\ Body[m1] = Body[m2] => m1 = m2
    PROVE  Spec => []NoReportIsTrue
<1>1. Smooth
  BY DEF Smooth
<1>2. ReportInv => NoReportIsTrue
  BY DEF ReportInv, NotDone, NoReportIsTrue
<1> QED
  BY <1>1, <1>2, ReportInvariant, PTL
=============================================================================
