------------------------- MODULE JudgeSystem_proofs -------------------------
(***************************************************************************)
(* Theorems about JudgeSystem, for any number of judgers, handlers,        *)
(* messages and solutions.                                                 *)
(***************************************************************************)
EXTENDS JudgeSystem, SequenceTheorems, TLAPS

(* What a listener reads is what its notifications are about: the events of *)
(* the result listener name stored results, those of the command listener   *)
(* stored exit statuses. With this, what a listener publishes is a report.  *)
Objects(kind) == IF kind = "result" THEN Upload ELSE Exit

Notified ==
    \A l \in Listener : \A i \in 1 .. Len(inbox[l]) :
        /\ SolutionOf(inbox[l][i].run) \in Solution
        /\ inbox[l][i].body \in Objects(l[2])
        /\ latest[<<SolutionOf(inbox[l][i].run), l[2]>>] \in Objects(l[2])

Busy ==
    \A l \in Listener :
        /\ lpc[l] # "check" => inbox[l] # <<>>
        /\ lpc[l] = "publish" => got[l] \in Objects(l[2]) \ {ExitOK}

TypeInv == TypeOK /\ Notified /\ Busy

-----------------------------------------------------------------------------
LEMMA MaxAttemptsType == MaxAttempts \in Nat /\ MaxAttempts >= 1
BY JudgerBaseAssumption

(* What the commands to Redis and a published report leave in place.        *)
LEMMA KeyTypes ==
    ASSUME NEW K, NEW keys \in [K -> KeyState], NEW k
    PROVE  /\ \A answer : AfterIncr(keys, k, answer) \in [K -> KeyState]
           /\ Expire(keys, k) \in [K -> KeyState]
           /\ AfterExpire(keys, k) \subseteq [K -> KeyState]
           /\ setRequestNotExist(keys, k) \subseteq [K -> KeyState]
           /\ Del(keys, k) \in [K -> KeyState]
BY DEF AfterIncr, Incr, AfterExpire, Expire, setRequestNotExist, Del, KeyState

LEMMA ReportTypes ==
    ASSUME reports \in [ClaimKey -> SUBSET Report], NEW k, NEW r \in Report,
           publishToReport(k, r) \/ LoseReport
    PROVE  reports' \in [ClaimKey -> SUBSET Report]
BY DEF publishToReport, LoseReport

(* The steps of nsqd and of the handlers keep the types of what they touch. *)
LEMMA QueueTypes ==
    ASSUME TypeOK, QueueNext
    PROVE  QueueTypeOK' /\ SharedTypeOK' /\ latest' = latest
<1> DEFINE Goal == QueueTypeOK' /\ SharedTypeOK' /\ latest' = latest
<1>0. QueueTypeOK /\ SharedTypeOK
  BY DEF TypeOK
<1>1. ASSUME NEW m \in Msg, Submit(m)
      PROVE  Goal
  BY <1>0, <1>1 DEF Submit, QueueTypeOK, SharedTypeOK, handlerVars, sharedVars
<1>2. ASSUME NEW m \in Msg, Drop(m)
      PROVE  Goal
  <2>1. attempts' \in [Msg -> 0 .. MaxAttempts + 2]
    BY <1>0, <1>2, MaxAttemptsType DEF Drop, QueueTypeOK
  <2> QED
    BY <1>0, <1>2, <2>1 DEF Drop, QueueTypeOK, SharedTypeOK, handlerVars, sharedVars
<1>4. ASSUME NEW h \in Handler, NEW m \in Msg, HandleMessage(h, m)
      PROVE  Goal
  <2>0. JudgerOf(h) \in Judger
    BY DEF Handler, JudgerOf
  <2>1. attempts' \in [Msg -> 0 .. MaxAttempts + 2] /\ attempts'[m] \in 1 .. MaxAttempts + 1
    BY <1>0, <1>4, MaxAttemptsType DEF HandleMessage, Deliverable, QueueTypeOK
  <2>2. job' \in [Handler -> Delivery \cup {NoJob}]
    BY <1>0, <1>4, <2>1 DEF HandleMessage, Deliverable, QueueTypeOK, Delivery
  <2>3. pc' \in [Handler -> Step]
    BY <1>0, <1>4 DEF HandleMessage, Deliverable, QueueTypeOK, Goto, Step
  <2> QED
    BY <1>0, <1>4, <2>0, <2>1, <2>2, <2>3 DEF HandleMessage, Deliverable, QueueTypeOK, SharedTypeOK, sharedVars
<1>3. ASSUME NEW m \in Msg, MsgTimeout(m)
      PROVE  Goal
  BY <1>0, <1>3 DEF MsgTimeout, QueueTypeOK, SharedTypeOK, handlerVars, sharedVars
<1>5. ASSUME NEW h \in Handler, HandlerStep(h)
      PROVE  Goal
  <2>0. JudgerOf(h) \in Judger
    BY DEF Handler, JudgerOf
  <2>1. CASE Claim(h)
    <3>1. claim' \in [ClaimKey -> KeyState]
      <4>1. PICK answer : claim' = AfterIncr(claim, JobSolution(h), answer)
        BY <2>1 DEF Claim
      <4> QED
        BY <1>0, <4>1, KeyTypes DEF SharedTypeOK
    <3>2. pc' \in [Handler -> Step]
      BY <1>0, <2>1 DEF Claim, QueueTypeOK, Goto, Step, checkIfRequestExists
    <3> QED
      BY <1>0, <2>1, <3>1, <3>2 DEF Claim, QueueTypeOK, SharedTypeOK, queueVars, scriptVars
  <2>2. CASE SetExpire(h)
    <3>1. claim' \in [ClaimKey -> KeyState]
      BY <1>0, <2>2, KeyTypes DEF SetExpire, SharedTypeOK
    <3>2. pc' \in [Handler -> Step]
      BY <1>0, <2>2 DEF SetExpire, QueueTypeOK, Goto, Step
    <3> QED
      BY <1>0, <2>2, <3>1, <3>2 DEF SetExpire, QueueTypeOK, SharedTypeOK, queueVars, scriptVars
  <2>3. CASE Fetch(h)
    <3>1. dir' \in [Solution -> BOOLEAN]
      BY <1>0, <2>3 DEF Fetch, HandleFetchObject, SharedTypeOK
    <3>2. pc' \in [Handler -> Step]
      BY <1>0, <2>3 DEF Fetch, HandleFetchObject, QueueTypeOK, Goto, Step
    <3> QED
      BY <1>0, <2>3, <3>1, <3>2 DEF Fetch, HandleFetchObject, QueueTypeOK, SharedTypeOK, queueVars
  <2>4. CASE Execute(h)
    <3>1. script' \in [Run -> ScriptState]
      BY <1>0, <2>4 DEF Execute, HandleExecuteCommand, SharedTypeOK, ScriptState
    <3>2. pc' \in [Handler -> Step]
      BY <1>0, <2>4 DEF Execute, HandleExecuteCommand, QueueTypeOK, Goto, Step
    <3> QED
      BY <1>0, <2>4, <3>1, <3>2 DEF Execute, HandleExecuteCommand, QueueTypeOK, SharedTypeOK, queueVars
  <2>5. CASE Release(h)
    <3>1. claim' \in [ClaimKey -> KeyState]
      BY <1>0, <2>5, KeyTypes DEF Release, SharedTypeOK
    <3>2. pc' \in [Handler -> Step]
      BY <1>0, <2>5 DEF Release, QueueTypeOK, Goto, Step
    <3> QED
      BY <1>0, <2>5, <3>1, <3>2 DEF Release, QueueTypeOK, SharedTypeOK, queueVars, scriptVars
  <2>6. CASE Fail(h)
    <3>1. reports' \in [ClaimKey -> SUBSET Report]
      <4>1. ReportOf(IF Attempt(h) > MaxAttempts THEN "maxAttempts" ELSE "failed", TRUE, 0)
               \in Report
        BY DEF ReportOf, Report, ReportKind
      <4> QED
        BY <1>0, <2>6, <4>1, ReportTypes DEF Fail, SharedTypeOK
    <3>2. pc' \in [Handler -> Step]
      BY <1>0, <2>6 DEF Fail, QueueTypeOK, Goto, Step
    <3> QED
      BY <1>0, <2>6, <3>1, <3>2 DEF Fail, QueueTypeOK, SharedTypeOK, queueVars, scriptVars
  <2>7. CASE Unclaim(h)
    <3>1. claim' \in [ClaimKey -> KeyState]
      BY <1>0, <2>7, KeyTypes DEF Unclaim, SharedTypeOK
    <3>2. pc' \in [Handler -> Step]
      BY <1>0, <2>7 DEF Unclaim, QueueTypeOK, Goto, Step
    <3> QED
      BY <1>0, <2>7, <3>1, <3>2 DEF Unclaim, QueueTypeOK, SharedTypeOK, queueVars, scriptVars
  <2>8. CASE Started(h)
    <3>1. reports' \in [ClaimKey -> SUBSET Report]
      <4>1. ReportOf("started", FALSE, 0) \in Report
        BY DEF ReportOf, Report, ReportKind
      <4> QED
        BY <1>0, <2>8, <4>1, ReportTypes DEF Started, SharedTypeOK
    <3>2. pc' \in [Handler -> Step]
      BY <1>0, <2>8 DEF Started, QueueTypeOK, Goto, Step
    <3> QED
      BY <1>0, <2>8, <3>1, <3>2 DEF Started, QueueTypeOK, SharedTypeOK, queueVars, scriptVars
  <2>9. CASE Finish(h)
    <3>1. place' \in [Msg -> {"new", "ready", "gone"} \cup Judger]
      BY <1>0, <2>9 DEF Finish, QueueTypeOK
    <3> QED
      BY <1>0, <2>9, <3>1 DEF Finish, Return, Goto, Step, QueueTypeOK, SharedTypeOK, sharedVars
  <2>10. CASE Requeue(h)
    <3>1. place' \in [Msg -> {"new", "ready", "gone"} \cup Judger]
      BY <1>0, <2>10 DEF Requeue, QueueTypeOK
    <3> QED
      BY <1>0, <2>10, <3>1 DEF Requeue, Return, Goto, Step, QueueTypeOK, SharedTypeOK, sharedVars
  <2> QED
    BY <1>5, <2>1, <2>2, <2>3, <2>4, <2>5, <2>6, <2>7, <2>8, <2>9, <2>10 DEF HandlerStep
<1> QED
  BY <1>1, <1>2, <1>3, <1>4, <1>5 DEF QueueNext

-----------------------------------------------------------------------------
(* The scripts, the listeners and the timers.                               *)
LEMMA UploadIsNoExit ==
    /\ ExitOK \notin Upload
    /\ Nothing \notin Upload \cup Exit
BY ContentsAssumption DEF Upload, Exit

LEMMA ObjectKinds == \A kind \in Listening :
    /\ Objects(kind) \subseteq Upload \cup Exit
    /\ Nothing \notin Objects(kind)
BY UploadIsNoExit DEF Objects, Listening

LEMMA ScriptTypes ==
    ASSUME TypeInv, NEW r \in ValidRun, ScriptNext(r, up)
    PROVE  ResultsTypeOK' /\ SharedTypeOK' /\ Notified' /\ Busy'
<1> DEFINE s == SolutionOf(r)
<1>0. /\ SharedTypeOK /\ ResultsTypeOK /\ Notified /\ Busy
      /\ r \in Run /\ s \in Solution
  BY DEF TypeInv, TypeOK, ValidRun
(* A notification about a stored object, appended to the inboxes of a kind. *)
<1>1. ASSUME NEW kind \in Listening, NEW c \in Objects(kind),
             latest' = [latest EXCEPT ![<<s, kind>>] = c],
             Notify(up, kind, [run |-> r, body |-> c]),
             UNCHANGED <<lpc, got>>
      PROVE  /\ inbox' \in [Listener -> Seq(Event)]
             /\ latest' \in [Object -> Upload \cup Exit \cup {Nothing}]
             /\ Notified' /\ Busy'
  <2> DEFINE e == [run |-> r, body |-> c]
  <2>1. c \in Upload \cup Exit /\ e \in Event /\ <<s, kind>> \in Object
    BY <1>0, ObjectKinds DEF Event, Object
  <2>2. latest' \in [Object -> Upload \cup Exit \cup {Nothing}]
    BY <1>0, <1>1, <2>1 DEF SharedTypeOK
  <2>3. inbox' = [l \in Listener |-> IF l[2] = kind /\ up[l[1]]
                                     THEN Append(inbox[l], e) ELSE inbox[l]]
    BY <1>1 DEF Notify
  <2>4. \A l \in Listener : inbox[l] \in Seq(Event)
    BY <1>0 DEF ResultsTypeOK
  <2> HIDE DEF e
  <2>5. ASSUME NEW l \in Listener
        PROVE  /\ inbox'[l] \in Seq(Event)
               /\ \A i \in 1 .. Len(inbox[l]) : inbox'[l][i] = inbox[l][i]
               /\ \A i \in 1 .. Len(inbox'[l]) : \/ i \in 1 .. Len(inbox[l])
                                                 \/ l[2] = kind /\ inbox'[l][i] = e
               /\ inbox[l] # <<>> => inbox'[l] # <<>>
    <3>0. inbox'[l] = IF l[2] = kind /\ up[l[1]] THEN Append(inbox[l], e) ELSE inbox[l]
      BY <2>3, Zenon
    <3>1. CASE ~ (l[2] = kind /\ up[l[1]])
      <4>1. inbox'[l] = inbox[l]
        BY <3>0, <3>1, Zenon
      <4> QED
        BY <2>4, <4>1
    <3>2. CASE l[2] = kind /\ up[l[1]]
      <4> DEFINE seq == inbox[l]
      <4>0. l[2] = kind /\ inbox'[l] = Append(seq, e)
        BY <3>0, <3>2, Zenon
      <4>1. /\ Append(seq, e) \in Seq(Event)
            /\ Append(seq, e) # <<>>
            /\ Len(Append(seq, e)) = Len(seq) + 1
            /\ \A i \in 1 .. Len(seq) : Append(seq, e)[i] = seq[i]
            /\ Append(seq, e)[Len(seq) + 1] = e
        BY <2>1, <2>4, AppendProperties
      <4>2. Len(seq) \in Nat
        BY <2>4
      <4> QED
        BY <4>0, <4>1, <4>2
    <3> QED
      BY <3>1, <3>2
  <2>6. inbox' \in [Listener -> Seq(Event)]
    BY <1>1, <2>5 DEF Notify
  <2>7. ASSUME NEW l \in Listener, NEW i \in 1 .. Len(inbox'[l])
        PROVE  /\ SolutionOf(inbox'[l][i].run) \in Solution
               /\ inbox'[l][i].body \in Objects(l[2])
               /\ latest'[<<SolutionOf(inbox'[l][i].run), l[2]>>] \in Objects(l[2])
    <3>1. CASE i \in 1 .. Len(inbox[l])
      <4>1. inbox'[l][i] = inbox[l][i]
        BY <2>5, <3>1
      <4>2. <<SolutionOf(inbox[l][i].run), l[2]>> \in Object
        BY <1>0, <3>1 DEF Notified, Listener, Object
      <4>3. latest'[<<SolutionOf(inbox[l][i].run), l[2]>>] \in Objects(l[2])
        BY <1>0, <1>1, <3>1, <4>2 DEF Notified, SharedTypeOK
      <4> QED
        BY <1>0, <3>1, <4>1, <4>3 DEF Notified
    <3>2. CASE i \notin 1 .. Len(inbox[l])
      <4>1. l[2] = kind /\ inbox'[l][i] = e
        BY <2>5, <3>2
      <4>2. latest'[<<s, kind>>] = c
        BY <1>0, <1>1, <2>1 DEF SharedTypeOK
      <4> QED
        BY <1>0, <1>1, <4>1, <4>2 DEF e
    <3> QED
      BY <3>1, <3>2
  <2>8. Notified'
    BY <2>7 DEF Notified
  <2>9. Busy'
    <3>1. \A l \in Listener : inbox[l] # <<>> => inbox'[l] # <<>>
      BY <2>5
    <3> QED
      BY <1>0, <1>1, <3>1 DEF Busy
  <2> QED
    BY <2>2, <2>6, <2>8, <2>9
<1>2. ASSUME NEW c \in Upload, StoreResult(r, c, up)
      PROVE  ResultsTypeOK' /\ SharedTypeOK' /\ Notified' /\ Busy'
  <2>1. c \in Objects("result")
    BY DEF Objects
  <2>2. /\ inbox' \in [Listener -> Seq(Event)]
        /\ latest' \in [Object -> Upload \cup Exit \cup {Nothing}]
        /\ Notified' /\ Busy'
    BY <1>1, <1>2, <2>1 DEF StoreResult, HandleUploadFile, Listening
  <2>3. uploaded' \in [Run -> SUBSET Upload]
    BY <1>0, <1>2 DEF StoreResult, HandleUploadFile, SharedTypeOK
  <2> QED
    BY <1>0, <1>2, <2>2, <2>3 DEF StoreResult, HandleUploadFile, SharedTypeOK, ResultsTypeOK
<1>3. ASSUME EndScript(r)
      PROVE  ResultsTypeOK' /\ SharedTypeOK' /\ Notified' /\ Busy'
  <2>1. script' \in [Run -> ScriptState] /\ dir' \in [Solution -> BOOLEAN]
    BY <1>0, <1>3 DEF EndScript, SharedTypeOK, ScriptState
  <2> QED
    BY <1>0, <1>3, <2>1 DEF EndScript, SharedTypeOK, ResultsTypeOK, Notified, Busy, listenerVars
<1>4. ASSUME NEW e \in Exit, StoreExit(r, e, up)
      PROVE  ResultsTypeOK' /\ SharedTypeOK' /\ Notified' /\ Busy'
  <2>1. e \in Objects("command")
    BY DEF Objects
  <2>2. script' \in [Run -> ScriptState]
    BY <1>0, <1>4 DEF StoreExit, SharedTypeOK, ScriptState
  <2>3. CASE UNCHANGED <<latest, inbox>>
    BY <1>0, <1>4, <2>2, <2>3 DEF StoreExit, SharedTypeOK, ResultsTypeOK, Notified, Busy
  <2>4. CASE ~ UNCHANGED <<latest, inbox>>
    <3>1. /\ inbox' \in [Listener -> Seq(Event)]
          /\ latest' \in [Object -> Upload \cup Exit \cup {Nothing}]
          /\ Notified' /\ Busy'
      BY <1>1, <1>4, <2>1, <2>4 DEF StoreExit, Listening
    <3> QED
      BY <1>0, <1>4, <2>2, <3>1 DEF StoreExit, SharedTypeOK, ResultsTypeOK
  <2> QED
    BY <2>3, <2>4
<1> QED
  BY <1>2, <1>3, <1>4 DEF ScriptNext

(* A listener takes the first notification from its inbox, or keeps it      *)
(* while it works on it.                                                    *)
LEMMA SkipTypes ==
    ASSUME ResultsTypeOK, Notified, Busy, NEW l \in Listener,
           inbox[l] # <<>>, Skip(l), UNCHANGED latest
    PROVE  /\ inbox' \in [Listener -> Seq(Event)]
           /\ lpc' \in [Listener -> ListenerStep]
           /\ got' \in [Listener -> Upload \cup Exit \cup {Nothing}]
           /\ Notified' /\ Busy'
<1>1. /\ inbox'[l] = Tail(inbox[l])
      /\ \A x \in Listener : x # l => inbox'[x] = inbox[x]
  BY DEF Skip, ResultsTypeOK
<1>2. /\ inbox[l] \in Seq(Event) /\ Len(inbox[l]) \in Nat
      /\ Tail(inbox[l]) \in Seq(Event)
      /\ Len(Tail(inbox[l])) = Len(inbox[l]) - 1
      /\ \A i \in 1 .. Len(Tail(inbox[l])) : Tail(inbox[l])[i] = inbox[l][i + 1]
  <2>1. inbox[l] \in Seq(Event)
    BY DEF ResultsTypeOK
  <2> QED
    BY <2>1, HeadTailProperties
<1>3. inbox' \in [Listener -> Seq(Event)]
  BY <1>2 DEF Skip, ResultsTypeOK
<1>4. lpc' \in [Listener -> ListenerStep] /\ lpc'[l] = "check"
  BY DEF Skip, ResultsTypeOK, ListenerStep
<1>5. got' \in [Listener -> Upload \cup Exit \cup {Nothing}]
  BY DEF Skip, ResultsTypeOK
<1>6. \A x \in Listener : x # l => lpc'[x] = lpc[x] /\ got'[x] = got[x]
  BY DEF Skip, ResultsTypeOK
<1>7. Notified'
  <2> SUFFICES ASSUME NEW x \in Listener, NEW i \in 1 .. Len(inbox'[x])
               PROVE  /\ SolutionOf(inbox'[x][i].run) \in Solution
                      /\ inbox'[x][i].body \in Objects(x[2])
                      /\ latest'[<<SolutionOf(inbox'[x][i].run), x[2]>>] \in Objects(x[2])
    BY DEF Notified
  <2>1. PICK k \in 1 .. Len(inbox[x]) : inbox'[x][i] = inbox[x][k]
    <3>1. CASE x = l
      <4>1. i \in 1 .. Len(Tail(inbox[l]))
        BY <1>1, <3>1
      <4>2. i + 1 \in 1 .. Len(inbox[l])
        BY <1>2, <4>1
      <4>3. inbox'[l][i] = inbox[l][i + 1]
        BY <1>1, <1>2, <4>1
      <4> QED
        BY <3>1, <4>2, <4>3
    <3>2. CASE x # l
      BY <1>1, <3>2
    <3> QED
      BY <3>1, <3>2
  <2> QED
    BY <2>1 DEF Notified
<1>8. Busy'
  BY <1>1, <1>4, <1>6 DEF Busy
<1> QED
  BY <1>3, <1>4, <1>5, <1>7, <1>8

LEMMA ProceedTypes ==
    ASSUME ResultsTypeOK, Notified, Busy, NEW l \in Listener, inbox[l] # <<>>,
           NEW step \in ListenerStep \ {"publish"}, Proceed(l, step), UNCHANGED latest
    PROVE  /\ inbox' \in [Listener -> Seq(Event)]
           /\ lpc' \in [Listener -> ListenerStep]
           /\ got' \in [Listener -> Upload \cup Exit \cup {Nothing}]
           /\ Notified' /\ Busy'
<1>1. UNCHANGED <<inbox, got>> /\ lpc' = [lpc EXCEPT ![l] = step]
  BY DEF Proceed
<1>2. lpc' \in [Listener -> ListenerStep]
  BY <1>1 DEF ResultsTypeOK
<1>3. lpc'[l] # "publish" /\ \A x \in Listener : x # l => lpc'[x] = lpc[x]
  BY <1>1 DEF ResultsTypeOK
<1> QED
  BY <1>1, <1>2, <1>3 DEF ResultsTypeOK, Notified, Busy

LEMMA ListenerTypes ==
    ASSUME TypeInv, NEW l \in Listener, ListenerNext(l)
    PROVE  ResultsTypeOK' /\ SharedTypeOK' /\ Notified' /\ Busy'
<1> DEFINE Keeps == /\ inbox' \in [Listener -> Seq(Event)]
                    /\ lpc' \in [Listener -> ListenerStep]
                    /\ got' \in [Listener -> Upload \cup Exit \cup {Nothing}]
                    /\ Notified' /\ Busy'
           Goal == ResultsTypeOK' /\ SharedTypeOK' /\ Notified' /\ Busy'
<1>0. SharedTypeOK /\ ResultsTypeOK /\ Notified /\ Busy
  BY DEF TypeInv, TypeOK
<1>1. inbox[l] # <<>>
  BY <1>0 DEF ListenerNext, Busy, Check, ExpireMark, Read, ReadFails, Unmark, Publish, UnclaimReported
<1>2. /\ Head(inbox[l]) = inbox[l][1] /\ 1 \in 1 .. Len(inbox[l])
      /\ First(l) \in Event /\ EventSolution(l) \in Solution
      /\ First(l).body \in Objects(l[2])
      /\ latest[<<EventSolution(l), l[2]>>] \in Objects(l[2])
  <2>1. inbox[l] \in Seq(Event)
    BY <1>0 DEF ResultsTypeOK
  <2>2. Head(inbox[l]) = inbox[l][1] /\ 1 \in 1 .. Len(inbox[l]) /\ inbox[l][1] \in Event
    BY <1>1, <2>1
  <2> QED
    BY <1>0, <2>2 DEF Notified, First, EventSolution
<1>3. l[2] \in Listening
  BY DEF Listener
<1>4. ASSUME Skip(l), UNCHANGED latest PROVE Keeps
  BY <1>0, <1>1, <1>4, SkipTypes
<1>5. ASSUME NEW step \in ListenerStep \ {"publish"}, Proceed(l, step), UNCHANGED latest
      PROVE  Keeps
  BY <1>0, <1>1, <1>5, ProceedTypes
<1>6. CASE Check(l)
  <2>1. PICK answer : /\ seen' = AfterIncr(seen, Mark(l), answer)
                      /\ IF answer = "first" THEN Proceed(l, "expire") ELSE Skip(l)
    BY <1>6 DEF Check
  <2>2. seen' \in [EventKey -> KeyState]
    BY <1>0, <2>1, KeyTypes DEF SharedTypeOK
  <2>3. UNCHANGED latest
    BY <1>6 DEF Check, scriptVars
  <2>4. Keeps
    BY <1>4, <1>5, <2>1, <2>3 DEF ListenerStep
  <2> QED
    BY <1>0, <1>6, <2>2, <2>4 DEF Check, scriptVars, SharedTypeOK, ResultsTypeOK
<1>7. CASE ExpireMark(l)
  <2>1. seen' \in [EventKey -> KeyState]
    BY <1>0, <1>7, KeyTypes DEF ExpireMark, SharedTypeOK
  <2>2. UNCHANGED latest
    BY <1>7 DEF ExpireMark, scriptVars
  <2>3. Skip(l) \/ Proceed(l, "read")
    BY <1>7 DEF ExpireMark
  <2>4. Keeps
    BY <1>4, <1>5, <2>2, <2>3 DEF ListenerStep
  <2> QED
    BY <1>0, <1>7, <2>1, <2>4 DEF ExpireMark, scriptVars, SharedTypeOK, ResultsTypeOK
<1>8. CASE Read(l)
  <2>1. Contents(l) \in Objects(l[2])
    BY <1>2 DEF Contents
  <2>2. UNCHANGED sharedVars
    BY <1>8 DEF Read
  <2>3. CASE Contents(l) = ExitOK
    <3>1. timer' = [timer EXCEPT ![<<l[1], First(l).run>>] = "sleep"] /\ Skip(l)
      BY <1>8, <2>3 DEF Read
    <3>2. timer' \in [Timer -> TimerStep]
      BY <1>0, <3>1 DEF ResultsTypeOK, TimerStep
    <3>3. Keeps
      BY <1>4, <2>2, <3>1 DEF sharedVars
    <3> QED
      BY <1>0, <2>2, <3>2, <3>3 DEF sharedVars, SharedTypeOK, ResultsTypeOK
  <2>4. CASE Contents(l) # ExitOK
    <3>1. /\ got' = [got EXCEPT ![l] = Contents(l)]
          /\ lpc' = [lpc EXCEPT ![l] = "publish"]
          /\ UNCHANGED <<inbox, timer>>
      BY <1>8, <2>4 DEF Read
    <3>2. lpc' \in [Listener -> ListenerStep]
      BY <1>0, <3>1 DEF ResultsTypeOK, ListenerStep
    <3>3. Contents(l) \in Upload \cup Exit \cup {Nothing}
      BY <1>3, <2>1, ObjectKinds
    <3>4. got' \in [Listener -> Upload \cup Exit \cup {Nothing}] /\ got'[l] = Contents(l)
      BY <1>0, <3>1, <3>3 DEF ResultsTypeOK
    <3>5. \A x \in Listener : x # l => lpc'[x] = lpc[x] /\ got'[x] = got[x]
      BY <1>0, <3>1 DEF ResultsTypeOK
    <3>6. Busy'
      BY <1>0, <1>1, <2>1, <2>4, <3>1, <3>4, <3>5 DEF Busy
    <3>7. Notified'
      BY <1>0, <2>2, <3>1 DEF Notified, sharedVars
    <3> QED
      BY <1>0, <2>2, <3>1, <3>2, <3>4, <3>6, <3>7 DEF sharedVars, SharedTypeOK, ResultsTypeOK
  <2> QED
    BY <2>3, <2>4
<1>9. CASE ReadFails(l)
  <2>1. Keeps
    BY <1>4, <1>5, <1>9 DEF ReadFails, sharedVars, ListenerStep
  <2> QED
    BY <1>0, <1>9, <2>1 DEF ReadFails, sharedVars, SharedTypeOK, ResultsTypeOK
<1>10. CASE Unmark(l)
  <2>1. seen' \in [EventKey -> KeyState]
    BY <1>0, <1>10, KeyTypes DEF Unmark, SharedTypeOK
  <2>2. Keeps
    BY <1>4, <1>10 DEF Unmark, scriptVars
  <2> QED
    BY <1>0, <1>10, <2>1, <2>2 DEF Unmark, scriptVars, SharedTypeOK, ResultsTypeOK
<1>11. CASE Publish(l)
  <2>1. got[l] \in Objects(l[2]) \ {ExitOK}
    BY <1>0, <1>11 DEF Publish, Busy
  <2>2. got[l] \in Result \/ got[l] = Garbled \/ got[l] = ExitError
    BY <1>3, <2>1 DEF Objects, Upload, Exit
  <2>3. ReportFor(l) \in Report
    <3>1. CASE got[l] = Garbled
      BY <3>1 DEF ReportFor, ReportOf, Report, ReportKind
    <3>2. CASE got[l] # Garbled /\ got[l] = ExitError
      BY <3>2 DEF ReportFor, ReportOf, Report, ReportKind
    <3>3. CASE got[l] # Garbled /\ got[l] # ExitError
      <4>1. got[l].done \in BOOLEAN /\ got[l].score \in Nat
        BY <2>2, <3>3, ContentsAssumption
      <4>2. ReportFor(l) = ReportOf("result", got[l].done, got[l].score)
        BY <3>3 DEF ReportFor
      <4> QED
        BY <4>1, <4>2 DEF ReportOf, Report, ReportKind
    <3> QED
      BY <3>1, <3>2, <3>3
  <2>4. reports' \in [ClaimKey -> SUBSET Report]
    <3>1. publishToReport(ReportKey(l), ReportFor(l)) \/ LoseReport
      BY <1>11 DEF Publish
    <3> QED
      BY <1>0, <2>3, <3>1, ReportTypes DEF SharedTypeOK
  <2>5. Keeps
    <3>1. Skip(l) \/ Proceed(l, "unclaim")
      BY <1>11 DEF Publish
    <3> QED
      BY <1>4, <1>5, <1>11, <3>1 DEF Publish, scriptVars, ListenerStep
  <2> QED
    BY <1>0, <1>11, <2>4, <2>5 DEF Publish, scriptVars, SharedTypeOK, ResultsTypeOK
<1>12. CASE UnclaimReported(l)
  <2>1. claim' \in [ClaimKey -> KeyState]
    BY <1>0, <1>12, KeyTypes DEF UnclaimReported, SharedTypeOK
  <2>2. Keeps
    BY <1>4, <1>12 DEF UnclaimReported, scriptVars
  <2> QED
    BY <1>0, <1>12, <2>1, <2>2 DEF UnclaimReported, scriptVars, SharedTypeOK, ResultsTypeOK
<1> QED
  BY <1>6, <1>7, <1>8, <1>9, <1>10, <1>11, <1>12 DEF ListenerNext

LEMMA TimerTypes ==
    ASSUME TypeInv, NEW t \in Timer, TimerNext(t)
    PROVE  ResultsTypeOK' /\ SharedTypeOK' /\ Notified' /\ Busy'
<1>0. SharedTypeOK /\ ResultsTypeOK /\ Notified /\ Busy
  BY DEF TypeInv, TypeOK
<1>1. UNCHANGED <<listenerVars, seen, scriptVars>>
  BY DEF TimerNext, Wake, AfterWake, ExpireWoken, ReleaseWoken, ReportWoken, UnclaimWoken
<1>2. timer' \in [Timer -> TimerStep]
  BY <1>0 DEF TimerNext, Wake, AfterWake, ExpireWoken, ReleaseWoken, ReportWoken, UnclaimWoken,
              Set, ResultsTypeOK, TimerStep
<1>3. claim' \in [ClaimKey -> KeyState]
  <2>1. CASE Wake(t)
    <3>1. PICK answer : claim' = AfterIncr(claim, SolutionOf(t[2]), answer)
      BY <2>1 DEF Wake, AfterWake
    <3> QED
      BY <1>0, <3>1, KeyTypes DEF SharedTypeOK
  <2>2. CASE ExpireWoken(t)
    BY <1>0, <2>2, KeyTypes DEF ExpireWoken, SharedTypeOK
  <2>3. CASE ReleaseWoken(t)
    BY <1>0, <2>3, KeyTypes DEF ReleaseWoken, SharedTypeOK
  <2>4. CASE ReportWoken(t)
    BY <1>0, <2>4 DEF ReportWoken, SharedTypeOK
  <2>5. CASE UnclaimWoken(t)
    BY <1>0, <2>5, KeyTypes DEF UnclaimWoken, SharedTypeOK
  <2> QED
    BY <2>1, <2>2, <2>3, <2>4, <2>5 DEF TimerNext
<1>4. reports' \in [ClaimKey -> SUBSET Report]
  <2>1. CASE ReportWoken(t)
    <3>1. ReportOf("noReport", TRUE, 0) \in Report
      BY DEF ReportOf, Report, ReportKind
    <3> QED
      BY <1>0, <2>1, <3>1, ReportTypes DEF ReportWoken, SharedTypeOK
  <2>2. CASE ~ReportWoken(t)
    BY <1>0, <2>2 DEF TimerNext, Wake, AfterWake, ExpireWoken, ReleaseWoken, UnclaimWoken, SharedTypeOK
  <2> QED
    BY <2>1, <2>2
<1> QED
  BY <1>0, <1>1, <1>2, <1>3, <1>4
     DEF SharedTypeOK, ResultsTypeOK, Notified, Busy, listenerVars, scriptVars

LEMMA CrashTypes ==
    ASSUME TypeInv, NEW j \in Judger, Crash(j)
    PROVE  TypeInv'
<1>0. SharedTypeOK /\ QueueTypeOK /\ ResultsTypeOK /\ Notified /\ Busy
  BY DEF TypeInv, TypeOK
<1>1. SharedTypeOK'
  BY <1>0 DEF Crash, sharedVars, SharedTypeOK
<1>2. QueueTypeOK'
  BY <1>0 DEF Crash, StopHandlers, QueueTypeOK, Step
<1>3. ResultsTypeOK'
  BY <1>0 DEF Crash, StopListeners, ResultsTypeOK, ListenerStep, TimerStep
<1>4. \A l \in Listener : \/ inbox'[l] = <<>> /\ lpc'[l] = "check"
                          \/ inbox'[l] = inbox[l] /\ lpc'[l] = lpc[l] /\ got'[l] = got[l]
  BY DEF Crash, StopListeners
<1>5. Notified'
  <2> SUFFICES ASSUME NEW l \in Listener, NEW i \in 1 .. Len(inbox'[l])
               PROVE  /\ SolutionOf(inbox'[l][i].run) \in Solution
                      /\ inbox'[l][i].body \in Objects(l[2])
                      /\ latest'[<<SolutionOf(inbox'[l][i].run), l[2]>>] \in Objects(l[2])
    BY DEF Notified
  <2>1. inbox'[l] # <<>>
    OBVIOUS
  <2>2. inbox'[l] = inbox[l] /\ latest' = latest
    BY <1>4, <2>1 DEF Crash, sharedVars
  <2> QED
    BY <1>0, <2>2 DEF Notified
<1>6. Busy'
  BY <1>0, <1>4 DEF Busy
<1> QED
  BY <1>1, <1>2, <1>3, <1>5, <1>6 DEF TypeInv, TypeOK

-----------------------------------------------------------------------------
LEMMA TypeInit == Init => TypeInv
<1> SUFFICES ASSUME Init PROVE TypeInv
  OBVIOUS
<1>1. SharedTypeOK
  BY DEF Init, SharedInit, SharedTypeOK, KeyState, ScriptState
<1>2. QueueTypeOK
  BY MaxAttemptsType DEF Init, QueueInit, QueueTypeOK, Step
<1>3. ResultsTypeOK
  BY DEF Init, ResultsInit, ResultsTypeOK, ListenerStep, TimerStep
<1>4. Notified /\ Busy
  BY DEF Init, ResultsInit, Notified, Busy
<1> QED
  BY <1>1, <1>2, <1>3, <1>4 DEF TypeInv, TypeOK

LEMMA TypeStep == TypeInv /\ [Next]_vars => TypeInv'
<1> SUFFICES ASSUME TypeInv, [Next]_vars PROVE TypeInv'
  OBVIOUS
<1>0. SharedTypeOK /\ QueueTypeOK /\ ResultsTypeOK /\ Notified /\ Busy
  BY DEF TypeInv, TypeOK
<1>1. ASSUME UNCHANGED resultsState, latest' = latest
      PROVE  ResultsTypeOK' /\ Notified' /\ Busy'
  BY <1>0, <1>1 DEF resultsState, listenerVars, ResultsTypeOK, Notified, Busy
<1>2. ASSUME UNCHANGED queueState
      PROVE  QueueTypeOK'
  BY <1>0, <1>2 DEF queueState, queueVars, handlerVars, QueueTypeOK
<1>3. CASE QueueStep
  BY <1>1, <1>3, QueueTypes DEF QueueStep, TypeInv, TypeOK
<1>4. CASE RestartStep
  <2>1. PICK j \in Judger : Restart(j) /\ UNCHANGED resultsState
    BY <1>4 DEF RestartStep
  <2>2. SharedTypeOK' /\ QueueTypeOK' /\ latest' = latest
    BY <1>0, <2>1 DEF Restart, queueVars, handlerVars, sharedVars, SharedTypeOK, QueueTypeOK
  <2> QED
    BY <1>1, <2>1, <2>2 DEF TypeInv, TypeOK
<1>5. CASE CrashStep
  BY <1>5, CrashTypes DEF CrashStep
<1>6. CASE ScriptStep
  BY <1>2, <1>6, ScriptTypes DEF ScriptStep, TypeInv, TypeOK
<1>7. CASE ListenerStepNext
  BY <1>2, <1>7, ListenerTypes DEF ListenerStepNext, TypeInv, TypeOK
<1>8. CASE TimerStepNext
  BY <1>2, <1>8, TimerTypes DEF TimerStepNext, TypeInv, TypeOK
<1>9. CASE ForgetStep
  <2>1. UNCHANGED <<queueState, resultsState>> /\ latest' = latest
    BY <1>9 DEF ForgetStep, ForgetClaim, ForgetEvent, scriptVars
  <2>2. SharedTypeOK'
    BY <1>0, <1>9, KeyTypes DEF ForgetStep, ForgetClaim, ForgetEvent, scriptVars, SharedTypeOK
  <2> QED
    BY <1>1, <1>2, <2>1, <2>2 DEF TypeInv, TypeOK
<1>10. CASE UNCHANGED vars
  <2>1. UNCHANGED <<queueState, resultsState>> /\ UNCHANGED sharedVars
    BY <1>10 DEF vars, queueState, resultsState
  <2>2. SharedTypeOK' /\ latest' = latest
    BY <1>0, <2>1 DEF sharedVars, SharedTypeOK
  <2> QED
    BY <1>1, <1>2, <2>1, <2>2 DEF TypeInv, TypeOK
<1> QED
  BY <1>3, <1>4, <1>5, <1>6, <1>7, <1>8, <1>9, <1>10 DEF Next

LEMMA TypeInvariant == Spec => []TypeInv
BY TypeInit, TypeStep, PTL DEF Spec

(* Every variable keeps its type: no handler works on a delivery that the   *)
(* consumer library does not hand over, and every report that is published  *)
(* for what a listener read is well formed.                                 *)
THEOREM TypeCorrect == Spec => []TypeOK
<1>1. TypeInv => TypeOK
  BY DEF TypeInv
<1> QED
  BY TypeInvariant, <1>1, PTL

-----------------------------------------------------------------------------
(* nsqd counts deliveries, so a handler is the only one to work on its      *)
(* delivery, and until it has called execute-command the delivery has not   *)
(* started a script.                                                        *)
Counted ==
    /\ \A h \in Handler : pc[h] # "idle" =>
          job[h] \in Delivery /\ job[h][2] <= attempts[job[h][1]]
    /\ \A r \in Run : script[r] # "none" => r[2] <= attempts[r[1]]

Apart ==
    \A h1, h2 \in Handler :
        pc[h1] # "idle" /\ pc[h2] # "idle" /\ job[h1] = job[h2] => h1 = h2

Starting == {"claim", "expire", "fetch", "execute"}
Fresh ==
    \A h \in Handler : pc[h] \in Starting => job[h] \in Run /\ script[job[h]] = "none"

Deliveries == Counted /\ Apart /\ Fresh

(* Any step under which no handler takes up a delivery and the scripts that *)
(* have not been started stay so keeps these facts.                         *)
LEMMA DeliveriesKept ==
    ASSUME TypeInv, Deliveries,
           attempts' = attempts,
           \A h \in Handler : pc'[h] # "idle" => pc[h] # "idle" /\ job'[h] = job[h],
           \A h \in Handler : pc'[h] \in Starting => pc[h] \in Starting,
           \A r \in Run : script'[r] = "none" <=> script[r] = "none"
    PROVE  Deliveries'
<1>0. \A h \in Handler : pc'[h] \in Starting => pc'[h] # "idle"
  BY DEF Starting
<1>1. Counted'
  BY DEF Deliveries, Counted, Delivery
<1>2. Apart'
  BY DEF Deliveries, Apart
<1>3. Fresh'
  BY <1>0 DEF Deliveries, Fresh
<1> QED
  BY <1>1, <1>2, <1>3 DEF Deliveries

LEMMA DeliveriesStep == TypeInv /\ Deliveries /\ [Next]_vars => Deliveries'
<1> SUFFICES ASSUME TypeInv, Deliveries, [Next]_vars PROVE Deliveries'
  OBVIOUS
<1>0. /\ pc \in [Handler -> Step] /\ job \in [Handler -> Delivery \cup {NoJob}]
      /\ attempts \in [Msg -> 0 .. MaxAttempts + 2] /\ script \in [Run -> ScriptState]
  BY DEF TypeInv, TypeOK, SharedTypeOK, QueueTypeOK
<1>1. CASE QueueStep
  <2>1. ASSUME NEW m \in Msg, Submit(m) \/ MsgTimeout(m)
        PROVE  Deliveries'
    BY <2>1, DeliveriesKept DEF Submit, MsgTimeout, handlerVars, sharedVars
  <2>2. ASSUME NEW m \in Msg, Drop(m)
        PROVE  Deliveries'
    <3>1. UNCHANGED <<pc, job, script>> /\ attempts' = [attempts EXCEPT ![m] = @ + 1]
      BY <2>2 DEF Drop, handlerVars, sharedVars
    <3>2. \A x \in Msg : attempts[x] \in Nat /\ attempts'[x] \in Nat /\ attempts[x] <= attempts'[x]
      BY <1>0, <3>1, MaxAttemptsType
    <3>3. Counted'
      <4>1. ASSUME NEW h \in Handler, pc'[h] # "idle"
            PROVE  job'[h] \in Delivery /\ job'[h][2] <= attempts'[job'[h][1]]
        <5>1. job[h] \in Delivery /\ job[h][2] <= attempts[job[h][1]] /\ job'[h] = job[h]
          BY <3>1, <4>1 DEF Deliveries, Counted
        <5>2. job[h][1] \in Msg /\ job[h][2] \in Nat
          BY <5>1, MaxAttemptsType DEF Delivery
        <5> QED
          BY <3>2, <5>1, <5>2
      <4>2. ASSUME NEW r \in Run, script'[r] # "none"
            PROVE  r[2] <= attempts'[r[1]]
        <5>1. r[2] <= attempts[r[1]] /\ r[1] \in Msg /\ r[2] \in Nat
          BY <3>1, <4>2, MaxAttemptsType DEF Deliveries, Counted, Run
        <5> QED
          BY <3>2, <5>1
      <4> QED
        BY <4>1, <4>2 DEF Counted
    <3> QED
      BY <3>1, <3>3 DEF Deliveries, Apart, Fresh
  <2>3. ASSUME NEW h \in Handler, NEW m \in Msg, HandleMessage(h, m)
        PROVE  Deliveries'
    <3>1. /\ script' = script
          /\ attempts' = [attempts EXCEPT ![m] = @ + 1]
          /\ job' = [job EXCEPT ![h] = <<m, attempts'[m]>>]
          /\ attempts[m] <= MaxAttempts
      BY <2>3 DEF HandleMessage, Deliverable, sharedVars
    <3>2. /\ \A x \in Msg : attempts[x] \in Nat /\ attempts'[x] \in Nat /\ attempts[x] <= attempts'[x]
          /\ attempts'[m] = attempts[m] + 1
      BY <1>0, <3>1, MaxAttemptsType
    <3>3. job'[h] = <<m, attempts[m] + 1>> /\ job'[h] \in Delivery
      BY <1>0, <3>1, <3>2, MaxAttemptsType DEF Delivery
    <3>4. \A x \in Handler : x # h => pc'[x] = pc[x] /\ job'[x] = job[x]
      BY <1>0, <2>3, <3>1 DEF HandleMessage, Deliverable, Goto
    <3>5. \A x \in Handler : pc[x] # "idle" =>
             /\ job[x] \in Delivery /\ job[x][1] \in Msg /\ job[x][2] \in Nat
             /\ job[x][2] <= attempts[job[x][1]]
      BY MaxAttemptsType DEF Deliveries, Counted, Delivery
    <3>6. \A r \in Run : script[r] # "none" => r[1] \in Msg /\ r[2] \in Nat /\ r[2] <= attempts[r[1]]
      BY MaxAttemptsType DEF Deliveries, Counted, Run
    <3>7. Counted'
      <4>1. ASSUME NEW x \in Handler, pc'[x] # "idle"
            PROVE  job'[x] \in Delivery /\ job'[x][2] <= attempts'[job'[x][1]]
        <5>1. CASE x = h
          BY <3>2, <3>3, <5>1
        <5>2. CASE x # h
          BY <3>2, <3>4, <3>5, <4>1, <5>2
        <5> QED
          BY <5>1, <5>2
      <4>2. ASSUME NEW r \in Run, script'[r] # "none"
            PROVE  r[2] <= attempts'[r[1]]
        BY <3>1, <3>2, <3>6, <4>2
      <4> QED
        BY <4>1, <4>2 DEF Counted
    <3>8. Apart'
      <4>1. \A x \in Handler : x # h /\ pc[x] # "idle" => job'[x] # job'[h]
        <5> SUFFICES ASSUME NEW x \in Handler, x # h, pc[x] # "idle", job[x] = job'[h]
                     PROVE  FALSE
          BY <3>4
        <5>1. job[x][1] = m /\ job[x][2] = attempts[m] + 1
          BY <3>3
        <5> QED
          BY <3>2, <3>5, <5>1
      <4> QED
        BY <3>4, <4>1 DEF Deliveries, Apart
    <3>9. Fresh'
      <4>1. \A x \in Handler : x # h /\ pc'[x] \in Starting => job'[x] \in Run /\ script'[job'[x]] = "none"
        BY <3>1, <3>4 DEF Deliveries, Fresh
      <4>2. ASSUME pc'[h] \in Starting
            PROVE  job'[h] \in Run /\ script'[job'[h]] = "none"
        <5>1. attempts[m] + 1 \in 1 .. MaxAttempts
          BY <1>0, <2>3, <3>2, <4>2, MaxAttemptsType DEF HandleMessage, Deliverable, Goto, Starting
        <5>2. job'[h] \in Run /\ job'[h][1] = m /\ job'[h][2] = attempts[m] + 1
          BY <3>3, <5>1 DEF Run
        <5>3. script[job'[h]] = "none"
          BY <3>2, <3>6, <5>2
        <5> QED
          BY <3>1, <5>2, <5>3
      <4> QED
        BY <4>1, <4>2 DEF Fresh
    <3> QED
      BY <3>7, <3>8, <3>9 DEF Deliveries
  <2>4. ASSUME NEW h \in Handler, HandlerStep(h)
        PROVE  Deliveries'
    <3>1. CASE Execute(h)
      <4>1. /\ pc[h] = "execute" /\ job' = job /\ attempts' = attempts
            /\ \A x \in Handler : x # h => pc'[x] = pc[x]
            /\ pc'[h] \in {"started", "release"}
        BY <1>0, <3>1 DEF Execute, HandleExecuteCommand, Goto, queueVars
      <4>2. job[h] \in Run /\ job[h][2] <= attempts[job[h][1]]
        BY <4>1 DEF Deliveries, Counted, Fresh, Starting
      <4>3. \A r \in Run : r # job[h] => script'[r] = script[r]
        BY <1>0, <3>1 DEF Execute, HandleExecuteCommand
      <4>4. Counted'
        BY <4>1, <4>2, <4>3 DEF Deliveries, Counted
      <4>5. Apart'
        BY <4>1 DEF Deliveries, Apart
      <4>6. Fresh'
        <5> SUFFICES ASSUME NEW x \in Handler, pc'[x] \in Starting
                     PROVE  job'[x] \in Run /\ script'[job'[x]] = "none"
          BY DEF Fresh
        <5>1. x # h /\ pc[x] \in Starting /\ pc[x] # "idle"
          BY <4>1 DEF Starting
        <5>2. job[x] # job[h]
          BY <4>1, <5>1 DEF Deliveries, Apart
        <5> QED
          BY <4>1, <4>3, <5>1, <5>2 DEF Deliveries, Fresh
      <4> QED
        BY <4>4, <4>5, <4>6 DEF Deliveries
    <3>2. CASE ~Execute(h)
      <4>1. attempts' = attempts /\ script' = script
        BY <2>4, <3>2 DEF HandlerStep, Claim, SetExpire, Fetch, HandleFetchObject, Release, Fail, Unclaim, Started,
             Finish, Requeue, queueVars, sharedVars, scriptVars
      <4>2. /\ \A x \in Handler : x # h => pc'[x] = pc[x] /\ job'[x] = job[x]
            /\ pc[h] # "idle"
            /\ pc'[h] # "idle" => job'[h] = job[h]
            /\ pc'[h] \in Starting => pc[h] \in Starting
        <5>1. CASE Claim(h)
          BY <1>0, <5>1 DEF Claim, Goto, Starting
        <5>2. CASE SetExpire(h)
          BY <1>0, <5>2 DEF SetExpire, Goto, Starting
        <5>3. CASE Fetch(h)
          BY <1>0, <5>3 DEF Fetch, HandleFetchObject, Goto, Starting
        <5>4. CASE Release(h) \/ Fail(h) \/ Unclaim(h) \/ Started(h)
          BY <1>0, <5>4 DEF Release, Fail, Unclaim, Started, Goto, Starting
        <5>5. CASE Finish(h) \/ Requeue(h)
          BY <1>0, <5>5 DEF Finish, Requeue, Return, Goto, Starting
        <5> QED
          BY <2>4, <3>2, <5>1, <5>2, <5>3, <5>4, <5>5 DEF HandlerStep
      <4> QED
        BY <4>1, <4>2, DeliveriesKept
    <3> QED
      BY <3>1, <3>2
  <2> QED
    BY <1>1, <2>1, <2>2, <2>3, <2>4 DEF QueueStep, QueueNext
<1>2. CASE RestartStep
  BY <1>2, DeliveriesKept DEF RestartStep, Restart, queueVars, handlerVars, sharedVars
<1>3. CASE CrashStep
  <2>1. PICK j \in Judger : Crash(j)
    BY <1>3 DEF CrashStep
  <2>2. attempts' = attempts /\ script' = script
    BY <2>1 DEF Crash, StopHandlers, sharedVars
  <2>3. ASSUME NEW h \in Handler
        PROVE  pc'[h] = "idle" \/ (pc'[h] = pc[h] /\ job'[h] = job[h])
    <3>1. /\ pc'[h] = IF JudgerOf(h) = j THEN "idle" ELSE pc[h]
          /\ job'[h] = IF JudgerOf(h) = j THEN NoJob ELSE job[h]
      BY <2>1, Zenon DEF Crash, StopHandlers
    <3>2. CASE JudgerOf(h) = j
      BY <3>1, <3>2
    <3>3. CASE JudgerOf(h) # j
      BY <3>1, <3>3
    <3> QED
      BY <3>2, <3>3
  <2>4. "idle" \notin Starting
    BY DEF Starting
  <2> QED
    BY <2>2, <2>3, <2>4, DeliveriesKept
<1>4. CASE ScriptStep
  <2>1. UNCHANGED <<attempts, pc, job>>
    BY <1>4 DEF ScriptStep, queueState, queueVars, handlerVars
  <2>2. \A r \in Run : script'[r] = "none" <=> script[r] = "none"
    BY <1>0, <1>4 DEF ScriptStep, ScriptNext, StoreResult, HandleUploadFile, EndScript, StoreExit
  <2> QED
    BY <2>1, <2>2, DeliveriesKept
<1>5. CASE ListenerStepNext \/ TimerStepNext \/ ForgetStep
  <2>1. UNCHANGED <<attempts, pc, job>>
    BY <1>5 DEF ListenerStepNext, TimerStepNext, ForgetStep, queueState, queueVars, handlerVars
  <2>2. script' = script
    BY <1>5 DEF ListenerStepNext, TimerStepNext, ForgetStep, ListenerNext, TimerNext, ForgetClaim,
       ForgetEvent, Check, ExpireMark, Read, ReadFails, Unmark, Publish, UnclaimReported, Wake, AfterWake,
       ExpireWoken, ReleaseWoken, ReportWoken, UnclaimWoken, sharedVars, scriptVars
  <2> QED
    BY <2>1, <2>2, DeliveriesKept
<1>6. CASE UNCHANGED vars
  BY <1>6, DeliveriesKept DEF vars, queueVars, handlerVars, sharedVars
<1> QED
  BY <1>1, <1>2, <1>3, <1>4, <1>5, <1>6 DEF Next

-----------------------------------------------------------------------------
(* The exit status of a script is stored once, so that a judger arms the    *)
(* timer of a script at most once.                                          *)
ExitEvents(j) == inbox[<<j, "command">>]
NoExitEvent(j, r) == \A i \in 1 .. Len(ExitEvents(j)) : ExitEvents(j)[i].run # r

OneExit ==
    \A j \in Judger, r \in Run :
        /\ script[r] # "settled" \/ timer[<<j, r>>] # "off" => NoExitEvent(j, r)
        /\ script[r] # "settled" => timer[<<j, r>>] = "off"
        /\ \A i, k \in 1 .. Len(ExitEvents(j)) :
              ExitEvents(j)[i].run = r /\ ExitEvents(j)[k].run = r => i = k

(* Steps that neither store an exit status nor handle one keep this.        *)
LEMMA OneExitKept ==
    ASSUME OneExit,
           \A j \in Judger : ExitEvents(j)' = ExitEvents(j),
           \A j \in Judger, r \in Run : timer[<<j, r>>] = "off" => timer'[<<j, r>>] = "off",
           \A r \in Run : script[r] = "settled" => script'[r] = "settled",
           \A r \in Run : script'[r] = "settled" => script[r] = "settled"
    PROVE  OneExit'
<1> SUFFICES ASSUME NEW j \in Judger, NEW r \in Run
             PROVE  /\ script'[r] # "settled" \/ timer'[<<j, r>>] # "off" => NoExitEvent(j, r)'
                    /\ script'[r] # "settled" => timer'[<<j, r>>] = "off"
                    /\ \A i, k \in 1 .. Len(ExitEvents(j)') :
                          ExitEvents(j)'[i].run = r /\ ExitEvents(j)'[k].run = r => i = k
  BY DEF OneExit
<1>1. ExitEvents(j)' = ExitEvents(j)
  OBVIOUS
<1>2. NoExitEvent(j, r)' <=> NoExitEvent(j, r)
  BY <1>1 DEF NoExitEvent
<1>3. /\ script[r] # "settled" \/ timer[<<j, r>>] # "off" => NoExitEvent(j, r)
      /\ script[r] # "settled" => timer[<<j, r>>] = "off"
      /\ \A i, k \in 1 .. Len(ExitEvents(j)) :
            ExitEvents(j)[i].run = r /\ ExitEvents(j)[k].run = r => i = k
  BY DEF OneExit
<1> QED
  BY <1>1, <1>2, <1>3

(* A listener that takes the notification of a script's exit from its inbox *)
(* leaves none about that script.                                           *)
LEMMA ExitTaken ==
    ASSUME TypeInv, OneExit, NEW j \in Judger, ExitEvents(j) # <<>>,
           ExitEvents(j)' = Tail(ExitEvents(j)),
           \A x \in Judger : x # j => ExitEvents(x)' = ExitEvents(x),
           script' = script,
           \A x \in Judger, r \in Run :
               timer'[<<x, r>>] = timer[<<x, r>>] \/ (x = j /\ r = Head(ExitEvents(j)).run)
    PROVE  OneExit'
<1>1. /\ ExitEvents(j) \in Seq(Event) /\ Len(ExitEvents(j)) \in Nat /\ Len(ExitEvents(j)) >= 1
      /\ Len(ExitEvents(j)') = Len(ExitEvents(j)) - 1
      /\ \A i \in 1 .. Len(ExitEvents(j)') : ExitEvents(j)'[i] = ExitEvents(j)[i + 1]
      /\ Head(ExitEvents(j)) = ExitEvents(j)[1]
  <2>1. ExitEvents(j) \in Seq(Event)
    BY DEF ExitEvents, TypeInv, TypeOK, ResultsTypeOK, Listener, Listening
  <2> QED
    BY <2>1, HeadTailProperties
<1>2. \A i \in 1 .. Len(ExitEvents(j)') :
         i \in Nat /\ i + 1 \in 1 .. Len(ExitEvents(j)) /\ i + 1 # 1
  BY <1>1
<1>3. ASSUME NEW r \in Run
      PROVE  /\ NoExitEvent(j, r) => NoExitEvent(j, r)'
             /\ r = Head(ExitEvents(j)).run => script[r] = "settled" /\ NoExitEvent(j, r)'
             /\ \A i, k \in 1 .. Len(ExitEvents(j)') :
                   ExitEvents(j)'[i].run = r /\ ExitEvents(j)'[k].run = r => i = k
  <2>0. \A i, k \in 1 .. Len(ExitEvents(j)) :
           ExitEvents(j)[i].run = r /\ ExitEvents(j)[k].run = r => i = k
    BY DEF OneExit
  <2>1. NoExitEvent(j, r) => NoExitEvent(j, r)'
    BY <1>1, <1>2 DEF NoExitEvent
  <2>2. ASSUME r = Head(ExitEvents(j)).run
        PROVE  script[r] = "settled" /\ NoExitEvent(j, r)'
    <3>1. 1 \in 1 .. Len(ExitEvents(j)) /\ ExitEvents(j)[1].run = r
      BY <1>1, <2>2
    <3>2. script[r] = "settled"
      BY <3>1 DEF OneExit, NoExitEvent
    <3>3. ASSUME NEW i \in 1 .. Len(ExitEvents(j)') PROVE ExitEvents(j)'[i].run # r
      <4>1. i + 1 \in 1 .. Len(ExitEvents(j)) /\ i + 1 # 1
        BY <1>2
      <4>2. ExitEvents(j)[i + 1].run # r
        BY <2>0, <3>1, <4>1
      <4> QED
        BY <1>1, <4>2
    <3> QED
      BY <3>2, <3>3 DEF NoExitEvent
  <2>3. ASSUME NEW i \in 1 .. Len(ExitEvents(j)'), NEW k \in 1 .. Len(ExitEvents(j)'),
               ExitEvents(j)'[i].run = r, ExitEvents(j)'[k].run = r
        PROVE  i = k
    <3>1. /\ i \in Nat /\ i + 1 \in 1 .. Len(ExitEvents(j))
          /\ k \in Nat /\ k + 1 \in 1 .. Len(ExitEvents(j))
      BY <1>2
    <3>2. ExitEvents(j)[i + 1].run = r /\ ExitEvents(j)[k + 1].run = r
      BY <1>1, <2>3
    <3>3. i + 1 = k + 1
      BY <2>0, <3>1, <3>2
    <3> QED
      BY <3>1, <3>3
  <2> QED
    BY <2>1, <2>2, <2>3
<1> SUFFICES ASSUME NEW x \in Judger, NEW r \in Run
             PROVE  /\ script'[r] # "settled" \/ timer'[<<x, r>>] # "off" => NoExitEvent(x, r)'
                    /\ script'[r] # "settled" => timer'[<<x, r>>] = "off"
                    /\ \A i, k \in 1 .. Len(ExitEvents(x)') :
                          ExitEvents(x)'[i].run = r /\ ExitEvents(x)'[k].run = r => i = k
  BY DEF OneExit
<1>4. CASE x # j
  BY <1>4 DEF OneExit, NoExitEvent
<1>5. CASE x = j
  <2>1. /\ script[r] # "settled" \/ timer[<<j, r>>] # "off" => NoExitEvent(j, r)
        /\ script[r] # "settled" => timer[<<j, r>>] = "off"
    BY DEF OneExit
  <2>2. CASE r = Head(ExitEvents(j)).run
    BY <1>3, <1>5, <2>2
  <2>3. CASE r # Head(ExitEvents(j)).run
    <3>1. timer'[<<x, r>>] = timer[<<x, r>>] /\ script'[r] = script[r]
      BY <2>3
    <3>2. NoExitEvent(x, r) => NoExitEvent(x, r)'
      BY <1>3, <1>5
    <3>3. \A i, k \in 1 .. Len(ExitEvents(x)') :
             ExitEvents(x)'[i].run = r /\ ExitEvents(x)'[k].run = r => i = k
      BY <1>3, <1>5
    <3> QED
      BY <2>1, <3>1, <3>2, <3>3, <1>5
  <2> QED
    BY <2>2, <2>3
<1> QED
  BY <1>4, <1>5

LEMMA OneExitStep == TypeInv /\ Deliveries /\ OneExit /\ [Next]_vars => OneExit'
<1> SUFFICES ASSUME TypeInv, Deliveries, OneExit, [Next]_vars PROVE OneExit'
  OBVIOUS
<1>0. /\ timer \in [Timer -> TimerStep] /\ script \in [Run -> ScriptState]
      /\ inbox \in [Listener -> Seq(Event)]
      /\ \A j \in Judger : <<j, "command">> \in Listener
      /\ \A j \in Judger, r \in Run : <<j, r>> \in Timer
  BY DEF TypeInv, TypeOK, SharedTypeOK, ResultsTypeOK, Listener, Listening, Timer
<1>1. CASE QueueStep \/ RestartStep
  <2>1. UNCHANGED <<inbox, timer>>
    BY <1>1 DEF QueueStep, RestartStep, resultsState, listenerVars
  <2>2. \A r \in Run : script'[r] = "settled" <=> script[r] = "settled"
    <3>1. CASE \E h \in Handler : Execute(h)
      <4>1. PICK h \in Handler : Execute(h)
        BY <3>1
      <4>2. script[job[h]] = "none"
        BY <4>1 DEF Execute, HandleExecuteCommand, Deliveries, Fresh, Starting
      <4> QED
        BY <1>0, <4>1, <4>2 DEF Execute, HandleExecuteCommand
    <3>2. CASE ~ \E h \in Handler : Execute(h)
      <4>1. script' = script
        BY <1>1, <3>2 DEF QueueStep, RestartStep, QueueNext, Submit, Drop, MsgTimeout, HandleMessage, Deliverable,
           HandlerStep, Claim, SetExpire, Fetch, HandleFetchObject, Release, Fail, Unclaim, Started, Finish, Requeue,
           Restart, sharedVars, scriptVars
      <4> QED
        BY <4>1
    <3> QED
      BY <3>1, <3>2
  <2> QED
    BY <2>1, <2>2, OneExitKept DEF ExitEvents
<1>2. CASE CrashStep
  <2>1. PICK y \in Judger : Crash(y)
    BY <1>2 DEF CrashStep
  <2>2. script' = script
    BY <2>1 DEF Crash, sharedVars
  <2>3. ASSUME NEW j \in Judger
        PROVE  ExitEvents(j)' = <<>> \/ ExitEvents(j)' = ExitEvents(j)
    <3>1. inbox' = [l \in Listener |-> IF l[1] = y THEN <<>> ELSE inbox[l]]
      BY <2>1 DEF Crash, StopListeners
    <3> QED
      BY <1>0, <3>1 DEF ExitEvents
  <2>4. ASSUME NEW j \in Judger, NEW r \in Run
        PROVE  timer'[<<j, r>>] = "off" \/ timer'[<<j, r>>] = timer[<<j, r>>]
    <3>1. timer' = [t \in Timer |-> IF t[1] = y THEN "off" ELSE timer[t]]
      BY <2>1 DEF Crash, StopListeners
    <3> QED
      BY <1>0, <3>1
  <2> SUFFICES ASSUME NEW j \in Judger, NEW r \in Run
               PROVE  /\ script'[r] # "settled" \/ timer'[<<j, r>>] # "off" => NoExitEvent(j, r)'
                      /\ script'[r] # "settled" => timer'[<<j, r>>] = "off"
                      /\ \A i, k \in 1 .. Len(ExitEvents(j)') :
                            ExitEvents(j)'[i].run = r /\ ExitEvents(j)'[k].run = r => i = k
    BY DEF OneExit
  <2>5. CASE ExitEvents(j)' = <<>>
    BY <2>2, <2>4, <2>5 DEF OneExit, NoExitEvent
  <2>6. CASE ExitEvents(j)' = ExitEvents(j)
    BY <2>2, <2>4, <2>6 DEF OneExit, NoExitEvent
  <2> QED
    BY <2>3, <2>5, <2>6
<1>3. CASE ScriptStep
  <2>1. PICK r \in ValidRun : ScriptNext(r, up)
    BY <1>3 DEF ScriptStep
  <2>2. timer' = timer /\ r \in Run
    BY <2>1 DEF ScriptNext, StoreResult, HandleUploadFile, EndScript, StoreExit, ValidRun
  <2>3. CASE \E c \in Upload : StoreResult(r, c, up)
    <3>1. \A j \in Judger : ExitEvents(j)' = ExitEvents(j)
      <4>2. PICK e : Notify(up, "result", e)
        BY <2>3 DEF StoreResult, HandleUploadFile
      <4> QED
        BY <1>0, <4>2 DEF Notify, ExitEvents
    <3> QED
      BY <2>2, <2>3, <3>1, OneExitKept DEF StoreResult, HandleUploadFile
  <2>4. CASE EndScript(r)
    <3>1. \A x \in Run : script'[x] = "settled" <=> script[x] = "settled"
      BY <1>0, <2>4 DEF EndScript
    <3>2. inbox' = inbox
      BY <2>4 DEF EndScript, listenerVars
    <3> QED
      BY <2>2, <3>1, <3>2, OneExitKept DEF ExitEvents
  <2>5. ASSUME NEW c \in Exit, StoreExit(r, c, up)
        PROVE  OneExit'
    <3>1. /\ script[r] = "exited" /\ script'[r] = "settled"
          /\ \A x \in Run : x # r => script'[x] = script[x]
      BY <1>0, <2>2, <2>5 DEF StoreExit
    <3> DEFINE e == [run |-> r, body |-> c]
    <3>2. \/ inbox' = inbox
          \/ inbox' = [l \in Listener |-> IF l[2] = "command" /\ up[l[1]]
                                          THEN Append(inbox[l], e) ELSE inbox[l]]
      BY <2>5 DEF StoreExit, Notify
    <3>3. e \in Event /\ e.run = r
      BY <2>2 DEF Event
    <3> HIDE DEF e
    <3>4. ASSUME NEW j \in Judger
          PROVE  /\ ExitEvents(j) \in Seq(Event) /\ Len(ExitEvents(j)) \in Nat
                 /\ \/ ExitEvents(j)' = ExitEvents(j)
                    \/ /\ Len(ExitEvents(j)') = Len(ExitEvents(j)) + 1
                       /\ \A i \in 1 .. Len(ExitEvents(j)) : ExitEvents(j)'[i] = ExitEvents(j)[i]
                       /\ ExitEvents(j)'[Len(ExitEvents(j)) + 1] = e
      <4>1. ExitEvents(j) \in Seq(Event) /\ Len(ExitEvents(j)) \in Nat
        BY <1>0 DEF ExitEvents
      <4>2. \/ ExitEvents(j)' = ExitEvents(j)
            \/ ExitEvents(j)' = Append(ExitEvents(j), e)
        BY <1>0, <3>2 DEF ExitEvents
      <4> QED
        BY <3>3, <4>1, <4>2, AppendProperties
    <3>5. \A j \in Judger : NoExitEvent(j, r) /\ timer[<<j, r>>] = "off"
      BY <2>2, <3>1 DEF OneExit
    <3> SUFFICES ASSUME NEW j \in Judger, NEW x \in Run
                 PROVE  /\ script'[x] # "settled" \/ timer'[<<j, x>>] # "off" => NoExitEvent(j, x)'
                        /\ script'[x] # "settled" => timer'[<<j, x>>] = "off"
                        /\ \A i, k \in 1 .. Len(ExitEvents(j)') :
                              ExitEvents(j)'[i].run = x /\ ExitEvents(j)'[k].run = x => i = k
      BY DEF OneExit
    <3>6. CASE x = r
      BY <2>2, <3>1, <3>3, <3>4, <3>5, <3>6 DEF NoExitEvent
    <3>7. CASE x # r
      <4>1. /\ script[x] # "settled" \/ timer[<<j, x>>] # "off" => NoExitEvent(j, x)
            /\ script[x] # "settled" => timer[<<j, x>>] = "off"
            /\ \A i, k \in 1 .. Len(ExitEvents(j)) :
                  ExitEvents(j)[i].run = x /\ ExitEvents(j)[k].run = x => i = k
        BY DEF OneExit
      <4>2. script'[x] = script[x] /\ timer'[<<j, x>>] = timer[<<j, x>>]
        BY <2>2, <3>1, <3>7
      <4>3. CASE ExitEvents(j)' = ExitEvents(j)
        BY <4>1, <4>2, <4>3 DEF NoExitEvent
      <4>4. CASE ExitEvents(j)' # ExitEvents(j)
        <5>1. \A i \in 1 .. Len(ExitEvents(j)') :
                 i # Len(ExitEvents(j)) + 1 =>
                    i \in 1 .. Len(ExitEvents(j)) /\ ExitEvents(j)'[i] = ExitEvents(j)[i]
          BY <3>4, <4>4
        <5>2. \A i \in 1 .. Len(ExitEvents(j)') :
                 ExitEvents(j)'[i].run = x => i # Len(ExitEvents(j)) + 1
          BY <3>3, <3>4, <3>7, <4>4
        <5>3. NoExitEvent(j, x) => NoExitEvent(j, x)'
          BY <5>1, <5>2 DEF NoExitEvent
        <5> QED
          BY <4>1, <4>2, <5>1, <5>2, <5>3
      <4> QED
        BY <4>3, <4>4
    <3> QED
      BY <3>6, <3>7
  <2> QED
    BY <2>1, <2>3, <2>4, <2>5 DEF ScriptNext
<1>4. CASE ListenerStepNext
  <2>1. PICK l \in Listener : ListenerNext(l)
    BY <1>4 DEF ListenerStepNext
  <2>2. script' = script
    BY <2>1 DEF ListenerNext, Check, ExpireMark, Read, ReadFails, Unmark, Publish, UnclaimReported,
       sharedVars, scriptVars
  <2>3. l[1] \in Judger /\ l[2] \in Listening /\ l = <<l[1], l[2]>>
    BY DEF Listener
  <2>4. inbox[l] # <<>>
    BY <2>1 DEF TypeInv, Busy, ListenerNext, Check, ExpireMark, Read, ReadFails, Unmark, Publish, UnclaimReported
  <2>5. inbox' = inbox \/ inbox' = [inbox EXCEPT ![l] = Tail(@)]
    BY <2>1 DEF ListenerNext, Check, ExpireMark, Read, ReadFails, Unmark, Publish, UnclaimReported,
       Skip, Proceed
  <2>6. \/ timer' = timer
        \/ /\ timer' = [timer EXCEPT ![<<l[1], First(l).run>>] = "sleep"]
           /\ inbox' = [inbox EXCEPT ![l] = Tail(@)]
           /\ l[2] = "command"
    <3>1. CASE Read(l)
      <4>1. l[2] = "result" => Contents(l) # ExitOK
        <5>1. SUFFICES ASSUME l[2] = "result" PROVE Contents(l) \in Upload
          BY UploadIsNoExit
        <5>2. Head(inbox[l]) = inbox[l][1] /\ 1 \in 1 .. Len(inbox[l])
          BY <1>0, <2>4
        <5> QED
          BY <5>1, <5>2 DEF TypeInv, Notified, Contents, First, EventSolution, Objects
      <4> QED
        BY <2>3, <3>1, <4>1 DEF Read, Skip, Listening
    <3>2. CASE ~Read(l)
      BY <2>1, <3>2 DEF ListenerNext, Check, ExpireMark, ReadFails, Unmark, Publish, UnclaimReported
    <3> QED
      BY <3>1, <3>2
  <2>7. CASE l[2] = "command" /\ inbox' = [inbox EXCEPT ![l] = Tail(@)]
    <3> DEFINE j == l[1]
    <3>1. ExitEvents(j) # <<>> /\ ExitEvents(j)' = Tail(ExitEvents(j))
      BY <1>0, <2>3, <2>4, <2>7 DEF ExitEvents
    <3>2. \A x \in Judger : x # j => ExitEvents(x)' = ExitEvents(x)
      BY <1>0, <2>3, <2>7 DEF ExitEvents
    <3>3. Head(ExitEvents(j)).run = First(l).run
      BY <2>3, <2>7 DEF ExitEvents, First
    <3>4. \A x \in Judger, r \in Run :
             timer'[<<x, r>>] = timer[<<x, r>>] \/ (x = j /\ r = Head(ExitEvents(j)).run)
      BY <1>0, <2>6, <3>3
    <3> QED
      BY <2>2, <2>3, <3>1, <3>2, <3>4, ExitTaken
  <2>8. CASE ~ (l[2] = "command" /\ inbox' = [inbox EXCEPT ![l] = Tail(@)])
    <3>1. timer' = timer
      BY <2>6, <2>8
    <3>2. ASSUME NEW j \in Judger PROVE ExitEvents(j)' = ExitEvents(j)
      <4>1. CASE inbox' = inbox
        BY <4>1 DEF ExitEvents
      <4>2. CASE inbox' # inbox
        <5>1. inbox' = [inbox EXCEPT ![l] = Tail(@)] /\ l[2] # "command"
          BY <2>5, <2>8, <4>2
        <5>2. <<j, "command">> # l /\ <<j, "command">> \in Listener
          BY <1>0, <2>3, <5>1
        <5> QED
          BY <1>0, <5>1, <5>2 DEF ExitEvents
      <4> QED
        BY <4>1, <4>2
    <3> QED
      BY <2>2, <3>1, <3>2, OneExitKept
  <2> QED
    BY <2>7, <2>8
<1>5. CASE TimerStepNext
  <2>1. PICK t \in Timer : TimerNext(t)
    BY <1>5 DEF TimerStepNext
  <2>2. inbox' = inbox /\ script' = script
    BY <2>1 DEF TimerNext, Wake, AfterWake, ExpireWoken, ReleaseWoken, ReportWoken, UnclaimWoken,
       listenerVars, scriptVars
  <2>3. timer[t] # "off" /\ \A x \in Timer : x # t => timer'[x] = timer[x]
    BY <1>0, <2>1 DEF TimerNext, Wake, AfterWake, ExpireWoken, ReleaseWoken, ReportWoken, UnclaimWoken, Set
  <2> QED
    BY <1>0, <2>2, <2>3, OneExitKept DEF ExitEvents
<1>6. CASE ForgetStep \/ UNCHANGED vars
  <2>1. UNCHANGED <<inbox, timer, script>>
    BY <1>6 DEF ForgetStep, ForgetClaim, ForgetEvent, resultsState, listenerVars, scriptVars, vars, sharedVars
  <2> QED
    BY <2>1, OneExitKept DEF ExitEvents
<1> QED
  BY <1>1, <1>2, <1>3, <1>4, <1>5, <1>6 DEF Next

(* The invariant of the protocol: types, deliveries and exits.              *)
CoreInv == TypeInv /\ Deliveries /\ OneExit

LEMMA CoreInit == Init => CoreInv
<1> SUFFICES ASSUME Init PROVE Deliveries /\ OneExit
  BY TypeInit DEF CoreInv
<1>1. Deliveries
  BY DEF Init, QueueInit, SharedInit, Deliveries, Counted, Apart, Fresh, Starting
<1>2. OneExit
  <2>1. \A j \in Judger : ExitEvents(j) = <<>>
    BY DEF Init, ResultsInit, ExitEvents, Listener, Listening
  <2>2. \A j \in Judger, r \in Run : timer[<<j, r>>] = "off"
    BY DEF Init, ResultsInit, Timer
  <2> QED
    <3> SUFFICES ASSUME NEW j \in Judger, NEW r \in Run
                 PROVE  /\ NoExitEvent(j, r)
                        /\ timer[<<j, r>>] = "off"
                        /\ \A i, k \in 1 .. Len(ExitEvents(j)) : i = k
      BY DEF OneExit
    <3>1. ExitEvents(j) = <<>> /\ timer[<<j, r>>] = "off"
      BY <2>1, <2>2
    <3> HIDE DEF ExitEvents
    <3> QED
      BY <3>1 DEF NoExitEvent
<1> QED
  BY <1>1, <1>2

LEMMA CoreInvariant == Spec => []CoreInv
<1>1. CoreInv /\ [Next]_vars => CoreInv'
  BY TypeStep, DeliveriesStep, OneExitStep DEF CoreInv
<1> QED
  BY CoreInit, <1>1, PTL DEF Spec

(* A listener arms a timer that is off: a script ends once.                 *)
LEMMA ArmedOnce ==
    ASSUME CoreInv, NEW l \in Listener, inbox[l] # <<>>, Read(l), timer' # timer
    PROVE  timer[<<l[1], First(l).run>>] = "off"
<1>0. /\ inbox \in [Listener -> Seq(Event)]
      /\ l[1] \in Judger /\ l[2] \in Listening /\ l = <<l[1], l[2]>>
  BY DEF CoreInv, TypeInv, TypeOK, ResultsTypeOK, Listener
<1>1. Head(inbox[l]) = inbox[l][1] /\ 1 \in 1 .. Len(inbox[l]) /\ inbox[l] \in Seq(Event)
  BY <1>0
<1>2. Contents(l) = ExitOK
  BY DEF Read
<1>3. l[2] = "result" => Contents(l) \in Upload
  BY <1>1 DEF CoreInv, TypeInv, Notified, Contents, First, EventSolution, Objects
<1>4. ExitOK \notin Upload
  BY UploadIsNoExit
<1>5. l[2] = "command"
  BY <1>0, <1>2, <1>3, <1>4 DEF Listening
<1>6. ExitEvents(l[1]) = inbox[l]
  BY <1>0, <1>5 DEF ExitEvents
<1>7. First(l).run \in Run
  <2>1. First(l) \in Event
    BY <1>0, HeadTailProperties DEF First
  <2> QED
    BY <2>1 DEF Event
<1>8. ~NoExitEvent(l[1], First(l).run)
  BY <1>1, <1>6 DEF NoExitEvent, First
<1>9. <<l[1], First(l).run>> \in Timer
  BY <1>0, <1>7 DEF Timer
<1> QED
  BY <1>0, <1>7, <1>8 DEF CoreInv, OneExit

-----------------------------------------------------------------------------
(* A claim without a deadline is one whose creator is about to set it, as   *)
(* long as judgers do not stop and EXPIRE does not fail.                    *)
THEOREM ClaimsGetDeadline ==
    ASSUME "crash" \notin Faults, "expire" \notin Faults
    PROVE  Spec => []ClaimsExpire
<1>1. Init => ClaimsExpire
  <2> SUFFICES ASSUME Init, NEW s \in Solution PROVE claim[s] # "lasting"
    BY DEF ClaimsExpire
  <2> QED
    BY DEF Init, SharedInit, ClaimKey
<1>2. CoreInv /\ ClaimsExpire /\ [Next]_vars => ClaimsExpire'
  <2> SUFFICES ASSUME CoreInv, ClaimsExpire, [Next]_vars,
                      NEW s \in Solution, claim'[s] = "lasting"
               PROVE  (\/ \E h \in Handler : pc[h] = "expire" /\ JobSolution(h) = s
                       \/ \E t \in Timer : timer[t] = "expire" /\ SolutionOf(t[2]) = s)'
    BY DEF ClaimsExpire
  <2> DEFINE Setting == \/ \E h \in Handler : pc[h] = "expire" /\ JobSolution(h) = s
                        \/ \E t \in Timer : timer[t] = "expire" /\ SolutionOf(t[2]) = s
  <2>0. /\ claim \in [ClaimKey -> KeyState] /\ pc \in [Handler -> Step]
        /\ timer \in [Timer -> TimerStep] /\ s \in ClaimKey
    BY DEF CoreInv, TypeInv, TypeOK, SharedTypeOK, QueueTypeOK, ResultsTypeOK, ClaimKey
  (* A claim that was without a deadline: its creator is still there.       *)
  <2>1. ASSUME claim[s] = "lasting",
               \A h \in Handler : pc[h] = "expire" /\ JobSolution(h) = s =>
                                    pc'[h] = "expire" /\ job'[h] = job[h],
               \A t \in Timer : timer[t] = "expire" /\ SolutionOf(t[2]) = s =>
                                    timer'[t] = "expire"
        PROVE  Setting'
    BY <2>1 DEF ClaimsExpire, JobSolution
  (* DEL gives no claim without a deadline.                                 *)
  <2>2. ASSUME NEW k, claim' \in setRequestNotExist(claim, k)
        PROVE  claim[s] = "lasting"
    BY <2>0, <2>2 DEF setRequestNotExist, Del
  <2>3. CASE QueueStep
    <3>1. timer' = timer
      BY <2>3 DEF QueueStep, resultsState
    <3>2. ASSUME NEW m \in Msg, Submit(m) \/ Drop(m) \/ MsgTimeout(m)
          PROVE  Setting'
      BY <2>1, <3>1, <3>2 DEF Submit, Drop, MsgTimeout, handlerVars, sharedVars
    <3>3. ASSUME NEW h \in Handler, NEW m \in Msg, HandleMessage(h, m)
          PROVE  Setting'
      <4>1. claim' = claim /\ \A x \in Handler : pc[x] = "expire" =>
                                  pc'[x] = "expire" /\ job'[x] = job[x]
        BY <2>0, <3>3 DEF HandleMessage, Deliverable, Goto, sharedVars
      <4> QED
        BY <2>1, <3>1, <4>1
    <3>4. ASSUME NEW h \in Handler, HandlerStep(h)
          PROVE  Setting'
      <4>1. CASE Claim(h)
        <5>1. PICK answer \in checkIfRequestExists(claim, JobSolution(h)) :
                 /\ claim' = AfterIncr(claim, JobSolution(h), answer)
                 /\ Goto(h, CASE answer = "first" -> "expire"
                              [] answer = "again" -> "started"
                              [] answer = "error" -> "release")
          BY <4>1 DEF Claim
        <5>2. pc[h] = "claim" /\ job' = job
          BY <4>1 DEF Claim
        <5>3. CASE claim[s] = "lasting"
          <6>1. \A x \in Handler : x # h => pc'[x] = pc[x]
            BY <2>0, <5>1 DEF Goto
          <6> QED
            BY <2>1, <3>1, <5>2, <5>3, <6>1
        <5>4. CASE claim[s] # "lasting"
          <6>1. JobSolution(h) = s /\ answer = "first"
            BY <2>0, <5>1, <5>4 DEF AfterIncr, Incr, checkIfRequestExists, Exists
          <6>2. pc'[h] = "expire" /\ JobSolution(h)' = s
            BY <2>0, <5>1, <5>2, <6>1 DEF Goto, JobSolution
          <6> QED
            BY <6>2
        <5> QED
          BY <5>3, <5>4
      <4>2. CASE SetExpire(h)
        <5>1. claim' = Expire(claim, JobSolution(h)) /\ job' = job
          BY <4>2 DEF SetExpire, AfterExpire
        <5>2. JobSolution(h) # s /\ claim[s] = "lasting"
          BY <2>0, <5>1 DEF Expire
        <5>3. \A x \in Handler : x # h => pc'[x] = pc[x]
          BY <2>0, <4>2 DEF SetExpire, Goto
        <5> QED
          BY <2>1, <3>1, <5>1, <5>2, <5>3
      <4>3. CASE Release(h) \/ Unclaim(h)
        <5>1. claim[s] = "lasting" /\ job' = job
          BY <2>2, <4>3 DEF Release, Unclaim
        <5>2. \A x \in Handler : pc[x] = "expire" => pc'[x] = pc[x]
          BY <2>0, <4>3 DEF Release, Unclaim, Goto
        <5> QED
          BY <2>1, <3>1, <5>1, <5>2
      <4>4. CASE Fetch(h) \/ Execute(h) \/ Fail(h) \/ Started(h)
        <5>1. claim' = claim /\ job' = job
          BY <4>4 DEF Fetch, HandleFetchObject, Execute, HandleExecuteCommand, Fail, Started
        <5>2. \A x \in Handler : pc[x] = "expire" => pc'[x] = pc[x]
          BY <2>0, <4>4 DEF Fetch, HandleFetchObject, Execute, HandleExecuteCommand, Fail, Started, Goto
        <5> QED
          BY <2>1, <3>1, <5>1, <5>2
      <4>5. CASE Finish(h) \/ Requeue(h)
        <5>1. claim' = claim
          BY <4>5 DEF Finish, Requeue, sharedVars
        <5>2. \A x \in Handler : pc[x] = "expire" => pc'[x] = pc[x] /\ job'[x] = job[x]
          <6>1. pc[h] # "expire" /\ pc' = [pc EXCEPT ![h] = "idle"]
                /\ job' = [job EXCEPT ![h] = NoJob]
            BY <4>5 DEF Finish, Requeue, Return, Goto
          <6>2. job \in [Handler -> Delivery \cup {NoJob}]
            BY DEF CoreInv, TypeInv, TypeOK, QueueTypeOK
          <6> QED
            BY <2>0, <6>1, <6>2
        <5> QED
          BY <2>1, <3>1, <5>1, <5>2
      <4> QED
        BY <3>4, <4>1, <4>2, <4>3, <4>4, <4>5 DEF HandlerStep
    <3> QED
      BY <2>3, <3>2, <3>3, <3>4 DEF QueueStep, QueueNext
  <2>4. CASE RestartStep
    BY <2>1, <2>4 DEF RestartStep, Restart, handlerVars, sharedVars, resultsState
  <2>5. CASE CrashStep
    BY <2>5 DEF CrashStep, Crash
  <2>6. CASE ScriptStep
    <3>1. UNCHANGED <<claim, pc, job, timer>>
      BY <2>6 DEF ScriptStep, ScriptNext, StoreResult, HandleUploadFile, EndScript, StoreExit, queueState, handlerVars
    <3> QED
      BY <2>1, <3>1
  <2>7. CASE ListenerStepNext
    <3>1. PICK l \in Listener : ListenerNext(l) /\ UNCHANGED queueState
      BY <2>7 DEF ListenerStepNext
    <3>2. UNCHANGED <<pc, job>>
      BY <3>1 DEF queueState, handlerVars
    <3>3. claim[s] = "lasting"
      <4>1. CASE UnclaimReported(l)
        BY <2>2, <4>1 DEF UnclaimReported
      <4>2. CASE ~UnclaimReported(l)
        <5>1. claim' = claim
          BY <3>1, <4>2 DEF ListenerNext, Check, ExpireMark, Read, ReadFails, Unmark, Publish, sharedVars
        <5> QED
          BY <5>1
      <4> QED
        BY <4>1, <4>2
    <3>4. \A t \in Timer : timer[t] = "expire" => timer'[t] = "expire"
      <4>1. CASE Read(l)
        <5>1. \/ timer' = timer
              \/ timer' = [timer EXCEPT ![<<l[1], First(l).run>>] = "sleep"] /\ Skip(l)
          BY <4>1 DEF Read
        <5>2. CASE timer' = timer
          BY <5>2
        <5>3. CASE timer' # timer
          <6> DEFINE x == <<l[1], First(l).run>>
          <6>1. inbox[l] # <<>>
            BY <4>1 DEF CoreInv, TypeInv, Busy, Read
          <6>2. timer[x] = "off"
            BY <4>1, <5>3, <6>1, ArmedOnce
          <6> QED
            BY <2>0, <5>1, <5>3, <6>2
        <5> QED
          BY <5>2, <5>3
      <4>2. CASE ~Read(l)
        BY <3>1, <4>2 DEF ListenerNext, Check, ExpireMark, ReadFails, Unmark, Publish, UnclaimReported
      <4> QED
        BY <4>1, <4>2
    <3> QED
      BY <2>1, <3>2, <3>3, <3>4
  <2>8. CASE TimerStepNext
    <3>1. PICK t \in Timer : TimerNext(t) /\ UNCHANGED queueState
      BY <2>8 DEF TimerStepNext
    <3>2. UNCHANGED <<pc, job>>
      BY <3>1 DEF queueState, handlerVars
    <3>3. CASE Wake(t)
      <4>1. PICK answer \in checkIfRequestExists(claim, SolutionOf(t[2])) :
               /\ claim' = AfterIncr(claim, SolutionOf(t[2]), answer)
               /\ Set(t, IF answer = "first" THEN "expire" ELSE "release")
        BY <3>3 DEF Wake, AfterWake
      <4>2. timer[t] = "sleep"
        BY <3>3 DEF Wake, AfterWake
      <4>3. CASE claim[s] = "lasting"
        <5>1. \A x \in Timer : x # t => timer'[x] = timer[x]
          BY <2>0, <4>1 DEF Set
        <5> QED
          BY <2>1, <3>2, <4>2, <4>3, <5>1
      <4>4. CASE claim[s] # "lasting"
        <5>1. SolutionOf(t[2]) = s /\ answer = "first"
          BY <2>0, <4>1, <4>4 DEF AfterIncr, Incr, checkIfRequestExists, Exists
        <5>2. timer'[t] = "expire"
          BY <2>0, <4>1, <5>1 DEF Set
        <5> QED
          BY <5>1, <5>2
      <4> QED
        BY <4>3, <4>4
    <3>4. CASE ExpireWoken(t)
      <4>1. claim' = Expire(claim, SolutionOf(t[2]))
        BY <3>4 DEF ExpireWoken, AfterExpire
      <4>2. SolutionOf(t[2]) # s /\ claim[s] = "lasting"
        BY <2>0, <4>1 DEF Expire
      <4>3. \A x \in Timer : x # t => timer'[x] = timer[x]
        BY <2>0, <3>4 DEF ExpireWoken, Set
      <4> QED
        BY <2>1, <3>2, <4>2, <4>3
    <3>5. CASE ReleaseWoken(t) \/ UnclaimWoken(t) \/ ReportWoken(t)
      <4>1. claim[s] = "lasting"
        BY <2>2, <3>5 DEF ReleaseWoken, UnclaimWoken, ReportWoken
      <4>2. \A x \in Timer : timer[x] = "expire" => timer'[x] = "expire"
        BY <2>0, <3>5 DEF ReleaseWoken, UnclaimWoken, ReportWoken, Set
      <4> QED
        BY <2>1, <3>2, <4>1, <4>2
    <3> QED
      BY <3>1, <3>3, <3>4, <3>5 DEF TimerNext
  <2>9. CASE ForgetStep
    <3>1. UNCHANGED <<pc, job, timer>>
      BY <2>9 DEF ForgetStep, queueState, handlerVars, resultsState
    <3>2. claim[s] = "lasting"
      BY <2>0, <2>9 DEF ForgetStep, ForgetClaim, ForgetEvent, Del
    <3> QED
      BY <2>1, <3>1, <3>2
  <2>10. CASE UNCHANGED vars
    BY <2>1, <2>10 DEF vars, handlerVars, sharedVars
  <2> QED
    BY <2>3, <2>4, <2>5, <2>6, <2>7, <2>8, <2>9, <2>10 DEF Next
<1> QED
  BY CoreInvariant, <1>1, <1>2, PTL DEF Spec
=============================================================================
