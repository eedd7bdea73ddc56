------------------------- MODULE BridgeCommand_proofs -------------------------
(***************************************************************************)
(* A node that judges: its variables keep their types, it is clean when    *)
(* nothing runs on it, and, as long as the runs of one user that overlap   *)
(* are of one solution, every report is stored where it belongs and the    *)
(* processes behave as the judgers assume of a script.                     *)
(***************************************************************************)
EXTENDS BridgeCommand, TLAPS

(* What one run may do.                                                     *)
RunStep(r) ==
    \/ HandleFetchObject(r) \/ HandleExecuteCommand(r) \/ RefuseCommand(r) \/ BridgeStep(r)
    \/ SpawnNext(r) \/ InitFails(r) \/ SpawnFails(r) \/ AddProcFails(r)
    \/ StartProcess(r) \/ ProcessEnds(r) \/ FillStderr(r) \/ ScriptEnds(r) \/ Kill(r)
    \/ Report(r) \/ UploadFile(r) \/ StoreLate(r)

(* It leaves the processes of the other runs alone.                         *)
LEMMA OtherRuns ==
    ASSUME TypeOK, NEW r \in Run, RunStep(r), NEW q \in Run, q # r
    PROVE  /\ cmd'[q] = cmd[q] /\ spawn'[q] = spawn[q]
           /\ script'[q] = script[q] /\ exit'[q] = exit[q]
           /\ call'[q] = call[q] /\ got'[q] = got[q] /\ tries'[q] = tries[q]
           /\ q \in timedOut' <=> q \in timedOut
<1> USE DEF TypeOK, scriptVars, callVars, nodeVars, Proceed
<1>1. CASE HandleFetchObject(r) \/ HandleExecuteCommand(r) \/ RefuseCommand(r) \/ BridgeStep(r)
  BY <1>1 DEF HandleFetchObject, HandleExecuteCommand, RefuseCommand, BridgeStep, ReadStdout, PutReport
<1>2. CASE SpawnNext(r)
  BY <1>2 DEF SpawnNext, CopyProblem, TruncateStatus, WriteStatus, StartScript, ClearStatus, Cleanup
<1>3. CASE InitFails(r) \/ SpawnFails(r) \/ AddProcFails(r)
  BY <1>3 DEF InitFails, SpawnFails, AddProcFails
<1>4. CASE StartProcess(r) \/ ProcessEnds(r) \/ FillStderr(r) \/ ScriptEnds(r) \/ Kill(r)
  BY <1>4 DEF StartProcess, ProcessEnds, FillStderr, ScriptEnds, Kill
<1>5. CASE Report(r)
  BY <1>5 DEF Report
<1>6. CASE UploadFile(r) \/ StoreLate(r)
  BY <1>6 DEF UploadFile, StoreLate, Answered, Unanswered
<1> QED
  BY <1>1, <1>2, <1>3, <1>4, <1>5, <1>6 DEF RunStep

LEMMA TypeStep ==
    ASSUME TypeOK, [Next]_vars
    PROVE  TypeOK'
<1> USE BridgeCommandAssumption
<1>1. CASE UNCHANGED vars
  BY <1>1 DEF TypeOK, vars, scriptVars, callVars, nodeVars
<1>2. ASSUME NEW r \in Run, RunStep(r)
      PROVE  TypeOK'
  <2> USE DEF TypeOK, CmdStep, SpawnStep, CallStep, scriptVars, callVars, nodeVars, Proceed, SetStatus
  <2>1. CASE HandleFetchObject(r) \/ HandleExecuteCommand(r)
    BY <2>1 DEF HandleFetchObject, HandleExecuteCommand
  <2>8. CASE RefuseCommand(r) \/ BridgeStep(r)
    BY <2>8 DEF RefuseCommand, BridgeStep, ReadStdout, PutReport
  <2>2. CASE CopyProblem(r) \/ TruncateStatus(r) \/ WriteStatus(r)
    BY <2>2 DEF CopyProblem, TruncateStatus, WriteStatus
  <2>3. CASE StartScript(r) \/ ClearStatus(r) \/ Cleanup(r)
    BY <2>3 DEF StartScript, ClearStatus, Cleanup
  <2>4. CASE InitFails(r) \/ SpawnFails(r)
    BY <2>4 DEF InitFails, SpawnFails
  <2>9. CASE AddProcFails(r)
    BY <2>9 DEF AddProcFails
  <2>5. CASE StartProcess(r) \/ ProcessEnds(r) \/ FillStderr(r) \/ ScriptEnds(r) \/ Kill(r)
    BY <2>5 DEF StartProcess, ProcessEnds, FillStderr, ScriptEnds, Kill
  <2>6. CASE Report(r)
    BY <2>6 DEF Report
  <2>7. CASE UploadFile(r) \/ StoreLate(r)
    <3>1. /\ UNCHANGED <<cmd, spawn, scriptVars, nodeVars>>
          /\ result' = result \/ HandleUploadFile(r)
          /\ timedOut' \in {timedOut, timedOut \cup {r}}
          /\ \/ Unanswered(r) \/ \E answer \in {"ok", "failed"} : Answered(r, answer)
             \/ UNCHANGED callVars
      BY <2>7 DEF UploadFile, StoreLate
    <3>2. result' \in [Solution -> SUBSET Run]
      BY <3>1 DEF HandleUploadFile
    <3>3. /\ call' \in [Run -> CallStep] /\ got' \in [Run -> Solution \cup {Nobody}]
          /\ tries' \in [Run -> 0 .. Addresses - 1] /\ timedOut' \in SUBSET Run
      BY <3>1 DEF Unanswered, Answered
    <3> QED
      BY <3>1, <3>2, <3>3
  <2> QED
    BY <1>2, <2>1, <2>2, <2>3, <2>4, <2>5, <2>6, <2>7, <2>8, <2>9 DEF RunStep, SpawnNext
<1> QED
  BY <1>1, <1>2 DEF Next, RunStep

(* Every variable of the node has its type; in particular hpcgame never     *)
(* asks a bridge beyond the last of its addresses.                          *)
THEOREM NodeTypes == Spec => []TypeOK
<1>1. Init => TypeOK
  BY BridgeCommandAssumption DEF Init, TypeOK, CmdStep, SpawnStep, CallStep
<1> QED
  BY <1>1, TypeStep, PTL DEF Spec

-----------------------------------------------------------------------------
(* How far the bridge, hpc-spawn, the script and hpcgame are of one run.    *)
Stage(r) ==
    /\ spawn[r] = "none" <=> cmd[r] \in {"none", "fetched", "refused"}
    /\ cmd[r] \in {"stderr", "settled"} => Ended(r)
    /\ spawn[r] \in {"none", "copy", "truncate", "write", "start"} => script[r] = "none"
    /\ script[r] \in {"live", "blocked"} => spawn[r] \in {"truncateAgain", "writeAgain", "wait"}
    /\ exit[r] # "none" => script[r] = "dead"
    /\ call[r] = "upload" => r \in Detached \/ (cmd[r] = "stdout" /\ exit[r] # "ok")
    /\ call[r] = "upload" \/ r \in timedOut => call[r] # "none" /\ got[r] # Nobody

Stages == \A r \in Run : Stage(r)

(* Whoever left something on the node is going to remove it: a status file, *)
(* which names no other solution than that of a run that will clear it, the *)
(* copies in a home, and a solution's directory.                            *)
WillClear(r) == spawn[r] \in {"write", "start", "truncateAgain", "writeAgain", "wait", "clear"}
WillClean(r) == WillClear(r) \/ spawn[r] \in {"truncate", "cleanup"}

StatusOwned ==
    \A u \in User : status[u] # "absent" =>
        \E r \in Run : /\ UserOf[r] = u /\ WillClear(r)
                       /\ status[u] \in Solution => status[u] = SolutionOf[r]
HomeOwned ==
    \A u \in User : home[u] # {} => u \in Root \/ \E r \in Run : UserOf[r] = u /\ WillClean(r)
FilesOwned ==
    \A s \in files : \E r \in Run :
        SolutionOf[r] = s /\ (WillClean(r) \/ spawn[r] \in {"copy", "failed"} \/ cmd[r] \in {"fetched", "refused"})

NodeInv == TypeOK /\ Stages /\ StatusOwned /\ HomeOwned /\ FilesOwned

LEMMA StagesStep ==
    ASSUME TypeOK, Stages, NEW r \in Run, RunStep(r)
    PROVE  Stages'
<1>1. ASSUME NEW q \in Run, q # r
      PROVE  Stage(q)'
  BY <1>1, OtherRuns DEF Stages, Stage, Ended
<1>2. Stage(r)'
  <2>0. Stage(r)
    BY DEF Stages
  <2> USE <2>0 DEF Stage, Ended, Waits, TypeOK, CmdStep, SpawnStep, CallStep, scriptVars, callVars, nodeVars, Proceed
  <2>1. CASE HandleFetchObject(r) \/ HandleExecuteCommand(r) \/ RefuseCommand(r) \/ BridgeStep(r)
    BY <2>1 DEF HandleFetchObject, HandleExecuteCommand, RefuseCommand, BridgeStep, ReadStdout, PutReport, PipesClosed
  <2>2. CASE CopyProblem(r) \/ TruncateStatus(r) \/ WriteStatus(r)
    BY <2>2 DEF CopyProblem, TruncateStatus, WriteStatus
  <2>3. CASE StartScript(r) \/ ClearStatus(r) \/ Cleanup(r)
    BY <2>3 DEF StartScript, ClearStatus, Cleanup
  <2>4. CASE InitFails(r) \/ SpawnFails(r) \/ AddProcFails(r)
    BY <2>4 DEF InitFails, SpawnFails, AddProcFails
  <2>5. CASE StartProcess(r) \/ ProcessEnds(r) \/ FillStderr(r) \/ ScriptEnds(r) \/ Kill(r)
    BY <2>5 DEF StartProcess, ProcessEnds, FillStderr, ScriptEnds, Kill
  <2>6. CASE Report(r)
    BY <2>6, BridgeCommandAssumption DEF Report
  <2>7. CASE UploadFile(r) \/ StoreLate(r)
    BY <2>7 DEF UploadFile, StoreLate, Unanswered, Answered
  <2> QED
    BY <2>1, <2>2, <2>3, <2>4, <2>5, <2>6, <2>7 DEF RunStep, SpawnNext
<1> QED
  BY <1>1, <1>2 DEF Stages

(* A step of a run as far as what is on the node is concerned.              *)
LEMMA StatusMoves ==
    ASSUME TypeOK, NEW r \in Run, RunStep(r), NEW u \in User, status'[u] # status[u]
    PROVE  /\ u = UserOf[r]
           /\ \/ WillClear(r)' /\ status'[u] \in {"empty", SolutionOf[r]}
              \/ status'[u] = "absent"
<1>1. CASE TruncateStatus(r)
  BY <1>1, BridgeCommandAssumption DEF TruncateStatus, SetStatus, StatusFile, Proceed, WillClear, TypeOK
<1>2. CASE WriteStatus(r)
  BY <1>2, BridgeCommandAssumption DEF WriteStatus, SetStatus, StatusFile, Proceed, WillClear, TypeOK
<1>3. CASE ClearStatus(r)
  BY <1>3 DEF ClearStatus, SetStatus, StatusFile
<1>4. CASE SpawnNext(r) /\ ~TruncateStatus(r) /\ ~WriteStatus(r) /\ ~ClearStatus(r)
  BY <1>4 DEF SpawnNext, CopyProblem, StartScript, Cleanup, nodeVars
<1>5. CASE ~SpawnNext(r)
  BY <1>5 DEF RunStep, HandleFetchObject, HandleExecuteCommand, RefuseCommand, BridgeStep, ReadStdout, PutReport,
     InitFails, SpawnFails, AddProcFails, StartProcess, ProcessEnds, FillStderr, ScriptEnds, Kill, Report, UploadFile,
     StoreLate, nodeVars
<1> QED
  BY <1>1, <1>2, <1>3, <1>4, <1>5

LEMMA NodeMoves ==
    ASSUME TypeOK, Stages, NEW r \in Run, RunStep(r)
    PROVE  /\ WillClear(r) => WillClear(r)' \/ (status'[UserOf[r]] = "absent" /\ spawn'[r] = "cleanup")
           /\ WillClean(r) => \/ WillClean(r)'
                              \/ (UserOf[r] \in Root \/ home'[UserOf[r]] = {}) /\ SolutionOf[r] \notin files'
           /\ spawn[r] \in {"copy", "failed"} => WillClean(r)' \/ spawn'[r] \in {"copy", "failed"}
           /\ cmd[r] \in {"fetched", "refused"} => cmd'[r] \in {"fetched", "refused"} \/ spawn'[r] = "copy"
           /\ \A u \in User : home'[u] = home[u] \/ home'[u] = {} \/ (u = UserOf[r] /\ WillClean(r)')
           /\ files' \subseteq files \/ (files' = files \cup {SolutionOf[r]} /\ cmd'[r] = "fetched")
<1>0. Stage(r) /\ UserOf[r] \in User
  BY BridgeCommandAssumption DEF Stages
<1> USE <1>0 DEF Stage, TypeOK, scriptVars, callVars, nodeVars, Proceed, WillClear, WillClean
<1>1. CASE HandleFetchObject(r) \/ HandleExecuteCommand(r) \/ RefuseCommand(r)
  BY <1>1 DEF HandleFetchObject, HandleExecuteCommand, RefuseCommand
<1>2. CASE BridgeStep(r)
  BY <1>2 DEF BridgeStep, ReadStdout, PutReport
<1>3. CASE CopyProblem(r)
  BY <1>3 DEF CopyProblem
<1>4. CASE TruncateStatus(r) \/ WriteStatus(r) \/ StartScript(r)
  BY <1>4 DEF TruncateStatus, WriteStatus, StartScript
<1>5. CASE ClearStatus(r)
  BY <1>5 DEF ClearStatus, SetStatus, StatusFile
<1>6. CASE Cleanup(r)
  BY <1>6 DEF Cleanup
<1>7. CASE InitFails(r) \/ SpawnFails(r)
  BY <1>7 DEF InitFails, SpawnFails
<1>8. CASE AddProcFails(r)
  BY <1>8 DEF AddProcFails
<1>9. CASE StartProcess(r) \/ ProcessEnds(r) \/ FillStderr(r) \/ ScriptEnds(r) \/ Kill(r)
  BY <1>9 DEF StartProcess, ProcessEnds, FillStderr, ScriptEnds, Kill
<1>10. CASE Report(r) \/ UploadFile(r) \/ StoreLate(r)
  BY <1>10 DEF Report, UploadFile, StoreLate
<1> QED
  BY <1>1, <1>2, <1>3, <1>4, <1>5, <1>6, <1>7, <1>8, <1>9, <1>10 DEF RunStep, SpawnNext

LEMMA StatusOwnedStep ==
    ASSUME TypeOK, Stages, StatusOwned, NEW r \in Run, RunStep(r)
    PROVE  StatusOwned'
<1> SUFFICES ASSUME NEW u \in User, status'[u] # "absent"
             PROVE  \E q \in Run : /\ UserOf[q] = u /\ WillClear(q)'
                                   /\ status'[u] \in Solution => status'[u] = SolutionOf[q]
  BY DEF StatusOwned
<1>1. CASE status'[u] # status[u]
  <2>1. UserOf[r] = u /\ WillClear(r)' /\ status'[u] \in {"empty", SolutionOf[r]}
    BY <1>1, StatusMoves
  <2> QED
    BY <2>1, BridgeCommandAssumption
<1>2. CASE status'[u] = status[u]
  <2>1. PICK q \in Run : /\ UserOf[q] = u /\ WillClear(q)
                         /\ status[u] \in Solution => status[u] = SolutionOf[q]
    BY <1>2 DEF StatusOwned
  <2>2. WillClear(q)'
    BY <2>1, NodeMoves, OtherRuns DEF WillClear
  <2> QED
    BY <1>2, <2>1, <2>2
<1> QED
  BY <1>1, <1>2

LEMMA HomeOwnedStep ==
    ASSUME TypeOK, Stages, HomeOwned, NEW r \in Run, RunStep(r)
    PROVE  HomeOwned'
<1> SUFFICES ASSUME NEW u \in User, home'[u] # {}, u \notin Root
             PROVE  \E q \in Run : UserOf[q] = u /\ WillClean(q)'
  BY DEF HomeOwned
<1>1. CASE u = UserOf[r] /\ WillClean(r)'
  BY <1>1
<1>2. CASE home'[u] = home[u]
  <2>1. PICK q \in Run : UserOf[q] = u /\ WillClean(q)
    BY <1>2 DEF HomeOwned
  <2>2. WillClean(q)'
    BY <2>1, NodeMoves, OtherRuns DEF WillClear, WillClean
  <2> QED
    BY <2>1, <2>2
<1> QED
  BY <1>1, <1>2, NodeMoves

LEMMA FilesOwnedStep ==
    ASSUME TypeOK, Stages, FilesOwned, NEW r \in Run, RunStep(r)
    PROVE  FilesOwned'
<1> DEFINE Owned(q) == WillClean(q) \/ spawn[q] \in {"copy", "failed"} \/ cmd[q] \in {"fetched", "refused"}
<1> SUFFICES ASSUME NEW s \in files'
             PROVE  \E q \in Run : SolutionOf[q] = s /\ Owned(q)'
  BY DEF FilesOwned
<1>1. CASE s = SolutionOf[r] /\ cmd'[r] = "fetched"
  BY <1>1
<1>2. CASE s \in files
  <2>1. PICK q \in Run : SolutionOf[q] = s /\ Owned(q)
    BY <1>2 DEF FilesOwned
  <2>2. CASE q = r
    BY <2>1, <2>2, NodeMoves
  <2>3. CASE q # r
    BY <2>1, <2>3, OtherRuns DEF WillClear, WillClean
  <2> QED
    BY <2>1, <2>2, <2>3
<1> QED
  BY <1>1, <1>2, NodeMoves

LEMMA NodeStep == NodeInv /\ [Next]_vars => NodeInv'
<1> SUFFICES ASSUME NodeInv, [Next]_vars PROVE NodeInv'
  OBVIOUS
<1>1. TypeOK'
  BY TypeStep DEF NodeInv
<1>2. CASE UNCHANGED vars
  BY <1>1, <1>2 DEF NodeInv, Stages, Stage, Ended, StatusOwned, HomeOwned, FilesOwned, WillClean, WillClear, vars, scriptVars,
     callVars, nodeVars
<1>3. ASSUME NEW r \in Run, RunStep(r) PROVE NodeInv'
  BY <1>1, <1>3, StagesStep, StatusOwnedStep, HomeOwnedStep, FilesOwnedStep DEF NodeInv
<1> QED
  BY <1>2, <1>3 DEF Next, RunStep

LEMMA NodeInvariant == Spec => []NodeInv
<1>1. Init => NodeInv
  <2> SUFFICES ASSUME Init PROVE NodeInv
    OBVIOUS
  <2>1. TypeOK
    BY BridgeCommandAssumption DEF Init, TypeOK, CmdStep, SpawnStep, CallStep
  <2>2. Stages
    BY DEF Init, Stages, Stage
  <2>3. StatusOwned /\ HomeOwned /\ FilesOwned
    BY DEF Init, StatusOwned, HomeOwned, FilesOwned
  <2> QED
    BY <2>1, <2>2, <2>3 DEF NodeInv
<1> QED
  BY <1>1, NodeStep, PTL DEF Spec

(* Wherever RunJudgeScript returns, its deferred functions leave nothing of *)
(* its own on the node: no status file and no copy of a user none of whose  *)
(* runs hpc-spawn is at work for, and no directory of a solution, except    *)
(* that of a run which is to be started, or which the bridge or hpc-spawn   *)
(* gave up before RunJudgeScript.                                           *)
THEOREM NothingIsLeft == Spec => []CleanedUp
<1>1. NodeInv => CleanedUp
  <2> SUFFICES ASSUME NodeInv PROVE CleanedUp
    OBVIOUS
  <2>1. \A r \in Run : WillClean(r) \/ spawn[r] = "copy" => UnderWay(r)
    BY DEF WillClean, WillClear, UnderWay, Ended
  <2>2. \A u \in User : status[u] # "absent" \/ (home[u] # {} /\ u \notin Root) =>
                           \E r \in Run : UserOf[r] = u /\ WillClean(r)
    BY DEF NodeInv, StatusOwned, HomeOwned, WillClean
  <2>3. \A s \in files : \E r \in Run :
           /\ SolutionOf[r] = s
           /\ UnderWay(r) \/ cmd[r] \in {"fetched", "refused"} \/ spawn[r] = "failed"
    BY <2>1 DEF NodeInv, FilesOwned
  <2> QED
    BY <2>1, <2>2, <2>3 DEF CleanedUp
<1> QED
  BY <1>1, NodeInvariant, PTL

-----------------------------------------------------------------------------
(* There is one status file per user: what hpcgame reads there is about its *)
(* caller only if scripts of one user that overlap judge the same solution. *)
(* Nothing in the code sees to that, it is asked of whoever submits.        *)
OneSolutionPerUser ==
    \A r, q \in Run :
        UserOf[r] = UserOf[q] /\ WillClear(r) /\ WillClear(q) => SolutionOf[r] = SolutionOf[q]

(* What hpcgame has read names the solution of its caller, until it has had *)
(* its answer and beyond.                                                   *)
ReadOwn == \A r \in Run : got[r] \in {Nobody, SolutionOf[r]}

LEMMA ReadOwnStep ==
    ASSUME NodeInv, OneSolutionPerUser, ReadOwn, NEW r \in Run, RunStep(r)
    PROVE  ReadOwn'
<1>0. TypeOK /\ Stage(r)
  BY DEF NodeInv, Stages
<1>1. ASSUME NEW q \in Run, q # r
      PROVE  got'[q] \in {Nobody, SolutionOf[q]}
  BY <1>0, <1>1, OtherRuns DEF ReadOwn
<1>2. got'[r] \in {Nobody, SolutionOf[r]}
  <2>1. CASE got'[r] = got[r]
    BY <2>1 DEF ReadOwn
  <2>2. CASE got'[r] # got[r]
    <3>0. Report(r)
      BY <1>0, <2>2 DEF TypeOK, RunStep, HandleFetchObject, HandleExecuteCommand, RefuseCommand, BridgeStep, ReadStdout,
         PutReport, SpawnNext, CopyProblem, TruncateStatus, WriteStatus, StartScript, ClearStatus, Cleanup, InitFails,
         SpawnFails, AddProcFails, StartProcess, ProcessEnds, FillStderr, ScriptEnds, Kill, UploadFile, StoreLate,
         Answered, Unanswered, callVars
    <3>1. WillClear(r) /\ UserOf[r] \in User
      BY <1>0, <3>0, BridgeCommandAssumption DEF Report, Stage, WillClear
    <3>2. status[UserOf[r]] \in Solution /\ got' = [got EXCEPT ![r] = status[UserOf[r]]]
      BY <1>0, <2>2, <3>0 DEF Report, TypeOK
    <3>3. status[UserOf[r]] # "absent"
      BY <3>2, BridgeCommandAssumption
    <3>4. PICK q \in Run : UserOf[q] = UserOf[r] /\ WillClear(q) /\ status[UserOf[r]] = SolutionOf[q]
      BY <3>1, <3>2, <3>3 DEF NodeInv, StatusOwned
    <3>5. SolutionOf[q] = SolutionOf[r]
      BY <3>1, <3>4 DEF OneSolutionPerUser
    <3> QED
      BY <1>0, <3>2, <3>4, <3>5 DEF TypeOK
  <2> QED
    BY <2>1, <2>2
<1> QED
  BY <1>1, <1>2 DEF ReadOwn

(* What is stored: only by a bridge that was asked to, of the run that asks. *)
Uploads(r) == UploadFile(r) \/ StoreLate(r)

LEMMA ResultMoves ==
    ASSUME NodeInv, ReadOwn, NEW r \in Run, RunStep(r)
    PROVE  /\ \/ result' = result
              \/ Uploads(r) /\ result' = [result EXCEPT ![SolutionOf[r]] = @ \cup {r}]
           /\ call'[r] = "ok" => call[r] = "ok" \/ r \in result'[SolutionOf[r]]
<1>0. TypeOK /\ SolutionOf[r] \in Solution /\ Stage(r)
  BY BridgeCommandAssumption DEF NodeInv, Stages
<1>1. CASE Uploads(r)
  <2>1. got[r] = SolutionOf[r]
    BY <1>0, <1>1 DEF Uploads, UploadFile, StoreLate, ReadOwn, Stage
  <2>2. HandleUploadFile(r) => /\ result' = [result EXCEPT ![SolutionOf[r]] = @ \cup {r}]
                               /\ r \in result'[SolutionOf[r]]
    BY <1>0, <2>1 DEF HandleUploadFile, TypeOK
  <2>3. ~HandleUploadFile(r) => result' = result /\ call'[r] # "ok"
    BY <1>0, <1>1 DEF Uploads, UploadFile, StoreLate, Unanswered, Answered, TypeOK
  <2> QED
    BY <1>1, <2>2, <2>3
<1>2. CASE ~Uploads(r)
  BY <1>0, <1>2 DEF Uploads, TypeOK, RunStep, HandleFetchObject, HandleExecuteCommand, RefuseCommand, BridgeStep,
     ReadStdout, PutReport, SpawnNext, CopyProblem, TruncateStatus, WriteStatus, StartScript, ClearStatus, Cleanup,
     InitFails, SpawnFails, AddProcFails, StartProcess, ProcessEnds, FillStderr, ScriptEnds, Kill, Report, callVars
<1> QED
  BY <1>1, <1>2

LEMMA OwnResultStep ==
    ASSUME NodeInv, OneSolutionPerUser, ReadOwn, OwnResult, [Next]_vars
    PROVE  ReadOwn' /\ OwnResult'
<1>0. TypeOK
  BY DEF NodeInv
<1>1. CASE UNCHANGED vars
  BY <1>1 DEF ReadOwn, OwnResult, vars, callVars
<1>2. ASSUME NEW r \in Run, RunStep(r)
      PROVE  ReadOwn' /\ OwnResult'
  <2>1. \A s \in Solution : \A q \in result'[s] : q \in result[s] \/ (q = r /\ s = SolutionOf[r])
    BY <1>0, <1>2, ResultMoves DEF TypeOK
  <2>2. \A s \in Solution : result[s] \subseteq result'[s]
    BY <1>0, <1>2, ResultMoves DEF TypeOK
  <2>3. \A q \in Run : call'[q] = "ok" => q \in result'[SolutionOf[q]]
    <3>1. \A q \in Run : SolutionOf[q] \in Solution
      BY BridgeCommandAssumption
    <3>2. \A q \in Run : q # r => call'[q] = call[q]
      BY <1>0, <1>2, OtherRuns
    <3>3. call'[r] = "ok" => call[r] = "ok" \/ r \in result'[SolutionOf[r]]
      BY <1>2, ResultMoves
    <3> QED
      BY <2>2, <3>1, <3>2, <3>3 DEF OwnResult
  <2> QED
    BY <1>2, <2>1, <2>3, ReadOwnStep DEF OwnResult
<1> QED
  BY <1>1, <1>2 DEF Next, RunStep

LEMMA ReadInvariant == Spec /\ []OneSolutionPerUser => [](NodeInv /\ ReadOwn /\ OwnResult)
<1>1. Init => ReadOwn /\ OwnResult
  BY DEF Init, ReadOwn, OwnResult
<1>2. NodeInv /\ OneSolutionPerUser /\ ReadOwn /\ OwnResult /\ [Next]_vars => ReadOwn' /\ OwnResult'
  BY OwnResultStep
<1> QED
  BY <1>1, <1>2, NodeInvariant, PTL DEF Spec

(* A report is stored under the solution of the script that gave it, and    *)
(* hpcgame only succeeds if it was, whichever bridge was asked last, as     *)
(* long as scripts of one user that overlap judge the same solution.        *)
THEOREM ReportsAreStoredRight == Spec /\ []OneSolutionPerUser => []OwnResult
BY ReadInvariant, PTL

-----------------------------------------------------------------------------
(* The variables of ScriptLife.                                             *)
LifeS == [r \in Run |-> Life(r)]
WellS == {r \in Run : exit[r] = "ok" /\ Life(r) \in {"exited", "settled"}}
AdriftS == {r \in Run : r \in timedOut \/ (r \in Detached /\ call[r] # "none")}
MayReport(r) == Life(r) = "live" \/ (Life(r) = "exited" /\ r \notin WellS)

LEMMA LifeIs ==
    ASSUME NEW r \in Run
    PROVE  /\ cmd[r] \in {"none", "fetched", "refused"} => Life(r) = "none"
           /\ cmd[r] = "settled" => Life(r) = "settled"
           /\ cmd[r] \in {"stdout", "stderr"} /\ spawn[r] \in {"gone", "failed"} => Life(r) = "exited"
           /\ cmd[r] \in {"stdout", "stderr"} /\ spawn[r] \notin {"gone", "failed"} => Life(r) = "live"
BY DEF Life, Running, Ended

LEMMA LifeWillBe ==
    ASSUME NEW r \in Run
    PROVE  /\ cmd'[r] \in {"none", "fetched", "refused"} => Life(r)' = "none"
           /\ cmd'[r] = "settled" => Life(r)' = "settled"
           /\ cmd'[r] \in {"stdout", "stderr"} /\ spawn'[r] \in {"gone", "failed"} => Life(r)' = "exited"
           /\ cmd'[r] \in {"stdout", "stderr"} /\ spawn'[r] \notin {"gone", "failed"} => Life(r)' = "live"
BY DEF Life, Running, Ended

(* What one run becomes: its life goes on by at most one stage, ...         *)
LEMMA LifeMoves ==
    ASSUME NodeInv, NEW r \in Run, RunStep(r)
    PROVE  \/ Life(r)' = Life(r)
           \/ Life(r) = "none" /\ Life(r)' = "live"
           \/ Life(r) = "live" /\ Life(r)' = "exited"
           \/ Life(r) = "exited" /\ Life(r)' = "settled"
<1>0. TypeOK /\ Stage(r)
  BY DEF NodeInv, Stages
<1>1. cmd[r] \in CmdStep
  BY <1>0 DEF TypeOK
<1> USE <1>0, <1>1, LifeIs, LifeWillBe DEF TypeOK, CmdStep, Stage, Proceed, scriptVars
<1>2. CASE HandleFetchObject(r) \/ HandleExecuteCommand(r) \/ RefuseCommand(r)
  BY <1>2 DEF HandleFetchObject, HandleExecuteCommand, RefuseCommand
<1>3. CASE BridgeStep(r)
  BY <1>3 DEF BridgeStep, ReadStdout, PutReport, PipesClosed, Ended
<1>4. CASE CopyProblem(r) \/ TruncateStatus(r) \/ WriteStatus(r) \/ StartScript(r) \/ ClearStatus(r)
  BY <1>4 DEF CopyProblem, TruncateStatus, WriteStatus, StartScript, ClearStatus
<1>5. CASE Cleanup(r)
  BY <1>5 DEF Cleanup
<1>6. CASE InitFails(r) \/ SpawnFails(r) \/ AddProcFails(r)
  BY <1>6 DEF InitFails, SpawnFails, AddProcFails
<1>7. CASE StartProcess(r) \/ ProcessEnds(r) \/ FillStderr(r) \/ ScriptEnds(r) \/ Kill(r)
  BY <1>7 DEF StartProcess, ProcessEnds, FillStderr, ScriptEnds, Kill
<1>8. CASE Report(r) \/ UploadFile(r) \/ StoreLate(r)
  BY <1>8 DEF Report, UploadFile, StoreLate
<1> QED
  BY <1>2, <1>3, <1>4, <1>5, <1>6, <1>7, <1>8 DEF RunStep, SpawnNext

(* ... the script has ended before hpc-spawn has, ...                       *)
LEMMA ExitMoves ==
    ASSUME NodeInv, NEW r \in Run, RunStep(r), exit'[r] # exit[r]
    PROVE  Life(r) = "live" /\ Life(r)' = "live"
<1>0. TypeOK /\ Stage(r)
  BY DEF NodeInv, Stages
<1>1. AddProcFails(r) \/ ScriptEnds(r) \/ Kill(r)
  BY DEF RunStep, HandleFetchObject, HandleExecuteCommand, RefuseCommand, BridgeStep, ReadStdout, PutReport,
     SpawnNext, CopyProblem, TruncateStatus, WriteStatus, StartScript, ClearStatus, Cleanup, InitFails, SpawnFails,
     StartProcess, ProcessEnds, FillStderr, Report, UploadFile, StoreLate, scriptVars
<1>2. spawn[r] \in {"truncateAgain", "writeAgain", "wait"}
  BY <1>0, <1>1 DEF AddProcFails, ScriptEnds, Kill, Stage
<1>3. cmd[r] = "stdout" /\ cmd' = cmd /\ spawn'[r] \in {"truncateAgain", "writeAgain", "wait", "clear"}
  BY <1>0, <1>1, <1>2 DEF AddProcFails, ScriptEnds, Kill, Stage, Ended, Proceed, TypeOK, CmdStep
<1> QED
  BY <1>2, <1>3, LifeIs, LifeWillBe

(* ... and what is uploaded is either waited for or known not to be.        *)
LEMMA UploadMoves ==
    ASSUME NodeInv, NEW r \in Run, Uploads(r)
    PROVE  /\ MayReport(r) \/ r \in AdriftS
           /\ Life(r)' = Life(r) /\ exit' = exit
<1>0. TypeOK /\ Stage(r)
  BY DEF NodeInv, Stages
<1>1. cmd' = cmd /\ spawn' = spawn /\ exit' = exit
  BY DEF Uploads, UploadFile, StoreLate, scriptVars
<1>2. Life(r)' = Life(r)
  BY <1>1 DEF Life, Running, Ended
<1>3. CASE r \in timedOut
  BY <1>1, <1>2, <1>3 DEF AdriftS
<1>4. CASE r \notin timedOut
  <2>1. call[r] = "upload"
    BY <1>4 DEF Uploads, UploadFile, StoreLate
  <2>2. r \in AdriftS \/ (cmd[r] = "stdout" /\ exit[r] # "ok")
    BY <1>0, <2>1 DEF Stage, AdriftS
  <2> QED
    BY <1>1, <1>2, <2>2, LifeIs DEF MayReport, WellS
<1> QED
  BY <1>3, <1>4

(* A report gets out of sight only while its script may report.             *)
LEMMA AdriftMoves ==
    ASSUME NodeInv, NEW r \in Run, RunStep(r)
    PROVE  /\ AdriftS' = AdriftS \/ AdriftS' = AdriftS \cup {r}
           /\ AdriftS' # AdriftS => MayReport(r) /\ Life(r)' = Life(r) /\ exit' = exit /\ result' = result
<1>0. TypeOK /\ Stage(r)
  BY DEF NodeInv, Stages
<1>1. \A q \in Run : q # r => call'[q] = call[q]
  BY <1>0, OtherRuns
<1>2. CASE Report(r)
  <2>1. timedOut' = timedOut /\ cmd' = cmd /\ spawn' = spawn /\ exit' = exit /\ result' = result
    BY <1>2 DEF Report, scriptVars
  <2>2. call'[r] # "none"
    BY <1>0, <1>2 DEF Report, TypeOK
  <2>3. AdriftS' = AdriftS \/ AdriftS' = AdriftS \cup {r}
    BY <1>1, <2>1, <2>2 DEF AdriftS
  <2>4. Life(r)' = Life(r)
    BY <2>1 DEF Life, Running, Ended
  <2>5. spawn[r] \in {"truncateAgain", "writeAgain", "wait"} /\ cmd[r] \in {"stdout", "stderr"}
    BY <1>0, <1>2 DEF Report, Stage, Ended, TypeOK, CmdStep
  <2> QED
    BY <2>1, <2>3, <2>4, <2>5, LifeIs DEF MayReport
<1>3. CASE UploadFile(r)
  <2>1. call[r] = "upload" /\ call'[r] # "none"
    BY <1>0, <1>3 DEF UploadFile, Answered, Unanswered, TypeOK
  <2>2. timedOut' = timedOut \/ (timedOut' = timedOut \cup {r} /\ result' = result)
    BY <1>3 DEF UploadFile
  <2>3. AdriftS' = AdriftS \/ (AdriftS' = AdriftS \cup {r} /\ result' = result)
    BY <1>1, <2>1, <2>2 DEF AdriftS
  <2>4. MayReport(r) \/ AdriftS' = AdriftS
    BY <1>3, <2>3, UploadMoves DEF Uploads
  <2> QED
    BY <1>3, <2>3, <2>4, UploadMoves DEF Uploads
<1>4. CASE ~Report(r) /\ ~UploadFile(r)
  <2>1. call' = call /\ timedOut' = timedOut
    BY <1>4 DEF RunStep, HandleFetchObject, HandleExecuteCommand, RefuseCommand, BridgeStep, ReadStdout, PutReport,
       SpawnNext, CopyProblem, TruncateStatus, WriteStatus, StartScript, ClearStatus, Cleanup, InitFails, SpawnFails,
       AddProcFails, StartProcess, ProcessEnds, FillStderr, ScriptEnds, Kill, StoreLate, callVars
  <2> QED
    BY <2>1 DEF AdriftS
<1> QED
  BY <1>2, <1>3, <1>4

LEMMA ScriptLifeStep ==
    ASSUME NodeInv, ReadOwn, NEW r \in Run, RunStep(r)
    PROVE  \/ UNCHANGED <<LifeS, WellS, AdriftS, result>>
           \/ /\ LifeS[r] = "none" /\ LifeS' = [LifeS EXCEPT ![r] = "live"]
              /\ UNCHANGED <<WellS, AdriftS, result>>
           \/ /\ LifeS[r] = "live" \/ (LifeS[r] = "exited" /\ r \notin WellS) \/ r \in AdriftS
              /\ result' = [result EXCEPT ![SolutionOf[r]] = @ \cup {r}]
              /\ UNCHANGED <<LifeS, WellS, AdriftS>>
           \/ /\ LifeS[r] = "live" \/ (LifeS[r] = "exited" /\ r \notin WellS)
              /\ AdriftS' = AdriftS \cup {r}
              /\ UNCHANGED <<LifeS, WellS, result>>
           \/ /\ LifeS[r] = "live" /\ LifeS' = [LifeS EXCEPT ![r] = "exited"]
              /\ WellS' \in {WellS, WellS \cup {r}}
              /\ UNCHANGED <<AdriftS, result>>
           \/ /\ LifeS[r] = "exited" /\ LifeS' = [LifeS EXCEPT ![r] = "settled"]
              /\ UNCHANGED <<WellS, AdriftS, result>>
<1>0. TypeOK
  BY DEF NodeInv
<1>1. \A q \in Run : q # r => cmd'[q] = cmd[q] /\ spawn'[q] = spawn[q] /\ exit'[q] = exit[q]
  BY <1>0, OtherRuns
<1>2. \A q \in Run : q # r => Life(q)' = Life(q)
  BY <1>1 DEF Life, Running, Ended
<1>3. LifeS' = [LifeS EXCEPT ![r] = Life(r)'] /\ LifeS[r] = Life(r)
  BY <1>2 DEF LifeS
<1>4. \A q \in Run : q # r => (q \in WellS' <=> q \in WellS)
  BY <1>1, <1>2 DEF WellS
<1>5. WellS \subseteq Run /\ WellS' \subseteq Run
  BY DEF WellS
<1>6. ASSUME Life(r)' = Life(r)
      PROVE  LifeS' = LifeS /\ WellS' = WellS
  <2>1. r \in WellS' <=> r \in WellS
    BY <1>6, ExitMoves DEF WellS
  <2>2. WellS' = WellS
    BY <1>4, <1>5, <2>1
  <2>3. LifeS' = LifeS
    BY <1>3, <1>6 DEF LifeS
  <2> QED
    BY <2>2, <2>3
<1>7. CASE AdriftS' # AdriftS
  <2>1. MayReport(r) /\ AdriftS' = AdriftS \cup {r} /\ result' = result
    BY <1>7, AdriftMoves
  <2>2. LifeS' = LifeS /\ WellS' = WellS
    BY <1>6, <1>7, AdriftMoves
  <2> QED
    BY <1>3, <2>1, <2>2 DEF MayReport
<1>8. CASE AdriftS' = AdriftS /\ Uploads(r)
  <2>1. LifeS' = LifeS /\ WellS' = WellS
    BY <1>6, <1>8, UploadMoves
  <2>2. result' = result \/ result' = [result EXCEPT ![SolutionOf[r]] = @ \cup {r}]
    BY ResultMoves
  <2>3. LifeS[r] = "live" \/ (LifeS[r] = "exited" /\ r \notin WellS) \/ r \in AdriftS
    BY <1>3, <1>8, UploadMoves DEF MayReport
  <2> QED
    BY <1>8, <2>1, <2>2, <2>3
<1>9. CASE AdriftS' = AdriftS /\ ~Uploads(r)
  <2>1. result' = result
    BY <1>9, ResultMoves
  <2>2. CASE Life(r)' = Life(r)
    BY <1>6, <1>9, <2>1, <2>2
  <2>3. CASE Life(r) = "none" /\ Life(r)' = "live"
    <3>1. WellS' = WellS
      BY <1>4, <1>5, <2>3 DEF WellS
    <3> QED
      BY <1>3, <1>9, <2>1, <2>3, <3>1
  <2>4. CASE Life(r) = "live" /\ Life(r)' = "exited"
    <3>1. WellS' \in {WellS, WellS \cup {r}}
      BY <1>4, <1>5, <2>4 DEF WellS
    <3> QED
      BY <1>3, <1>9, <2>1, <2>4, <3>1
  <2>5. CASE Life(r) = "exited" /\ Life(r)' = "settled"
    <3>1. exit'[r] = exit[r]
      BY <2>5, ExitMoves
    <3>2. WellS' = WellS
      BY <1>4, <1>5, <2>5, <3>1 DEF WellS
    <3> QED
      BY <1>3, <1>9, <2>1, <2>5, <3>2
  <2> QED
    BY <2>2, <2>3, <2>4, <2>5, LifeMoves
<1> QED
  BY <1>7, <1>8, <1>9

(* The processes on the node behave as the judgers expect of a script: it   *)
(* lives, ends and is settled in this order; it stores reports of its own   *)
(* solution only, none once its exit status is stored, and none after it    *)
(* ended if it ended well, except for a report whose request hpcgame gave   *)
(* up or whose hpcgame was called detached. The bridge reads the pipes to   *)
(* their end first (wait), and a script waits for the hpcgame it called.    *)
THEOREM NodeImplementsScriptLife == Spec /\ []OneSolutionPerUser => ImplementsScriptLife
<1>1. Init => Abstract!Init
  <2> SUFFICES ASSUME Init PROVE Abstract!Init
    OBVIOUS
  <2>1. \A r \in Run : Life(r) = "none"
    BY LifeIs DEF Init
  <2> QED
    BY <2>1 DEF Init, Abstract!Init
<1>2. NodeInv /\ ReadOwn /\ [Next]_vars => [Abstract!Next]_(Abstract!lifeVars)
  <2> SUFFICES ASSUME NodeInv, ReadOwn, [Next]_vars
               PROVE  [Abstract!Next]_(Abstract!lifeVars)
    OBVIOUS
  <2>0. /\ LifeS = [r \in Run |-> Life(r)] /\ LifeS' = [r \in Run |-> Life(r)']
        /\ WellS = {r \in Run : exit[r] = "ok" /\ Life(r) \in {"exited", "settled"}}
        /\ WellS' = {r \in Run : exit'[r] = "ok" /\ Life(r)' \in {"exited", "settled"}}
        /\ AdriftS = {r \in Run : r \in timedOut \/ (r \in Detached /\ call[r] # "none")}
        /\ AdriftS' = {r \in Run : r \in timedOut' \/ (r \in Detached /\ call'[r] # "none")}
    BY DEF LifeS, WellS, AdriftS
  <2>1. CASE UNCHANGED vars
    <3>1. UNCHANGED <<LifeS, WellS, AdriftS, result>>
      BY <2>1 DEF vars, scriptVars, callVars, LifeS, WellS, AdriftS, Life, Running, Ended
    <3> QED
      BY <2>0, <3>1 DEF Abstract!lifeVars
  <2>2. ASSUME NEW r \in Run, RunStep(r)
        PROVE  [Abstract!Next]_(Abstract!lifeVars)
    <3> QED
      BY <2>0, <2>2, ScriptLifeStep DEF Abstract!Next, Abstract!Begin, Abstract!Store, Abstract!LoseSight,
         Abstract!Reporting, Abstract!End, Abstract!Settle, Abstract!Become, Abstract!lifeVars
  <2> QED
    BY <2>1, <2>2 DEF Next, RunStep
<1> QED
  BY <1>1, <1>2, ReadInvariant, PTL DEF Spec, ImplementsScriptLife, Abstract!Spec
===============================================================================
