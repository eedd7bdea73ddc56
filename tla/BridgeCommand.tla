---------------------------- MODULE BridgeCommand ----------------------------
(***************************************************************************)
(* A node that judges: the bridge that starts a command and stores its     *)
(* exit status, hpc-spawn that prepares, runs and cleans up after a judge  *)
(* script, and hpcgame, which the script calls to have its report stored   *)
(* by a bridge. They share the solution directories, the users' homes and  *)
(* one status file per user, which tells hpcgame whom it is called for. A  *)
(* script may start other processes, which inherit its pipes.              *)
(***************************************************************************)
EXTENDS Integers, FiniteSets

CONSTANTS
    Run,            \* the commands that judgers ask the bridge to execute
    User,           \* the users that judge scripts run as
    Solution,       \* solution IDs
    UserOf,         \* [Run -> User]
    SolutionOf,     \* [Run -> Solution]
    Limited,        \* the runs whose problem declares a TimeLimit
    Detached,       \* those whose script does not wait for hpcgame, nor gives it its pipes
    Root,           \* the users whose home is never emptied
    Addresses,      \* how many bridges hpcgame is configured with
    Nobody,         \* no solution
    Faults          \* what may go wrong in this instance

FaultKind ==
    { "refuse",     \* the bridge cannot start hpc-spawn
      "init",       \* hpc-spawn fails before it looks at the run
      "spawn",      \* hpc-spawn cannot prepare or start the script
      "unreached",  \* hpcgame cannot reach a bridge
      "timeout",    \* hpcgame gives up on a bridge that is still at work
      "put" }       \* MinIO refuses an object

ASSUME BridgeCommandAssumption ==
    /\ UserOf \in [Run -> User]
    /\ SolutionOf \in [Run -> Solution]
    /\ Limited \subseteq Run /\ Detached \subseteq Run
    /\ Root \subseteq User
    /\ Addresses \in Nat \ {0}
    /\ Faults \subseteq FaultKind
    /\ {"absent", "empty", Nobody} \cap Solution = {}

VARIABLES
    cmd,        \* the bridge's goroutine for each command
    spawn,      \* what each hpc-spawn does next
    script,     \* the judge script, /bin/bash
    exit,       \* how it ended
    children,   \* the runs of whose script another process still runs
    call,       \* its call of `hpcgame report'
    got,        \* the solution ID hpcgame read from the status file
    tries,      \* the bridges hpcgame has tried
    timedOut,   \* the runs whose report a bridge may still be storing unobserved
    status,     \* the status file of each user
    home,       \* the problem copies in each home directory
    files,      \* the solution directories that exist
    result      \* the runs whose report was stored as result.json

scriptVars == <<script, exit, children>>
callVars == <<call, got, tries, timedOut>>
nodeVars == <<status, home, files>>
vars == <<cmd, spawn, scriptVars, callVars, nodeVars, result>>

CmdStep == {"none", "fetched", "refused", "stdout", "stderr", "settled"}
SpawnStep == {"none", "copy", "truncate", "write", "start", "truncateAgain",
              "writeAgain", "wait", "clear", "cleanup", "gone", "failed"}
CallStep == {"none", "upload", "ok", "failed", "notInJudge"}

TypeOK ==
    /\ cmd \in [Run -> CmdStep]
    /\ spawn \in [Run -> SpawnStep]
    /\ script \in [Run -> {"none", "live", "blocked", "dead"}]
    /\ exit \in [Run -> {"none", "ok", "error"}]
    /\ children \in SUBSET Run
    /\ call \in [Run -> CallStep]
    /\ got \in [Run -> Solution \cup {Nobody}]
    /\ tries \in [Run -> 0 .. Addresses - 1]
    /\ timedOut \in SUBSET Run
    /\ status \in [User -> {"absent", "empty"} \cup Solution]
    /\ home \in [User -> SUBSET Run]
    /\ files \in SUBSET Solution
    /\ result \in [Solution -> SUBSET Run]

Init ==
    /\ cmd = [r \in Run |-> "none"]
    /\ spawn = [r \in Run |-> "none"]
    /\ script = [r \in Run |-> "none"]
    /\ exit = [r \in Run |-> "none"]
    /\ children = {}
    /\ call = [r \in Run |-> "none"]
    /\ got = [r \in Run |-> Nobody]
    /\ tries = [r \in Run |-> 0]
    /\ timedOut = {}
    /\ status = [u \in User |-> "absent"]
    /\ home = [u \in User |-> {}]
    /\ files = {}
    /\ result = [s \in Solution |-> {}]

Proceed(r, step) == spawn' = [spawn EXCEPT ![r] = step]
Running(r) == cmd[r] \in {"stdout", "stderr"}
Ended(r) == spawn[r] \in {"gone", "failed"}

-----------------------------------------------------------------------------
(* The bridge *)

(* fetch-object: the solution's directory and the file in it.               *)
HandleFetchObject(r) ==
    /\ cmd[r] = "none"
    /\ cmd' = [cmd EXCEPT ![r] = "fetched"]
    /\ files' = files \cup {SolutionOf[r]}
    /\ UNCHANGED <<spawn, scriptVars, callVars, status, home, result>>

(* execute-command with async: hpc-spawn runs, and a goroutine waits for it *)
(* while the answer is given.                                               *)
HandleExecuteCommand(r) ==
    /\ cmd[r] = "fetched"
    /\ cmd' = [cmd EXCEPT ![r] = "stdout"]
    /\ Proceed(r, "copy")
    /\ UNCHANGED <<scriptVars, callVars, nodeVars, result>>

(* It is refused: no such path or user, no pipe, or Start fails. The        *)
(* directory stays.                                                         *)
RefuseCommand(r) ==
    /\ "refuse" \in Faults
    /\ cmd[r] = "fetched"
    /\ cmd' = [cmd EXCEPT ![r] = "refused"]
    /\ UNCHANGED <<spawn, scriptVars, callVars, nodeVars, result>>

(* Variant: the goroutine only waits for hpc-spawn itself.                  *)
SpawnGone(r) == Ended(r)

(* The pipes end when every process that inherited them has ended:          *)
(* hpc-spawn, the script, which ends first, hpcgame and whatever else the   *)
(* script has started.                                                      *)
PipesClosed(r) ==
    /\ Ended(r)
    /\ r \notin children
    /\ call[r] # "upload" \/ r \in Detached

(* wait: stdout is read to its end before stderr is. (A pipe that cannot be *)
(* read is left out.)                                                       *)
ReadStdout(r) ==
    /\ cmd[r] = "stdout"
    /\ PipesClosed(r)
    /\ cmd' = [cmd EXCEPT ![r] = "stderr"]
    /\ UNCHANGED <<spawn, scriptVars, callVars, nodeVars, result>>

(* Then stderr, and the PUT of the exit status, whose failure is only       *)
(* logged, or, when MinIO answers an error, not even noticed.               *)
PutReport(r) ==
    /\ cmd[r] = "stderr"
    /\ cmd' = [cmd EXCEPT ![r] = "settled"]
    /\ UNCHANGED <<spawn, scriptVars, callVars, nodeVars, result>>

-----------------------------------------------------------------------------
(* hpc-spawn: RunJudgeScript *)

(* Copying the problem into the home; the chmod after it fails without the  *)
(* solution's directory.                                                    *)
CopyProblem(r) ==
    /\ spawn[r] = "copy"
    /\ home' = [home EXCEPT ![UserOf[r]] = @ \cup {r}]
    /\ Proceed(r, IF SolutionOf[r] \in files THEN "truncate" ELSE "cleanup")
    /\ UNCHANGED <<cmd, scriptVars, callVars, status, files, result>>

(* Variant: one status file for all users.                                  *)
SharedStatusFile(u) == User

(* getStatusFileName                                                        *)
StatusFile(u) == {u}

SetStatus(r, content) ==
    status' = [u \in User |-> IF u \in StatusFile(UserOf[r]) THEN content ELSE status[u]]

(* WriteStatus, before the script starts and again when its PID is known:   *)
(* os.WriteFile truncates the file, then writes it.                         *)
TruncateStatus(r) ==
    /\ spawn[r] \in {"truncate", "truncateAgain"}
    /\ SetStatus(r, "empty")
    /\ Proceed(r, IF spawn[r] = "truncate" THEN "write" ELSE "writeAgain")
    /\ UNCHANGED <<cmd, scriptVars, callVars, home, files, result>>

WriteStatus(r) ==
    /\ spawn[r] \in {"write", "writeAgain"}
    /\ SetStatus(r, SolutionOf[r])
    /\ Proceed(r, IF spawn[r] = "write" THEN "start" ELSE "wait")
    /\ UNCHANGED <<cmd, scriptVars, callVars, home, files, result>>

(* Its configuration, the cgroups or its argument are not what it needs:    *)
(* it ends before RunJudgeScript, and cleans nothing up.                    *)
InitFails(r) ==
    /\ "init" \in Faults
    /\ spawn[r] = "copy"
    /\ Proceed(r, "failed")
    /\ UNCHANGED <<cmd, scriptVars, callVars, nodeVars, result>>

(* SpawnCommand                                                             *)
StartScript(r) ==
    /\ spawn[r] = "start"
    /\ script' = [script EXCEPT ![r] = "live"]
    /\ Proceed(r, "truncateAgain")
    /\ UNCHANGED <<cmd, exit, children, callVars, nodeVars, result>>

(* Variant: an early return before the deferred functions are registered.   *)
SpawnFailsAtOnce(r) ==
    /\ "spawn" \in Faults
    /\ spawn[r] \in {"copy", "truncate", "write", "start"}
    /\ Proceed(r, "gone")
    /\ UNCHANGED <<cmd, scriptVars, callVars, nodeVars, result>>

(* An error before the script runs: what has been deferred by then is done. *)
SpawnFails(r) ==
    /\ "spawn" \in Faults
    /\ spawn[r] \in {"copy", "truncate", "write", "start"}
    /\ Proceed(r, IF spawn[r] \in {"write", "start"} THEN "clear" ELSE "cleanup")
    /\ UNCHANGED <<cmd, scriptVars, callVars, nodeVars, result>>

(* The script runs but cannot be put in its cgroup: it is killed, and not   *)
(* waited for.                                                              *)
AddProcFails(r) ==
    /\ "spawn" \in Faults
    /\ spawn[r] = "truncateAgain"
    /\ script' = [script EXCEPT ![r] = "dead"]
    /\ exit' = [exit EXCEPT ![r] = "error"]
    /\ Proceed(r, "clear")
    /\ UNCHANGED <<cmd, children, callVars, nodeVars, result>>

(* The script has ended, or never started. The deferred functions, last      *)
(* registered first: ClearStatus ...                                        *)
ClearStatus(r) ==
    /\ spawn[r] = "clear" \/ (spawn[r] = "wait" /\ script[r] = "dead")
    /\ SetStatus(r, "absent")
    /\ Proceed(r, "cleanup")
    /\ UNCHANGED <<cmd, scriptVars, callVars, home, files, result>>

(* ... and then the solution's directory and what is in the user's home,    *)
(* unless that is root's. (The names in it are taken relative to the working *)
(* directory, which the judger has set to that home.)                       *)
Cleanup(r) ==
    /\ spawn[r] = "cleanup"
    /\ files' = files \ {SolutionOf[r]}
    /\ home' = [home EXCEPT ![UserOf[r]] = IF UserOf[r] \in Root THEN @ ELSE {}]
    /\ Proceed(r, "gone")
    /\ UNCHANGED <<cmd, scriptVars, callVars, status, result>>

-----------------------------------------------------------------------------
(* The judge script *)

(* Whether it waits for its call of hpcgame.                                *)
Waits(r) == call[r] = "upload" /\ r \notin Detached

(* It starts another process: a command it waits for or one it leaves       *)
(* behind. That may end at any time or never.                               *)
StartProcess(r) ==
    /\ script[r] = "live"
    /\ ~Waits(r)
    /\ children' = children \cup {r}
    /\ UNCHANGED <<cmd, spawn, script, exit, callVars, nodeVars, result>>

ProcessEnds(r) ==
    /\ r \in children
    /\ children' = children \ {r}
    /\ UNCHANGED <<cmd, spawn, script, exit, callVars, nodeVars, result>>

(* It writes more to stderr than the pipe holds: nobody reads that pipe     *)
(* before stdout has ended, so it blocks.                                   *)
FillStderr(r) ==
    /\ script[r] = "live"
    /\ ~Waits(r)
    /\ cmd[r] = "stdout"
    /\ script' = [script EXCEPT ![r] = "blocked"]
    /\ UNCHANGED <<cmd, spawn, exit, children, callVars, nodeVars, result>>

ScriptEnds(r) ==
    /\ script[r] = "live"
    /\ ~Waits(r)
    /\ script' = [script EXCEPT ![r] = "dead"]
    /\ \E e \in {"ok", "error"} : exit' = [exit EXCEPT ![r] = e]
    /\ UNCHANGED <<cmd, spawn, children, callVars, nodeVars, result>>

(* Variant: a script that waits for its pipe is not killed.                 *)
KillLive(r) ==
    /\ r \in Limited
    /\ script[r] = "live"
    /\ script' = [script EXCEPT ![r] = "dead"]
    /\ exit' = [exit EXCEPT ![r] = "error"]
    /\ UNCHANGED <<cmd, spawn, children, callVars, nodeVars, result>>

(* waitToKill kills the script, and not the processes it has started.       *)
Kill(r) ==
    /\ r \in Limited
    /\ script[r] \in {"live", "blocked"}
    /\ script' = [script EXCEPT ![r] = "dead"]
    /\ exit' = [exit EXCEPT ![r] = "error"]
    /\ UNCHANGED <<cmd, spawn, children, callVars, nodeVars, result>>

-----------------------------------------------------------------------------
(* hpcgame *)

(* Init and HandleReport up to the upload: the status file says for which   *)
(* solution; one that is missing or does not parse means "not in judge".    *)
Report(r) ==
    /\ script[r] = "live"
    /\ call[r] = "none"
    /\ LET content == status[UserOf[r]] IN
       IF content \in Solution
       THEN /\ got' = [got EXCEPT ![r] = content]
            /\ call' = [call EXCEPT ![r] = "upload"]
       ELSE /\ call' = [call EXCEPT ![r] = "notInJudge"]
            /\ UNCHANGED got
    /\ UNCHANGED <<cmd, spawn, scriptVars, tries, timedOut, nodeVars, result>>

Answered(r, answer) ==
    /\ call' = [call EXCEPT ![r] = answer]
    /\ tries' = [tries EXCEPT ![r] = 0]
    /\ UNCHANGED got

(* Variant: one bridge more than there are.                                 *)
UnansweredOnceMore(r) ==
    IF tries[r] = Addresses
    THEN Answered(r, "failed")
    ELSE /\ tries' = [tries EXCEPT ![r] = @ + 1]
         /\ UNCHANGED <<call, got>>

(* Only a bridge that gave no answer is followed by the next one.           *)
Unanswered(r) ==
    IF tries[r] = Addresses - 1
    THEN Answered(r, "failed")
    ELSE /\ tries' = [tries EXCEPT ![r] = @ + 1]
         /\ UNCHANGED <<call, got>>

HandleUploadFile(r) == result' = [result EXCEPT ![got[r]] = @ \cup {r}]

(* UploadFile by CommonSignedMultiAddressClient, one bridge at a time, each  *)
(* for as long as its timeout.                                              *)
UploadFile(r) ==
    /\ call[r] = "upload"
    /\ \/ HandleUploadFile(r) /\ Answered(r, "ok") /\ UNCHANGED timedOut
       \/ /\ "timeout" \in Faults
          /\ Unanswered(r) /\ timedOut' = timedOut \cup {r} /\ UNCHANGED result
       \/ "unreached" \in Faults /\ Unanswered(r) /\ UNCHANGED <<timedOut, result>>
       \/ "put" \in Faults /\ Answered(r, "failed") /\ UNCHANGED <<timedOut, result>>
    /\ UNCHANGED <<cmd, spawn, scriptVars, nodeVars>>

(* The bridge knows of no timeout: it stores the report when it comes to it. *)
StoreLate(r) ==
    /\ r \in timedOut
    /\ HandleUploadFile(r)
    /\ UNCHANGED <<cmd, spawn, scriptVars, callVars, nodeVars>>

-----------------------------------------------------------------------------
BridgeStep(r) == ReadStdout(r) \/ PutReport(r)
SpawnNext(r) ==
    \/ CopyProblem(r) \/ TruncateStatus(r) \/ WriteStatus(r) \/ StartScript(r)
    \/ ClearStatus(r) \/ Cleanup(r)

Next ==
    \E r \in Run :
        \/ HandleFetchObject(r) \/ HandleExecuteCommand(r) \/ RefuseCommand(r) \/ BridgeStep(r)
        \/ SpawnNext(r) \/ InitFails(r) \/ SpawnFails(r) \/ AddProcFails(r)
        \/ StartProcess(r) \/ ProcessEnds(r) \/ FillStderr(r) \/ ScriptEnds(r) \/ Kill(r)
        \/ Report(r) \/ UploadFile(r) \/ StoreLate(r)

Spec == Init /\ [][Next]_vars

(* The bridge, hpc-spawn and hpcgame run, and a TimeLimit comes. That a     *)
(* script ends by itself, or what it has started, is not assumed.           *)
Fairness ==
    \A r \in Run :
        /\ WF_vars(BridgeStep(r))
        /\ WF_vars(SpawnNext(r))
        /\ WF_vars(UploadFile(r))
        /\ WF_vars(Kill(r))

FairSpec == Spec /\ Fairness

-----------------------------------------------------------------------------
(* A report is stored under the solution of the script that gave it, and    *)
(* hpcgame succeeds only if it was, whichever bridge was tried last: the    *)
(* status file speaks of the caller's run (GetStatus, HandleReport).        *)
OwnResult ==
    /\ \A s \in Solution : \A r \in result[s] : SolutionOf[r] = s
    /\ \A r \in Run : call[r] = "ok" => r \in result[SolutionOf[r]]

(* hpc-spawn is at work for the run.                                        *)
UnderWay(r) == spawn[r] # "none" /\ ~Ended(r)

(* What hpc-spawn finds or puts on the node it removes, wherever            *)
(* RunJudgeScript returns (its deferred functions): when it is at work for  *)
(* no run of a user, that user has no status file and, unless it is root,   *)
(* nothing in the home; and a solution's directory stays only for a run     *)
(* that is to be started, that the bridge refused to start, or for which    *)
(* hpc-spawn failed before RunJudgeScript.                                  *)
CleanedUp ==
    /\ \A u \in User :
          (\A r \in Run : UserOf[r] = u => ~UnderWay(r)) =>
              status[u] = "absent" /\ (u \in Root \/ home[u] = {})
    /\ \A s \in files : \E r \in Run :
          /\ SolutionOf[r] = s
          /\ UnderWay(r) \/ cmd[r] \in {"fetched", "refused"} \/ spawn[r] = "failed"

(* hpcgame says "cannot be called when not in judge" only to callers that   *)
(* no judge script has started (ErrNotInJudge).                             *)
NotInJudgeIsTrue == \A r \in Run : call[r] # "notInJudge"

(* A command with a TimeLimit is waited for to its end and its exit status  *)
(* PUT, whatever the script does with its pipes, and although it may hang   *)
(* (wait, waitToKill), unless a process it has started never ends: only the *)
(* script is killed.                                                        *)
EveryCommandSettles ==
    \A r \in Limited :
        ([]<>(r \notin children)) => (cmd[r] = "stdout" ~> cmd[r] = "settled")

(* The refinement of ScriptLife: a script is over when hpc-spawn has ended. *)
Life(r) ==
    CASE cmd[r] \in {"none", "fetched", "refused"} -> "none"
      [] cmd[r] = "settled" -> "settled"
      [] Ended(r) /\ Running(r) -> "exited"
      [] OTHER -> "live"

Abstract == INSTANCE ScriptLife WITH
    Own    <- SolutionOf,
    life   <- [r \in Run |-> Life(r)],
    well   <- {r \in Run : exit[r] = "ok" /\ Life(r) \in {"exited", "settled"}},
    adrift <- {r \in Run : r \in timedOut \/ (r \in Detached /\ call[r] # "none")},
    stored <- result

(* What the judgers assume of a script, as far as the processes on the node *)
(* keep it: a report is stored after the exit status, or after a script     *)
(* that ended well, only if hpcgame had given up on a bridge that was still *)
(* storing it, or was called detached. Otherwise the bridge first reads to  *)
(* their end the pipes that hpcgame inherited.                              *)
ImplementsScriptLife == Abstract!Spec
===============================================================================
