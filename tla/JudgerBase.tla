----------------------------- MODULE JudgerBase -----------------------------
(***************************************************************************)
(* The state that every part of hpc-judge shares: the claims and the       *)
(* deduplication marks in Redis, the report topic of NSQ, the judge        *)
(* scripts that run on the bridge and the solution directory they use.     *)
(* The judgers' message handlers (JudgeQueue) and their MinIO listeners    *)
(* (JudgeResults) are written over this state; JudgeSystem composes them.  *)
(***************************************************************************)
EXTENDS Integers, Sequences, FiniteSets

CONSTANTS
    Judger,        \* the hpc-judge processes
    Slot,          \* the concurrent handlers of one judger (Nsq.Concurrent)
    Msg,           \* the messages of the judge topic
    Solution,      \* solution IDs
    Malformed,     \* the body of a message that is not a JudgeMessage
    NoSolution,    \* the empty solution ID, ""
    Body,          \* [Msg -> Solution \cup {Malformed}]
    MaxAttempts,   \* Nsq.MaxAttempts
    Result,        \* the result.json files a script may upload
    Garbled,       \* a result.json that does not unmarshal
    ExitOK,        \* a run-command-report.json of a script that ended well
    ExitError,     \* ... of one that failed or could not be awaited
    Nothing,       \* no object, nothing read
    Versioned,     \* the solution bucket keeps object versions
    Faults         \* what may go wrong in this instance

FaultKind ==
    { "timeout",     \* nsqd redelivers a message whose handler is slow
      "crash",       \* a judger stops and is started again
      "refuse",      \* the discovery, MinIO or the bridge answers an error
      "lostReply",   \* the bridge starts the script but its answer is lost
      "garble",      \* a script stores a result.json that does not parse
      "incr", "expire", "del",   \* that Redis command fails, without effect
      "publish",     \* nsqd refuses a report
      "read",        \* MinIO does not deliver an object's contents
      "late",        \* a result is handled more than 2.5 s after the script ended
      "silent",      \* the bridge cannot store run-command-report.json
      "claimExpiry", \* a script outlives its claim (Redis.Expire.Judge)
      "markExpiry" } \* an event is seen again after Redis.Expire.Report

ASSUME JudgerBaseAssumption ==
    /\ MaxAttempts \in 1 .. 65534        \* uint16(MaxAttempts) + 1, judger.go:93
    /\ Malformed \notin Solution
    /\ NoSolution \notin Solution
    /\ Body \in [Msg -> Solution \cup {Malformed}]
    /\ Versioned \in BOOLEAN
    /\ Faults \subseteq FaultKind

(* What the objects in the solution bucket hold differs.                    *)
ASSUME ContentsAssumption ==
    /\ Result \subseteq [done : BOOLEAN, score : Nat]
    /\ Garbled \notin Result
    /\ ExitOK # ExitError
    /\ {ExitOK, ExitError} \cap (Result \cup {Garbled}) = {}
    /\ Nothing \notin Result \cup {Garbled, ExitOK, ExitError}

VARIABLES
    claim,      \* Redis: the key of a solution that is being judged
    seen,       \* Redis: the keys of the MinIO events already handled
    reports,    \* the reports published, per solution
    script,     \* the judge script each delivery started
    uploaded,   \* the result.json files each script has stored
    latest,     \* the newest object under each name in the solution bucket
    dir         \* the bridge holds the solution's directory

sharedVars == <<claim, seen, reports, script, uploaded, latest, dir>>
scriptVars == <<script, uploaded, latest, dir>>

Handler == Judger \X Slot
JudgerOf(h) == h[1]

(* A judge script is named by the delivery of the message that started it. *)
Run == Msg \X (1 .. MaxAttempts)
SolutionOf(r) == Body[r[1]]
ValidRun == {r \in Run : SolutionOf(r) \in Solution}

Upload == Result \cup {c \in {Garbled} : "garble" \in Faults}
Exit == {ExitOK, ExitError}               \* what run-command-report.json says
Listening == {"result", "command"}
Object == Solution \X Listening          \* result.json, run-command-report.json
ClaimKey == Solution \cup {NoSolution}
EventKey == Solution \X (Upload \cup Exit)      \* solution ID and ETag

KeyState == {"absent", "expiring", "lasting"}
ScriptState == {"none", "live", "exited", "settled"}
ReportKind == {"started", "result", "invalid", "badExit", "noReport",
               "failed", "maxAttempts"}
Report == [kind : ReportKind, done : BOOLEAN, score : Nat]

-----------------------------------------------------------------------------
(* Redis: INCR creates a key without an expiry, EXPIRE gives it one.        *)

Incr(keys, k) == [keys EXCEPT ![k] = IF @ = "absent" THEN "lasting" ELSE @]
Expire(keys, k) == [keys EXCEPT ![k] = IF @ = "lasting" THEN "expiring" ELSE @]
Del(keys, k) == [keys EXCEPT ![k] = "absent"]

Exists(keys, k) == keys[k] # "absent"

(* Variant: the reply is compared with 0, which INCR never answers.         *)
NeverExists(keys, k) == {"first"} \cup {e \in {"error"} : "incr" \in Faults}

(* checkIfRequestExists is INCR and, for the first caller, EXPIRE: two      *)
(* commands that other judgers' commands come between. What it answers      *)
(* depends on the reply to INCR, and an error counts as "exists".           *)
checkIfRequestExists(keys, k) ==
    {IF Exists(keys, k) THEN "again" ELSE "first"}
        \cup {e \in {"error"} : "incr" \in Faults}

(* Variant: the EXPIRE is forgotten.                                        *)
AfterExpireForgotten(keys, k) == {keys}

(* The keys after that INCR, and after the EXPIRE that may fail.            *)
AfterIncr(keys, k, answer) == IF answer = "error" THEN keys ELSE Incr(keys, k)
AfterExpire(keys, k) == {Expire(keys, k)} \cup {f \in {keys} : "expire" \in Faults}

(* Variant: DEL without Redis.Prefix, which removes nothing.                *)
DelWithoutPrefix(keys, k) == {keys}

(* setRequestNotExist: DEL, whose error every caller only logs.             *)
setRequestNotExist(keys, k) == {Del(keys, k)} \cup {f \in {keys} : "del" \in Faults}

-----------------------------------------------------------------------------
(* NSQ does not order a topic: what was published is a set.                 *)
(* publishToReport: a report reaches the topic or an error is returned; only *)
(* after a final report, and as a separate command, is the claim removed.    *)
ReportOf(kind, done, score) == [kind |-> kind, done |-> done, score |-> score]

publishToReport(k, r) == reports' = [reports EXCEPT ![k] = @ \cup {r}]
LoseReport == "publish" \in Faults /\ UNCHANGED reports

-----------------------------------------------------------------------------
(* The bridge. fetch-object creates the directory and stores the solution's *)
(* file in it, execute-command starts the script and answers, upload-file   *)
(* puts an object.                                                          *)
HandleFetchObject(s) == dir' = [dir EXCEPT ![s] = TRUE]
HandleExecuteCommand(r) == script' = [script EXCEPT ![r] = "live"]
HandleUploadFile(o, c) == latest' = [latest EXCEPT ![o] = c]

-----------------------------------------------------------------------------
SharedTypeOK ==
    /\ claim \in [ClaimKey -> KeyState]
    /\ seen \in [EventKey -> KeyState]
    /\ reports \in [ClaimKey -> SUBSET Report]
    /\ script \in [Run -> ScriptState]
    /\ uploaded \in [Run -> SUBSET Upload]
    /\ latest \in [Object -> Upload \cup Exit \cup {Nothing}]
    /\ dir \in [Solution -> BOOLEAN]

SharedInit ==
    /\ claim = [k \in ClaimKey |-> "absent"]
    /\ seen = [k \in EventKey |-> "absent"]
    /\ reports = [k \in ClaimKey |-> {}]
    /\ script = [r \in Run |-> "none"]
    /\ uploaded = [r \in Run |-> {}]
    /\ latest = [o \in Object |-> Nothing]
    /\ dir = [s \in Solution |-> FALSE]

(* A final report of the solution has been published.                       *)
Reported(k) == \E r \in reports[k] : r.done

-----------------------------------------------------------------------------
(* Time: EXPIRE's deadline of a claim (Expire.Judge) or of a mark            *)
(* (Expire.Report) passes. Only keys with a deadline ever go.                *)
ForgetClaim(k) ==
    /\ "claimExpiry" \in Faults
    /\ claim[k] = "expiring"
    /\ claim' = Del(claim, k)
    /\ UNCHANGED <<seen, reports, scriptVars>>

ForgetEvent(k) ==
    /\ "markExpiry" \in Faults
    /\ seen[k] = "expiring"
    /\ seen' = Del(seen, k)
    /\ UNCHANGED <<claim, reports, scriptVars>>
=============================================================================
