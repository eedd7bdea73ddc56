# A TLA+ model of hpc-judge

hpc-judge judges programs on a cluster. A client publishes a JudgeMessage on
NSQ; a judger prepares a bridge and has it start the problem's judge script;
the script stores its result in MinIO; the judgers hear of it and publish a
report on NSQ. Bridges are found through a discovery service. This directory
holds TLA+ modules of the parts that decide whether a submission is judged once
and answered, TLC configurations that check them on small instances, and
theorems that TLAPS proves for all instances (the modules `*_proofs`, each about the module it
extends). `PROJECT.json` lists components,
runs, the lines each definition models, hazards, findings and theorems.

## The system

| Component (source) | State it keeps | Talks to | What makes it correct | Module |
|---|---|---|---|---|
| judger, messages (`judge/server/judger.go` 517-745) | the claim of a solution in Redis, the message in nsqd | nsqd, Redis, MinIO, discovery, bridge | one run at a time per solution; a claim is never left for ever; every submission gets a final report | JudgeQueue |
| judger, listeners (158-349) | an INCRed mark per event in Redis | MinIO notifications, Redis, NSQ | a result is reported by one judger; a script that reported is not said not to have | JudgeResults |
| judger, problem data (350-503) | a mark per upload, files on a bridge | MinIO, Redis, bridge | an upload has one judger; the newest arrives, over what is there | ProblemSync |
| discovery registry (`discovery/server/server.go`) | services, indexByType, uniqueness under a lock | its clients | IDs are unique, list, index and IDs agree, who is connected is listed | ServiceIndex, Registry |
| discovery peering (75-127, 207-264, 363-412, 494-558) | peers | other servers | news reaches every peer there is when it is sent; servers know each other | DiscoveryCluster |
| register client (`discovery/service.go`) | a connection | discovery | a bridge stays listed | the sessions of Registry and DiscoveryCluster |
| bridge (`bridge/server/bridge.go`) | files, running commands | MinIO, hpc-spawn | a command's end is stored once its processes have ended | BridgeCommand |
| hpc-spawn (`spawncmd/`, `common/runner/`) | solution directory, home, status file, cgroup | the script | files are there while a script runs; it ends; RunJudgeScript leaves nothing behind | BridgeCommand |
| hpcgame (`utilitycmd/`) | the status file it reads | bridge | acts for the run that called it | BridgeCommand |
| query client, signed requests, configure, cmd | - | - | - | - |

The hard behaviours: nsqd redelivers while a handler is still at work (its
message timeout is seconds, a bridge call may take minutes); every Redis or NSQ
call may interleave with those of other judgers; a judger may stop anywhere; all
judgers hear of every object; a fixed delay stands for an ordering nobody
enforces; a script, its parent and its children share pipes and a status file;
discovery servers tell each other of changes in requests that may overtake each
other; and the registry reads outside its lock. The hazards of `PROJECT.json`
give the line of each and the properties that cover it, or why none does.

## The modules

### Judging: JudgerBase, JudgeQueue, JudgeResults, JudgeSystem, Submission

`JudgerBase` holds what the judgers share: claims and marks in Redis
(`claim`, `seen`: absent, with a deadline, or without one), the reports, the
scripts with what they stored (`script`, `uploaded`, `latest`) and the solution
directory (`dir`). INCR and EXPIRE are separate commands, since that is how
`checkIfRequestExists` issues them. `Faults` names what may go wrong in an
instance, so that each run says which faults its properties survive.

`JudgeQueue` is the judge topic and `HandleMessage`. nsqd's part is external and
modelled from how the code configures and answers it: a FIN or REQ counts only
while the message is in flight to that judger's connection; the consumer library
drops a message delivered more than `MaxAttempts + 1` times
(`judger.go:93`). A handler's `pc` is the call it makes next:

    claim -> expire -> fetch -> execute -> started -> finish
      |                  \________\____-> release -> requeue | fail -> unclaim -> finish
      +-> started (claimed by another) | release (INCR failed)

`fetch` stands for problem meta, discovery, presigning and fetch-object: it
succeeds or the handler releases. A fetch that fails half way leaves a partial
file, which the retry overwrites before a script may start, so it is not
distinguished. `execute` is ExecuteCommandAsync.

`JudgeResults` is the script as the judgers see it, the bridge's PUT of its exit
status, and the two listeners with their 2.5 s check. Every listener has an `inbox` of
notifications, in order; two judgers' inboxes advance independently. `Read` puts
GetObject, ReadAll and Unmarshal together: nothing but the object can change in
between, and whether the event's version or the newest object is read is the
constant `Versioned`. The delay is modelled as what it is meant to guarantee:
without the fault `late`, the check wakes after every judger has handled the
script's results. A script stores each contents at most once, and nothing once it has ended:
JudgeResults knows of no report that is adrift (below). The exit status also holds the script's
output; it is taken to be one of two contents. A Redis command
that fails has no effect (a lost reply of an INCR that took effect is not
modelled). Timestamps, messages and statistics are left out.

`JudgeSystem` composes the two over the shared state, adds crashes (a judger's
handlers, listeners and timers stop together; nsqd takes its messages back;
MinIO repeats nothing), fairness, and the properties.

`Submission` is the abstract specification: what a client may rely on, without
queue, claims or marks. One attempt at a time owns a submitted solution, starts
its script at most once and only while it owns it, and reports are given of
submitted solutions only, a verdict only after a script was started. After the
first final report attempts may overlap. JudgeSystem implements it
(`ImplementsSubmission`) with the mapping: the owner is the delivery that
still may start, or has running, a script, and nobody once a final report exists.
A crash ends several deliveries at once, so `LetGo` is of a set of solutions.
`Submission` has no liveness; that every submission is answered is
`EverySubmissionReported` of JudgeSystem.

### The node: BridgeCommand, ScriptLife

`BridgeCommand` opens up what `JudgeResults` takes for a step: the bridge's
goroutine per command (`cmd`: it reads stdout to its end, then stderr, then PUTs
the exit status), hpc-spawn (`spawn`, one step per file it changes, with its early returns
and its deferred functions), the judge script, and the script's call of
`hpcgame report` (`call`). The bridge may refuse to start hpc-spawn
(`RefuseCommand`), and hpc-spawn may fail before RunJudgeScript has registered
anything to be done at its end (`InitFails`, state `failed`): both leave the solution's
directory behind, while the failures of RunJudgeScript (`SpawnFails`) run the
deferred functions registered by then. root's home is never emptied (`Root`).

The processes meet in the status file of a user, written by
`os.WriteFile`, which truncates first, and in the pipes: these end when
*every* process that inherited them has ended (`PipesClosed`). That is hpc-spawn, the
script, hpcgame, unless it was called without waiting for it and with output of its own
(`Detached`), and whatever else the script has started (`children`, one bit per
run: one process is as good as many). `Kill` is the TimeLimit: it ends the script and
none of these. hpcgame asks one configured bridge after the other, the next only when
one gave no answer (`UploadFile`): it cannot reach it, or gives up after its timeout.
In the second case the bridge is still at work and may store the report at any
time later, or never (`timedOut`, `StoreLate`).
A script calls hpcgame once. `FillStderr` is a script that blocks on a pipe nobody reads
yet. A pipe that cannot be read, on which the goroutine would give up early, is left out, and
so is which names Cleanup removes: it takes them relative to the working directory, which the
judger has set to the user's home.

`ScriptLife` is what the judgers can expect of a script: it lives, ends, its
status is stored after that and after everything it stored, always under its own
solution; one that ended well has stored its report before it ended. The exception is
a report that is *adrift*: nobody on the node waits for it, because hpcgame gave up on a
bridge that was still storing it or was called detached. It may come at any time.
BridgeCommand implements this (`ImplementsScriptLife`), and names which reports are adrift.
"Exited" in ScriptLife and `EndScript` in JudgeResults are the end of hpc-spawn.
ScriptLife lets a *killed* script's hpcgame store a report after that, before the
status. JudgeResults has the script store nothing once it has ended: there such a late report
is one stored just before the end, which its listeners cannot tell apart, as they are only
ordered against the status. Reports adrift are outside of JudgeResults, and so are
the properties that order a report and the exit status, NoReportIsTrue first of all.

### Problem data: ProblemSync

The listeners of all judgers for uploads of one problem's `data.tar`: the mark
under the ETag, `problem.toml` taken from the uploaded version, `GetProblemMeta`
of whatever version is newest then (one that is broken or cannot be read makes the judger
dereference nil and stop: state `down`), and four calls to one bridge: fetch, as `Truncate`
and `Fill` since it opens the file before it asks for the object, `Untar`,
`RemoveFile`. The directory is kept per file (`File`; `Holds` says which files a
content holds): tar unpacks over what is there, so a file that only an older archive had stays
(`Overlay`). Two judgers at work use one temporary name, so a file may be torn, empty or missing;
`Written` lists what two writers can leave. chmod and chown are left out, and an
INCR or EXPIRE of the mark does not fail. `ForgetMark` removes a mark only when no
notification of that content is pending: Expire.Report is longer than any of them waits.

`disturbed` is a history variable, read by no action. It says that
something happened which the code does not survive: two uploads handled at once,
a failing call, a judger that stopped, a content uploaded again while its mark
lives. `NewestArrives` is about behaviours without them, with all other
interleavings of uploads, judgers and bridges.

### Discovery: ServiceIndex, Registry, DiscoveryCluster

`ServiceIndex` is the registry's data as a record `[services, indexByType,
uniqueness]` and its locked operations as operators. `Delete` is translated with
its panic: a needle whose type does not fit is taken from the list and then
panics on the index; net/http recovers the handler and the rest is left undone.

`Registry` is one server: workers for `/add` and a peer's add, requests to
delete, and register sessions. `NormalizeService` runs before the lock
is taken and `Query` walks a slice outside the lock whose entries `Delete` moves.
A query is a step that notes what it will find, followed by a step that answers:
that, or, if a Delete has moved entries of that list meanwhile, nothing or
an entry that is there now. This contains what the scan can really return.

`DiscoveryCluster` is several servers, each with such a record. Add and Delete only
start a goroutine (`news`); `Announce` is that goroutine when it comes to read the peers, under
another lock and perhaps after some have joined or been removed. Every
notification is a request of its own (`flight`): taken in any order, refused by
a server that does not listen yet, lost, or answered 400 when a server tells
itself. `Handle` and `AppendPeer` are AddPeer's two locks, between which another
stranger's request fits. A server that starts goes through the phases of
`NewServer`: greet the configured peers, ask one for its peers, greet those, ask
one for its list, listen. Requests of a starting server are made one after the other
and each is a step; with the fault `lose` each of them may fail although the peer
serves, whether the peer has heard it (and lists the server from then on) or not. The services
here have IDs, as those of bridges do, so that NormalizeService changes nothing.

The history variables let the properties say what they are about: `failed`, the
bridges one of whose notifications was lost or overtaken; `told`, the servers that served,
did not know yet and were peers when the goroutines read the peers; `missed`, the servers that
asked a serving peer for its peers in vain; `removed`, that a peer was removed by request.

The operators marked "Variant" in the modules are not used by any
specification: each is a plausible mistake in the definition that follows, and
shows that a property would notice it.

## What the runs check

| Run | Instance | Faults | Shows | States |
|---|---|---|---|---|
| judge_redelivery | 2 judgers, 1 message, 2 attempts and the delivery past the last | crash, refuse, timeout | OneJudgeUntilReported: until a final report one delivery at a time judges, and it holds the claim; FilesWhileJudging: the end of one run never takes the files of another; ImplementsSubmission (the scripts store no result here) | 293 000 |
| judge_results | 2 judgers, 1 message | crash, read, del, expire, incr, publish, lostReply, late | TypeOK; PublishedOnce: no result is reported twice, whichever listener stops where | 455 000 |
| judge_timer | 2 judgers, 1 message, partial and full results | refuse, silent, garble, lostReply, claimExpiry | NoReportIsTrue: "exited before reporting done" is said only of scripts that did not; ClaimsExpire: a claim without a deadline is about to get one | 534 000 |
| judge_refused | 1 judger, 2 messages of which one is malformed, 2 attempts, unversioned bucket | refuse, garble, markExpiry | EverySubmissionReported | 85 000 |
| judge_timeouts | 2 judgers, 1 message, 2 attempts | timeout | EverySubmissionReported | 169 000 |
| judge_rejudge | 1 judger, 2 messages for one solution | none | NoReportIsTrue is violated | - |
| bridge_command | 2 runs of 2 users that overlap, 2 bridges to ask; one with a TimeLimit, one detached and root's | all: refuse, init, spawn, unreached, timeout, put | TypeOK; OwnResult: a report goes to the caller's solution, and success means it was stored; CleanedUp: RunJudgeScript leaves nothing on the node, wherever it fails, and only a start that failed before it leaves a directory; ImplementsScriptLife; EveryCommandSettles: a command with a TimeLimit is waited for to its end, whatever blocks, unless a process the script started never ends | 148 000 |
| not_in_judge | 1 run | none | NotInJudgeIsTrue is violated | - |
| problem | 2 judgers, 1 bridge, 4 contents of which one has no problem.toml and one a broken one, 2 files of which one content lacks one, 3 uploads | read, refuse | TypeOK; HandledOnce: no upload is handled by two judgers at once; NewestArrives: problem.toml and, on a bridge, every file of the newest upload are the newest | 980 000 |
| cluster | 1 server, 2 more that join through it, 1 bridge, 1 removal of a peer | lose, remove | TypeOK; AddedIsEverywhere, GoneIsGone: whoever was told of a bridge lists it, or does not list it any more; MeshLinked: of two servers one lists the other, unless a request for peers failed | 889 000 |
| registry | 2 workers, 1 session, ill-typed deletes | - | TypeOK, DistinctIDs | 31 000 |
| registry_sessions | 2 workers, 2 sessions with their own IDs at one address | - | RegisteredWhileConnected, HasIsTrue, IndexAgrees | 14 000 |

The longest run takes about a minute and a half; the two that show a violation stop at it.

**Deadlock.** The judge, bridge, problem and cluster runs set CHECK_DEADLOCK
FALSE: with nothing submitted or uploaded and nothing running these systems
rightly stop. The registry's runs check deadlock.

**Why the bounds suffice.** The claim, the marks and the reports are kept per
solution, so solutions do not interact. Two handlers are enough for one to
overtake the other; two attempts and the delivery past the last reach
every branch on `msg.Attempts`; two judgers are enough for one to win a mark and
another to skip the event. On a node, runs meet in the status files, the homes and the
solution directories only, two at a time. In the run each has its own, as OwnResult takes it; CleanedUp
is proved for runs that share them, and two runs of one user and solution (39 000 states) passed while writing. Problems do not interact either;
`MaxUploads = 3` lets one upload be handled while a second waits and a third arrives.
Three servers are the least at which two meet through a third; peers of more are
told one by one, in the same way. `RemovePeer` happens once at most (`removed`), which
already leaves any one link one-sided and takes a peer away before a goroutine reads it. A larger start, of two
servers that both name two others and may lose every request, was explored while writing and passed (109 000
states). Two services with IDs and two
generated ones fill a list in every order around a deletion.

**Why faults are split.** Some promises do not survive some faults, and the run
names those it does. Nothing in the repository promises otherwise for these,
except where a finding says so.

- OneJudgeUntilReported fails when an INCR error is taken for a claim of one's own
  (`incr`), when a script starts although its start failed (`lostReply`), when a
  claim expires (`claimExpiry`), and when an event is handled again (`markExpiry`).
- NoReportIsTrue fails with `late`, `read`, `crash`, `publish`, `del`, `incr`, `expire`,
  `markExpiry`, with `lostReply` or `timeout` when there are two attempts, and with a second
  submission.
- PublishedOnce fails with `markExpiry`, and with an unversioned bucket.
- ClaimsExpire fails with `crash` and `expire`.
- EverySubmissionReported fails when a timeout and a refusal meet: the duplicate
  finishes the message as judged elsewhere, the first handler then fails and
  requeues what is gone. It fails with `crash`, `publish`, `silent` and `lostReply` for
  plain reasons.
- CleanedUp names the starts that leave a directory behind, ImplementsScriptLife the
  reports that come late, EveryCommandSettles the processes that never end.
- NewestArrives fails in behaviours that are `disturbed`; AddedIsEverywhere and GoneIsGone
  fail for a peer that was still starting when it was told, for one that was removed before
  the goroutine read the peers, and for notifications that `failed`; MeshLinked fails after RemovePeer, for
  servers that `missed` the answer of a serving peer, and for servers that name different peers first (below).

**Fairness.** In JudgeSystem nsqd delivers what it holds and drops what is past
the limit; a handler, listener and timer make their next call (each is a goroutine
with client timeouts); a stopped judger is started again; a script ends and its
status is stored. The last is an assumption about scripts, not a promise of the code: a
TimeLimit of 0 is never enforced, and `waitToKill` (`spawncmd/spawn.go:68`) does not
end what the script has started, for whose pipes the bridge waits.
BridgeCommand does *not* assume that a script ends: the bridge,
hpc-spawn and hpcgame take their steps, and the kill at the TimeLimit comes.
EveryCommandSettles derives from this what JudgeSystem
assumes, for problems that declare a TimeLimit (`Limited`) and scripts whose other
processes do not stay for ever. In ProblemSync every call of a listener returns. DiscoveryCluster has
no liveness property: NewServer's loops are finite, but peer requests have no timeout, so a peer that
accepts a connection and says nothing keeps a server from starting. Delivery of notifications is not assumed. Nothing
is assumed of faults, clients, or scripts reporting anything.

## Findings

- **judge_rejudge.** The check 2.5 s after a script's end (`judger.go:322-344`)
  takes any claim of the solution for that script's. When the solution has been
  submitted again meanwhile, the second run's claim is removed and a final
  failure is published of a script that did report.
- **not_in_judge.** hpc-spawn writes the status file again after the script has
  started (`spawncmd/command.go:179`), truncating it first. `hpcgame report` called at
  that moment answers "cannot be called when not in judge".
- `NewServer` (`discovery/server/server.go:113`) fills `services` and
  `indexByType` from a peer but not `uniqueness`: a service of that list is accepted a
  second time. In a cluster the late notification of it is enough; an
  instance of Registry with a `Bootstrap` of one service violates DistinctIDs.
- RemovePeer of a stranger answers ErrPeerAlreadyExists (407); ErrPeerNotExist
  is never used.
- ErrPeerIsSelf is never used: a server that starts becomes a peer of itself
  (101) and tells itself of every change.

Also seen in the code: a Delete by address leaves the
service's ID in use (`server.go:338`); a Delete under the wrong type leaves an
entry in the index that nothing can remove (`server.go:337`); two adds without
an ID race past `NormalizeService` (`server.go:283`); a broken problem.toml stops
a judger (`judger.go:435`); a content that is uploaded again within Expire.Report is ignored
(`judger.go:370`); two servers that start at the same time with peers p, h and with h only
may never list each other, though all lists are complete when they start: each asks one peer
for its peers, and p has not heard of the other (`server.go:92`), and so may two that start together when a
request for peers fails (`server.go:94`); a server that took a service with its list and is then told of
its add lists it twice, and keeps one entry when it is deleted (`server.go:113`); a peer that is removed
before the goroutine of a Delete reads the peers is never told and lists the service for good
(`server.go:247`, `342`); a start that the bridge refuses, and an hpc-spawn that fails in Init, leave
the solution directory behind (`bridge.go:320`, `spawncmd/command.go:29`); other processes of a script
that is killed keep the bridge waiting, so that its exit status may never be stored (`spawncmd/spawn.go:73`,
`bridge.go:393`); a report on which hpcgame has timed out may be stored after the exit status
(`commonclient.go:151`, `bridge.go:466`); files of older archives stay in a problem's directory
(`judger.go:467`); `Score` of a report that is
not done is the script's, not 0 as `message.go:16` says (`judger.go:232`); "Judge started" is
also published for duplicates (`judger.go:735`).

## What is proved

Every invariant that a run checks, and both refinements, for every value of the constants
that meets the named assumptions. These are `JudgerBaseAssumption`, `ContentsAssumption` (what
the bucket's objects hold differs) and `PlaceAssumption` (a judger's name is none of nsqd's
states), `BridgeCommandAssumption`, `ProblemSyncAssumption`,
`ServiceIndexAssumption`, `RegistryAssumption` and `DiscoveryClusterAssumption`; each says what the
constants are. Where a theorem has a hypothesis, the property is false without it, for
the reason given (one exception is named).

| Module | Theorem | Property | Hypothesis |
|---|---|---|---|
| JudgeSystem_proofs | TypeCorrect | TypeOK | - |
| | ClaimsGetDeadline | ClaimsExpire | no crash, expire |
| JudgeSafety_proofs | EachResultPublishedOnce | PublishedOnce | versioned bucket, no markExpiry |
| | OneJudgeAtATime | OneJudgeUntilReported | no incr, lostReply, claimExpiry, markExpiry |
| | FilesStay | FilesWhileJudging | the same |
| | NoFalseAlarm | NoReportIsTrue | see below |
| JudgeRefinement_proofs | JudgersKeepThePromise | ImplementsSubmission | as OneJudgeAtATime |
| BridgeCommand_proofs | NodeTypes, NothingIsLeft | TypeOK, CleanedUp | - |
| | ReportsAreStoredRight, NodeImplementsScriptLife | OwnResult, ImplementsScriptLife | OneSolutionPerUser |
| ProblemSync_proofs | ListenerTypes, NoUploadHandledTwice | TypeOK, HandledOnce | - |
| Registry_proofs | TypeCorrect | TypeOK | - |
| | ServicesHaveDistinctIDs | DistinctIDs | no bootstrap |
| | ListsAgree | IndexAgrees | no bootstrap, WellTyped |
| | IDsInUseAreListed | HasIsTrue | no bootstrap, WellTyped, no delete without an ID |
| | SessionsKeepTheirService | RegisteredWhileConnected | LeftAlone |
| DiscoveryCluster_proofs | ClusterTypes, NewsArrives, GoneForGood | TypeOK, AddedIsEverywhere, GoneIsGone | - |
| | ServersMeet | MeshLinked | MeetAt |

Each proof finds an inductive invariant; TLC checked it on the runs' instances first.

**JudgeSystem, types.** TypeOK is not inductive: a listener reads whatever its
notification or the bucket holds, so `TypeInv` adds `Notified` (a listener's notifications
and the objects under its name have its kind of contents) and `Busy` (a listener past
its check has a notification).

**Deadlines.** Whoever creates a claim sets its deadline next, and only its own
next step takes it away from there; but a timer that waits to set a deadline could be
armed again by a second exit of the same script and forget it. `CoreInv`
rules this out: deliveries are numbered apart and start a script at most once
(`Deliveries`), so each script has one exit, is notified of it once, and its timer
is off while that notification waits (`OneExit`); hence `ArmedOnce`.

**Published once.** A listener past its check owns the mark of its event
(`MarkOwned`), and a mark stays once no listener can remove it (`Shut`). `PublishInv`
ties this to the reports: a published result has a mark that is shut. It takes
`Versioned`, since otherwise the contents read are not those marked.

**One judge.** "The owner has the claim" is not inductive: the claim is passed from
the handler to the script, to the notification of its exit and to a timer, and any of them
may remove it. `JudgeInv` says who holds it. Until a solution is reported
(`HolderInv`) one run holds its claim: it may start a script, has one that
has not settled, or has a timer that checks (`OneHolder`). Until the mark of "ended well" is
closed nothing was passed on, so there is one run altogether
(`OneRunUntilClosed`); a script that failed keeps its claim until that is reported
(`FailureKeepsClaim`). Who removes a claim after a final report finds one
(`UnclaimsReported`), and who gives up has started nothing (`GivingUp`): `lostReply` breaks
the last, `markExpiry` the mark, the other two the claim itself. FilesStay follows
with `FilesInv`: only the end of a script of the same solution takes the directory
away.

**No false alarm.** The check takes a claim to mean that nothing was reported. `ReportInv` says
when that is so: while the check of a script is to come, a claim of its solution means
that a stored result with "done" is still queued with *every* judger and unmarked, or a listener
works on it (`ClaimTells`). So with every result handled (no `late`), a claim found is
a result missing. The hypotheses (`Smooth`) are the faults by which a result is dropped (`expire`,
`incr`, `publish`, `read`, `crash`), its claim survives it (`del`) or comes back (a second
submission, a redelivery: `timeout`, or `lostReply` with a further attempt),
a mark is lost (`markExpiry`), and contents that are not those notified. TLC refutes the
property under each of them, except `timeout` with a single attempt, which the proof excludes
to keep one handler per message. Refusals, retries,
results that do not parse, exit statuses that are never stored and claims that expire do no harm.
The parts are: one handler per message (`Alone`), one script per message (`OneScript`: after a
start every handler and every further delivery is on its way out, `Judged`), marks and
notifications of stored results only (`Stored`), one timer per solution (`OneTimer`).

**Refinement of Submission.** `AskInv` says that what is worked on was submitted
and what is heard of was started. With JudgeInv each step then maps to a step of
Submission or to none: Claim takes a solution, Execute starts, a final report answers, and every
step after which nobody judges lets go. The proof found that one crash may end several
deliveries at once, for different solutions: `LetGo` had to take a set.

**The node.** `NodeInv` says how far the processes of a run may be of one another
(`Stage`), and that whoever left a status file, a home copy or a directory is going to
remove it (`StatusOwned`, `HomeOwned`, `FilesOwned`), or is a start that failed before it had anything
to remove, which CleanedUp names. CleanedUp holds for runs that share users and solutions. OwnResult needs that what hpcgame
read names its caller's solution; as there is one status file per user this takes
`OneSolutionPerUser`: scripts of one user that overlap judge the same solution. TLC
refutes OwnResult otherwise. The same invariants give the refinement of ScriptLife; a report that
comes when its script is over is one that hpcgame gave up on or that was detached.

**Problem data.** HandledOnce rests on `Marks`: what is handled is marked.

**Registry.** `findServiceInSlice` is a CHOOSE of a least position and `buildIndex` a
recursive function, so Registry's proofs rest on the lemmas of `ServiceIndex_proofs`: what a search
finds, what removing a position leaves, and that the loop of buildIndex puts every service under
its type (by a least counterexample, since the induction theorems are out of reach). `Tidy` (IDs
are distinct and in use) is inductive as Delete frees only the ID of the entry it
removed, also when it panics. `Indexed` (each list by type is the
restriction of the list of all, in its order) takes `WellTyped`: Delete panics between
the two lists when the request names another type. HasIsTrue takes requests that name an ID, as
a Delete by address leaves the ID in use. With a bootstrap, `uniqueness` lacks the IDs
of the list (the finding above): a service may be listed twice, and then both the IDs and
the order of the two lists, which tell entries by what they are, are ambiguous.
`LeftAlone` says that nobody but the session asks for its service to be deleted.

**Cluster.** `NewsInv` follows a bridge through its life: unheard of; there, when only
additions are still to be read to the peers or on their way; gone, when only deletions are.
`told` is what a goroutine read, so a peer removed before that is not in it, and one removed later is. `MeshInv` is about servers
that start: whoever is past the request for peers lists every other such server, is
about to greet it, or was greeted by it. It needs a server that all greet *first* and
that lists the founders (`MeetAt`); a greeting that fails does no harm, since the peer was listed before it was
greeted; a request for peers that fails does (`missed`); the attempt to prove it without found
the behaviour listed under "Also seen".

**Only model-checked.** What happens in the end: EverySubmissionReported,
EveryCommandSettles and NewestArrives, as liveness under fairness is beyond the proof
system. The two violations of the findings are TLC's.

## What is not modelled

- The query client and CommonDiscoveredSignedClient: a request to one of several
  servers and the next one without an answer, as in UploadFile of BridgeCommand;
  they keep no state, and the second has no user.
- The bridge's calculate-path and upload-file-presigned, which have no caller; paths, owners and
  modes of files; the cgroup, of which only a failing AddProc appears.
- hpcgame's artifacts and masks: file operations that keep no state.
- A bridge that cannot read a command's pipe, and reports adrift in JudgeResults (above).
- In runs: scripts of one user that overlap (the proof of CleanedUp has them). Their status files overwrite and their ends
  clear each other, as the code stands (`spawncmd/command.go:162`), so that a report can
  be stored under the other's solution. Nothing in the code prevents it: it is up to the
  Username that clients choose. The theorems name the hypothesis `OneSolutionPerUser`.
- A bridge that loses its connection to discovery: nothing in the code reconnects.
- Signatures, JSON, HTTP, configuration and command lines.
- Tags and the queries that only read have no state to get wrong here.

## Plan

Modelling is complete but for the list above, and the invariants of the runs are proved. Next:

1. The two finer promises that the invariants already contain: a claim is removed only by
   its holder or after a final report, and a report once published stays (action
   properties of JudgeSystem, from JudgeInv).
2. An invariant for the liveness properties: that some fair step is always
   possible before a submission is reported (without ENABLED, as a disjunction of the guards).
3. The hazards without a property, where a property can be stated that the code keeps.
