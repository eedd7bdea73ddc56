----------------------------- MODULE ProblemSync -----------------------------
(***************************************************************************)
(* The listener of every judger for uploads of one problem's data.tar.     *)
(* The judger that marks an upload first copies problem.toml out of that   *)
(* version of the archive, asks the problem it now is for the tags of a    *)
(* bridge, has that bridge fetch the newest archive under a fixed          *)
(* temporary name, unpacks it over what is in the problem's directory and  *)
(* removes it.                                                             *)
(***************************************************************************)
EXTENDS Naturals, Sequences, FiniteSets

CONSTANTS
    Judger,         \* the judgers
    Bridge,         \* the bridges whose tags fit the problem
    Content,        \* what may be uploaded; it is its ETag as well
    Bare,           \* contents without a problem.toml
    Broken,         \* contents whose problem.toml does not parse
    File,           \* the files of the problem's directory
    Holds,          \* those that each content holds
    None,           \* no content, no bridge
    Empty, Torn,    \* a file with nothing in it, a mixture
    MaxUploads,     \* how often data.tar is uploaded
    Faults          \* {"read"}: calls of MinIO fail; {"refuse"}: those of a bridge

ASSUME ProblemSyncAssumption ==
    /\ Bare \subseteq Content /\ Broken \subseteq Content \ Bare
    /\ Holds \in [Content -> SUBSET File]
    /\ None \notin Content \cup Bridge
    /\ {Empty, Torn} \cap (Content \cup {None}) = {} /\ Empty # Torn
    /\ MaxUploads \in Nat
    /\ Faults \subseteq {"read", "refuse"}

VARIABLES
    uploads,    \* the contents of data.tar so far; the last is the newest
    toml,       \* the content problem.toml is from
    marks,      \* the keys p.<id><ETag> in Redis
    tmp,        \* the temporary file on each bridge
    dir,        \* the directory on each bridge: which content a file is from
    inbox,      \* the notifications of each judger, in the order of the uploads
    step,       \* where each listener is
    event,      \* the upload it handles
    at,         \* the bridge it has chosen
    disturbed   \* whether anything happened that an upload may not survive

bucket == <<uploads, toml>>
files == <<tmp, dir>>
own == <<step, event, at>>
vars == <<bucket, marks, files, inbox, own, disturbed>>

OnBridge == {"fetch", "fill", "untar", "remove"}
Busy == {"read", "meta"} \cup OnBridge

TypeOK ==
    /\ uploads \in Seq(Content)
    /\ toml \in Content \cup {None}
    /\ marks \in SUBSET Content
    /\ tmp \in [Bridge -> Content \cup {None, Empty, Torn}]
    /\ dir \in [Bridge -> [File -> Content \cup {None, Torn}]]
    /\ inbox \in [Judger -> Seq(Content)]
    /\ step \in [Judger -> Busy \cup {"idle", "down"}]
    /\ event \in [Judger -> Content \cup {None}]
    /\ at \in [Judger -> Bridge \cup {None}]
    /\ \A j \in Judger : /\ event[j] \in Content <=> step[j] \in Busy
                         /\ at[j] \in Bridge <=> step[j] \in OnBridge
    /\ disturbed \in BOOLEAN

Init ==
    /\ uploads = <<>> /\ toml = None
    /\ marks = {}
    /\ tmp = [b \in Bridge |-> None]
    /\ dir = [b \in Bridge |-> [f \in File |-> None]]
    /\ inbox = [j \in Judger |-> <<>>]
    /\ step = [j \in Judger |-> "idle"]
    /\ event = [j \in Judger |-> None] /\ at = [j \in Judger |-> None]
    /\ disturbed = FALSE

Newest == uploads[Len(uploads)]
Goto(j, next) == step' = [step EXCEPT ![j] = next]
Leave(j, next) ==
    /\ Goto(j, next)
    /\ event' = [event EXCEPT ![j] = None]
    /\ at' = [at EXCEPT ![j] = None]
Disturb(flag) == disturbed' = (disturbed \/ flag)

(* A notification of this content is still to be handled.                   *)
Pending(c) ==
    \E j \in Judger : event[j] = c \/ \E i \in DOMAIN inbox[j] : inbox[j][i] = c

-----------------------------------------------------------------------------
(* The bucket. Every judger that runs is notified.                          *)
Upload(c) ==
    /\ Len(uploads) < MaxUploads
    /\ uploads' = Append(uploads, c)
    /\ inbox' = [j \in Judger |-> IF step[j] = "down" THEN <<>> ELSE Append(inbox[j], c)]
    /\ Disturb(c \in marks \/ Pending(c))
    /\ UNCHANGED <<toml, marks, files, own>>

(* A mark outlives the notifications it is for.                             *)
ForgetMark(c) ==
    /\ c \in marks
    /\ ~Pending(c)
    /\ marks' = marks \ {c}
    /\ UNCHANGED <<bucket, files, inbox, own, disturbed>>

-----------------------------------------------------------------------------
(* The listener                                                             *)

(* Variant: a mark that is there is not noticed.                            *)
NeverMarked(c) == FALSE

Marked(c) == c \in marks

Check(j) ==
    /\ step[j] = "idle"
    /\ inbox[j] # <<>>
    /\ inbox' = [inbox EXCEPT ![j] = Tail(@)]
    /\ marks' = marks \cup {Head(inbox[j])}
    /\ IF Marked(Head(inbox[j]))
       THEN UNCHANGED <<own, disturbed>>
       ELSE /\ Goto(j, "read")
            /\ event' = [event EXCEPT ![j] = Head(inbox[j])]
            /\ Disturb(\E k \in Judger : step[k] \in Busy)
            /\ UNCHANGED at
    /\ UNCHANGED <<bucket, files>>

(* problem.toml of the version that was uploaded. An archive without one,   *)
(* or that cannot be read, is given up and its mark stays.                  *)
ReadMeta(j) ==
    /\ step[j] = "read"
    /\ IF event[j] \in Bare
       THEN Leave(j, "idle") /\ UNCHANGED toml
       ELSE toml' = event[j] /\ Goto(j, "meta") /\ UNCHANGED <<event, at>>
    /\ UNCHANGED <<uploads, marks, files, inbox, disturbed>>

(* GetObject fails: the mark is removed, for whoever has not looked yet.    *)
(* Or the archive cannot be read, or problem.toml cannot be put.            *)
ReadFails(j) ==
    /\ "read" \in Faults
    /\ step[j] = "read"
    /\ Disturb(TRUE)
    /\ \/ Leave(j, "idle") /\ marks' = marks \ {event[j]}
       \/ Leave(j, "idle") /\ UNCHANGED marks
       \/ Goto(j, "meta") /\ UNCHANGED <<event, at, marks>>
    /\ UNCHANGED <<bucket, files, inbox>>

(* Variant: without a bridge it goes on all the same.                       *)
NoBridgeGoOn(j) == Goto(j, "fetch") /\ UNCHANGED <<event, at>>

NoBridge(j) == Leave(j, "idle")

(* GetProblemMeta reads the problem.toml there is now. If it is not there,  *)
(* does not parse or cannot be read, the judger dereferences the problem it *)
(* did not get, and stops.                                                  *)
GetMeta(j) ==
    /\ step[j] = "meta"
    /\ \/ /\ toml \in Broken \cup {None} \/ "read" \in Faults
          /\ Leave(j, "down") /\ Disturb(TRUE)
          /\ inbox' = [inbox EXCEPT ![j] = <<>>]
       \/ /\ toml \notin Broken \cup {None}
          /\ \E b \in Bridge : at' = [at EXCEPT ![j] = b]
          /\ Goto(j, "fetch")
          /\ UNCHANGED <<event, inbox, disturbed>>
       \/ /\ toml \notin Broken \cup {None}
          /\ "refuse" \in Faults
          /\ NoBridge(j) /\ Disturb(TRUE) /\ UNCHANGED inbox
    /\ UNCHANGED <<bucket, marks, files>>

(* FetchObject opens the file, which empties it, and only then asks for the *)
(* object, by a URL that names no version.                                  *)
Truncate(j) ==
    /\ step[j] = "fetch"
    /\ Goto(j, "fill")
    /\ tmp' = [tmp EXCEPT ![at[j]] = Empty]
    /\ UNCHANGED <<bucket, marks, dir, inbox, event, at, disturbed>>

Others(j) == {k \in Judger \ {j} : step[k] = "fill" /\ at[k] = at[j]}

(* What a writer leaves: nothing under that name if it was removed, perhaps *)
(* a mixture if another writer has the file open or has written it.         *)
Written(j) ==
    IF tmp[at[j]] = None THEN {None}
    ELSE {Newest} \cup (IF Others(j) = {} /\ tmp[at[j]] = Empty THEN {} ELSE {Torn})

Fill(j) ==
    /\ step[j] = "fill"
    /\ Goto(j, "untar")
    /\ \E result \in Written(j) : tmp' = [tmp EXCEPT ![at[j]] = result]
    /\ UNCHANGED <<bucket, marks, dir, inbox, event, at, disturbed>>

(* Variant: a file that is there is left alone.                             *)
OverlayNew(old, c, held) == [f \in File |-> IF f \in held /\ old[f] = None THEN c ELSE old[f]]

(* What is unpacked replaces the files it holds; the others stay.           *)
Overlay(old, c, held) == [f \in File |-> IF f \in held THEN c ELSE old[f]]

(* A file that is missing or empty changes nothing; a mixture, and a file   *)
(* that is being written, are unpacked in part.                             *)
Untar(j) ==
    /\ step[j] = "untar"
    /\ Goto(j, "remove")
    /\ LET b == at[j] IN
       \/ tmp[b] \in {None, Empty} /\ UNCHANGED dir
       \/ tmp[b] \in Content /\ dir' = [dir EXCEPT ![b] = Overlay(@, tmp[b], Holds[tmp[b]])]
       \/ /\ tmp[b] = Torn \/ Others(j) # {}
          /\ \E part \in SUBSET File : dir' = [dir EXCEPT ![b] = Overlay(@, Torn, part)]
    /\ UNCHANGED <<bucket, marks, tmp, inbox, event, at, disturbed>>

RemoveFile(j) ==
    /\ step[j] = "remove"
    /\ Leave(j, "idle")
    /\ tmp' = [tmp EXCEPT ![at[j]] = None]
    /\ UNCHANGED <<bucket, marks, dir, inbox, disturbed>>

(* A call to the bridge fails; its error is logged and the next one made.   *)
CallFails(j) ==
    /\ "refuse" \in Faults
    /\ step[j] \in OnBridge
    /\ Disturb(TRUE)
    /\ IF step[j] = "remove" THEN Leave(j, "idle")
       ELSE Goto(j, IF step[j] = "untar" THEN "remove" ELSE "untar") /\ UNCHANGED <<event, at>>
    /\ UNCHANGED <<bucket, marks, files, inbox>>

Restart(j) ==
    /\ step[j] = "down"
    /\ Goto(j, "idle")
    /\ UNCHANGED <<bucket, marks, files, inbox, event, at, disturbed>>

Listen(j) ==
    \/ Check(j) \/ ReadMeta(j) \/ ReadFails(j) \/ GetMeta(j)
    \/ Truncate(j) \/ Fill(j) \/ Untar(j) \/ RemoveFile(j) \/ CallFails(j)

Next ==
    \/ \E c \in Content : Upload(c) \/ ForgetMark(c)
    \/ \E j \in Judger : Listen(j) \/ Restart(j)

Spec == Init /\ [][Next]_vars

(* Every call the listener makes returns, its own or the bridge's timeout   *)
(* at the latest.                                                           *)
FairSpec == Spec /\ \A j \in Judger : WF_vars(Listen(j))

-----------------------------------------------------------------------------
(* An upload is never handled by two judgers at once, although all are      *)
(* notified: not when a read fails and the mark is removed under the eyes   *)
(* of the others, nor when the same content is uploaded again.              *)
HandledOnce == \A j, k \in Judger : event[j] # None /\ event[j] = event[k] => j = k

(* When the uploads have come to an end, problem.toml and, on some bridge,  *)
(* every file the newest archive holds are those of the newest one, however *)
(* the uploads were shared out, whatever a judger fetched for an older one  *)
(* and whatever was unpacked there before (files that only older archives   *)
(* hold are never removed): unless the handling of two uploads overlapped,  *)
(* a call failed, or a content came back before its mark was forgotten, each*)
(* of which can leave the problem with older data.                          *)
Current ==
    uploads # <<>> /\ Newest \notin Bare \cup Broken =>
        /\ toml = Newest
        /\ \E b \in Bridge : \A f \in Holds[Newest] : dir[b][f] = Newest
NewestArrives == <>[](disturbed \/ Current)
===============================================================================
