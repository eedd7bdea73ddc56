-------------------------- MODULE ProblemSync_proofs --------------------------
(***************************************************************************)
(* The problem data listeners: their variables keep their types, and no    *)
(* upload is handled by two judgers at once.                               *)
(***************************************************************************)
EXTENDS ProblemSync, SequenceTheorems, TLAPS

(* There is something to fetch when a listener fetches: whatever is to be   *)
(* handled was uploaded.                                                    *)
Uploaded ==
    \A j \in Judger : inbox[j] # <<>> \/ step[j] \in Busy => uploads # <<>>

TypeInv == TypeOK /\ Uploaded

LEMMA NewestType ==
    ASSUME TypeOK, uploads # <<>>
    PROVE  Newest \in Content
BY LenProperties, ElementOfSeq DEF TypeOK, Newest

(* The bucket and the marks.                                                *)
LEMMA UploadTypes ==
    ASSUME TypeInv, NEW c \in Content, Upload(c)
    PROVE  TypeInv'
<1> USE ProblemSyncAssumption DEF TypeInv, TypeOK, Uploaded, own, files
<1>1. uploads' \in Seq(Content) /\ uploads' # <<>>
  BY AppendProperties DEF Upload
<1>2. inbox' \in [Judger -> Seq(Content)]
  BY AppendProperties DEF Upload
<1>3. disturbed' \in BOOLEAN /\ UNCHANGED <<toml, marks, files, own>>
  BY DEF Upload, Disturb
<1> QED
  BY <1>1, <1>2, <1>3

(* Where a listener is: it has an event and a bridge when its step says so. *)
OwnTypes ==
    /\ step \in [Judger -> Busy \cup {"idle", "down"}]
    /\ event \in [Judger -> Content \cup {None}]
    /\ at \in [Judger -> Bridge \cup {None}]
    /\ \A j \in Judger : /\ event[j] \in Content <=> step[j] \in Busy
                         /\ at[j] \in Bridge <=> step[j] \in OnBridge

LEMMA OwnLeft ==
    ASSUME OwnTypes, NEW j \in Judger, NEW next \in {"idle", "down"}, Leave(j, next)
    PROVE  /\ OwnTypes'
           /\ \A k \in Judger : step'[k] \in Busy => step[k] \in Busy
BY ProblemSyncAssumption DEF OwnTypes, Leave, Goto, Busy, OnBridge

LEMMA OwnGoesOn ==
    ASSUME OwnTypes, NEW j \in Judger, NEW next, Goto(j, next), event' = event, at' = at,
           \/ step[j] = "read" /\ next = "meta"
           \/ step[j] \in OnBridge /\ next \in OnBridge
           \/ step[j] = "down" /\ next = "idle"
    PROVE  /\ OwnTypes'
           /\ \A k \in Judger : step'[k] \in Busy => step[k] \in Busy
BY ProblemSyncAssumption DEF OwnTypes, Goto, Busy, OnBridge

LEMMA CheckTypes ==
    ASSUME TypeInv, NEW j \in Judger, Check(j)
    PROVE  TypeInv'
<1> USE ProblemSyncAssumption DEF TypeInv, TypeOK, Uploaded, Busy, OnBridge, own, files, bucket, Goto
<1> DEFINE c == Head(inbox[j])
<1>1. c \in Content /\ Tail(inbox[j]) \in Seq(Content) /\ uploads # <<>>
  BY HeadTailProperties DEF Check
<1>2. inbox' = [inbox EXCEPT ![j] = Tail(@)] /\ marks' = marks \cup {c} /\ UNCHANGED <<bucket, files>>
  BY DEF Check
<1>3. \/ UNCHANGED <<own, disturbed>>
      \/ /\ step[j] = "idle" /\ step' = [step EXCEPT ![j] = "read"] /\ event' = [event EXCEPT ![j] = c] /\ at' = at
         /\ disturbed' \in BOOLEAN
  BY DEF Check, Disturb
<1> HIDE DEF c
<1>4. inbox' \in [Judger -> Seq(Content)] /\ marks' \in SUBSET Content /\ uploads' = uploads
  BY <1>1, <1>2
<1>5. disturbed' \in BOOLEAN
  BY <1>3
<1>6. OwnTypes'
  <2>0. OwnTypes
    BY DEF OwnTypes
  <2>1. CASE UNCHANGED own
    BY <2>0, <2>1 DEF OwnTypes
  <2>2. CASE step[j] = "idle" /\ step' = [step EXCEPT ![j] = "read"] /\ event' = [event EXCEPT ![j] = c] /\ at' = at
    BY <1>1, <2>0, <2>2 DEF OwnTypes
  <2> QED
    BY <1>3, <2>1, <2>2
<1> QED
  BY <1>1, <1>2, <1>4, <1>5, <1>6 DEF OwnTypes

(* Every other call of the listener: it leaves the bucket's uploads alone   *)
(* and takes up nothing.                                                    *)
LEMMA ListenTypes ==
    ASSUME TypeInv, NEW j \in Judger, Listen(j) \/ Restart(j), ~Check(j)
    PROVE  TypeInv'
<1>0. OwnTypes
  BY DEF TypeInv, TypeOK, OwnTypes
<1>a. SUFFICES /\ OwnTypes'
               /\ \A k \in Judger : step'[k] \in Busy => step[k] \in Busy
               /\ inbox' \in {inbox, [inbox EXCEPT ![j] = <<>>]}
               /\ marks' \subseteq marks
               /\ uploads' = uploads
               /\ toml' \in Content \cup {None}
               /\ tmp' \in [Bridge -> Content \cup {None, Empty, Torn}]
               /\ dir' \in [Bridge -> [File -> Content \cup {None, Torn}]]
               /\ disturbed' \in BOOLEAN
  <2>1. ASSUME inbox' \in {inbox, [inbox EXCEPT ![j] = <<>>]}
        PROVE  /\ inbox' \in [Judger -> Seq(Content)]
               /\ \A k \in Judger : inbox'[k] # <<>> => inbox[k] # <<>>
    <3>1. <<>> \in Seq(Content) /\ inbox \in [Judger -> Seq(Content)]
      BY EmptySeq DEF TypeInv, TypeOK
    <3> QED
      BY <2>1, <3>1
  <2>2. uploads \in Seq(Content) /\ marks \in SUBSET Content
    BY DEF TypeInv, TypeOK
  <2> QED
    BY <1>a, <2>1, <2>2 DEF TypeInv, TypeOK, Uploaded, OwnTypes
<1>b. /\ toml \in Content \cup {None}
      /\ tmp \in [Bridge -> Content \cup {None, Empty, Torn}]
      /\ dir \in [Bridge -> [File -> Content \cup {None, Torn}]]
      /\ disturbed \in BOOLEAN
  BY DEF TypeInv, TypeOK
<1> USE <1>0, <1>b DEF own, files, bucket
<1>1. CASE ReadMeta(j)
  <2>1. CASE event[j] \in Bare
    BY <1>1, <2>1, OwnLeft DEF ReadMeta
  <2>2. CASE event[j] \notin Bare
    <3>1. event[j] \in Content
      BY <1>1 DEF OwnTypes, ReadMeta, Busy
    <3> QED
      BY <1>1, <2>2, <3>1, OwnGoesOn DEF ReadMeta
  <2> QED
    BY <2>1, <2>2
<1>2. CASE ReadFails(j)
  BY <1>2, OwnLeft, OwnGoesOn DEF ReadFails, Disturb
<1>3. CASE GetMeta(j)
  <2>1. /\ marks' = marks /\ toml' = toml /\ tmp' = tmp /\ dir' = dir /\ uploads' = uploads
        /\ disturbed' \in BOOLEAN /\ inbox' \in {inbox, [inbox EXCEPT ![j] = <<>>]}
    BY <1>3 DEF GetMeta, Disturb
  <2>2. CASE \E next \in {"idle", "down"} : Leave(j, next)
    BY <2>1, <2>2, OwnLeft
  <2>3. ASSUME NEW b \in Bridge, at' = [at EXCEPT ![j] = b], Goto(j, "fetch"), event' = event
        PROVE  OwnTypes' /\ \A k \in Judger : step'[k] \in Busy => step[k] \in Busy
    BY <1>3, <2>3 DEF OwnTypes, GetMeta, Goto, Busy, OnBridge
  <2> QED
    BY <1>3, <2>1, <2>2, <2>3 DEF GetMeta, NoBridge
<1>4. CASE Truncate(j)
  BY <1>4, OwnGoesOn DEF Truncate, OnBridge
<1>5. CASE Fill(j)
  <2>1. Newest \in Content
    BY <1>5, NewestType DEF Fill, TypeInv, Uploaded, Busy, OnBridge
  <2>2. Written(j) \subseteq Content \cup {None, Torn}
    BY <2>1 DEF Written
  <2>3. tmp' \in [Bridge -> Content \cup {None, Empty, Torn}]
    BY <1>5, <2>2 DEF Fill
  <2> QED
    BY <1>5, <2>3, OwnGoesOn DEF Fill, OnBridge
<1>6. CASE Untar(j)
  <2>1. at[j] \in Bridge
    BY <1>6 DEF Untar, OwnTypes, OnBridge
  <2>2. ASSUME NEW c \in Content \cup {None, Torn}, NEW held
        PROVE  Overlay(dir[at[j]], c, held) \in [File -> Content \cup {None, Torn}]
    BY <2>1 DEF Overlay
  <2>3. dir' \in [Bridge -> [File -> Content \cup {None, Torn}]]
    <3>1. CASE UNCHANGED dir
      BY <3>1
    <3>2. ASSUME NEW c \in Content \cup {None, Torn}, NEW held,
                 dir' = [dir EXCEPT ![at[j]] = Overlay(@, c, held)]
          PROVE  dir' \in [Bridge -> [File -> Content \cup {None, Torn}]]
      BY <2>1, <2>2, <3>2
    <3> QED
      BY <1>6, <3>1, <3>2 DEF Untar
  <2> QED
    BY <1>6, <2>3, OwnGoesOn DEF Untar, OnBridge
<1>7. CASE RemoveFile(j)
  BY <1>7, OwnLeft DEF RemoveFile
<1>8. CASE CallFails(j)
  BY <1>8, OwnLeft, OwnGoesOn DEF CallFails, Disturb, OnBridge
<1>9. CASE Restart(j)
  BY <1>9, OwnGoesOn DEF Restart
<1> QED
  BY <1>1, <1>2, <1>3, <1>4, <1>5, <1>6, <1>7, <1>8, <1>9 DEF Listen

LEMMA TypeStep == TypeInv /\ [Next]_vars => TypeInv'
<1> SUFFICES ASSUME TypeInv, [Next]_vars PROVE TypeInv'
  OBVIOUS
<1>1. ASSUME NEW c \in Content, ForgetMark(c) PROVE TypeInv'
  BY <1>1 DEF ForgetMark, TypeInv, TypeOK, Uploaded, own, files, bucket
<1>2. CASE UNCHANGED vars
  BY <1>2 DEF vars, TypeInv, TypeOK, Uploaded, own, files, bucket
<1> QED
  BY <1>1, <1>2, UploadTypes, CheckTypes, ListenTypes DEF Next, Listen

LEMMA TypeInvariant == Spec => []TypeInv
<1>1. Init => TypeInv
  <2> SUFFICES ASSUME Init PROVE TypeInv
    OBVIOUS
  <2>1. uploads \in Seq(Content) /\ inbox \in [Judger -> Seq(Content)]
    BY EmptySeq DEF Init
  <2>2. Uploaded
    BY DEF Init, Uploaded, Busy, OnBridge
  <2>3. TypeOK
    BY <2>1, ProblemSyncAssumption DEF Init, TypeOK, Busy, OnBridge
  <2> QED
    BY <2>2, <2>3 DEF TypeInv
<1> QED
  BY <1>1, TypeStep, PTL DEF Spec

(* Every variable of the problem data listeners has its type: a listener    *)
(* has an event exactly while it handles one, and a bridge exactly while it *)
(* uses one.                                                                *)
THEOREM ListenerTypes == Spec => []TypeOK
BY TypeInvariant, PTL DEF TypeInv

-----------------------------------------------------------------------------
(* What is handled is marked, so that nobody else takes it up: the mark is  *)
(* only removed with the handling (GetObject failed) or when nothing is     *)
(* left of the event.                                                       *)
Marks == \A j \in Judger : event[j] # None => event[j] \in marks

LEMMA HandledStep ==
    ASSUME TypeInv, Marks, HandledOnce, [Next]_vars
    PROVE  Marks' /\ HandledOnce'
<1>0. /\ event \in [Judger -> Content \cup {None}] /\ None \notin Content
      /\ inbox \in [Judger -> Seq(Content)]
  BY ProblemSyncAssumption DEF TypeInv, TypeOK
<1>1. CASE marks \subseteq marks' /\ event' = event
  BY <1>1 DEF Marks, HandledOnce
<1>2. ASSUME NEW c \in Content, ForgetMark(c) PROVE Marks' /\ HandledOnce'
  <2>1. event' = event /\ marks' = marks \ {c} /\ \A j \in Judger : event[j] # c
    BY <1>2 DEF ForgetMark, Pending, own
  <2> QED
    BY <2>1 DEF Marks, HandledOnce
<1>3. ASSUME NEW j \in Judger, Check(j), event' # event PROVE Marks' /\ HandledOnce'
  <2> DEFINE c == Head(inbox[j])
  <2>1. c \notin marks /\ marks' = marks \cup {c} /\ event' = [event EXCEPT ![j] = c]
    BY <1>3 DEF Check, Marked, own
  <2> HIDE DEF c
  <2> QED
    BY <1>0, <2>1 DEF Marks, HandledOnce
<1>4. ASSUME NEW j \in Judger, event' = [event EXCEPT ![j] = None], marks' \in {marks, marks \ {event[j]}}
      PROVE  Marks' /\ HandledOnce'
  BY <1>0, <1>4 DEF Marks, HandledOnce
<1>5. ASSUME NEW j \in Judger, Listen(j) \/ Restart(j)
      PROVE  \/ marks \subseteq marks' /\ event' = event
             \/ Check(j) /\ event' # event
             \/ event' = [event EXCEPT ![j] = None] /\ marks' \in {marks, marks \ {event[j]}}
  BY <1>5 DEF Listen, Check, ReadMeta, ReadFails, GetMeta, NoBridge, Truncate, Fill, Untar, RemoveFile, CallFails,
     Restart, Leave, own
<1>6. ASSUME NEW c \in Content, Upload(c) PROVE marks \subseteq marks' /\ event' = event
  BY <1>6 DEF Upload, own
<1>7. CASE UNCHANGED vars
  BY <1>1, <1>7 DEF vars, own
<1> QED
  BY <1>1, <1>2, <1>3, <1>4, <1>5, <1>6, <1>7 DEF Next

(* An upload is never handled by two judgers at once, although every judger *)
(* is notified, a failed read removes the mark under the eyes of the others *)
(* and the same content may be uploaded again at any time.                  *)
THEOREM NoUploadHandledTwice == Spec => []HandledOnce
<1>1. Init => Marks /\ HandledOnce
  BY DEF Init, Marks, HandledOnce
<1>2. TypeInv /\ Marks /\ HandledOnce /\ [Next]_vars => Marks' /\ HandledOnce'
  BY HandledStep
<1> QED
  BY <1>1, <1>2, TypeInvariant, PTL DEF Spec
===============================================================================
