--------------------------- MODULE Registry_proofs ---------------------------
(***************************************************************************)
(* Theorems about Registry, for any number of requests, sessions, services *)
(* and IDs: every variable has its type, and a server that started without *)
(* the list of a peer never keeps two services with one ID; its lists by   *)
(* type agree with the list of all services, in content and in order; the  *)
(* set of the IDs in use is that of the services; and a session's service  *)
(* stays.                                                                  *)
(***************************************************************************)
EXTENDS Registry, ServiceIndex_proofs

-----------------------------------------------------------------------------
(* A handler that is about to add has a service with an ID, one whose query *)
(* is on its way has a request; so has a session between two messages.      *)
Prepared ==
    \A p \in Process :
        /\ pc[p] = "scan" => svc[p] \in Needle
        /\ pc[p] = "add" => svc[p] \in Service
        /\ p \in Session /\ pc[p] = "idle" /\ svc[p] # None => svc[p] \in Service

TypeInv == TypeOK /\ Prepared

LEMMA NewServerType == NewServer \in Registry
<1>1. NoService \in Registry
  BY DEF NoService, Registry
<1>2. CASE Bootstrap = None
  BY <1>1, <1>2 DEF NewServer
<1>3. CASE Bootstrap # None
  <2>1. Bootstrap \in Seq(Service) /\ buildIndex(Bootstrap) \in [Type -> Seq(Service)]
    BY <1>3, RegistryAssumption, BuildIndexType
  <2> QED
    BY <1>1, <1>3, <2>1 DEF NewServer, Registry
<1> QED
  BY <1>2, <1>3

LEMMA TypeInit == Init => TypeInv
BY NewServerType DEF Init, TypeInv, TypeOK, Prepared, Process

(* An ID makes a service of a request.                                      *)
LEMMA NeedleTypes ==
    /\ Service \subseteq Needle
    /\ \A n \in Needle : n.id # Nil => n \in Service
    /\ \A n \in Needle, id \in ID : [n EXCEPT !.id = id] \in Service
    /\ None \notin Needle
BY RegistryAssumption DEF Service, Needle

LEMMA NormalizeType ==
    ASSUME TypeInv, NEW p \in Process, NEW s \in Needle, NEW next \in {"idle", "add"},
           Normalize(p, s, next)
    PROVE  /\ pc' \in [Process -> {"idle", "scan", "add"}]
           /\ svc' \in [Process -> Needle \cup {None}]
           /\ match' \in [Process -> ID \cup {None}]
           /\ moved' \in [Process -> BOOLEAN]
           /\ svc'[p] = s /\ (pc'[p] = "scan" \/ (pc'[p] = next /\ s.id # Nil))
           /\ \A q \in Process : q # p => pc'[q] = pc[q] /\ svc'[q] = svc[q]
<1>0. /\ reg \in Registry /\ pc \in [Process -> {"idle", "scan", "add"}]
      /\ svc \in [Process -> Needle \cup {None}] /\ match \in [Process -> ID \cup {None}]
      /\ moved \in [Process -> BOOLEAN]
  BY DEF TypeInv, TypeOK
<1>1. svc' = [svc EXCEPT ![p] = s] /\ moved' = [moved EXCEPT ![p] = FALSE]
  BY DEF Normalize
<1>2. CASE s.id # Nil
  <2>1. pc' = [pc EXCEPT ![p] = next] /\ match' = match
    BY <1>2 DEF Normalize
  <2> QED
    BY <1>0, <1>1, <1>2, <2>1
<1>3. CASE s.id = Nil
  <2> DEFINE list == reg.indexByType[s.type]
             first == CHOOSE i \in Alike(s) : \A k \in Alike(s) : i <= k
             found == IF Alike(s) = {} THEN None ELSE list[first].id
  <2>1. pc' = [pc EXCEPT ![p] = "scan"] /\ match' = [match EXCEPT ![p] = found]
    BY <1>3 DEF Normalize
  <2>2. list \in Seq(Service) /\ DOMAIN list = 1 .. Len(list)
    BY <1>0 DEF Registry, Needle
  <2>3. ASSUME Alike(s) # {} PROVE list[first].id \in ID
    <3>1. Alike(s) \in SUBSET Nat /\ Alike(s) \subseteq DOMAIN list
      BY <2>2 DEF Alike
    <3>2. first \in Alike(s)
      BY <2>3, <3>1, FirstExists
    <3>3. list[first] \in Service
      BY <2>2, <3>1, <3>2
    <3> QED
      BY <3>3 DEF Service
  <2> HIDE DEF found
  <2>4. found \in ID \cup {None}
    BY <2>3 DEF found
  <2> QED
    BY <1>0, <1>1, <1>3, <2>1, <2>4
<1> QED
  BY <1>2, <1>3

LEMMA AnswersType ==
    ASSUME TypeInv, NEW p \in Process, pc[p] = "scan"
    PROVE  Answers(p) \subseteq ID \cup {None}
<1>1. /\ reg \in Registry /\ match[p] \in ID \cup {None} /\ svc[p] \in Needle
  BY DEF TypeInv, TypeOK, Prepared
<1>2. reg.indexByType[svc[p].type] \in Seq(Service)
  BY <1>1 DEF Registry, Needle
<1>3. ASSUME NEW i \in Alike(svc[p]) PROVE reg.indexByType[svc[p].type][i].id \in ID
  <2>1. i \in DOMAIN reg.indexByType[svc[p].type]
    BY DEF Alike
  <2>2. reg.indexByType[svc[p].type][i] \in Service
    BY <1>2, <2>1
  <2> QED
    BY <2>2 DEF Service
<1> QED
  BY <1>1, <1>3 DEF Answers

LEMMA DeleteCallType ==
    ASSUME TypeInv, NEW n \in Needle, Delete(n)
    PROVE  reg' \in Registry /\ moved' \in [Process -> BOOLEAN]
<1>1. reg' \in Registry
  BY DeleteType DEF Delete, TypeInv, TypeOK
<1>2. moved' \in [Process -> BOOLEAN]
  BY DEF Delete, TypeInv, TypeOK
<1> QED
  BY <1>1, <1>2

LEMMA IdentifyType ==
    ASSUME TypeInv, NEW p \in Process, pc[p] = "scan", NEW id \in ID, Identify(p, id)
    PROVE  /\ svc' \in [Process -> Needle \cup {None}] /\ svc'[p] \in Service
           /\ match' \in [Process -> ID \cup {None}] /\ moved' \in [Process -> BOOLEAN]
           /\ \A q \in Process : q # p => svc'[q] = svc[q]
<1>1. svc[p] \in Needle /\ svc \in [Process -> Needle \cup {None}]
  BY DEF TypeInv, TypeOK, Prepared
<1>2. svc' = [svc EXCEPT ![p] = [svc[p] EXCEPT !.id = id]]
  BY <1>1 DEF Identify
<1>3. [svc[p] EXCEPT !.id = id] \in Service /\ [svc[p] EXCEPT !.id = id] \in Needle
  BY <1>1, NeedleTypes
<1>4. match' \in [Process -> ID \cup {None}] /\ moved' \in [Process -> BOOLEAN]
  BY DEF Identify, TypeInv, TypeOK
<1> QED
  BY <1>1, <1>2, <1>3, <1>4

LEMMA TypeStep == TypeInv /\ [Next]_vars => TypeInv'
<1> SUFFICES ASSUME TypeInv, [Next]_vars PROVE TypeInv'
  OBVIOUS
<1>0. /\ reg \in Registry /\ pc \in [Process -> {"idle", "scan", "add"}]
      /\ svc \in [Process -> Needle \cup {None}] /\ match \in [Process -> ID \cup {None}]
      /\ moved \in [Process -> BOOLEAN] /\ added \in SUBSET Session
  BY DEF TypeInv, TypeOK
<1>1. ASSUME NEW w \in Worker, WorkerNext(w)
      PROVE  TypeInv'
  <2>0. w \in Process /\ w \notin Session
    BY RegistryAssumption DEF Process
  <2>1. ASSUME NEW s \in AddForm, HandleAdd(w, s)
        PROVE  TypeInv'
    <3>1. s \in Needle /\ Normalize(w, s, "add") /\ UNCHANGED <<reg, added>>
      BY <2>1, RegistryAssumption DEF HandleAdd
    <3>2. TypeOK'
      BY <1>0, <2>0, <3>1, NormalizeType DEF TypeOK
    <3>3. Prepared'
      BY <1>0, <2>0, <3>1, NormalizeType, NeedleTypes DEF Prepared, TypeInv
    <3> QED
      BY <3>2, <3>3 DEF TypeInv
  <2>2. CASE AddExists(w)
    <3>1. TypeOK'
      BY <1>0, <2>0, <2>2 DEF AddExists, TypeOK
    <3>2. Prepared'
      BY <1>0, <2>0, <2>2 DEF AddExists, Prepared, TypeInv
    <3> QED
      BY <3>1, <3>2 DEF TypeInv
  <2>3. CASE AddNew(w)
    <3>1. PICK id \in ID : Identify(w, id)
      BY <2>3, RegistryAssumption DEF AddNew, Fresh
    <3>2. pc[w] = "scan" /\ pc' = [pc EXCEPT ![w] = "add"] /\ UNCHANGED <<reg, added>>
      BY <2>3 DEF AddNew
    <3>3. TypeOK'
      BY <1>0, <2>0, <3>1, <3>2, IdentifyType DEF TypeOK
    <3>4. Prepared'
      BY <1>0, <2>0, <3>1, <3>2, IdentifyType DEF Prepared, TypeInv
    <3> QED
      BY <3>3, <3>4 DEF TypeInv
  <2>4. CASE AddLocked(w)
    <3>1. svc[w] \in Service
      BY <2>0, <2>4 DEF AddLocked, TypeInv, Prepared
    <3>2. TypeOK'
      BY <1>0, <2>0, <2>4, <3>1, AddType DEF AddLocked, TypeOK
    <3>3. Prepared'
      BY <1>0, <2>0, <2>4 DEF AddLocked, Prepared, TypeInv
    <3> QED
      BY <3>2, <3>3 DEF TypeInv
  <2> QED
    BY <1>1, <2>1, <2>2, <2>3, <2>4 DEF WorkerNext
<1>2. ASSUME NEW s \in DeleteForm, HandleDelete(s)
      PROVE  TypeInv'
  <2>1. s \in Needle /\ Delete(s)
    BY <1>2, RegistryAssumption DEF HandleDelete
  <2>2. TypeOK'
    BY <1>0, <1>2, <2>1, DeleteCallType DEF HandleDelete, TypeOK
  <2>3. Prepared'
    BY <1>2 DEF HandleDelete, Prepared, TypeInv
  <2> QED
    BY <2>2, <2>3 DEF TypeInv
<1>3. ASSUME NEW c \in Session, SessionNext(c)
      PROVE  TypeInv'
  <2>0. c \in Process
    BY DEF Process
  <2>1. ASSUME NEW s \in InformForm[c], Inform(c, s)
        PROVE  TypeInv'
    <3>1. s \in Needle /\ Normalize(c, s, "idle") /\ reg' = reg /\ added' \in SUBSET Session
      BY <1>0, <2>1, RegistryAssumption DEF Inform
    <3>2. TypeOK'
      BY <1>0, <2>0, <3>1, NormalizeType DEF TypeOK
    <3>3. Prepared'
      BY <1>0, <2>0, <3>1, NormalizeType, NeedleTypes DEF Prepared, TypeInv
    <3> QED
      BY <3>2, <3>3 DEF TypeInv
  <2>2. CASE Informed(c)
    <3>1. pc[c] = "scan" /\ pc' = [pc EXCEPT ![c] = "idle"] /\ UNCHANGED <<reg, added>>
      BY <2>2 DEF Informed
    <3>2. PICK id \in ID : Identify(c, id)
      BY <2>0, <2>2, <3>1, AnswersType, RegistryAssumption DEF Informed, Fresh
    <3>3. TypeOK'
      BY <1>0, <2>0, <3>1, <3>2, IdentifyType DEF TypeOK
    <3>4. Prepared'
      BY <1>0, <2>0, <3>1, <3>2, IdentifyType DEF Prepared, TypeInv
    <3> QED
      BY <3>3, <3>4 DEF TypeInv
  <2>3. CASE RegisterAdd(c)
    <3>1. svc[c] \in Service
      BY <2>0, <2>3 DEF RegisterAdd, TypeInv, Prepared
    <3>2. reg' \in Registry /\ added' \in SUBSET Session /\ UNCHANGED handlerVars
      BY <1>0, <2>3, <3>1, AddType DEF RegisterAdd
    <3> QED
      BY <1>0, <3>2 DEF TypeInv, TypeOK, Prepared, handlerVars
  <2>4. CASE RegisterDelete(c) \/ Close(c)
    <3>1. svc[c] \in Service /\ svc[c] \in Needle /\ Delete(svc[c])
      BY <2>0, <2>4, NeedleTypes DEF RegisterDelete, Close, TypeInv, Prepared
    <3>2. reg' \in Registry /\ moved' \in [Process -> BOOLEAN]
      BY <3>1, DeleteCallType
    <3>3. /\ UNCHANGED <<pc, match>> /\ added' \in SUBSET Session /\ pc[c] = "idle"
          /\ svc' = svc \/ svc' = [svc EXCEPT ![c] = None]
      BY <1>0, <2>4 DEF RegisterDelete, Close
    <3>4. TypeOK'
      BY <1>0, <2>0, <3>2, <3>3 DEF TypeOK
    <3>5. Prepared'
      BY <1>0, <2>0, <3>3 DEF Prepared, TypeInv
    <3> QED
      BY <3>4, <3>5 DEF TypeInv
  <2> QED
    BY <1>3, <2>1, <2>2, <2>3, <2>4 DEF SessionNext
<1>4. CASE UNCHANGED vars
  BY <1>4 DEF vars, TypeInv, TypeOK, Prepared
<1> QED
  BY <1>1, <1>2, <1>3, <1>4 DEF Next

(* Every variable of a server has its type, with or without the list of a   *)
(* peer (Add, Delete with its panic, buildIndex).                           *)
THEOREM TypeCorrect == Spec => []TypeOK
<1>1. TypeInv => TypeOK
  BY DEF TypeInv
<1> QED
  BY TypeInit, TypeStep, <1>1, PTL DEF Spec

-----------------------------------------------------------------------------
(* No step gives two services one ID, or a service an ID that is not in use. *)
LEMMA TidyStep == TypeInv /\ Tidy(reg) /\ [Next]_vars => Tidy(reg)'
<1> SUFFICES ASSUME TypeInv, Tidy(reg), [Next]_vars PROVE Tidy(reg')
  BY DEF Tidy, Separate, IDs
<1>0. reg \in Registry
  BY DEF TypeInv, TypeOK
<1>1. CASE reg' = reg
  BY <1>1
<1>2. ASSUME NEW s \in Service, reg' = AddTo(reg, s)
      PROVE  Tidy(reg')
  BY <1>0, <1>2, AddTidy
<1>3. ASSUME NEW n \in Needle, Delete(n)
      PROVE  Tidy(reg')
  BY <1>0, <1>3, DeleteTidy DEF Delete
<1>4. ASSUME NEW w \in Worker, WorkerNext(w)
      PROVE  Tidy(reg')
  <2>1. CASE AddLocked(w)
    <3>1. svc[w] \in Service
      BY <2>1 DEF AddLocked, TypeInv, Prepared, Process
    <3> QED
      BY <1>2, <2>1, <3>1 DEF AddLocked
  <2>2. CASE ~AddLocked(w)
    BY <1>1, <1>4, <2>2 DEF WorkerNext, HandleAdd, AddExists, AddNew
  <2> QED
    BY <2>1, <2>2
<1>5. ASSUME NEW s \in DeleteForm, HandleDelete(s)
      PROVE  Tidy(reg')
  BY <1>3, <1>5, RegistryAssumption DEF HandleDelete
<1>6. ASSUME NEW c \in Session, SessionNext(c)
      PROVE  Tidy(reg')
  <2>1. CASE RegisterAdd(c) \/ RegisterDelete(c) \/ Close(c)
    <3>1. svc[c] \in Service /\ svc[c] \in Needle
      BY <2>1, NeedleTypes DEF RegisterAdd, RegisterDelete, Close, TypeInv, Prepared, Process
    <3> QED
      BY <1>2, <1>3, <2>1, <3>1 DEF RegisterAdd, RegisterDelete, Close
  <2>2. CASE ~(RegisterAdd(c) \/ RegisterDelete(c) \/ Close(c))
    BY <1>1, <1>6, <2>2 DEF SessionNext, Inform, Informed
  <2> QED
    BY <2>1, <2>2
<1> QED
  BY <1>1, <1>4, <1>5, <1>6 DEF Next, vars

(* A server that started without the list of a peer never has two services  *)
(* with one ID, whatever is added, deleted, informed of and disconnected in *)
(* whatever order (Add's uniqueness check under the lock).                  *)
THEOREM ServicesHaveDistinctIDs ==
    ASSUME Bootstrap = None
    PROVE  Spec => []DistinctIDs
<1>1. Init => Tidy(reg)
  BY DEF Init, NewServer, NoService, Tidy, Separate, IDs
<1>2. Tidy(reg) => DistinctIDs
  BY DEF Tidy, Separate, DistinctIDs
<1> QED
  BY <1>1, <1>2, TypeInit, TypeStep, TidyStep, PTL DEF Spec
-----------------------------------------------------------------------------
(* What may be asked to be deleted, and what a step does to the lists.      *)
Deleted == DeleteForm \cup {svc[c] : c \in {x \in Session : pc[x] = "idle" /\ svc[x] # None}}

LEMMA RegMoves ==
    ASSUME TypeInv, [Next]_vars
    PROVE  \/ reg' = reg
           \/ \E s \in Service : reg' = AddTo(reg, s)
           \/ \E n \in Deleted : n \in Needle /\ (n \in DeleteForm \/ n.id # Nil) /\ reg' = DeleteFrom(reg, n)
<1>1. ASSUME NEW w \in Worker, WorkerNext(w)
      PROVE  reg' = reg \/ \E s \in Service : reg' = AddTo(reg, s)
  <2>1. AddLocked(w) => svc[w] \in Service
    BY DEF AddLocked, TypeInv, Prepared, Process
  <2> QED
    BY <1>1, <2>1 DEF WorkerNext, HandleAdd, AddExists, AddNew, AddLocked
<1>2. ASSUME NEW s \in DeleteForm, HandleDelete(s)
      PROVE  s \in Needle /\ s \in Deleted /\ reg' = DeleteFrom(reg, s)
  BY <1>2, RegistryAssumption DEF HandleDelete, Delete, Deleted
<1>3. ASSUME NEW c \in Session, SessionNext(c), reg' # reg
      PROVE  /\ svc[c] \in Service /\ svc[c] \in Needle /\ svc[c].id # Nil /\ svc[c] \in Deleted
             /\ reg' = AddTo(reg, svc[c]) \/ reg' = DeleteFrom(reg, svc[c])
  <2>1. RegisterAdd(c) \/ RegisterDelete(c) \/ Close(c)
    BY <1>3 DEF SessionNext, Inform, Informed
  <2>2. svc[c] \in Service /\ pc[c] = "idle" /\ svc[c] # None
    BY <2>1 DEF RegisterAdd, RegisterDelete, Close, TypeInv, Prepared, Process
  <2>3. svc[c].id # Nil /\ svc[c] \in Needle
    BY <2>2, NeedleTypes, ServiceIndexAssumption DEF Service
  <2> QED
    BY <2>1, <2>2, <2>3 DEF RegisterAdd, RegisterDelete, Close, Delete, Deleted
<1> QED
  BY <1>1, <1>2, <1>3 DEF Next, vars

(* Whoever deletes a service by its ID names the type that it has. Delete   *)
(* panics otherwise: nothing in the code compares the two.                  *)
WellTyped ==
    \A n \in Deleted : \A s \in Entries(reg.services) : s.id = n.id => s.type = n.type

LEMMA NoPanic ==
    ASSUME TypeInv, Indexed(reg), WellTyped, NEW n \in Deleted, n \in Needle
    PROVE  ~Panics(reg, n)
<1> SUFFICES ASSUME Found(reg.services, n) # {}
             PROVE  Found(reg.indexByType[n.type], n) # {}
  BY DEF Panics
<1>1. n.type \in Type
  BY DEF Needle
<1>2. PICK p \in DOMAIN reg.services : Matches(n, reg.services[p])
  BY DEF Found
<1>3. reg.services[p] \in Entries(reg.services) /\ reg.services[p].type = n.type
  BY <1>2 DEF Entries, Matches, WellTyped
<1>4. reg.services[p] \in Entries(reg.indexByType[n.type])
  BY <1>1, <1>3 DEF Indexed, Restricted
<1> QED
  BY <1>2, <1>4 DEF Entries, Found

LEMMA IndexStep ==
    ASSUME TypeInv, Tidy(reg), Indexed(reg), WellTyped, [Next]_vars
    PROVE  /\ Indexed(reg')
           /\ (\A s \in DeleteForm : s.id # Nil) /\ InUse(reg) => InUse(reg')
<1>1. reg \in Registry
  BY DEF TypeInv, TypeOK
<1>2. ASSUME NEW s \in Service, reg' = AddTo(reg, s)
      PROVE  Indexed(reg') /\ (InUse(reg) => InUse(reg'))
  BY <1>1, <1>2, AddIndexed, AddInUse
<1>3. ASSUME NEW n \in Deleted, n \in Needle, reg' = DeleteFrom(reg, n)
      PROVE  Indexed(reg') /\ (n.id # Nil /\ InUse(reg) => InUse(reg'))
  BY <1>1, <1>3, NoPanic, DeleteIndexed, DeleteInUse
<1> QED
  BY <1>2, <1>3, RegMoves

(* The lists of a server that started alone, for as long as no request      *)
(* deletes a service under a type that it does not have.                    *)
LEMMA IndexInvariant ==
    ASSUME Bootstrap = None
    PROVE  Spec /\ []WellTyped => [](TypeInv /\ Tidy(reg) /\ Indexed(reg))
<1>1. Init => Tidy(reg) /\ Indexed(reg)
  <2> SUFFICES ASSUME Init PROVE Tidy(reg) /\ Indexed(reg)
    OBVIOUS
  <2>1. reg.services = <<>> /\ \A t \in Type : reg.indexByType[t] = <<>>
    BY DEF Init, NewServer, NoService
  <2> QED
    BY <2>1 DEF Tidy, Separate, IDs, Indexed, Restricted, Distinct, Entries, Precedes
<1>2. TypeInv /\ Tidy(reg) /\ Indexed(reg) /\ WellTyped /\ [Next]_vars => Indexed(reg)'
  BY IndexStep DEF Indexed
<1> QED
  BY <1>1, <1>2, TypeInit, TypeStep, TidyStep, PTL DEF Spec

(* The lists by type hold what the list of all services holds, in its order, *)
(* whatever is added and deleted, with an ID or without one: Delete, which  *)
(* searches both lists, takes the same service from each.                   *)
THEOREM ListsAgree ==
    ASSUME Bootstrap = None
    PROVE  Spec /\ []WellTyped => []IndexAgrees
<1>1. TypeInv /\ Tidy(reg) /\ Indexed(reg) => IndexAgrees
  <2> SUFFICES ASSUME TypeInv, Tidy(reg), Indexed(reg), NEW t \in Type
               PROVE  SameEntries(t) /\ SameOrder(t)
    BY DEF IndexAgrees
  <2>1. /\ reg.services \in Seq(Service) /\ reg.indexByType[t] \in Seq(Service)
        /\ Distinct(reg.services) /\ Restricted(reg.services, reg.indexByType[t], t)
    BY SeparateDistinct DEF TypeInv, TypeOK, Registry, Tidy, Indexed
  <2>2. SameEntries(t)
    BY <2>1 DEF SameEntries, Restricted
  <2>3. SameOrder(t)
    BY <2>1, RestrictedAgrees DEF SameOrder
  <2> QED
    BY <2>2, <2>3
<1> QED
  BY <1>1, IndexInvariant, PTL

(* The IDs in use, by which Has answers and Add refuses, are those of the   *)
(* services, if nobody deletes without an ID: the ID of a service that is   *)
(* deleted by its address stays in use for ever.                            *)
THEOREM IDsInUseAreListed ==
    ASSUME Bootstrap = None, \A s \in DeleteForm : s.id # Nil
    PROVE  Spec /\ []WellTyped => []HasIsTrue
<1>1. Init => InUse(reg)
  BY DEF Init, NewServer, NoService, InUse, IDs
<1>2. TypeInv /\ Tidy(reg) /\ Indexed(reg) /\ WellTyped /\ InUse(reg) /\ [Next]_vars => InUse(reg)'
  BY IndexStep DEF InUse
<1>3. InUse(reg) => HasIsTrue
  BY DEF InUse, HasIsTrue
<1> QED
  BY <1>1, <1>2, <1>3, IndexInvariant, PTL DEF Spec

-----------------------------------------------------------------------------
(* Nobody else asks for a service to be deleted that a session has added.   *)
LeftAlone ==
    \A c \in added :
        /\ \A d \in DeleteForm : ~Matches(d, svc[c])
        /\ \A e \in Session \ {c} : pc[e] = "idle" /\ svc[e] # None => svc[e].id # svc[c].id

(* A session whose service was added is between two messages.               *)
Joined ==
    \A c \in added : pc[c] = "idle" /\ svc[c] \in Service /\ svc[c] \in Entries(reg.services)

(* An entry stays when a service is added or another one is deleted.        *)
LEMMA EntryAfterAdd ==
    ASSUME NEW r \in Registry, NEW s \in Service
    PROVE  /\ Entries(r.services) \subseteq Entries(AddTo(r, s).services)
           /\ AddTo(r, s) # r => s \in Entries(AddTo(r, s).services)
<1>1. CASE s.id \in r.uniqueness
  BY <1>1 DEF AddTo
<1>2. CASE s.id \notin r.uniqueness
  <2> DEFINE old == r.services
  <2>1. AddTo(r, s).services = Append(old, s)
    BY <1>2 DEF AddTo
  <2>2. /\ Len(old) \in Nat /\ DOMAIN old = 1 .. Len(old) /\ DOMAIN Append(old, s) = 1 .. Len(old) + 1
        /\ \A p \in 1 .. Len(old) : Append(old, s)[p] = old[p]
        /\ Append(old, s)[Len(old) + 1] = s
    BY AppendProperties DEF Registry
  <2>3. Len(old) + 1 \in DOMAIN Append(old, s) /\ DOMAIN old \subseteq DOMAIN Append(old, s)
    BY <2>2
  <2> QED
    BY <2>1, <2>2, <2>3 DEF Entries
<1> QED
  BY <1>1, <1>2

LEMMA EntryAfterDelete ==
    ASSUME NEW r \in Registry, NEW n \in Needle, NEW x \in Entries(r.services), ~Matches(n, x)
    PROVE  x \in Entries(DeleteFrom(r, n).services)
<1>1. CASE Found(r.services, n) = {}
  BY <1>1 DEF DeleteFrom
<1>2. CASE Found(r.services, n) # {}
  <2> DEFINE old == r.services
             pos == findServiceInSlice(old, n)
  <2>1. old \in Seq(Service) /\ pos \in DOMAIN old /\ Matches(n, old[pos])
    BY <1>2, FoundPosition DEF Registry
  <2>2. DeleteFrom(r, n).services = Without(old, pos)
    <3>1. CASE Panics(r, n)
      BY <1>2, <3>1, DelistedType DEF DeleteFrom
    <3>2. CASE ~Panics(r, n)
      BY <1>2, <3>2, DeleteResult
    <3> QED
      BY <3>1, <3>2
  <2> HIDE DEF pos
  <2>3. /\ Len(old) \in Nat /\ DOMAIN old = 1 .. Len(old)
        /\ DOMAIN Without(old, pos) = 1 .. Len(old) - 1
        /\ \A p \in 1 .. Len(old) - 1 : Without(old, pos)[p] = IF p < pos THEN old[p] ELSE old[p + 1]
    BY <2>1, WithoutProperties
  <2>4. PICK i \in DOMAIN old : old[i] = x
    BY DEF Entries
  <2>5. i # pos
    BY <2>1, <2>4
  <2>6. CASE i < pos
    <3>1. i \in DOMAIN Without(old, pos) /\ Without(old, pos)[i] = x
      BY <2>1, <2>3, <2>4, <2>6
    <3> QED
      BY <2>2, <3>1 DEF Entries
  <2>7. CASE pos < i
    <3>1. i - 1 \in DOMAIN Without(old, pos) /\ Without(old, pos)[i - 1] = x
      BY <2>1, <2>3, <2>4, <2>7
    <3> QED
      BY <2>2, <3>1 DEF Entries
  <2> QED
    BY <2>1, <2>3, <2>4, <2>5, <2>6, <2>7
<1> QED
  BY <1>1, <1>2

LEMMA JoinedStep ==
    ASSUME TypeInv, Joined, LeftAlone, [Next]_vars
    PROVE  Joined'
<1>0. /\ reg \in Registry /\ pc \in [Process -> {"idle", "scan", "add"}]
      /\ svc \in [Process -> Needle \cup {None}] /\ added \in SUBSET Session /\ Session \subseteq Process
  BY DEF TypeInv, TypeOK, Process
<1>1. ASSUME NEW w \in Worker, WorkerNext(w)
      PROVE  Joined'
  <2>0. w \in Process /\ w \notin Session
    BY RegistryAssumption DEF Process
  <2>1. /\ added' = added
        /\ \A c \in Session : pc'[c] = pc[c] /\ svc'[c] = svc[c]
    BY <1>0, <1>1, <2>0 DEF WorkerNext, HandleAdd, Normalize, AddExists, AddNew, Identify, AddLocked
  <2>2. Entries(reg.services) \subseteq Entries(reg'.services)
    <3>1. CASE AddLocked(w)
      BY <1>0, <2>0, <3>1, EntryAfterAdd DEF AddLocked, TypeInv, Prepared
    <3>2. CASE ~AddLocked(w)
      BY <1>1, <3>2 DEF WorkerNext, HandleAdd, AddExists, AddNew
    <3> QED
      BY <3>1, <3>2
  <2> QED
    BY <1>0, <2>1, <2>2 DEF Joined
<1>2. ASSUME NEW d \in DeleteForm, HandleDelete(d)
      PROVE  Joined'
  <2>1. d \in Needle /\ reg' = DeleteFrom(reg, d) /\ added' = added /\ pc' = pc /\ svc' = svc
    BY <1>2, RegistryAssumption DEF HandleDelete, Delete
  <2>2. \A c \in added : svc[c] \in Entries(reg'.services)
    BY <1>0, <2>1, EntryAfterDelete DEF Joined, LeftAlone
  <2> QED
    BY <2>1, <2>2 DEF Joined
<1>3. ASSUME NEW e \in Session, SessionNext(e)
      PROVE  Joined'
  <2>0. e \in Process
    BY <1>0
  <2>1. \A c \in Session \ {e} : pc'[c] = pc[c] /\ svc'[c] = svc[c]
    BY <1>0, <1>3, <2>0 DEF SessionNext, Inform, Normalize, Informed, Identify, RegisterAdd, RegisterDelete, Close,
       handlerVars
  <2>3. CASE Informed(e)
    <3>1. e \notin added
      BY <2>3 DEF Informed, Joined
    <3> QED
      BY <1>0, <2>1, <2>3, <3>1 DEF Informed, Joined
  <2>4. CASE RegisterAdd(e)
    <3>1. svc[e] \in Service /\ pc[e] = "idle"
      BY <2>0, <2>4 DEF RegisterAdd, TypeInv, Prepared
    <3>2. /\ reg' = AddTo(reg, svc[e]) /\ pc' = pc /\ svc' = svc
          /\ added' = added \/ (added' = added \cup {e} /\ reg' # reg)
      BY <2>4 DEF RegisterAdd, handlerVars
    <3>3. Entries(reg.services) \subseteq Entries(reg'.services)
      BY <1>0, <3>1, <3>2, EntryAfterAdd
    <3>4. reg' # reg => svc[e] \in Entries(reg'.services)
      BY <1>0, <3>1, <3>2, EntryAfterAdd
    <3> QED
      BY <3>1, <3>2, <3>3, <3>4 DEF Joined
  <2>5. CASE RegisterDelete(e) \/ Close(e)
    <3>1. svc[e] \in Service /\ svc[e] \in Needle /\ pc[e] = "idle" /\ svc[e] # None
      BY <2>0, <2>5, NeedleTypes DEF RegisterDelete, Close, TypeInv, Prepared
    <3>2. reg' = DeleteFrom(reg, svc[e]) /\ added' = added \ {e} /\ pc' = pc
      BY <2>5 DEF RegisterDelete, Close, Delete
    <3>3. svc[e].id # Nil
      BY <3>1, ServiceIndexAssumption DEF Service
    <3>4. \A c \in added \ {e} : svc[c] \in Entries(reg'.services)
      BY <1>0, <3>1, <3>2, <3>3, EntryAfterDelete DEF Joined, LeftAlone, Matches
    <3> QED
      BY <1>0, <2>1, <3>2, <3>4 DEF Joined
  <2>6. ASSUME NEW s \in InformForm[e], Inform(e, s)
        PROVE  Joined'
    BY <1>0, <2>1, <2>6 DEF Inform, Joined
  <2> QED
    BY <1>3, <2>3, <2>4, <2>5, <2>6 DEF SessionNext
<1>4. CASE UNCHANGED vars
  BY <1>4 DEF vars, Joined
<1> QED
  BY <1>1, <1>2, <1>3, <1>4 DEF Next

(* A session that was told that its service is added finds it there until   *)
(* it deletes it or ends, unless somebody else asks for its deletion: no    *)
(* other addition, deletion, query or connection disturbs it.               *)
THEOREM SessionsKeepTheirService == Spec /\ []LeftAlone => []RegisteredWhileConnected
<1>1. Init => Joined
  BY DEF Init, Joined
<1>2. TypeInv /\ Joined /\ LeftAlone /\ [Next]_vars => Joined'
  BY JoinedStep
<1>3. Joined => RegisteredWhileConnected
  BY DEF Joined, RegisteredWhileConnected, Entries
<1> QED
  BY <1>1, <1>2, <1>3, TypeInit, TypeStep, PTL DEF Spec
=============================================================================
