------------------------------ MODULE Registry ------------------------------
(***************************************************************************)
(* One discovery server: the handlers of its HTTP requests and of the      *)
(* register connections, over the services it keeps. A request without an  *)
(* ID is normalised before the lock is taken, by a query that walks the    *)
(* list of its type outside the lock while Delete moves the entries of the *)
(* same array; so normalising and adding are steps of their own.           *)
(***************************************************************************)
EXTENDS ServiceIndex

CONSTANTS
    Worker,     \* the goroutines that serve /add and /peer
    Session,    \* the connections to /register
    AddForm,    \* the services that /add and /peer are asked to add
    DeleteForm, \* the services that /delete and /peer are asked to delete
    InformForm, \* [Session -> the services its client informs of]
    Generated,  \* the IDs that uuid.NewV4 gives in this instance
    Bootstrap,  \* the services a peer listed when the server started, or None
    None        \* no service, no ID

ASSUME RegistryAssumption ==
    /\ Worker \cap Session = {}
    /\ AddForm \subseteq Needle
    /\ DeleteForm \subseteq Needle
    /\ InformForm \in [Session -> SUBSET Needle]
    /\ Generated \subseteq ID
    /\ Bootstrap \in Seq(Service) \cup {None}
    /\ None \notin ID \cup {Nil} \cup Needle \cup Seq(Service)

VARIABLES
    reg,        \* services, indexByType, uniqueness
    pc,         \* what each handler does
    svc,        \* the service it does it with
    match,      \* the ID its query will find if nothing moves
    moved,      \* Delete has moved entries under its query
    added       \* the sessions whose Add was answered with success

vars == <<reg, pc, svc, match, moved, added>>
handlerVars == <<pc, svc, match, moved>>

Process == Worker \cup Session

TypeOK ==
    /\ reg \in Registry
    /\ pc \in [Process -> {"idle", "scan", "add"}]
    /\ svc \in [Process -> Needle \cup {None}]
    /\ match \in [Process -> ID \cup {None}]
    /\ moved \in [Process -> BOOLEAN]
    /\ added \in SUBSET Session

(* NewServer appends what the first peer that answers lists, and builds the *)
(* index of it, but not the set of the IDs in use.                          *)
NewServer ==
    IF Bootstrap = None THEN NoService
    ELSE [NoService EXCEPT !.services = Bootstrap, !.indexByType = buildIndex(Bootstrap)]

Init ==
    /\ reg = NewServer
    /\ pc = [p \in Process |-> "idle"]
    /\ svc = [p \in Process |-> None]
    /\ match = [p \in Process |-> None]
    /\ moved = [p \in Process |-> FALSE]
    /\ added = {}

-----------------------------------------------------------------------------
(* Delete, for whoever calls it: it disturbs the queries that walk the list *)
(* from which it takes an entry.                                            *)
Delete(needle) ==
    /\ reg' = DeleteFrom(reg, needle)
    /\ moved' = [p \in Process |->
                    \/ moved[p]
                    \/ /\ pc[p] = "scan"
                       /\ reg'.indexByType[svc[p].type] # reg.indexByType[svc[p].type]]

(* NormalizeService: a service with an ID is as it is, one without an ID is *)
(* looked up by its address in the list of its type.                        *)
Alike(s) == {i \in DOMAIN reg.indexByType[s.type] :
                reg.indexByType[s.type][i].address = s.address}

Normalize(p, s, next) ==
    /\ svc' = [svc EXCEPT ![p] = s]
    /\ moved' = [moved EXCEPT ![p] = FALSE]
    /\ IF s.id = Nil
       THEN /\ pc' = [pc EXCEPT ![p] = "scan"]
            /\ match' = [match EXCEPT ![p] =
                  IF Alike(s) = {} THEN None
                  ELSE reg.indexByType[s.type][CHOOSE i \in Alike(s) : \A k \in Alike(s) : i <= k].id]
       ELSE /\ pc' = [pc EXCEPT ![p] = next]
            /\ UNCHANGED match

(* What the query answers: what it would find undisturbed, or, when entries *)
(* have moved, nothing or an entry that is there now.                       *)
Answers(p) ==
    {match[p]} \cup {a \in {None} \cup {reg.indexByType[svc[p].type][i].id : i \in Alike(svc[p])} :
                        moved[p]}

(* An ID of uuid.NewV4: one that nobody else has.                           *)
Fresh ==
    Generated \ (reg.uniqueness \cup IDs(reg.services)
                    \cup UNION {IDs(reg.indexByType[t]) : t \in Type}
                    \cup {svc[p].id : p \in {q \in Process : svc[q] # None}})

(* Variant: the new ID is not stored in the service.                        *)
IdentifyNobody(p, id) ==
    /\ match' = [match EXCEPT ![p] = None]
    /\ moved' = [moved EXCEPT ![p] = FALSE]
    /\ UNCHANGED svc

Identify(p, id) ==
    /\ svc' = [svc EXCEPT ![p].id = id]
    /\ match' = [match EXCEPT ![p] = None]
    /\ moved' = [moved EXCEPT ![p] = FALSE]

-----------------------------------------------------------------------------
(* /add and a peer's add                                                    *)

HandleAdd(w, s) ==
    /\ pc[w] = "idle"
    /\ Normalize(w, s, "add")
    /\ UNCHANGED <<reg, added>>

(* The query found the service: it exists already, and that is the answer.  *)
AddExists(w) ==
    /\ pc[w] = "scan"
    /\ Answers(w) # {None}
    /\ pc' = [pc EXCEPT ![w] = "idle"]
    /\ svc' = [svc EXCEPT ![w] = None]
    /\ match' = [match EXCEPT ![w] = None]
    /\ moved' = [moved EXCEPT ![w] = FALSE]
    /\ UNCHANGED <<reg, added>>

AddNew(w) ==
    /\ pc[w] = "scan"
    /\ None \in Answers(w)
    /\ \E id \in Fresh : Identify(w, id)
    /\ pc' = [pc EXCEPT ![w] = "add"]
    /\ UNCHANGED <<reg, added>>

AddLocked(w) ==
    /\ pc[w] = "add"
    /\ reg' = AddTo(reg, svc[w])
    /\ pc' = [pc EXCEPT ![w] = "idle"]
    /\ svc' = [svc EXCEPT ![w] = None]
    /\ UNCHANGED <<match, moved, added>>

(* /delete and a peer's delete                                              *)
HandleDelete(s) ==
    /\ Delete(s)
    /\ UNCHANGED <<pc, svc, match, added>>

-----------------------------------------------------------------------------
(* /register: one goroutine per connection handles its messages in turn.    *)

Inform(c, s) ==
    /\ pc[c] = "idle"
    /\ Normalize(c, s, "idle")
    /\ added' = added \ {c}
    /\ UNCHANGED reg

(* A service that exists is no error here: the session goes on with its ID. *)
Informed(c) ==
    /\ pc[c] = "scan"
    /\ \E id \in (Answers(c) \ {None}) \cup {g \in Fresh : None \in Answers(c)} :
          Identify(c, id)
    /\ pc' = [pc EXCEPT ![c] = "idle"]
    /\ UNCHANGED <<reg, added>>

RegisterAdd(c) ==
    /\ pc[c] = "idle"
    /\ svc[c] # None
    /\ reg' = AddTo(reg, svc[c])
    /\ added' = IF reg' # reg THEN added \cup {c} ELSE added
    /\ UNCHANGED handlerVars

(* A Delete that panics ends the connection, and nothing else is done.      *)
RegisterDelete(c) ==
    /\ pc[c] = "idle"
    /\ svc[c] # None
    /\ Delete(svc[c])
    /\ svc' = [svc EXCEPT ![c] = IF Panics(reg, svc[c]) THEN None ELSE @]
    /\ added' = added \ {c}
    /\ UNCHANGED <<pc, match>>

(* The connection ends, whichever way: the service it informed of last is   *)
(* deleted, even if this session never added it.                            *)
Close(c) ==
    /\ pc[c] = "idle"
    /\ svc[c] # None
    /\ Delete(svc[c])
    /\ svc' = [svc EXCEPT ![c] = None]
    /\ added' = added \ {c}
    /\ UNCHANGED <<pc, match>>

-----------------------------------------------------------------------------
WorkerNext(w) ==
    \/ \E s \in AddForm : HandleAdd(w, s)
    \/ AddExists(w) \/ AddNew(w) \/ AddLocked(w)

SessionNext(c) ==
    \/ \E s \in InformForm[c] : Inform(c, s)
    \/ Informed(c) \/ RegisterAdd(c) \/ RegisterDelete(c) \/ Close(c)

Next ==
    \/ \E w \in Worker : WorkerNext(w)
    \/ \E s \in DeleteForm : HandleDelete(s)
    \/ \E c \in Session : SessionNext(c)

Spec == Init /\ [][Next]_vars

-----------------------------------------------------------------------------
(* No two services have the same ID, whoever added them when (Add).         *)
DistinctIDs ==
    \A p, q \in DOMAIN reg.services :
        reg.services[p].id = reg.services[q].id => p = q

(* The lists by type hold what the list of all services holds, in its       *)
(* order, so that a query with a type and Delete, which searches both,      *)
(* find the same first entry (Add, Delete).                                 *)
SameEntries(t) ==
    Entries(reg.indexByType[t]) = {s \in Entries(reg.services) : s.type = t}
SameOrder(t) ==
    LET byType == reg.indexByType[t] IN
    \A p, q \in DOMAIN byType : \A i, k \in DOMAIN reg.services :
        byType[p] = reg.services[i] /\ byType[q] = reg.services[k] => (p < q <=> i < k)
IndexAgrees == \A t \in Type : SameEntries(t) /\ SameOrder(t)

(* Has answers, and Add refuses, by what is there: the IDs in use are those *)
(* of the services.                                                         *)
HasIsTrue == reg.uniqueness = IDs(reg.services)

(* A session that was told that its service is added finds it there until   *)
(* it deletes it or ends, whatever the other sessions and requests do.      *)
RegisteredWhileConnected ==
    \A c \in added : \E p \in DOMAIN reg.services : reg.services[p] = svc[c]
=============================================================================
