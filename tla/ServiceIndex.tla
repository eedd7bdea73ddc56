---------------------------- MODULE ServiceIndex ----------------------------
(***************************************************************************)
(* What a discovery server keeps of the services: the list of all of them, *)
(* the lists by type, and the set of the IDs in use. Add and Delete change *)
(* the three under the server's lock; here they are operators on a record  *)
(* of the three, so that one server or several may be built of them.       *)
(***************************************************************************)
EXTENDS Integers, Sequences, FiniteSets

CONSTANTS
    ID,         \* the UUIDs of services
    Nil,        \* uuid.Nil, a service that is asked for without an ID
    Address,    \* the external addresses of services
    Type        \* the types of services, such as "hpc-bridge"

ASSUME ServiceIndexAssumption == Nil \notin ID

Service == [id : ID, address : Address, type : Type]
Needle == [id : ID \cup {Nil}, address : Address, type : Type]

Registry == [services : Seq(Service), indexByType : [Type -> Seq(Service)],
             uniqueness : SUBSET ID]

NoService == [services |-> <<>>, indexByType |-> [t \in Type |-> <<>>], uniqueness |-> {}]

Entries(slice) == {slice[p] : p \in DOMAIN slice}
IDs(slice) == {slice[p].id : p \in DOMAIN slice}

-----------------------------------------------------------------------------
(* Variant: by address and type whatever the ID.                            *)
MatchesAddress(needle, item) ==
    item.address = needle.address /\ item.type = needle.type

(* By ID if the needle has one, else by address and type.                   *)
Matches(needle, item) ==
    IF needle.id = Nil
    THEN item.address = needle.address /\ item.type = needle.type
    ELSE item.id = needle.id

(* findServiceInSlice: the first position that matches, if there is one.    *)
Found(haystack, needle) == {p \in DOMAIN haystack : Matches(needle, haystack[p])}
findServiceInSlice(haystack, needle) ==
    CHOOSE p \in Found(haystack, needle) : \A q \in Found(haystack, needle) : p <= q

(* append(slice[0:pos], slice[pos+1:]...)                                   *)
Without(slice, pos) ==
    [p \in 1 .. Len(slice) - 1 |-> IF p < pos THEN slice[p] ELSE slice[p + 1]]

(* Variant: an ID in use is not refused.                                    *)
AddToAnyway(r, service) ==
    [services    |-> Append(r.services, service),
     indexByType |-> [r.indexByType EXCEPT ![service.type] = Append(@, service)],
     uniqueness  |-> r.uniqueness \cup {service.id}]

(* Add under the lock: an ID in use is refused.                             *)
AddTo(r, service) ==
    IF service.id \in r.uniqueness
    THEN r
    ELSE [services    |-> Append(r.services, service),
          indexByType |-> [r.indexByType EXCEPT ![service.type] = Append(@, service)],
          uniqueness  |-> r.uniqueness \cup {service.id}]

(* Delete under the lock. The list of all services goes first; a needle     *)
(* that the list of its type does not hold then panics on the slice bounds, *)
(* and net/http recovers the handler with the rest left undone. The ID that *)
(* becomes free is the needle's, Nil or not.                                *)
Delisted(r, needle) ==
    [r EXCEPT !.services = Without(@, findServiceInSlice(@, needle))]

Panics(r, needle) ==
    /\ Found(r.services, needle) # {}
    /\ Found(r.indexByType[needle.type], needle) = {}

(* Variants: the list by type is forgotten, the ID stays in use.            *)
DeleteFromListOnly(r, needle) ==
    IF Found(r.services, needle) = {} THEN r
    ELSE [Delisted(r, needle) EXCEPT !.uniqueness = @ \ {needle.id}]
DeleteKeepingID(r, needle) ==
    IF Found(r.services, needle) = {} THEN r
    ELSE [Delisted(r, needle) EXCEPT
             !.indexByType[needle.type] = Without(@, findServiceInSlice(@, needle))]

DeleteFrom(r, needle) ==
    IF Found(r.services, needle) = {} THEN r
    ELSE IF Panics(r, needle) THEN Delisted(r, needle)
    ELSE [Delisted(r, needle) EXCEPT
             !.indexByType[needle.type] = Without(@, findServiceInSlice(@, needle)),
             !.uniqueness = @ \ {needle.id}]

(* buildIndex: each service in turn goes to the end of the list of its type. *)
buildIndex(slice) ==
    LET upTo[k \in 0 .. Len(slice)] ==
            IF k = 0 THEN [type \in Type |-> <<>>]
            ELSE [upTo[k - 1] EXCEPT ![slice[k].type] = Append(@, slice[k])]
    IN upTo[Len(slice)]
=============================================================================
