----------------------------- MODULE MCRegistry -----------------------------
(***************************************************************************)
(* Small instances of Registry: two addresses, two types, two IDs of       *)
(* services that bring their own and two that uuid.NewV4 may give.         *)
(***************************************************************************)
EXTENDS Registry, TLC

CONSTANTS w1, w2, c1, c2, a, b, g1, g2

Workers2 == {w1, w2}
Sessions1 == {c1}
Sessions2 == {c1, c2}
IDSet == {a, b, g1, g2}
GeneratedSet == {g1, g2}
GeneratedOne == {g1}

ServiceOf(id, address, type) == [id |-> id, address |-> address, type |-> type]
Anonymous == ServiceOf(Nil, "x", "bridge")
ServiceA == ServiceOf(a, "x", "bridge")
ServiceB == ServiceOf(b, "y", "other")
SameAddressB == ServiceOf(b, "x", "bridge")

(* Requests with and without IDs that meet at the same address; IllTyped    *)
(* also deletes a service under a type that it does not have.               *)
MixedForms == {Anonymous, ServiceA}
IllTyped == MixedForms \cup {ServiceOf(a, "x", "other")}
MixedInform == [c \in Session |-> {Anonymous, ServiceB}]

(* Two bridges with their own IDs; requests that name neither.              *)
OwnInform == [c \in Session |-> IF c = c1 THEN {ServiceA} ELSE {SameAddressB}]
OtherAdds == {Anonymous, ServiceOf(g2, "y", "other")}
OtherDeletes == {ServiceOf(g1, "x", "bridge"), ServiceOf(g2, "y", "other")}

Alone == None

Interchangeable == Permutations(Worker) \cup Permutations(GeneratedSet)
=============================================================================
