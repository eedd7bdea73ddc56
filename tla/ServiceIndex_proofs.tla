------------------------- MODULE ServiceIndex_proofs -------------------------
(***************************************************************************)
(* Lemmas about the lists of a discovery server: what a search finds, what *)
(* Add and Delete do to the list of all services, to the lists by type and *)
(* to the IDs in use. Registry_proofs and DiscoveryCluster_proofs rest on  *)
(* them.                                                                   *)
(***************************************************************************)
EXTENDS ServiceIndex, SequenceTheorems, WellFoundedInduction, TLAPS

(* A set of positions that is not empty has a first one.                    *)
LEMMA FirstExists ==
    ASSUME NEW S \in SUBSET Nat, S # {}
    PROVE  \E p \in S : \A q \in S : p <= q
<1>1. PICK p \in S : \A q \in S : <<q, p>> \notin OpToRel(<, Nat)
  BY NatLessThanWellFounded, WFMin
<1>2. \A q \in S : ~(q < p)
  BY <1>1 DEF OpToRel
<1> QED
  BY <1>2

(* findServiceInSlice answers a position that matches when there is one.    *)
LEMMA FoundPosition ==
    ASSUME NEW S, NEW slice \in Seq(S), NEW needle, Found(slice, needle) # {}
    PROVE  /\ findServiceInSlice(slice, needle) \in DOMAIN slice
           /\ Matches(needle, slice[findServiceInSlice(slice, needle)])
<1>1. Found(slice, needle) \in SUBSET Nat
  BY DEF Found
<1>2. \E p \in Found(slice, needle) : \A q \in Found(slice, needle) : p <= q
  BY <1>1, FirstExists
<1>3. findServiceInSlice(slice, needle) \in Found(slice, needle)
  BY <1>2 DEF findServiceInSlice
<1> QED
  BY <1>3 DEF Found

(* A slice without the entry at a position.                                 *)
LEMMA WithoutProperties ==
    ASSUME NEW S, NEW slice \in Seq(S), NEW pos \in DOMAIN slice
    PROVE  /\ Without(slice, pos) \in Seq(S)
           /\ DOMAIN Without(slice, pos) = 1 .. Len(slice) - 1
           /\ \A p \in 1 .. Len(slice) - 1 :
                 Without(slice, pos)[p] = IF p < pos THEN slice[p] ELSE slice[p + 1]
<1>1. Len(slice) \in Nat /\ pos \in 1 .. Len(slice) /\ DOMAIN slice = 1 .. Len(slice)
  OBVIOUS
<1>2. Len(slice) - 1 \in Nat
  BY <1>1
<1>3. \A p \in 1 .. Len(slice) - 1 : (IF p < pos THEN slice[p] ELSE slice[p + 1]) \in S
  BY <1>1
<1>4. Without(slice, pos) \in [1 .. Len(slice) - 1 -> S]
  BY <1>3 DEF Without
<1>5. Without(slice, pos) \in Seq(S)
  BY <1>2, <1>4, SeqDef
<1> QED
  BY <1>5 DEF Without

-----------------------------------------------------------------------------
(* Add and Delete keep the type of what the server keeps.                   *)
LEMMA AddType ==
    ASSUME NEW r \in Registry, NEW s \in Service
    PROVE  AddTo(r, s) \in Registry
<1>1. s.type \in Type /\ s.id \in ID
  BY DEF Service
<1>2. Append(r.services, s) \in Seq(Service)
  BY DEF Registry
<1>3. [r.indexByType EXCEPT ![s.type] = Append(@, s)] \in [Type -> Seq(Service)]
  BY <1>1 DEF Registry
<1>4. r.uniqueness \cup {s.id} \in SUBSET ID
  BY <1>1 DEF Registry
<1> QED
  BY <1>2, <1>3, <1>4 DEF AddTo, Registry

LEMMA DelistedType ==
    ASSUME NEW r \in Registry, NEW n \in Needle, Found(r.services, n) # {}
    PROVE  /\ Delisted(r, n) \in Registry
           /\ Delisted(r, n).services = Without(r.services, findServiceInSlice(r.services, n))
           /\ Delisted(r, n).indexByType = r.indexByType
           /\ Delisted(r, n).uniqueness = r.uniqueness
<1>1. r.services \in Seq(Service)
  BY DEF Registry
<1>2. Without(r.services, findServiceInSlice(r.services, n)) \in Seq(Service)
  BY <1>1, FoundPosition, WithoutProperties
<1> QED
  BY <1>2 DEF Delisted, Registry

LEMMA DeleteType ==
    ASSUME NEW r \in Registry, NEW n \in Needle
    PROVE  DeleteFrom(r, n) \in Registry
<1>1. CASE Found(r.services, n) = {}
  BY <1>1 DEF DeleteFrom
<1>2. CASE Found(r.services, n) # {} /\ Panics(r, n)
  BY <1>2, DelistedType DEF DeleteFrom
<1>3. CASE Found(r.services, n) # {} /\ ~Panics(r, n)
  <2>1. /\ n.type \in Type
        /\ r.indexByType[n.type] \in Seq(Service)
        /\ Found(r.indexByType[n.type], n) # {}
    BY <1>3 DEF Needle, Registry, Panics
  <2>2. Without(r.indexByType[n.type], findServiceInSlice(r.indexByType[n.type], n)) \in Seq(Service)
    BY <2>1, FoundPosition, WithoutProperties
  <2>3. Delisted(r, n) \in Registry /\ Delisted(r, n).indexByType = r.indexByType
    BY <1>3, DelistedType
  <2>4. DeleteFrom(r, n) =
          [Delisted(r, n) EXCEPT
             !.indexByType[n.type] = Without(@, findServiceInSlice(@, n)),
             !.uniqueness = @ \ {n.id}]
    BY <1>3 DEF DeleteFrom
  <2> DEFINE left == Without(r.indexByType[n.type], findServiceInSlice(r.indexByType[n.type], n))
  <2>5. /\ DeleteFrom(r, n).services = Delisted(r, n).services
        /\ DeleteFrom(r, n).indexByType = [r.indexByType EXCEPT ![n.type] = left]
        /\ DeleteFrom(r, n).uniqueness = Delisted(r, n).uniqueness \ {n.id}
        /\ DeleteFrom(r, n) = [services |-> DeleteFrom(r, n).services,
                               indexByType |-> DeleteFrom(r, n).indexByType,
                               uniqueness |-> DeleteFrom(r, n).uniqueness]
    BY <2>3, <2>4 DEF Registry
  <2> HIDE DEF left
  <2>6. [r.indexByType EXCEPT ![n.type] = left] \in [Type -> Seq(Service)]
    BY <2>1, <2>2 DEF Registry, left
  <2>7. Delisted(r, n).services \in Seq(Service) /\ Delisted(r, n).uniqueness \in SUBSET ID
    BY <2>3 DEF Registry
  <2> QED
    BY <2>5, <2>6, <2>7 DEF Registry
<1> QED
  BY <1>1, <1>2, <1>3

-----------------------------------------------------------------------------
(* The loop of buildIndex over the first n services. That there is such a   *)
(* function, and what its values are, is shown by the least n, or k, for    *)
(* which it would not be so.                                                *)
NoEntries == [type \in Type |-> <<>>]
Put(lists, service) == [lists EXCEPT ![service.type] = Append(@, service)]
Loop(f, slice, n) ==
    f = [k \in 0 .. n |-> IF k = 0 THEN NoEntries ELSE Put(f[k - 1], slice[k])]

LEMMA LoopExists ==
    ASSUME NEW slice, NEW n \in Nat
    PROVE  \E f : Loop(f, slice, n)
<1> DEFINE Bad == {m \in Nat : ~\E f : Loop(f, slice, m)}
<1> SUFFICES ASSUME Bad # {} PROVE FALSE
  OBVIOUS
<1>1. PICK m \in Bad : \A q \in Bad : m <= q
  BY FirstExists
<1>2. CASE m = 0
  <2>1. Loop([k \in 0 .. 0 |-> NoEntries], slice, 0)
    BY DEF Loop
  <2> QED
    BY <1>1, <1>2, <2>1
<1>3. CASE m # 0
  <2>1. m - 1 \in Nat /\ m - 1 \notin Bad
    BY <1>1, <1>3
  <2>2. PICK g : Loop(g, slice, m - 1)
    BY <2>1
  <2> DEFINE f == [k \in 0 .. m |-> IF k = m THEN Put(g[m - 1], slice[m]) ELSE g[k]]
  <2>3. ASSUME NEW k \in 0 .. m
        PROVE  f[k] = IF k = 0 THEN NoEntries ELSE Put(f[k - 1], slice[k])
    <3>1. CASE k = m
      BY <1>1, <1>3, <2>1, <3>1
    <3>2. CASE k # m
      <4>1. k \in 0 .. m - 1
        BY <2>1, <3>2
      <4>2. g[k] = IF k = 0 THEN NoEntries ELSE Put(g[k - 1], slice[k])
        BY <2>2, <4>1 DEF Loop
      <4>3. f[k] = g[k] /\ (k # 0 => f[k - 1] = g[k - 1])
        BY <2>1, <3>2, <4>1
      <4> QED
        BY <4>2, <4>3
    <3> QED
      BY <3>1, <3>2
  <2>4. Loop(f, slice, m)
    BY <2>3 DEF Loop
  <2> QED
    BY <1>1, <2>4
<1> QED
  BY <1>2, <1>3

(* buildIndex makes lists of services, by type.                             *)
LEMMA BuildIndexType ==
    ASSUME NEW slice \in Seq(Service)
    PROVE  buildIndex(slice) \in [Type -> Seq(Service)]
<1> DEFINE f == CHOOSE g : Loop(g, slice, Len(slice))
<1>1. buildIndex(slice) = f[Len(slice)]
  BY DEF buildIndex, Loop, NoEntries, Put
<1>2. Len(slice) \in Nat
  OBVIOUS
<1>3. Loop(f, slice, Len(slice))
  BY <1>2, LoopExists
<1> HIDE DEF f
<1>4. \A k \in 0 .. Len(slice) : f[k] = IF k = 0 THEN NoEntries ELSE Put(f[k - 1], slice[k])
  BY <1>3 DEF Loop
<1> DEFINE Bad == {k \in 0 .. Len(slice) : f[k] \notin [Type -> Seq(Service)]}
<1>5. ASSUME Bad # {} PROVE FALSE
  <2>1. PICK k \in Bad : \A q \in Bad : k <= q
    <3>1. Bad \in SUBSET Nat
      BY <1>2
    <3> HIDE DEF Bad
    <3> QED
      BY <1>5, <3>1, FirstExists
  <2>2. k # 0
    <3>1. NoEntries \in [Type -> Seq(Service)]
      BY DEF NoEntries
    <3>2. f[0] = NoEntries
      BY <1>2, <1>4
    <3> QED
      BY <3>1, <3>2
  <2>3. k \in 1 .. Len(slice) /\ k - 1 \in 0 .. Len(slice) /\ k - 1 \notin Bad
    BY <1>2, <2>1, <2>2
  <2>4. f[k - 1] \in [Type -> Seq(Service)] /\ slice[k] \in Service
    BY <2>3, ElementOfSeq
  <2>5. Put(f[k - 1], slice[k]) \in [Type -> Seq(Service)]
    <3> DEFINE lists == f[k - 1]
               service == slice[k]
    <3>1. lists \in [Type -> Seq(Service)] /\ service.type \in Type
      BY <2>4 DEF Service
    <3>2. Append(lists[service.type], service) \in Seq(Service)
      BY <2>4, <3>1, AppendProperties
    <3> HIDE DEF lists, service
    <3>3. Put(lists, service) \in [Type -> Seq(Service)]
      BY <3>1, <3>2 DEF Put
    <3> QED
      BY <3>3 DEF lists, service
  <2> QED
    BY <1>4, <2>2, <2>5
<1> QED
  BY <1>1, <1>2, <1>5

-----------------------------------------------------------------------------
(* The IDs of the services differ and are in use.                           *)
Separate(slice) == \A p, q \in DOMAIN slice : slice[p].id = slice[q].id => p = q
Tidy(r) == Separate(r.services) /\ IDs(r.services) \subseteq r.uniqueness

LEMMA AddTidy ==
    ASSUME NEW r \in Registry, NEW s \in Service, Tidy(r)
    PROVE  Tidy(AddTo(r, s))
<1>1. CASE s.id \in r.uniqueness
  BY <1>1 DEF AddTo
<1>2. CASE s.id \notin r.uniqueness
  <2> DEFINE old == r.services
             new == Append(old, s)
  <2>1. /\ old \in Seq(Service) /\ Len(old) \in Nat /\ DOMAIN old = 1 .. Len(old)
        /\ DOMAIN new = 1 .. Len(old) + 1
        /\ \A p \in 1 .. Len(old) : new[p] = old[p]
        /\ new[Len(old) + 1] = s
    BY AppendProperties DEF Registry
  <2>2. \A p \in DOMAIN old : old[p].id # s.id /\ old[p].id \in r.uniqueness
    BY <1>2 DEF Tidy, IDs
  <2>3. AddTo(r, s).services = new /\ AddTo(r, s).uniqueness = r.uniqueness \cup {s.id}
    BY <1>2 DEF AddTo
  <2> HIDE DEF new
  <2>4. \A p \in DOMAIN new : p \in DOMAIN old \/ p = Len(old) + 1
    BY <2>1
  <2>5. Separate(new)
    BY <2>1, <2>2, <2>4 DEF Tidy, Separate
  <2>6. IDs(new) \subseteq r.uniqueness \cup {s.id}
    BY <2>1, <2>2, <2>4 DEF IDs
  <2> QED
    BY <2>3, <2>5, <2>6 DEF Tidy
<1> QED
  BY <1>1, <1>2

(* Delete frees the needle's ID only when it has taken the service with     *)
(* that ID from the list.                                                   *)
LEMMA DeleteTidy ==
    ASSUME NEW r \in Registry, NEW n \in Needle, Tidy(r)
    PROVE  Tidy(DeleteFrom(r, n))
<1>1. CASE Found(r.services, n) = {}
  BY <1>1 DEF DeleteFrom
<1>2. CASE Found(r.services, n) # {}
  <2> DEFINE old == r.services
             pos == findServiceInSlice(old, n)
             new == Without(old, pos)
  <2>1. old \in Seq(Service) /\ Len(old) \in Nat /\ DOMAIN old = 1 .. Len(old)
    BY DEF Registry
  <2>2. pos \in 1 .. Len(old) /\ Matches(n, old[pos])
    BY <1>2, <2>1, FoundPosition
  <2>3. /\ DOMAIN new = 1 .. Len(old) - 1
        /\ \A p \in 1 .. Len(old) - 1 : new[p] = IF p < pos THEN old[p] ELSE old[p + 1]
    BY <2>1, <2>2, WithoutProperties
  <2>4. /\ DeleteFrom(r, n).services = new
        /\ \/ DeleteFrom(r, n).uniqueness = r.uniqueness
           \/ DeleteFrom(r, n).uniqueness = r.uniqueness \ {n.id}
    <3>1. /\ Delisted(r, n) \in Registry
          /\ Delisted(r, n).services = new /\ Delisted(r, n).uniqueness = r.uniqueness
      BY <1>2, DelistedType
    <3>2. CASE Panics(r, n)
      BY <1>2, <3>1, <3>2 DEF DeleteFrom
    <3>3. CASE ~Panics(r, n)
      BY <1>2, <3>1, <3>3 DEF DeleteFrom, Registry
    <3> QED
      BY <3>2, <3>3
  <2> HIDE DEF new, pos
  (* Where each entry that is left was before.                              *)
  <2>5. ASSUME NEW p \in DOMAIN new
        PROVE  /\ p < pos => p \in DOMAIN old /\ new[p] = old[p]
               /\ ~(p < pos) => p + 1 \in DOMAIN old /\ p + 1 # pos /\ new[p] = old[p + 1]
    BY <2>1, <2>2, <2>3
  <2>6. Separate(new)
    <3> SUFFICES ASSUME NEW p \in DOMAIN new, NEW q \in DOMAIN new, new[p].id = new[q].id
                 PROVE  p = q
      BY DEF Separate
    <3>1. \A i, k \in DOMAIN old : old[i].id = old[k].id => i = k
      BY DEF Tidy, Separate
    <3>2. p \in Nat /\ q \in Nat /\ pos \in Nat
      BY <2>2, <2>3
    <3>3. CASE p < pos /\ q < pos
      BY <2>5, <3>1, <3>3
    <3>4. CASE p < pos /\ ~(q < pos)
      BY <2>5, <3>1, <3>2, <3>4
    <3>5. CASE ~(p < pos) /\ q < pos
      BY <2>5, <3>1, <3>2, <3>5
    <3>6. CASE ~(p < pos) /\ ~(q < pos)
      BY <2>5, <3>1, <3>2, <3>6
    <3> QED
      BY <3>3, <3>4, <3>5, <3>6
  <2>7. ASSUME NEW p \in DOMAIN new
        PROVE  new[p].id \in r.uniqueness /\ new[p].id # n.id
    <3>1. PICK i \in DOMAIN old : i # pos /\ new[p] = old[i]
      BY <2>2, <2>3, <2>5
    <3>2. old[i].id \in r.uniqueness
      BY DEF Tidy, IDs
    <3>3. CASE n.id = Nil
      BY <2>1, <3>1, <3>2, <3>3, ServiceIndexAssumption DEF Registry
    <3>4. CASE n.id # Nil
      <4>1. old[pos].id = n.id /\ pos \in DOMAIN old
        BY <2>1, <2>2, <3>4 DEF Matches
      <4>2. old[i].id # old[pos].id
        BY <3>1, <4>1 DEF Tidy, Separate
      <4> QED
        BY <3>1, <3>2, <4>1, <4>2
    <3> QED
      BY <3>3, <3>4
  <2>8. IDs(new) \subseteq DeleteFrom(r, n).uniqueness
    BY <2>4, <2>7 DEF IDs
  <2> QED
    BY <2>4, <2>6, <2>8 DEF Tidy
<1> QED
  BY <1>1, <1>2

-----------------------------------------------------------------------------
(* Slices without repetition, and which entry comes before which.           *)
Distinct(slice) == \A p, q \in DOMAIN slice : slice[p] = slice[q] => p = q
Precedes(slice, x, y) == \E i, k \in DOMAIN slice : i < k /\ slice[i] = x /\ slice[k] = y

LEMMA SeparateDistinct ==
    ASSUME NEW slice, Separate(slice)
    PROVE  Distinct(slice)
BY DEF Separate, Distinct

LEMMA AppendEntries ==
    ASSUME NEW S, NEW slice \in Seq(S), NEW s \in S, s \notin Entries(slice), Distinct(slice)
    PROVE  /\ Entries(Append(slice, s)) = Entries(slice) \cup {s}
           /\ Distinct(Append(slice, s))
           /\ \A x, y : Precedes(Append(slice, s), x, y) <=>
                  Precedes(slice, x, y) \/ (x \in Entries(slice) /\ y = s)
<1> DEFINE new == Append(slice, s)
<1>1. /\ Len(slice) \in Nat /\ DOMAIN slice = 1 .. Len(slice)
      /\ DOMAIN new = 1 .. Len(slice) + 1
      /\ \A p \in 1 .. Len(slice) : new[p] = slice[p]
      /\ new[Len(slice) + 1] = s
  BY AppendProperties
<1>2. \A p \in DOMAIN slice : slice[p] # s
  BY DEF Entries
<1> HIDE DEF new
<1>3. \A p \in DOMAIN new : (p \in DOMAIN slice /\ new[p] = slice[p]) \/ (p = Len(slice) + 1 /\ new[p] = s)
  BY <1>1
<1>4. Entries(new) = Entries(slice) \cup {s}
  BY <1>1, <1>3 DEF Entries
<1>5. Distinct(new)
  BY <1>1, <1>2, <1>3 DEF Distinct
<1>6. ASSUME NEW x, NEW y, Precedes(new, x, y)
      PROVE  Precedes(slice, x, y) \/ (x \in Entries(slice) /\ y = s)
  <2>1. PICK i \in DOMAIN new : \E k \in DOMAIN new : i < k /\ new[i] = x /\ new[k] = y
    BY <1>6 DEF Precedes
  <2>2. PICK k \in DOMAIN new : i < k /\ new[i] = x /\ new[k] = y
    BY <2>1
  <2>3. i \in DOMAIN slice /\ new[i] = slice[i]
    BY <1>1, <1>3, <2>2
  <2> QED
    BY <1>3, <2>2, <2>3 DEF Precedes, Entries
<1>7. ASSUME NEW x, NEW y, Precedes(slice, x, y) \/ (x \in Entries(slice) /\ y = s)
      PROVE  Precedes(new, x, y)
  <2>1. CASE Precedes(slice, x, y)
    BY <1>1, <2>1 DEF Precedes
  <2>2. CASE x \in Entries(slice) /\ y = s
    <3>1. PICK i \in DOMAIN slice : slice[i] = x
      BY <2>2 DEF Entries
    <3>2. i \in DOMAIN new /\ Len(slice) + 1 \in DOMAIN new /\ i < Len(slice) + 1 /\ new[i] = x
      BY <1>1, <3>1
    <3> QED
      BY <1>1, <2>2, <3>2 DEF Precedes
  <2> QED
    BY <1>7, <2>1, <2>2
<1> QED
  BY <1>4, <1>5, <1>6, <1>7 DEF new

LEMMA WithoutEntries ==
    ASSUME NEW S, NEW slice \in Seq(S), NEW pos \in DOMAIN slice, Distinct(slice)
    PROVE  /\ Entries(Without(slice, pos)) = Entries(slice) \ {slice[pos]}
           /\ Distinct(Without(slice, pos))
           /\ \A x, y : Precedes(Without(slice, pos), x, y) <=>
                  Precedes(slice, x, y) /\ x # slice[pos] /\ y # slice[pos]
<1> DEFINE new == Without(slice, pos)
           Old(p) == IF p < pos THEN p ELSE p + 1      \* where an entry was before
           New(i) == IF i < pos THEN i ELSE i - 1      \* where it is now
<1>1. /\ Len(slice) \in Nat /\ DOMAIN slice = 1 .. Len(slice)
      /\ DOMAIN new = 1 .. Len(slice) - 1
      /\ \A p \in 1 .. Len(slice) - 1 : new[p] = IF p < pos THEN slice[p] ELSE slice[p + 1]
  BY WithoutProperties
<1> HIDE DEF new
<1>2. \A p \in DOMAIN new : Old(p) \in DOMAIN slice /\ Old(p) # pos /\ new[p] = slice[Old(p)]
  BY <1>1
<1>3. \A i \in DOMAIN slice : i # pos => New(i) \in DOMAIN new /\ new[New(i)] = slice[i]
  BY <1>1
<1>4. \A p, q \in DOMAIN new : (p < q <=> Old(p) < Old(q)) /\ (Old(p) = Old(q) => p = q)
  BY <1>1
<1>5. \A i, k \in DOMAIN slice : i # pos /\ k # pos => (i < k <=> New(i) < New(k))
  BY <1>1
<1> HIDE DEF Old, New
<1>6. \A i \in DOMAIN slice : i # pos <=> slice[i] # slice[pos]
  BY DEF Distinct
<1>7. Entries(new) = Entries(slice) \ {slice[pos]}
  BY <1>2, <1>3, <1>6 DEF Entries
<1>8. Distinct(new)
  BY <1>2, <1>4 DEF Distinct
<1>9. ASSUME NEW x, NEW y, Precedes(new, x, y)
      PROVE  Precedes(slice, x, y) /\ x # slice[pos] /\ y # slice[pos]
  BY <1>2, <1>4, <1>6, <1>9 DEF Precedes
<1>10. ASSUME NEW x, NEW y, Precedes(slice, x, y), x # slice[pos], y # slice[pos]
       PROVE  Precedes(new, x, y)
  BY <1>3, <1>5, <1>6, <1>10 DEF Precedes
<1> QED
  BY <1>7, <1>8, <1>9, <1>10 DEF new

(* findServiceInSlice finds the first entry that matches.                   *)
LEMMA FirstFound ==
    ASSUME NEW S, NEW slice \in Seq(S), NEW needle, Found(slice, needle) # {}, Distinct(slice)
    PROVE  LET x == slice[findServiceInSlice(slice, needle)] IN
           /\ findServiceInSlice(slice, needle) \in DOMAIN slice
           /\ x \in Entries(slice) /\ Matches(needle, x)
           /\ \A y \in Entries(slice) : Matches(needle, y) /\ y # x => Precedes(slice, x, y)
<1> DEFINE pos == findServiceInSlice(slice, needle)
<1>1. pos \in DOMAIN slice /\ Matches(needle, slice[pos])
  BY FoundPosition
<1>2. Found(slice, needle) \in SUBSET Nat
  BY DEF Found
<1>3. \E p \in Found(slice, needle) : \A q \in Found(slice, needle) : p <= q
  BY <1>2, FirstExists
<1>4. \A q \in Found(slice, needle) : pos <= q
  BY <1>3 DEF findServiceInSlice
<1> HIDE DEF pos
<1>5. ASSUME NEW y \in Entries(slice), Matches(needle, y), y # slice[pos]
      PROVE  Precedes(slice, slice[pos], y)
  <2>1. PICK q \in DOMAIN slice : slice[q] = y
    BY DEF Entries
  <2>2. q \in Found(slice, needle) /\ q # pos
    BY <1>5, <2>1 DEF Found
  <2>3. pos < q
    BY <1>1, <1>4, <2>2
  <2> QED
    BY <1>1, <2>1, <2>3 DEF Precedes
<1> QED
  BY <1>1, <1>5 DEF Entries, pos

(* Of two entries only one precedes the other.                              *)
LEMMA OneFirst ==
    ASSUME NEW S, NEW slice \in Seq(S), Distinct(slice), NEW x, NEW y, Precedes(slice, x, y), Precedes(slice, y, x)
    PROVE  FALSE
<1>1. PICK i \in DOMAIN slice : \E k \in DOMAIN slice : i < k /\ slice[i] = x /\ slice[k] = y
  BY DEF Precedes
<1>2. PICK k \in DOMAIN slice : i < k /\ slice[i] = x /\ slice[k] = y
  BY <1>1
<1>3. PICK m \in DOMAIN slice : \E n \in DOMAIN slice : m < n /\ slice[m] = y /\ slice[n] = x
  BY DEF Precedes
<1>4. PICK n \in DOMAIN slice : m < n /\ slice[m] = y /\ slice[n] = x
  BY <1>3
<1>5. i = n /\ k = m
  BY <1>2, <1>4 DEF Distinct
<1> QED
  BY <1>2, <1>4, <1>5

-----------------------------------------------------------------------------
(* The list of a type is the list of all services, restricted to that type. *)
Restricted(slice, byType, t) ==
    /\ Distinct(byType)
    /\ Entries(byType) = {s \in Entries(slice) : s.type = t}
    /\ \A x, y \in Entries(byType) : Precedes(byType, x, y) <=> Precedes(slice, x, y)

Indexed(r) == \A t \in Type : Restricted(r.services, r.indexByType[t], t)

LEMMA RestrictedAgrees ==
    ASSUME NEW slice \in Seq(Service), NEW byType \in Seq(Service), NEW t, Distinct(slice), Restricted(slice, byType, t),
           NEW p \in DOMAIN byType, NEW q \in DOMAIN byType, NEW i \in DOMAIN slice, NEW k \in DOMAIN slice,
           byType[p] = slice[i], byType[q] = slice[k]
    PROVE  p < q <=> i < k
<1>1. byType[p] \in Entries(byType) /\ byType[q] \in Entries(byType)
  BY DEF Entries
<1>2. Precedes(byType, byType[p], byType[q]) <=> p < q
  BY DEF Restricted, Precedes, Distinct
<1>3. Precedes(slice, slice[i], slice[k]) <=> i < k
  BY DEF Precedes, Distinct
<1> QED
  BY <1>1, <1>2, <1>3 DEF Restricted

LEMMA AddIndexed ==
    ASSUME NEW r \in Registry, NEW s \in Service, Tidy(r), Indexed(r)
    PROVE  Indexed(AddTo(r, s))
<1>1. CASE s.id \in r.uniqueness
  BY <1>1 DEF AddTo
<1>2. CASE s.id \notin r.uniqueness
  <2> DEFINE old == r.services
  <2>1. /\ old \in Seq(Service) /\ s.type \in Type
        /\ r.indexByType \in [Type -> Seq(Service)]
    BY DEF Registry, Service
  <2>2. /\ AddTo(r, s).services = Append(old, s)
        /\ AddTo(r, s).indexByType = [r.indexByType EXCEPT ![s.type] = Append(@, s)]
    BY <1>2 DEF AddTo
  <2>3. s \notin Entries(old)
    BY <1>2 DEF Tidy, IDs, Entries
  <2>4. Distinct(old)
    BY SeparateDistinct DEF Tidy
  <2>5. /\ Entries(Append(old, s)) = Entries(old) \cup {s}
        /\ \A x, y : Precedes(Append(old, s), x, y) <=> Precedes(old, x, y) \/ (x \in Entries(old) /\ y = s)
    BY <2>1, <2>3, <2>4, AppendEntries
  <2>6. ASSUME NEW t \in Type PROVE Restricted(Append(old, s), AddTo(r, s).indexByType[t], t)
    <3> DEFINE byType == r.indexByType[t]
    <3>1. byType \in Seq(Service) /\ Restricted(old, byType, t)
      BY <2>1 DEF Indexed
    <3>2. CASE t = s.type
      <4>1. AddTo(r, s).indexByType[t] = Append(byType, s)
        BY <2>1, <2>2, <3>2
      <4>2. s \notin Entries(byType) /\ Distinct(byType)
        BY <2>3, <3>1 DEF Restricted
      <4>3. /\ Entries(Append(byType, s)) = Entries(byType) \cup {s}
            /\ Distinct(Append(byType, s))
            /\ \A x, y : Precedes(Append(byType, s), x, y) <=>
                   Precedes(byType, x, y) \/ (x \in Entries(byType) /\ y = s)
        BY <3>1, <4>2, AppendEntries
      <4>4. \A y : ~Precedes(old, s, y) /\ ~Precedes(old, y, s)
        BY <2>3 DEF Precedes, Entries
      <4>5. \A y : ~Precedes(byType, s, y) /\ ~Precedes(byType, y, s)
        BY <4>2 DEF Precedes, Entries
      <4>6. Entries(Append(byType, s)) = {x \in Entries(Append(old, s)) : x.type = t}
        BY <2>5, <3>1, <3>2, <4>3 DEF Restricted
      <4>7. \A x, y \in Entries(Append(byType, s)) :
               Precedes(Append(byType, s), x, y) <=> Precedes(Append(old, s), x, y)
        BY <2>3, <2>5, <3>1, <4>2, <4>3, <4>4, <4>5 DEF Restricted
      <4> QED
        BY <4>1, <4>3, <4>6, <4>7 DEF Restricted
    <3>3. CASE t # s.type
      <4>1. AddTo(r, s).indexByType[t] = byType
        BY <2>1, <2>2, <3>3
      <4>2. s \notin Entries(byType)
        BY <2>3, <3>1 DEF Restricted
      <4> QED
        BY <2>5, <3>1, <3>3, <4>1, <4>2 DEF Restricted
    <3> QED
      BY <3>2, <3>3
  <2> QED
    BY <2>2, <2>6 DEF Indexed
<1> QED
  BY <1>1, <1>2

(* Delete searches both lists: it takes the same service from each of them, *)
(* be it found by its ID or by its address and type.                        *)
LEMMA SameFound ==
    ASSUME NEW r \in Registry, NEW n \in Needle, Tidy(r), Indexed(r), Found(r.services, n) # {}, ~Panics(r, n)
    PROVE  r.services[findServiceInSlice(r.services, n)] =
               r.indexByType[n.type][findServiceInSlice(r.indexByType[n.type], n)]
<1> DEFINE slice == r.services
           byType == r.indexByType[n.type]
           x == slice[findServiceInSlice(slice, n)]
           y == byType[findServiceInSlice(byType, n)]
<1>1. /\ slice \in Seq(Service) /\ byType \in Seq(Service) /\ n.type \in Type
      /\ Distinct(slice) /\ Restricted(slice, byType, n.type)
  BY SeparateDistinct DEF Registry, Needle, Tidy, Indexed
<1>2. Found(byType, n) # {} /\ Distinct(byType)
  BY <1>1 DEF Panics, Restricted
<1>3. /\ x \in Entries(slice) /\ Matches(n, x)
      /\ \A z \in Entries(slice) : Matches(n, z) /\ z # x => Precedes(slice, x, z)
  BY <1>1, FirstFound
<1>4. /\ y \in Entries(byType) /\ Matches(n, y)
      /\ \A z \in Entries(byType) : Matches(n, z) /\ z # y => Precedes(byType, y, z)
  BY <1>1, <1>2, FirstFound
<1> HIDE DEF x, y
<1>5. y \in Entries(slice)
  BY <1>1, <1>4 DEF Restricted
<1>6. CASE n.id # Nil
  <2>1. x.id = n.id /\ y.id = n.id
    BY <1>3, <1>4, <1>6 DEF Matches
  <2> QED
    BY <1>3, <1>5, <2>1 DEF Tidy, Separate, Entries, x, y
<1>7. CASE n.id = Nil
  <2>1. x \in Entries(byType)
    BY <1>1, <1>3, <1>7 DEF Restricted, Matches
  <2>2. CASE x # y
    <3>1. Precedes(slice, x, y) /\ Precedes(byType, y, x)
      BY <1>3, <1>4, <1>5, <2>1, <2>2
    <3>2. Precedes(slice, y, x)
      BY <1>1, <1>4, <2>1, <3>1 DEF Restricted
    <3> QED
      BY <1>1, <3>1, <3>2, OneFirst
  <2> QED
    BY <2>2 DEF x, y
<1> QED
  BY <1>6, <1>7

(* What Delete leaves when it finds the service in both lists.              *)
LEMMA DeleteResult ==
    ASSUME NEW r \in Registry, NEW n \in Needle, Found(r.services, n) # {}, ~Panics(r, n)
    PROVE  LET byType == r.indexByType[n.type] IN
           /\ DeleteFrom(r, n).services = Without(r.services, findServiceInSlice(r.services, n))
           /\ DeleteFrom(r, n).indexByType =
                 [r.indexByType EXCEPT ![n.type] = Without(byType, findServiceInSlice(byType, n))]
           /\ DeleteFrom(r, n).uniqueness = r.uniqueness \ {n.id}
<1>1. /\ Delisted(r, n) \in Registry
      /\ Delisted(r, n).services = Without(r.services, findServiceInSlice(r.services, n))
      /\ Delisted(r, n).indexByType = r.indexByType
      /\ Delisted(r, n).uniqueness = r.uniqueness
  BY DelistedType
<1>2. DeleteFrom(r, n) =
        [Delisted(r, n) EXCEPT
           !.indexByType[n.type] = Without(@, findServiceInSlice(@, n)),
           !.uniqueness = @ \ {n.id}]
  BY DEF DeleteFrom
<1> QED
  BY <1>1, <1>2 DEF Registry

LEMMA DeleteIndexed ==
    ASSUME NEW r \in Registry, NEW n \in Needle, Tidy(r), Indexed(r), ~Panics(r, n)
    PROVE  Indexed(DeleteFrom(r, n))
<1>1. CASE Found(r.services, n) = {}
  BY <1>1 DEF DeleteFrom
<1>2. CASE Found(r.services, n) # {}
  <2> DEFINE old == r.services
             list == r.indexByType[n.type]
             pos == findServiceInSlice(old, n)
             at == findServiceInSlice(list, n)
             x == old[pos]
  <2>1. /\ old \in Seq(Service) /\ n.type \in Type /\ r.indexByType \in [Type -> Seq(Service)]
        /\ Distinct(old)
    BY SeparateDistinct DEF Registry, Needle, Tidy
  <2>2. /\ DeleteFrom(r, n).services = Without(old, pos)
        /\ DeleteFrom(r, n).indexByType = [r.indexByType EXCEPT ![n.type] = Without(list, at)]
    BY <1>2, DeleteResult
  <2>3. pos \in DOMAIN old /\ x = list[at]
    BY <1>2, <2>1, SameFound, FoundPosition
  <2>4. at \in DOMAIN list
    BY <1>2, <2>1, FoundPosition DEF Panics
  <2> HIDE DEF pos, at
  <2>5. /\ Entries(Without(old, pos)) = Entries(old) \ {x}
        /\ \A u, v : Precedes(Without(old, pos), u, v) <=> Precedes(old, u, v) /\ u # x /\ v # x
    BY <2>1, <2>3, WithoutEntries
  <2>6. x.type = n.type
    BY <2>1, <2>3, <2>4 DEF Indexed, Restricted, Entries
  <2>7. ASSUME NEW t \in Type PROVE Restricted(Without(old, pos), DeleteFrom(r, n).indexByType[t], t)
    <3>1. Restricted(old, r.indexByType[t], t)
      BY DEF Indexed
    <3>2. CASE t = n.type
      <4>1. DeleteFrom(r, n).indexByType[t] = Without(list, at)
        BY <2>1, <2>2, <3>2
      <4>2. /\ Entries(Without(list, at)) = Entries(list) \ {x}
            /\ Distinct(Without(list, at))
            /\ \A u, v : Precedes(Without(list, at), u, v) <=> Precedes(list, u, v) /\ u # x /\ v # x
        <5>1. list \in Seq(Service) /\ Distinct(list)
          BY <2>1, <3>1, <3>2 DEF Restricted
        <5> QED
          BY <2>3, <2>4, <5>1, WithoutEntries
      <4> QED
        BY <2>5, <3>1, <3>2, <4>1, <4>2 DEF Restricted
    <3>3. CASE t # n.type
      <4>1. DeleteFrom(r, n).indexByType[t] = r.indexByType[t]
        BY <2>1, <2>2, <3>3
      <4>2. x \notin Entries(r.indexByType[t])
        BY <2>6, <3>1, <3>3 DEF Restricted
      <4> QED
        BY <2>5, <2>6, <3>1, <3>3, <4>1, <4>2 DEF Restricted
    <3> QED
      BY <3>2, <3>3
  <2> QED
    BY <2>2, <2>7 DEF Indexed
<1> QED
  BY <1>1, <1>2

-----------------------------------------------------------------------------
(* The set of the IDs in use.                                               *)
InUse(r) == r.uniqueness = IDs(r.services)

LEMMA IDsOfEntries ==
    ASSUME NEW slice
    PROVE  IDs(slice) = {x.id : x \in Entries(slice)}
BY DEF IDs, Entries

LEMMA AddInUse ==
    ASSUME NEW r \in Registry, NEW s \in Service, Tidy(r), InUse(r)
    PROVE  InUse(AddTo(r, s))
<1>1. CASE s.id \in r.uniqueness
  BY <1>1 DEF AddTo
<1>2. CASE s.id \notin r.uniqueness
  <2>1. AddTo(r, s).services = Append(r.services, s) /\ AddTo(r, s).uniqueness = r.uniqueness \cup {s.id}
    BY <1>2 DEF AddTo
  <2>2. Entries(Append(r.services, s)) = Entries(r.services) \cup {s}
    <3>1. r.services \in Seq(Service) /\ Distinct(r.services)
      BY SeparateDistinct DEF Registry, Tidy
    <3>2. s \notin Entries(r.services)
      BY <1>2 DEF Tidy, IDs, Entries
    <3> QED
      BY <3>1, <3>2, AppendEntries
  <2>3. IDs(Append(r.services, s)) = IDs(r.services) \cup {s.id}
    BY <2>2, IDsOfEntries
  <2> QED
    BY <2>1, <2>3 DEF InUse
<1> QED
  BY <1>1, <1>2

LEMMA DeleteInUse ==
    ASSUME NEW r \in Registry, NEW n \in Needle, n.id # Nil, Tidy(r), InUse(r), ~Panics(r, n)
    PROVE  InUse(DeleteFrom(r, n))
<1>1. CASE Found(r.services, n) = {}
  BY <1>1 DEF DeleteFrom
<1>2. CASE Found(r.services, n) # {}
  <2> DEFINE old == r.services
             pos == findServiceInSlice(old, n)
  <2>1. old \in Seq(Service) /\ Distinct(old)
    BY SeparateDistinct DEF Registry, Tidy
  <2>2. pos \in DOMAIN old /\ old[pos].id = n.id
    BY <1>2, <2>1, FoundPosition DEF Matches
  <2>3. DeleteFrom(r, n).services = Without(old, pos) /\ DeleteFrom(r, n).uniqueness = r.uniqueness \ {n.id}
    BY <1>2, DeleteResult
  <2> HIDE DEF pos
  <2>4. Entries(Without(old, pos)) = Entries(old) \ {old[pos]}
    BY <2>1, <2>2, WithoutEntries
  <2>5. \A x \in Entries(old) : x.id = n.id <=> x = old[pos]
    BY <2>2 DEF Tidy, Separate, Entries
  <2>6. IDs(Without(old, pos)) = IDs(old) \ {n.id}
    BY <2>4, <2>5, IDsOfEntries
  <2> QED
    BY <2>3, <2>6 DEF InUse
<1> QED
  BY <1>1, <1>2

-----------------------------------------------------------------------------
(* One ID in a server's lists: it is listed once at most, and only while it *)
(* is in use. What Add and Delete do to it.                                 *)
Once(r, id) ==
    /\ \A p, q \in DOMAIN r.services : r.services[p].id = id /\ r.services[q].id = id => p = q
    /\ id \in IDs(r.services) => id \in r.uniqueness

Same(r, q, id) ==
    /\ id \in IDs(q.services) <=> id \in IDs(r.services)
    /\ id \in q.uniqueness <=> id \in r.uniqueness
    /\ Once(r, id) => Once(q, id)

LEMMA AddParts ==
    ASSUME NEW r \in Registry, NEW s \in Service, s.id \notin r.uniqueness
    PROVE  LET old == r.services
               new == AddTo(r, s).services
           IN  /\ Len(old) \in Nat /\ DOMAIN old = 1 .. Len(old)
               /\ DOMAIN new = 1 .. Len(old) + 1
               /\ \A p \in 1 .. Len(old) : new[p] = old[p]
               /\ new[Len(old) + 1] = s
               /\ AddTo(r, s).uniqueness = r.uniqueness \cup {s.id}
<1>1. AddTo(r, s).services = Append(r.services, s) /\ AddTo(r, s).uniqueness = r.uniqueness \cup {s.id}
  BY DEF AddTo
<1> QED
  BY <1>1, AppendProperties DEF Registry

LEMMA OtherAdd ==
    ASSUME NEW r \in Registry, NEW s \in Service, NEW id, s.id # id
    PROVE  Same(r, AddTo(r, s), id)
<1>1. CASE s.id \in r.uniqueness
  BY <1>1 DEF AddTo, Same
<1>2. CASE s.id \notin r.uniqueness
  <2> DEFINE old == r.services
             q == AddTo(r, s)
             new == q.services
  <2>1. /\ Len(old) \in Nat /\ DOMAIN old = 1 .. Len(old)
        /\ DOMAIN new = 1 .. Len(old) + 1
        /\ \A p \in 1 .. Len(old) : new[p] = old[p]
        /\ new[Len(old) + 1] = s
        /\ q.uniqueness = r.uniqueness \cup {s.id}
    BY <1>2, AddParts
  <2> HIDE DEF q
  <2>2. \A p \in DOMAIN new : new[p].id = id <=> p \in DOMAIN old /\ old[p].id = id
    BY <2>1
  <2>3. \A p \in DOMAIN old : p \in DOMAIN new
    BY <2>1
  <2>4. id \in IDs(new) <=> id \in IDs(old)
    BY <2>2, <2>3 DEF IDs
  <2> QED
    BY <2>1, <2>2, <2>4 DEF Same, Once, q
<1> QED
  BY <1>1, <1>2

LEMMA OwnAdd ==
    ASSUME NEW r \in Registry, NEW s \in Service, Once(r, s.id)
    PROVE  /\ Once(AddTo(r, s), s.id)
           /\ s.id \in AddTo(r, s).uniqueness
           /\ s.id \in IDs(r.services) \/ s.id \notin r.uniqueness => s.id \in IDs(AddTo(r, s).services)
<1>1. CASE s.id \in r.uniqueness
  BY <1>1 DEF AddTo
<1>2. CASE s.id \notin r.uniqueness
  <2> DEFINE old == r.services
             q == AddTo(r, s)
             new == q.services
  <2>1. /\ Len(old) \in Nat /\ DOMAIN old = 1 .. Len(old)
        /\ DOMAIN new = 1 .. Len(old) + 1
        /\ \A p \in 1 .. Len(old) : new[p] = old[p]
        /\ new[Len(old) + 1] = s
        /\ q.uniqueness = r.uniqueness \cup {s.id}
    BY <1>2, AddParts
  <2>2. \A p \in DOMAIN old : old[p].id # s.id
    BY <1>2 DEF Once, IDs
  <2> HIDE DEF q
  <2>3. \A p \in DOMAIN new : new[p].id = s.id <=> p = Len(old) + 1
    BY <2>1, <2>2
  <2>4. s.id \in IDs(new)
    BY <2>1, <2>3 DEF IDs
  <2> QED
    BY <2>1, <2>3, <2>4 DEF Once, q
<1> QED
  BY <1>1, <1>2

LEMMA DeleteParts ==
    ASSUME NEW r \in Registry, NEW n \in Needle, Found(r.services, n) # {}
    PROVE  \E pos \in DOMAIN r.services :
               /\ Matches(n, r.services[pos])
               /\ DeleteFrom(r, n).services = Without(r.services, pos)
               /\ \/ DeleteFrom(r, n).uniqueness = r.uniqueness
                  \/ DeleteFrom(r, n).uniqueness = r.uniqueness \ {n.id}
<1> DEFINE pos == findServiceInSlice(r.services, n)
<1>1. pos \in DOMAIN r.services /\ Matches(n, r.services[pos])
  BY FoundPosition DEF Registry
<1>2. CASE Panics(r, n)
  BY <1>1, <1>2, DelistedType DEF DeleteFrom
<1>3. CASE ~Panics(r, n)
  BY <1>1, <1>3, DeleteResult
<1> QED
  BY <1>2, <1>3

LEMMA OtherDelete ==
    ASSUME NEW r \in Registry, NEW n \in Needle, NEW id, n.id # Nil, n.id # id
    PROVE  Same(r, DeleteFrom(r, n), id)
<1>1. CASE Found(r.services, n) = {}
  BY <1>1 DEF DeleteFrom, Same
<1>2. CASE Found(r.services, n) # {}
  <2> DEFINE old == r.services
             q == DeleteFrom(r, n)
             new == q.services
             Old(p, pos) == IF p < pos THEN p ELSE p + 1
             New(i, pos) == IF i < pos THEN i ELSE i - 1
  <2>1. PICK pos \in DOMAIN old :
               /\ Matches(n, old[pos])
               /\ new = Without(old, pos)
               /\ q.uniqueness = r.uniqueness \/ q.uniqueness = r.uniqueness \ {n.id}
    BY <1>2, DeleteParts
  <2>2. old[pos].id # id
    BY <2>1 DEF Matches
  <2>3. /\ Len(old) \in Nat /\ DOMAIN old = 1 .. Len(old)
        /\ DOMAIN new = 1 .. Len(old) - 1
        /\ \A p \in 1 .. Len(old) - 1 : new[p] = IF p < pos THEN old[p] ELSE old[p + 1]
    BY <2>1, WithoutProperties DEF Registry
  <2> HIDE DEF q
  <2>4. \A p \in DOMAIN new : Old(p, pos) \in DOMAIN old /\ new[p] = old[Old(p, pos)]
    BY <2>3
  <2>5. \A i \in DOMAIN old : i # pos => New(i, pos) \in DOMAIN new /\ new[New(i, pos)] = old[i]
    BY <2>3
  <2>6. \A p, k \in DOMAIN new : Old(p, pos) = Old(k, pos) => p = k
    BY <2>3
  <2> HIDE DEF Old, New
  <2>7. id \in IDs(new) <=> id \in IDs(old)
    BY <2>2, <2>4, <2>5 DEF IDs
  <2>8. id \in q.uniqueness <=> id \in r.uniqueness
    BY <2>1
  <2>9. Once(r, id) => Once(q, id)
    BY <2>4, <2>6, <2>7, <2>8 DEF Once
  <2> QED
    BY <2>7, <2>8, <2>9 DEF Same, q
<1> QED
  BY <1>1, <1>2

LEMMA OwnDelete ==
    ASSUME NEW r \in Registry, NEW n \in Needle, n.id # Nil, Once(r, n.id)
    PROVE  n.id \notin IDs(DeleteFrom(r, n).services) /\ Once(DeleteFrom(r, n), n.id)
<1> SUFFICES ASSUME n.id \in IDs(DeleteFrom(r, n).services) PROVE FALSE
  BY DEF Once, IDs
<1>1. CASE Found(r.services, n) = {}
  BY <1>1 DEF DeleteFrom, Found, Matches, IDs
<1>2. CASE Found(r.services, n) # {}
  <2> DEFINE old == r.services
             new == DeleteFrom(r, n).services
  <2>1. PICK pos \in DOMAIN old : Matches(n, old[pos]) /\ new = Without(old, pos)
    BY <1>2, DeleteParts
  <2>2. PICK p \in DOMAIN new : new[p].id = n.id
    BY DEF IDs
  <2>3. /\ Len(old) \in Nat /\ DOMAIN old = 1 .. Len(old)
        /\ DOMAIN new = 1 .. Len(old) - 1
        /\ \A k \in 1 .. Len(old) - 1 : new[k] = IF k < pos THEN old[k] ELSE old[k + 1]
    BY <2>1, WithoutProperties DEF Registry
  <2>4. PICK i \in DOMAIN old : i # pos /\ new[p] = old[i]
    BY <2>2, <2>3
  <2> QED
    BY <2>1, <2>2, <2>4 DEF Once, Matches
<1> QED
  BY <1>1, <1>2
=============================================================================
