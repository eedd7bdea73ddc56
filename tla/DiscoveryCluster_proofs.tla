----------------------- MODULE DiscoveryCluster_proofs -----------------------
(***************************************************************************)
(* Theorems about DiscoveryCluster, for any number of servers and bridges, *)
(* whatever requests fail, overtake each other and come twice: the types,  *)
(* what the servers know of a bridge that is there or gone, and that       *)
(* servers know each other.                                                *)
(***************************************************************************)
EXTENDS DiscoveryCluster, ServiceIndex_proofs

(* Who was found to be a stranger was found so by a server that serves.     *)
Strangers == \A n \in flight : n.stranger => phase[n.to] = "serving"

(* A session that was opened is with a server.                              *)
Homes == \A b \in Bridge : session[b] # "off" => home[b] \in Server

TypeInv == TypeOK /\ Strangers /\ Homes

LEMMA ServiceTypes ==
    \A b \in Bridge : ServiceOf[b] \in Service /\ ServiceOf[b] \in Needle /\ ServiceOf[b].id # Nil
BY DiscoveryClusterAssumption, ServiceIndexAssumption DEF Service, Needle

LEMMA HearOne ==
    ASSUME NEW listed \in [Server -> Seq(Server)], NEW p \in Server, NEW s \in Server
    PROVE  /\ Hear(p, s, listed) \in [Server -> Seq(Server)]
           /\ Entries(Hear(p, s, listed)[p]) = Entries(listed[p]) \cup {s}
           /\ \A q \in Server : q # p => Hear(p, s, listed)[q] = listed[q]
<1>1. CASE s \in Entries(listed[p])
  BY <1>1 DEF Hear
<1>2. CASE s \notin Entries(listed[p])
  <2> DEFINE old == listed[p]
             new == Append(old, s)
  <2>1. Hear(p, s, listed) = [listed EXCEPT ![p] = new]
    BY <1>2 DEF Hear
  <2>2. /\ old \in Seq(Server) /\ new \in Seq(Server)
        /\ Len(old) \in Nat /\ DOMAIN old = 1 .. Len(old) /\ DOMAIN new = 1 .. Len(old) + 1
        /\ \A i \in 1 .. Len(old) : new[i] = old[i]
        /\ new[Len(old) + 1] = s
    BY AppendProperties
  <2> HIDE DEF new
  <2>3. \A i \in DOMAIN new : (i \in DOMAIN old /\ new[i] = old[i]) \/ (i = Len(old) + 1 /\ new[i] = s)
    BY <2>2
  <2>4. Entries(new) = Entries(old) \cup {s}
    BY <2>2, <2>3 DEF Entries
  <2> QED
    BY <2>1, <2>2, <2>4
<1> QED
  BY <1>1, <1>2

LEMMA HearType ==
    ASSUME NEW listed \in [Server -> Seq(Server)], NEW p \in Server, NEW s \in Server
    PROVE  /\ Hear(p, s, listed) \in [Server -> Seq(Server)]
           /\ s \in Entries(Hear(p, s, listed)[p])
           /\ \A q \in Server : Entries(listed[q]) \subseteq Entries(Hear(p, s, listed)[q])
           /\ \A q \in Server \ {p} : Hear(p, s, listed)[q] = listed[q]
<1> DEFINE new == Hear(p, s, listed)
<1>1. /\ new \in [Server -> Seq(Server)]
      /\ Entries(new[p]) = Entries(listed[p]) \cup {s}
      /\ \A q \in Server : q # p => new[q] = listed[q]
  BY HearOne
<1> HIDE DEF new
<1>2. ASSUME NEW q \in Server PROVE Entries(listed[q]) \subseteq Entries(new[q])
  BY <1>1
<1> QED
  BY <1>1, <1>2 DEF new

LEMMA EntriesType ==
    ASSUME NEW S, NEW slice \in Seq(S)
    PROVE  Entries(slice) \subseteq S
BY ElementOfSeq DEF Entries

LEMMA NotifyType ==
    ASSUME TypeOK, NEW m \in News
    PROVE  /\ NotifyPeersServiceMutation(m) \in SUBSET Notification
           /\ \A n \in NotifyPeersServiceMutation(m) \ flight :
                 n.op = m.op /\ n.bridge = m.bridge /\ n.from = m.from /\ ~n.stranger
           /\ \A t \in Entries(peers[m.from]) : \E n \in NotifyPeersServiceMutation(m) :
                 n.op = m.op /\ n.bridge = m.bridge /\ n.to = t
           /\ flight \subseteq NotifyPeersServiceMutation(m)
<1> DEFINE New(i) == [op |-> m.op, bridge |-> m.bridge, from |-> m.from, to |-> peers[m.from][i], copy |-> i,
                      stranger |-> FALSE]
<1>0. m.op \in {"add", "delete"} /\ m.bridge \in Bridge /\ m.from \in Server
  BY DEF News
<1>1. NotifyPeersServiceMutation(m) = flight \cup {New(i) : i \in DOMAIN peers[m.from]}
  BY DEF NotifyPeersServiceMutation
<1>2. ASSUME NEW i \in DOMAIN peers[m.from] PROVE New(i) \in Notification /\ i \in Nat
  <2>1. peers[m.from] \in Seq(Server)
    BY <1>0 DEF TypeOK
  <2>2. peers[m.from][i] \in Server /\ i \in Nat
    BY <2>1, ElementOfSeq
  <2> QED
    BY <1>0, <2>2 DEF Notification
<1>3. flight \in SUBSET Notification
  BY DEF TypeOK
<1>4. \A i \in DOMAIN peers[m.from] : /\ New(i).op = m.op /\ New(i).bridge = m.bridge /\ New(i).from = m.from
                                       /\ New(i).to = peers[m.from][i] /\ New(i).stranger = FALSE
  OBVIOUS
<1> HIDE DEF New
<1> QED
  BY <1>1, <1>2, <1>3, <1>4 DEF Entries

(* A notification changes the lists of the server it is for.                *)
LEMMA ApplyType ==
    ASSUME TypeOK, NEW n \in flight, Apply(n)
    PROVE  /\ n \in Notification /\ reg' \in [Server -> Registry]
           /\ \A t \in Server : t # n.to => reg'[t] = reg[t]
           /\ n.op = "add" => reg'[n.to] = AddTo(reg[n.to], ServiceOf[n.bridge])
           /\ n.op = "delete" => reg'[n.to] = DeleteFrom(reg[n.to], ServiceOf[n.bridge])
<1>1. n \in Notification /\ reg \in [Server -> Registry]
  BY DEF TypeOK
<1>2. n.to \in Server /\ n.bridge \in Bridge /\ n.op \in {"add", "delete"}
  BY <1>1 DEF Notification
<1>3. /\ AddTo(reg[n.to], ServiceOf[n.bridge]) \in Registry
      /\ DeleteFrom(reg[n.to], ServiceOf[n.bridge]) \in Registry
  BY <1>1, <1>2, ServiceTypes, AddType, DeleteType
<1> QED
  BY <1>1, <1>2, <1>3 DEF Apply

LEMMA TypeInit == Init => TypeInv
<1> SUFFICES ASSUME Init PROVE TypeInv
  OBVIOUS
<1>1. reg \in [Server -> Registry]
  <2>1. NoService \in Registry
    BY DEF NoService, Registry
  <2> HIDE DEF NoService, Registry
  <2> QED
    BY <2>1 DEF Init
<1>2. phase \in [Server -> Phase]
  BY DEF Init, Phase
<1>3. todo \in [Server -> Seq(Server)] /\ peers \in [Server -> Seq(Server)]
  BY DiscoveryClusterAssumption DEF Init
<1>4. news \in SUBSET News /\ flight \in SUBSET Notification /\ Strangers
  BY DEF Init, Strangers
<1>5. /\ home \in [Bridge -> Server \cup {NoServer}]
      /\ session \in [Bridge -> {"off", "added", "closed"}]
      /\ told \in [Bridge -> SUBSET Server]
      /\ failed \in SUBSET Bridge /\ removed \in BOOLEAN /\ missed \in SUBSET Server
  BY DEF Init
<1> QED
  BY <1>1, <1>2, <1>3, <1>4, <1>5 DEF Init, TypeInv, TypeOK, Homes

(* A finite list has a last entry with a given property, if it has one.     *)
LEMMA LastExists ==
    ASSUME NEW n \in Nat, NEW S \in SUBSET (1 .. n), S # {}
    PROVE  \E last \in S : \A k \in S : k <= last
<1> DEFINE Back == {n - k : k \in S}
<1>1. Back \in SUBSET Nat /\ Back # {}
  <2>1. \A k \in S : n - k \in Nat
    OBVIOUS
  <2> QED
    BY <2>1
<1>2. PICK d \in Back : \A e \in Back : d <= e
  <2> HIDE DEF Back
  <2> QED
    BY <1>1, FirstExists
<1>3. PICK last \in S : d = n - last
  BY <1>2
<1>4. \A k \in S : n - last <= n - k
  BY <1>2, <1>3
<1> QED
  BY <1>4

LEMMA RemoveType ==
    ASSUME TypeOK, NEW s \in Server, NEW p \in Server, RemovePeer(s, p)
    PROVE  peers' \in [Server -> Seq(Server)]
<1> DEFINE old == peers[s]
           Here == {i \in DOMAIN old : old[i] = p}
<1>1. old \in Seq(Server) /\ Len(old) \in Nat /\ DOMAIN old = 1 .. Len(old) /\ peers \in [Server -> Seq(Server)]
  BY DEF TypeOK
<1>2. Here # {} /\ Here \in SUBSET (1 .. Len(old))
  BY <1>1 DEF RemovePeer, HasPeer, Entries
<1>3. \E last \in Here : \A k \in Here : k <= last
  <2> HIDE DEF Here
  <2> QED
    BY <1>1, <1>2, LastExists
<1> DEFINE last == CHOOSE i \in DOMAIN old : old[i] = p /\ \A k \in DOMAIN old : old[k] = p => k <= i
<1>4. last \in DOMAIN old
  BY <1>3
<1>5. peers' = [peers EXCEPT ![s] = Without(old, last)]
  BY <1>1 DEF RemovePeer
<1> HIDE DEF last
<1>6. Without(old, last) \in Seq(Server)
  BY <1>1, <1>4, WithoutProperties
<1> QED
  BY <1>1, <1>5, <1>6

(* What a server that starts does: nothing to a server that serves but to   *)
(* become its peer.                                                         *)
LEMMA StartUpType ==
    ASSUME TypeOK, NEW s \in Server, Join(s) \/ StartUp(s)
    PROVE  /\ phase' \in [Server -> Phase] /\ todo' \in [Server -> Seq(Server)]
           /\ peers' \in [Server -> Seq(Server)] /\ reg' \in [Server -> Registry]
           /\ \A t \in Server : phase[t] = "serving" => phase'[t] = "serving" /\ reg'[t] = reg[t]
           /\ \A t \in Server : Entries(peers[t]) \subseteq Entries(peers'[t])
           /\ \A t \in Server : reg'[t].uniqueness = reg[t].uniqueness
           /\ \A t \in Server : \E p \in Server : reg'[t].services = reg[p].services
           /\ missed' \in SUBSET Server
           /\ UNCHANGED <<bridgeVars, requests, history>>
<1>0. /\ missed \in SUBSET Server /\ phase \in [Server -> Phase] /\ todo \in [Server -> Seq(Server)]
      /\ peers \in [Server -> Seq(Server)] /\ reg \in [Server -> Registry]
  BY DEF TypeOK
<1>1. Named \in [Server -> Seq(Server)]
  BY DiscoveryClusterAssumption
<1>2. CASE Join(s)
  BY <1>0, <1>1, <1>2 DEF Join, Phase
<1>3. CASE Greet(s)
  <2> DEFINE p == Head(todo[s])
  <2>1. p \in Server /\ Tail(todo[s]) \in Seq(Server)
    BY <1>0, <1>3, HeadTailProperties DEF Greet
  <2>2. /\ peers' \in {peers, Hear(s, p, peers), Hear(p, s, Hear(s, p, peers))}
        /\ todo' = [todo EXCEPT ![s] = Tail(@)]
        /\ UNCHANGED <<phase, missed, reg, bridgeVars, requests, history>>
    BY <1>3 DEF Greet
  <2> HIDE DEF p
  <2>3. /\ Hear(s, p, peers) \in [Server -> Seq(Server)]
        /\ \A t \in Server : Entries(peers[t]) \subseteq Entries(Hear(s, p, peers)[t])
    BY <1>0, <2>1, HearType
  <2>4. /\ Hear(p, s, Hear(s, p, peers)) \in [Server -> Seq(Server)]
        /\ \A t \in Server : Entries(peers[t]) \subseteq Entries(Hear(p, s, Hear(s, p, peers))[t])
    BY <2>1, <2>3, HearType
  <2> QED
    BY <1>0, <2>1, <2>2, <2>3, <2>4
<1>4. CASE Greeted(s)
  BY <1>0, <1>1, <1>4 DEF Greeted, Phase
<1>a. ASSUME NEW p \in Server, Asks(s, p)
      PROVE  /\ peers' \in [Server -> Seq(Server)]
             /\ \A t \in Server : Entries(peers[t]) \subseteq Entries(peers'[t])
  BY <1>0, <1>a, HearType DEF Asks
<1>b. ASSUME NEW p \in Server, AskFails(s, p)
      PROVE  /\ peers' \in [Server -> Seq(Server)] /\ todo' \in [Server -> Seq(Server)]
             /\ \A t \in Server : Entries(peers[t]) \subseteq Entries(peers'[t])
  <2>1. Tail(todo[s]) \in Seq(Server) /\ todo' = [todo EXCEPT ![s] = Tail(@)]
    BY <1>0, <1>b, HeadTailProperties DEF AskFails
  <2> QED
    BY <1>0, <1>a, <1>b, <2>1 DEF AskFails
<1>5. CASE AskPeers(s)
  <2>0. phase[s] = "askPeers" /\ UNCHANGED <<reg, bridgeVars, requests, history>>
    BY <1>5 DEF AskPeers
  <2>1. ASSUME NEW p \in Server, Asks(s, p), todo' = [todo EXCEPT ![s] = peers'[p]],
               phase' = [phase EXCEPT ![s] = "greetMore"], missed' = missed
        PROVE  /\ phase' \in [Server -> Phase] /\ todo' \in [Server -> Seq(Server)]
               /\ peers' \in [Server -> Seq(Server)] /\ missed' \in SUBSET Server
               /\ \A t \in Server : phase[t] = "serving" => phase'[t] = "serving"
               /\ \A t \in Server : Entries(peers[t]) \subseteq Entries(peers'[t])
    BY <1>0, <1>a, <2>0, <2>1 DEF Phase
  <2>2. ASSUME NEW p \in Server, AskFails(s, p), missed' \in {missed, missed \cup {s}}, phase' = phase
        PROVE  /\ phase' \in [Server -> Phase] /\ todo' \in [Server -> Seq(Server)]
               /\ peers' \in [Server -> Seq(Server)] /\ missed' \in SUBSET Server
               /\ \A t \in Server : phase[t] = "serving" => phase'[t] = "serving"
               /\ \A t \in Server : Entries(peers[t]) \subseteq Entries(peers'[t])
    BY <1>0, <1>b, <2>2
  <2>3. ASSUME NobodyLeft(s), phase' = [phase EXCEPT ![s] = "greetMore"], missed' = missed
        PROVE  /\ phase' \in [Server -> Phase] /\ todo' \in [Server -> Seq(Server)]
               /\ peers' \in [Server -> Seq(Server)] /\ missed' \in SUBSET Server
               /\ \A t \in Server : phase[t] = "serving" => phase'[t] = "serving"
               /\ \A t \in Server : Entries(peers[t]) \subseteq Entries(peers'[t])
    BY <1>0, <2>0, <2>3 DEF Phase, NobodyLeft
  <2>4. /\ phase' \in [Server -> Phase] /\ todo' \in [Server -> Seq(Server)]
        /\ peers' \in [Server -> Seq(Server)] /\ missed' \in SUBSET Server
        /\ \A t \in Server : phase[t] = "serving" => phase'[t] = "serving"
        /\ \A t \in Server : Entries(peers[t]) \subseteq Entries(peers'[t])
    BY <1>5, <2>1, <2>2, <2>3 DEF AskPeers
  <2> QED
    BY <1>0, <2>0, <2>4
<1>6. CASE AskList(s)
  <2>0. phase[s] = "askList" /\ UNCHANGED <<missed, bridgeVars, requests, history>>
    BY <1>6 DEF AskList
  <2>1. ASSUME NEW p \in Server, Asks(s, p),
               reg' = [reg EXCEPT ![s].services = reg[p].services,
                                  ![s].indexByType = buildIndex(reg[p].services)],
               phase' = [phase EXCEPT ![s] = "listed"], todo' = [todo EXCEPT ![s] = <<>>]
        PROVE  /\ phase' \in [Server -> Phase] /\ todo' \in [Server -> Seq(Server)]
               /\ peers' \in [Server -> Seq(Server)] /\ reg' \in [Server -> Registry]
               /\ \A t \in Server : phase[t] = "serving" => phase'[t] = "serving" /\ reg'[t] = reg[t]
               /\ \A t \in Server : Entries(peers[t]) \subseteq Entries(peers'[t])
               /\ \A t \in Server : reg'[t].uniqueness = reg[t].uniqueness
               /\ \A t \in Server : \E q \in Server : reg'[t].services = reg[q].services
    <3>3. /\ peers' \in [Server -> Seq(Server)]
          /\ \A t \in Server : Entries(peers[t]) \subseteq Entries(peers'[t])
      BY <1>a, <2>1
    <3>4. /\ reg[p].services \in Seq(Service) /\ reg[s] \in Registry
          /\ buildIndex(reg[p].services) \in [Type -> Seq(Service)]
      <4>1. reg[p].services \in Seq(Service) /\ reg[s] \in Registry
        BY <1>0 DEF Registry
      <4> QED
        BY <4>1, BuildIndexType
    <3> DEFINE new == [reg[s] EXCEPT !.services = reg[p].services, !.indexByType = buildIndex(reg[p].services)]
    <3>5. /\ new \in Registry /\ new.uniqueness = reg[s].uniqueness /\ new.services = reg[p].services
      BY <3>4 DEF Registry
    <3>6. reg' = [reg EXCEPT ![s] = new]
      BY <1>0, <2>1
    <3> HIDE DEF new
    <3>7. reg' \in [Server -> Registry] /\ reg'[s] = new /\ \A t \in Server : t # s => reg'[t] = reg[t]
      BY <1>0, <3>5, <3>6
    <3>8. /\ phase' \in [Server -> Phase] /\ todo' \in [Server -> Seq(Server)]
          /\ \A t \in Server : phase[t] = "serving" => t # s /\ phase'[t] = "serving"
      BY <1>0, <2>0, <2>1 DEF Phase
    <3>9. \A t \in Server : reg'[t].uniqueness = reg[t].uniqueness
      BY <3>5, <3>7
    <3>10. \A t \in Server : \E q \in Server : reg'[t].services = reg[q].services
      BY <3>5, <3>7
    <3> QED
      BY <3>3, <3>7, <3>8, <3>9, <3>10
  <2>2. ASSUME NEW p \in Server, AskFails(s, p), UNCHANGED <<phase, reg>>
        PROVE  /\ peers' \in [Server -> Seq(Server)] /\ todo' \in [Server -> Seq(Server)]
               /\ \A t \in Server : Entries(peers[t]) \subseteq Entries(peers'[t])
    BY <1>b, <2>2
  <2>3. CASE NobodyLeft(s) /\ phase' = [phase EXCEPT ![s] = "listed"] /\ UNCHANGED reg
    BY <1>0, <2>0, <2>3 DEF Phase, NobodyLeft
  <2>4. CASE \E p \in Server : AskFails(s, p) /\ UNCHANGED <<phase, reg>>
    BY <1>0, <2>0, <2>2, <2>4
  <2>5. CASE \E p \in Server : /\ Asks(s, p)
                               /\ reg' = [reg EXCEPT ![s].services = reg[p].services,
                                                     ![s].indexByType = buildIndex(reg[p].services)]
                               /\ phase' = [phase EXCEPT ![s] = "listed"] /\ todo' = [todo EXCEPT ![s] = <<>>]
    BY <1>0, <2>0, <2>1, <2>5
  <2> QED
    BY <1>6, <2>3, <2>4, <2>5 DEF AskList
<1>7. CASE Start(s)
  BY <1>0, <1>7 DEF Start, Phase
<1> QED
  BY <1>2, <1>3, <1>4, <1>5, <1>6, <1>7 DEF StartUp

LEMMA TypeStep == TypeInv /\ [Next]_vars => TypeInv'
<1> SUFFICES ASSUME TypeInv, [Next]_vars PROVE TypeInv'
  OBVIOUS
<1>0. /\ TypeOK /\ Strangers /\ Homes
      /\ phase \in [Server -> Phase] /\ todo \in [Server -> Seq(Server)]
      /\ peers \in [Server -> Seq(Server)] /\ reg \in [Server -> Registry]
      /\ home \in [Bridge -> Server \cup {NoServer}]
      /\ session \in [Bridge -> {"off", "added", "closed"}]
      /\ flight \in SUBSET Notification /\ failed \in SUBSET Bridge
      /\ told \in [Bridge -> SUBSET Server] /\ removed \in BOOLEAN
      /\ news \in SUBSET News /\ missed \in SUBSET Server
  BY DEF TypeInv, TypeOK
<1>1. ASSUME NEW b \in Bridge, NEW s \in Server, Add(b, s)
      PROVE  TypeInv'
  <2>1. AddTo(reg[s], ServiceOf[b]) \in Registry
    BY <1>0, ServiceTypes, AddType
  <2>2. reg' \in [Server -> Registry]
    BY <1>0, <1>1, <2>1 DEF Add
  <2>3. news' \in SUBSET News
    BY <1>0, <1>1 DEF Add, News
  <2>4. TypeOK'
    BY <1>0, <1>1, <2>2, <2>3 DEF Add, TypeOK, serverVars, history
  <2>5. Strangers'
    BY <1>0, <1>1 DEF Add, Strangers, serverVars
  <2>6. Homes'
    BY <1>0, <1>1 DEF Add, Homes
  <2> QED
    BY <2>4, <2>5, <2>6 DEF TypeInv
<1>2. ASSUME NEW b \in Bridge, Close(b)
      PROVE  TypeInv'
  <2>0. home[b] \in Server
    BY <1>0, <1>2 DEF Close, Homes
  <2>1. DeleteFrom(reg[home[b]], ServiceOf[b]) \in Registry
    BY <1>0, <2>0, ServiceTypes, DeleteType
  <2>2. reg' \in [Server -> Registry]
    BY <1>0, <1>2, <2>0, <2>1 DEF Close
  <2>3. news' \in SUBSET News /\ failed' \in SUBSET Bridge
    BY <1>0, <1>2, <2>0 DEF Close, News
  <2>4. TypeOK'
    BY <1>0, <1>2, <2>2, <2>3 DEF Close, TypeOK, serverVars
  <2>5. Strangers'
    BY <1>0, <1>2 DEF Close, Strangers, serverVars
  <2>6. Homes'
    BY <1>0, <1>2 DEF Close, Homes
  <2> QED
    BY <2>4, <2>5, <2>6 DEF TypeInv
<1>a. ASSUME NEW m \in news, Announce(m)
      PROVE  TypeInv'
  <2>1. m \in News /\ m.from \in Server /\ m.bridge \in Bridge
    BY <1>0 DEF News
  <2>2. flight' \in SUBSET Notification /\ \A n \in flight' \ flight : ~n.stranger
    BY <1>0, <1>a, <2>1, NotifyType DEF Announce
  <2>3. Entries(peers[m.from]) \subseteq Server
    BY <1>0, <2>1, EntriesType
  <2>4. told' \in [Bridge -> SUBSET Server] /\ news' \in SUBSET News
    BY <1>0, <1>a, <2>1, <2>3 DEF Announce
  <2>5. TypeOK'
    BY <1>0, <1>a, <2>2, <2>4 DEF Announce, TypeOK, serverVars, bridgeVars
  <2>6. Strangers' /\ Homes'
    BY <1>0, <1>a, <2>2 DEF Announce, Strangers, Homes, serverVars, bridgeVars
  <2> QED
    BY <2>5, <2>6 DEF TypeInv
<1>3. ASSUME NEW n \in flight, Deliver(n)
      PROVE  TypeInv'
  <2>0. n \in Notification /\ n.to \in Server /\ n.from \in Server /\ n.bridge \in Bridge
    BY <1>0 DEF Notification
  <2>1. CASE Handle(n)
    <3>1. reg' \in [Server -> Registry]
      BY <1>0, <2>1, ApplyType DEF Handle
    <3>2. [n EXCEPT !.stranger = TRUE] \in Notification /\ [n EXCEPT !.stranger = TRUE].to = n.to
      BY <2>0 DEF Notification
    <3>3. flight' \in SUBSET Notification /\ phase' = phase /\ phase[n.to] = "serving"
          /\ \A m \in flight' : m \in flight \/ m = [n EXCEPT !.stranger = TRUE]
      BY <1>0, <2>1, <3>2 DEF Handle, serverVars
    <3>4. TypeOK'
      BY <1>0, <2>1, <3>1, <3>3 DEF Handle, TypeOK, serverVars, bridgeVars, history
    <3>5. Strangers'
      BY <1>0, <3>2, <3>3 DEF Strangers
    <3>6. Homes'
      BY <1>0, <2>1 DEF Handle, Homes, bridgeVars
    <3> QED
      BY <3>4, <3>5, <3>6 DEF TypeInv
  <2>2. CASE AppendPeer(n)
    <3>1. reg' \in [Server -> Registry]
      BY <1>0, <2>2, ApplyType DEF AppendPeer
    <3>2. peers' \in [Server -> Seq(Server)]
      <4>1. Append(peers[n.to], n.from) \in Seq(Server)
        BY <1>0, <2>0, AppendProperties
      <4> QED
        BY <1>0, <2>2, <4>1 DEF AppendPeer
    <3> QED
      BY <1>0, <2>2, <3>1, <3>2 DEF AppendPeer, TypeInv, TypeOK, Strangers, Homes, bridgeVars, history
  <2>3. CASE Fail(n)
    BY <1>0, <2>0, <2>3 DEF Fail, TypeInv, TypeOK, Strangers, Homes, serverVars, bridgeVars
  <2> QED
    BY <1>3, <2>1, <2>2, <2>3 DEF Deliver
<1>4. ASSUME NEW s \in Server, Join(s) \/ StartUp(s)
      PROVE  TypeInv'
  <2>1. TypeOK'
    BY <1>0, <1>4, StartUpType DEF TypeOK, bridgeVars, requests, history
  <2>2. flight' = flight /\ \A t \in Server : phase[t] = "serving" => phase'[t] = "serving"
    BY <1>0, <1>4, StartUpType DEF requests
  <2>3. \A n \in flight : n.to \in Server
    BY <1>0 DEF Notification
  <2> QED
    BY <1>0, <1>4, <2>1, <2>2, <2>3, StartUpType DEF TypeInv, Strangers, Homes, bridgeVars
<1>5. ASSUME NEW s \in Server, NEW p \in Server, RemovePeer(s, p)
      PROVE  TypeInv'
  <2>1. peers' \in [Server -> Seq(Server)]
    BY <1>0, <1>5, RemoveType
  <2> QED
    BY <1>0, <1>5, <2>1 DEF RemovePeer, TypeInv, TypeOK, Strangers, Homes, bridgeVars, requests
<1>6. CASE UNCHANGED vars
  BY <1>0, <1>6 DEF TypeInv, TypeOK, Strangers, Homes, vars, serverVars, bridgeVars, requests, history
<1> QED
  BY <1>1, <1>2, <1>a, <1>3, <1>4, <1>5, <1>6 DEF Next

(* Every variable has its type, with any number of servers that start, fail *)
(* to reach each other and lose their requests.                             *)
THEOREM ClusterTypes == Spec => []TypeOK
<1>1. TypeInv => TypeOK
  BY DEF TypeInv
<1> QED
  BY <1>1, TypeInit, TypeStep, PTL DEF Spec

-----------------------------------------------------------------------------
(* What is known of a bridge. Nobody has heard of it before it registers.   *)
(* As long as its additions have still to be told, only its server lists it *)
(* and has its ID in use. Those who were told of it serve, and list it once *)
(* at most; while it is there, only additions are on their way, and whoever *)
(* was told and has its ID in use lists it; when it is gone, only deletions *)
(* are.                                                                     *)
Id(b) == ServiceOf[b].id

Unheard(b) ==
    session[b] = "off" =>
        /\ \A t \in Server : ~Listed(t, b) /\ Id(b) \notin reg[t].uniqueness
        /\ ~Underway(b)
        /\ told[b] = {}

ToldOnce(b) == \A t \in told[b] : phase[t] = "serving" /\ Once(reg[t], Id(b))

Fresh(b) ==
    (\E m \in news : m.bridge = b /\ m.op = "add") =>
        /\ told[b] = {}
        /\ \A n \in flight : n.bridge # b
        /\ phase[home[b]] = "serving" /\ Listed(home[b], b) /\ Once(reg[home[b]], Id(b))
        /\ \A t \in Server \ {home[b]} : Id(b) \notin reg[t].uniqueness

Adding(b) ==
    session[b] = "added" =>
        /\ \A n \in news \cup flight : n.bridge = b => n.op = "add"
        /\ \A t \in told[b] : Id(b) \in reg[t].uniqueness => Listed(t, b)
        /\ home[b] \in told[b] => Listed(home[b], b)
        /\ \A t \in told[b] : Listed(t, b) \/ \E n \in flight : n.bridge = b /\ n.to = t

Gone(b) ==
    session[b] = "closed" =>
        /\ \A n \in news \cup flight : n.bridge = b => n.op = "delete"
        /\ \A t \in told[b] :
              Listed(t, b) =>
                 /\ t # home[b]
                 /\ (\E m \in news : m.bridge = b) \/ \E n \in flight : n.bridge = b /\ n.to = t

Known(b) == Unheard(b) /\ (b \notin failed => ToldOnce(b) /\ Fresh(b) /\ Adding(b) /\ Gone(b))

(* News come from the server the bridge has its session with.               *)
Sent == \A n \in news \cup flight : n.from = home[n.bridge]

NewsInv == Sent /\ \A b \in Bridge : Known(b)

(* The notifications of a bridge in G are those in F.                       *)
Within(F, G, b) ==
    \A n \in F : n.bridge = b => \E m \in G : m.bridge = b /\ m.op = n.op /\ m.to = n.to

(* The same of it has still to be announced.                                *)
AsBefore(b) == \A m : m.bridge = b => (m \in news' <=> m \in news)

(* A step that leaves a bridge, its news and what serving servers keep of   *)
(* it alone.                                                                *)
LEMMA Undisturbed ==
    ASSUME TypeInv, NEW b \in Bridge, Known(b),
           session'[b] = session[b], home'[b] = home[b], told'[b] = told[b],
           b \in failed => b \in failed', AsBefore(b),
           \A t \in Server : phase[t] = "serving" => phase'[t] = "serving",
           \A t \in Server : phase[t] = "serving" => Same(reg[t], reg'[t], Id(b)),
           \A t \in Server : Id(b) \in reg'[t].uniqueness => Id(b) \in reg[t].uniqueness,
           session[b] = "off" =>
               \A t \in Server : Id(b) \notin IDs(reg'[t].services) /\ Id(b) \notin reg'[t].uniqueness,
           Within(flight, flight', b), Within(flight', flight, b)
    PROVE  Known(b)'
<1>0. told[b] \subseteq Server
  BY DEF TypeInv, TypeOK
<1>a. \A m \in news' : m.bridge = b => m \in news
  BY DEF AsBefore
<1>b. \A m \in news : m.bridge = b => m \in news'
  BY DEF AsBefore
<1>c. \A n \in flight' : n.bridge = b => \E m \in flight : m.bridge = b /\ m.op = n.op
  BY DEF Within
<1>1. Unheard(b)'
  BY <1>a, <1>c DEF Known, Unheard, Underway, Listed, Id
<1> SUFFICES ASSUME b \notin failed' PROVE (ToldOnce(b) /\ Fresh(b) /\ Adding(b) /\ Gone(b))'
  BY <1>1 DEF Known
<1>2. b \notin failed /\ ToldOnce(b) /\ Fresh(b) /\ Adding(b) /\ Gone(b)
  BY DEF Known
<1>3. \A t \in told[b] : t \in Server /\ phase[t] = "serving" /\ Same(reg[t], reg'[t], Id(b))
  BY <1>0, <1>2 DEF ToldOnce
<1>4. ToldOnce(b)'
  BY <1>2, <1>3 DEF ToldOnce, Same, Id
<1>5. \A t \in told[b] : Listed(t, b)' <=> Listed(t, b)
  BY <1>3 DEF Same, Listed, Id
<1>6. \A t \in told[b] : Id(b) \in reg'[t].uniqueness <=> Id(b) \in reg[t].uniqueness
  BY <1>3 DEF Same
<1>7. \A t : (\E n \in flight' : n.bridge = b /\ n.to = t) <=> (\E n \in flight : n.bridge = b /\ n.to = t)
  BY DEF Within
<1>8. Fresh(b)'
  <2> SUFFICES ASSUME NEW m \in news', m.bridge = b, m.op = "add"
               PROVE  /\ told'[b] = {}
                      /\ \A n \in flight' : n.bridge # b
                      /\ phase'[home'[b]] = "serving" /\ Listed(home[b], b)' /\ Once(reg[home[b]], Id(b))'
                      /\ \A t \in Server \ {home'[b]} : Id(b) \notin reg'[t].uniqueness
    BY DEF Fresh, Listed, Id
  <2>1. /\ told[b] = {} /\ \A n \in flight : n.bridge # b
        /\ phase[home[b]] = "serving" /\ Listed(home[b], b) /\ Once(reg[home[b]], Id(b))
        /\ \A t \in Server \ {home[b]} : Id(b) \notin reg[t].uniqueness
    BY <1>2, <1>a DEF Fresh
  <2>2. home[b] \in Server
    <3>1. session[b] # "off"
      BY <1>a DEF Known, Unheard, Underway
    <3> QED
      BY <3>1 DEF TypeInv, Homes
  <2>3. Same(reg[home[b]], reg'[home[b]], Id(b)) /\ phase'[home[b]] = "serving"
    BY <2>1, <2>2
  <2>4. Listed(home[b], b)' /\ Once(reg[home[b]], Id(b))'
    BY <2>1, <2>3 DEF Same, Listed, Id
  <2> QED
    BY <1>c, <2>1, <2>3, <2>4
<1>9. Adding(b)'
  <2> SUFFICES ASSUME session'[b] = "added"
               PROVE  /\ \A n \in news' \cup flight' : n.bridge = b => n.op = "add"
                      /\ \A t \in told'[b] : Id(b) \in reg'[t].uniqueness => Listed(t, b)'
                      /\ home'[b] \in told'[b] => Listed(home[b], b)'
                      /\ \A t \in told'[b] : Listed(t, b)' \/ \E n \in flight' : n.bridge = b /\ n.to = t
    BY DEF Adding, Listed, Id
  <2> QED
    BY <1>2, <1>5, <1>6, <1>7, <1>a, <1>c DEF Adding
<1>10. Gone(b)'
  <2> SUFFICES ASSUME session'[b] = "closed"
               PROVE  /\ \A n \in news' \cup flight' : n.bridge = b => n.op = "delete"
                      /\ \A t \in told'[b] :
                            Listed(t, b)' =>
                               /\ t # home'[b]
                               /\ (\E m \in news' : m.bridge = b) \/ \E n \in flight' : n.bridge = b /\ n.to = t
    BY DEF Gone, Listed, Id
  <2> QED
    BY <1>2, <1>5, <1>7, <1>a, <1>b, <1>c DEF Gone
<1> QED
  BY <1>4, <1>8, <1>9, <1>10

LEMMA OneBridgeEach == \A b, c \in Bridge : b # c => Id(b) # Id(c)
BY DiscoveryClusterAssumption DEF Id

LEMMA SameItself == \A r, id : Same(r, r, id)
BY DEF Same

LEMMA SameOff ==
    ASSUME NEW b \in Bridge, Unheard(b), session[b] = "off", \A t \in Server : Same(reg[t], reg'[t], Id(b))
    PROVE  \A t \in Server : Id(b) \notin IDs(reg'[t].services) /\ Id(b) \notin reg'[t].uniqueness
BY DEF Unheard, Same, Listed, Id

(* A bridge registers. Nobody has heard of it, nor has its ID in use.       *)
LEMMA AddNews ==
    ASSUME TypeInv, NewsInv, NEW b \in Bridge, NEW s \in Server, Add(b, s), NEW c \in Bridge
    PROVE  Known(c)'
<1> DEFINE new == AddTo(reg[s], ServiceOf[b])
           mine == [op |-> "add", bridge |-> b, from |-> s]
<1>0. /\ TypeOK /\ reg \in [Server -> Registry] /\ Known(b) /\ Known(c)
      /\ reg[s] \in Registry /\ ServiceOf[b] \in Service
      /\ home \in [Bridge -> Server \cup {NoServer}] /\ session \in [Bridge -> {"off", "added", "closed"}]
      /\ told \in [Bridge -> SUBSET Server]
  BY ServiceTypes DEF TypeInv, TypeOK, NewsInv
<1>1. /\ session[b] = "off" /\ phase[s] = "serving" /\ phase' = phase
      /\ reg' = [reg EXCEPT ![s] = new]
      /\ home' = [home EXCEPT ![b] = s] /\ session' = [session EXCEPT ![b] = "added"]
      /\ news' = news \cup {mine} /\ flight' = flight /\ told' = told /\ failed' = failed
  BY DEF Add, serverVars, history
<1>2. mine.bridge = b /\ mine.op = "add"
  OBVIOUS
<1> HIDE DEF new, mine
<1>3. reg'[s] = new /\ \A t \in Server : t # s => reg'[t] = reg[t]
  BY <1>0, <1>1
<1>4. CASE c # b
  <2>1. \A t \in Server : Same(reg[t], reg'[t], Id(c))
    <3>1. Same(reg[s], new, Id(c))
      <4>1. ServiceOf[b].id # Id(c)
        BY <1>4, OneBridgeEach DEF Id
      <4> QED
        BY <1>0, <4>1, OtherAdd DEF new
    <3> QED
      BY <1>3, <3>1, SameItself
  <2>2. Within(flight, flight', c) /\ Within(flight', flight, c) /\ AsBefore(c)
    BY <1>1, <1>2, <1>4 DEF Within, AsBefore
  <2>3. session[c] = "off" =>
           \A t \in Server : Id(c) \notin IDs(reg'[t].services) /\ Id(c) \notin reg'[t].uniqueness
    BY <1>0, <2>1, SameOff DEF Known
  <2>4. session'[c] = session[c] /\ home'[c] = home[c] /\ told'[c] = told[c]
    BY <1>0, <1>1, <1>4
  <2>5. \A t \in Server : Id(c) \in reg'[t].uniqueness => Id(c) \in reg[t].uniqueness
    BY <2>1 DEF Same
  <2> QED
    BY <1>0, <1>1, <2>1, <2>2, <2>3, <2>4, <2>5, Undisturbed
<1>5. CASE c = b
  <2>1. /\ \A t \in Server : ~Listed(t, b) /\ Id(b) \notin reg[t].uniqueness
        /\ \A n \in news \cup flight : n.bridge # b
        /\ told[b] = {}
    BY <1>0, <1>1 DEF Known, Unheard, Underway
  <2>2. Once(reg[s], Id(b))
    BY <2>1 DEF Once, Listed, IDs, Id
  <2>3. Once(new, Id(b)) /\ Id(b) \in IDs(new.services)
    BY <1>0, <2>1, <2>2, OwnAdd DEF new, Id
  <2>4. session'[b] = "added" /\ home'[b] = s /\ told'[b] = {}
    BY <1>0, <1>1, <2>1
  <2>5. ToldOnce(b)' /\ Gone(b)' /\ Unheard(b)'
    BY <2>4 DEF ToldOnce, Gone, Unheard
  <2>6. Adding(b)'
    BY <1>1, <1>2, <2>1, <2>4 DEF Adding
  <2>7. Listed(home[b], b)' /\ Once(reg[home[b]], Id(b))'
    BY <1>3, <2>3, <2>4 DEF Listed, Id
  <2>8. \A t \in Server \ {s} : Id(b) \notin reg'[t].uniqueness
    BY <1>3, <2>1
  <2>9. Fresh(b)'
    <3>1. phase'[home'[b]] = "serving" /\ \A n \in flight' : n.bridge # b
      BY <1>1, <2>1, <2>4
    <3> QED
      BY <2>4, <2>7, <2>8, <3>1 DEF Fresh, Id
  <2> QED
    BY <1>5, <2>5, <2>6, <2>9 DEF Known
<1> QED
  BY <1>4, <1>5

(* A session ends. If all its additions have arrived, only its deletion is  *)
(* to be told now.                                                          *)
LEMMA CloseNews ==
    ASSUME TypeInv, NewsInv, NEW b \in Bridge, Close(b), NEW c \in Bridge
    PROVE  Known(c)'
<1> DEFINE s == home[b]
           new == DeleteFrom(reg[s], ServiceOf[b])
           mine == [op |-> "delete", bridge |-> b, from |-> s]
<1>0. /\ TypeOK /\ reg \in [Server -> Registry] /\ Known(b) /\ Known(c)
      /\ ServiceOf[b] \in Needle /\ Id(b) # Nil
      /\ home \in [Bridge -> Server \cup {NoServer}] /\ session \in [Bridge -> {"off", "added", "closed"}]
      /\ told \in [Bridge -> SUBSET Server]
  BY ServiceTypes DEF TypeInv, TypeOK, NewsInv, Id
<1>1. /\ session[b] = "added" /\ phase' = phase
      /\ reg' = [reg EXCEPT ![s] = new]
      /\ home' = home /\ session' = [session EXCEPT ![b] = "closed"]
      /\ news' = news \cup {mine} /\ flight' = flight /\ told' = told
      /\ failed' = IF Underway(b) THEN failed \cup {b} ELSE failed
  BY DEF Close, serverVars
<1>2. s \in Server /\ reg[s] \in Registry
  BY <1>0, <1>1 DEF TypeInv, Homes
<1>3. mine.bridge = b /\ mine.op = "delete"
  OBVIOUS
<1> HIDE DEF new, mine
<1>4. reg'[s] = new /\ \A t \in Server : t # s => reg'[t] = reg[t]
  BY <1>0, <1>1, <1>2
<1>5. CASE c # b
  <2>1. \A t \in Server : Same(reg[t], reg'[t], Id(c))
    <3>1. Same(reg[s], new, Id(c))
      <4>1. ServiceOf[b].id # Id(c) /\ ServiceOf[b].id # Nil
        BY <1>0, <1>5, OneBridgeEach DEF Id
      <4> QED
        BY <1>0, <1>2, <4>1, OtherDelete DEF new
    <3> QED
      BY <1>4, <3>1, SameItself
  <2>2. Within(flight, flight', c) /\ Within(flight', flight, c) /\ AsBefore(c)
    BY <1>1, <1>3, <1>5 DEF Within, AsBefore
  <2>3. session[c] = "off" =>
           \A t \in Server : Id(c) \notin IDs(reg'[t].services) /\ Id(c) \notin reg'[t].uniqueness
    BY <1>0, <2>1, SameOff DEF Known
  <2>4. session'[c] = session[c] /\ home'[c] = home[c] /\ told'[c] = told[c] /\ (c \in failed => c \in failed')
    BY <1>0, <1>1, <1>5
  <2>5. \A t \in Server : Id(c) \in reg'[t].uniqueness => Id(c) \in reg[t].uniqueness
    BY <2>1 DEF Same
  <2> QED
    BY <1>0, <1>1, <2>1, <2>2, <2>3, <2>4, <2>5, Undisturbed
<1>6. CASE c = b
  <2>0. session'[b] = "closed" /\ home'[b] = s /\ told'[b] = told[b]
    BY <1>0, <1>1
  <2>1. Unheard(b)' /\ Adding(b)'
    BY <2>0 DEF Unheard, Adding
  <2> SUFFICES ASSUME b \notin failed' PROVE ToldOnce(b)' /\ Fresh(b)' /\ Gone(b)'
    BY <1>6, <2>1 DEF Known
  <2>2. /\ b \notin failed /\ (\A n \in news \cup flight : n.bridge # b) /\ ToldOnce(b) /\ Adding(b)
        /\ told[b] \subseteq Server
    BY <1>0, <1>1 DEF Known, Underway
  <2>3. Once(reg[s], Id(b)) => Id(b) \notin IDs(new.services) /\ Once(new, Id(b))
    BY <1>0, <1>2, OwnDelete DEF new, Id
  <2>4. ToldOnce(b)'
    BY <1>1, <1>2, <1>4, <2>0, <2>2, <2>3 DEF ToldOnce, Id
  <2>5. Fresh(b)'
    BY <1>1, <1>3, <2>2 DEF Fresh
  <2>6. s \in told[b] => ~Listed(s, b)'
    BY <1>4, <2>0, <2>2, <2>3 DEF ToldOnce, Listed, Id
  <2>7. Gone(b)'
    <3>1. mine \in news' /\ \A n \in news' \cup flight' : n.bridge = b => n.op = "delete"
      BY <1>1, <1>3, <2>2
    <3> QED
      BY <1>3, <2>0, <2>6, <3>1 DEF Gone, Listed
  <2> QED
    BY <2>4, <2>5, <2>7
<1> QED
  BY <1>5, <1>6

(* The goroutine reads the peers: those that serve and do not list the      *)
(* bridge list it once at most, whatever becomes of its addition.           *)
LEMMA AnnounceNews ==
    ASSUME TypeInv, NewsInv, NEW m \in news, Announce(m), NEW c \in Bridge
    PROVE  Known(c)'
<1> DEFINE b == m.bridge
<1>0. /\ TypeOK /\ m \in News /\ Known(c) /\ m.from = home[b]
      /\ told \in [Bridge -> SUBSET Server] /\ peers \in [Server -> Seq(Server)]
      /\ session \in [Bridge -> {"off", "added", "closed"}] /\ news \subseteq News
  BY DEF TypeInv, TypeOK, NewsInv, Sent
<1>1. b \in Bridge /\ m.from \in Server /\ m.op \in {"add", "delete"}
  BY <1>0 DEF News
<1>2. /\ session' = session /\ home' = home /\ reg' = reg /\ phase' = phase /\ failed' = failed
      /\ news' = news \ {m}
      /\ told' = [told EXCEPT ![b] = IF m.op = "add" THEN {t \in Entries(peers[m.from]) : Awaits(t, m)}
                                     ELSE @ \cap Entries(peers[m.from])]
      /\ flight' = NotifyPeersServiceMutation(m)
  BY DEF Announce, serverVars, bridgeVars
<1>3. /\ \A n \in flight' \ flight : n.op = m.op /\ n.bridge = b
      /\ \A t \in Entries(peers[m.from]) : \E n \in flight' : n.bridge = b /\ n.to = t
      /\ flight \subseteq flight'
  <2>1. TypeOK /\ m \in News /\ flight' = NotifyPeersServiceMutation(m)
    BY <1>0, <1>2
  <2> QED
    BY <2>1, NotifyType
<1>4. CASE c # b
  <2>1. Within(flight, flight', c) /\ Within(flight', flight, c) /\ AsBefore(c)
    BY <1>2, <1>3, <1>4 DEF Within, AsBefore
  <2>2. session[c] = "off" =>
           \A t \in Server : Id(c) \notin IDs(reg'[t].services) /\ Id(c) \notin reg'[t].uniqueness
    BY <1>0, <1>2 DEF Known, Unheard, Listed, Id
  <2>3. told'[c] = told[c]
    BY <1>0, <1>1, <1>2, <1>4
  <2> QED
    BY <1>0, <1>2, <2>1, <2>2, <2>3, SameItself, Undisturbed
<1>5. CASE c = b
  <2>0. Known(b)
    BY <1>0, <1>5
  <2>1. session[b] # "off"
    BY <2>0 DEF Known, Unheard, Underway
  <2>2. Unheard(b)'
    BY <1>2, <2>1 DEF Unheard
  <2> SUFFICES ASSUME b \notin failed PROVE ToldOnce(b)' /\ Fresh(b)' /\ Adding(b)' /\ Gone(b)'
    BY <1>2, <1>5, <2>2 DEF Known
  <2>3. ToldOnce(b) /\ Fresh(b) /\ Adding(b) /\ Gone(b)
    BY <2>0 DEF Known
  <2>4. Entries(peers[m.from]) \subseteq Server
    BY <1>0, <1>1, EntriesType
  <2>5. \A n \in news' \cup flight' : n \in news \cup flight \/ n.op = m.op
    BY <1>2, <1>3
  <2>6. CASE m.op = "add"
    <3>1. session[b] = "added"
      BY <1>0, <1>1, <2>1, <2>3, <2>6 DEF Gone
    <3>2. /\ phase[home[b]] = "serving" /\ Listed(home[b], b) /\ Once(reg[home[b]], Id(b))
          /\ \A t \in Server \ {home[b]} : Id(b) \notin reg[t].uniqueness
      BY <2>3, <2>6 DEF Fresh
    <3>3. told'[b] = {t \in Entries(peers[m.from]) : phase[t] = "serving" /\ (t = home[b] \/ ~Listed(t, b))}
      BY <1>0, <1>1, <1>2, <2>6 DEF Awaits
    <3>4. \A t : ~Listed(t, b) => Once(reg[t], Id(b))
      BY DEF Once, Listed, IDs, Id
    <3>5. ToldOnce(b)'
      BY <1>2, <3>2, <3>3, <3>4 DEF ToldOnce, Id
    <3>6. Adding(b)'
      <4> SUFFICES /\ \A n \in news' \cup flight' : n.bridge = b => n.op = "add"
                   /\ \A t \in told'[b] : Id(b) \in reg[t].uniqueness => Listed(t, b)
                   /\ home[b] \in told'[b] => Listed(home[b], b)
                   /\ \A t \in told'[b] : Listed(t, b) \/ \E n \in flight' : n.bridge = b /\ n.to = t
        BY <1>2 DEF Adding, Listed, Id
      <4>1. \A n \in news' \cup flight' : n.bridge = b => n.op = "add"
        BY <2>3, <2>5, <2>6, <3>1 DEF Adding
      <4> QED
        BY <1>3, <2>4, <3>2, <3>3, <4>1
    <3>7. Fresh(b)'
      <4>1. ASSUME NEW n \in news', n.bridge = b, n.op = "add" PROVE FALSE
        <5>1. n \in News /\ m \in News /\ n # m
          BY <1>0, <1>2, <4>1
        <5>2. n.from = m.from /\ n.op = m.op /\ n.bridge = m.bridge
          BY <1>0, <1>2, <2>6, <4>1 DEF NewsInv, Sent
        <5> QED
          BY <5>1, <5>2 DEF News
      <4> QED
        BY <4>1 DEF Fresh
    <3> QED
      BY <1>2, <3>1, <3>5, <3>6, <3>7 DEF Gone
  <2>7. CASE m.op = "delete"
    <3>1. session[b] = "closed"
      BY <1>0, <1>1, <2>1, <2>3, <2>7 DEF Adding
    <3>2. told'[b] = told[b] \cap Entries(peers[m.from])
      BY <1>0, <1>1, <1>2, <2>7
    <3>3. ToldOnce(b)'
      BY <1>2, <2>3, <3>2 DEF ToldOnce, Id
    <3>4. \A n \in news' \cup flight' : n.bridge = b => n.op = "delete"
      BY <2>3, <2>5, <2>7, <3>1 DEF Gone
    <3>5. Fresh(b)'
      BY <3>4 DEF Fresh
    <3>6. Gone(b)'
      <4> SUFFICES \A t \in told'[b] : Listed(t, b) => t # home[b] /\ \E n \in flight' : n.bridge = b /\ n.to = t
        BY <1>2, <3>4 DEF Gone, Listed
      <4> QED
        BY <1>3, <2>3, <3>1, <3>2 DEF Gone
    <3> QED
      BY <1>2, <3>1, <3>3, <3>5, <3>6 DEF Adding
  <2> QED
    BY <1>1, <2>6, <2>7
<1> QED
  BY <1>4, <1>5

(* A notification is handled: the server lists the bridge from now on, or   *)
(* does not list it any more, unless that was so before.                    *)
LEMMA ApplyNews ==
    ASSUME TypeInv, NewsInv, NEW n \in flight, Apply(n), flight' = flight \ {n}, news' = news,
           phase' = phase, UNCHANGED bridgeVars, UNCHANGED history, NEW c \in Bridge
    PROVE  Known(c)'
<1> DEFINE b == n.bridge
           s == n.to
<1>0. /\ TypeOK /\ n \in Notification /\ reg \in [Server -> Registry] /\ Known(c)
      /\ told \in [Bridge -> SUBSET Server]
      /\ session \in [Bridge -> {"off", "added", "closed"}]
  BY DEF TypeInv, TypeOK, NewsInv
<1>1. b \in Bridge /\ s \in Server /\ n.op \in {"add", "delete"} /\ reg[s] \in Registry
  BY <1>0 DEF Notification
<1>2. /\ \A t \in Server : t # s => reg'[t] = reg[t]
      /\ n.op = "add" => reg'[s] = AddTo(reg[s], ServiceOf[b])
      /\ n.op = "delete" => reg'[s] = DeleteFrom(reg[s], ServiceOf[b])
  BY <1>0, ApplyType
<1>3. session' = session /\ home' = home /\ told' = told /\ failed' = failed
  BY DEF bridgeVars, history
<1>4. ServiceOf[b] \in Service /\ ServiceOf[b] \in Needle /\ Id(b) # Nil /\ Id(b) = ServiceOf[b].id
  BY <1>1, ServiceTypes DEF Id
<1> HIDE DEF b, s
<1>5. CASE c # b
  <2>1. \A t \in Server : Same(reg[t], reg'[t], Id(c))
    <3>1. Id(b) # Id(c)
      BY <1>1, <1>5, OneBridgeEach
    <3>2. Same(reg[s], reg'[s], Id(c))
      BY <1>1, <1>2, <1>4, <3>1, OtherAdd, OtherDelete
    <3> QED
      BY <1>2, <3>2, SameItself
  <2>2. Within(flight, flight', c) /\ Within(flight', flight, c) /\ AsBefore(c)
    BY <1>5 DEF Within, AsBefore, b
  <2>3. session[c] = "off" =>
           \A t \in Server : Id(c) \notin IDs(reg'[t].services) /\ Id(c) \notin reg'[t].uniqueness
    BY <1>0, <2>1, SameOff DEF Known
  <2>4. \A t \in Server : Id(c) \in reg'[t].uniqueness => Id(c) \in reg[t].uniqueness
    BY <2>1 DEF Same
  <2> QED
    BY <1>0, <1>3, <2>1, <2>2, <2>3, <2>4, Undisturbed
<1>6. CASE c = b
  <2>1. session[b] # "off" /\ told[b] \subseteq Server
    BY <1>0, <1>1, <1>6 DEF Known, Unheard, Underway, b
  <2>a. Unheard(b)'
    BY <1>3, <2>1 DEF Unheard
  <2> SUFFICES ASSUME b \notin failed PROVE ToldOnce(b)' /\ Fresh(b)' /\ Adding(b)' /\ Gone(b)'
    BY <1>3, <1>6, <2>a DEF Known
  <2>b. ToldOnce(b) /\ Fresh(b) /\ Adding(b) /\ Gone(b)
    BY <1>0, <1>6 DEF Known
  <2>2. s \in told[b] => Once(reg[s], Id(b))
    BY <2>b DEF ToldOnce
  <2>3. s \in told[b] => Once(reg'[s], Id(b))
    BY <1>1, <1>2, <1>4, <2>2, OwnAdd, OwnDelete
  <2>4. ToldOnce(b)'
    BY <1>2, <1>3, <2>1, <2>3, <2>b DEF ToldOnce, Id
  <2>5. \A t : t # s /\ (\E m \in flight : m.bridge = b /\ m.to = t) =>
               \E m \in flight' : m.bridge = b /\ m.to = t
    BY DEF s
  <2>6. \A m \in news' \cup flight' : m \in news \cup flight
    OBVIOUS
  <2>c. Fresh(b)'
    BY <2>b DEF Fresh, b
  <2>7. Adding(b)'
    <3> SUFFICES ASSUME session[b] = "added"
                 PROVE  /\ \A m \in news' \cup flight' : m.bridge = b => m.op = "add"
                        /\ \A t \in told[b] : Id(b) \in reg'[t].uniqueness => Listed(t, b)'
                        /\ home[b] \in told[b] => Listed(home[b], b)'
                        /\ \A t \in told[b] : Listed(t, b)' \/ \E m \in flight' : m.bridge = b /\ m.to = t
      BY <1>3 DEF Adding, Listed, Id
    <3>2. n.op = "add"
      BY <2>b DEF Adding, b
    <3>3. s \in told[b] => Listed(s, b)'
      <4>1. s \in told[b] => Listed(s, b) \/ Id(b) \notin reg[s].uniqueness
        BY <2>b DEF Adding
      <4> QED
        BY <1>1, <1>2, <1>4, <2>2, <3>2, <4>1, OwnAdd DEF Listed
    <3>4. \A t \in told[b] : t # s => (Listed(t, b)' <=> Listed(t, b)) /\ reg'[t] = reg[t]
      BY <1>2, <2>1 DEF Listed
    <3>5. \A m \in news' \cup flight' : m.bridge = b => m.op = "add"
      BY <2>6, <2>b DEF Adding
    <3>6. \A t \in told[b] : Id(b) \in reg'[t].uniqueness => Listed(t, b)'
      BY <2>b, <3>3, <3>4 DEF Adding
    <3>7. home[b] \in told[b] => Id(b) \in IDs(reg'[home[b]].services)
      BY <2>b, <3>3, <3>4 DEF Adding, Listed, Id
    <3>8. \A t \in told[b] : Listed(t, b)' \/ \E m \in flight' : m.bridge = b /\ m.to = t
      BY <2>5, <2>b, <3>3, <3>4 DEF Adding
    <3> QED
      BY <1>3, <3>5, <3>6, <3>7, <3>8 DEF Listed, Id
  <2>8. Gone(b)'
    <3> SUFFICES ASSUME session[b] = "closed"
                 PROVE  /\ \A m \in news' \cup flight' : m.bridge = b => m.op = "delete"
                        /\ \A t \in told[b] :
                              Listed(t, b)' =>
                                 /\ t # home[b]
                                 /\ (\E m \in news' : m.bridge = b) \/ \E m \in flight' : m.bridge = b /\ m.to = t
      BY <1>3 DEF Gone, Listed, Id
    <3>2. n.op = "delete"
      BY <2>b DEF Gone, b
    <3>3. s \in told[b] => ~Listed(s, b)'
      BY <1>1, <1>2, <1>4, <2>2, <3>2, OwnDelete DEF Listed
    <3>4. \A t \in told[b] : t # s => (Listed(t, b)' <=> Listed(t, b))
      BY <1>2, <2>1 DEF Listed
    <3> QED
      BY <2>5, <2>6, <2>b, <3>3, <3>4 DEF Gone
  <2> QED
    BY <2>4, <2>7, <2>8, <2>c
<1> QED
  BY <1>5, <1>6

(* A notification fails. A server that tells itself knows already.          *)
LEMMA FailNews ==
    ASSUME TypeInv, NewsInv, NEW n \in flight, Fail(n), NEW c \in Bridge
    PROVE  Known(c)'
<1>0. /\ TypeOK /\ n \in Notification /\ Known(c) /\ n.from = home[n.bridge]
      /\ told \in [Bridge -> SUBSET Server]
  BY DEF TypeInv, TypeOK, NewsInv, Sent
<1>1. /\ flight' = flight \ {n} /\ news' = news
      /\ failed' = IF n.to = n.from THEN failed ELSE failed \cup {n.bridge}
      /\ session' = session /\ home' = home /\ told' = told /\ reg' = reg /\ phase' = phase
  BY DEF Fail, serverVars, bridgeVars
<1>2. CASE c # n.bridge
  <2>1. Within(flight, flight', c) /\ Within(flight', flight, c) /\ AsBefore(c)
    BY <1>1, <1>2 DEF Within, AsBefore
  <2>2. session[c] = "off" =>
           \A t \in Server : Id(c) \notin IDs(reg'[t].services) /\ Id(c) \notin reg'[t].uniqueness
    BY <1>0, <1>1 DEF Known, Unheard, Listed, Id
  <2>3. c \in failed => c \in failed'
    BY <1>1
  <2> QED
    BY <1>0, <1>1, <2>1, <2>2, <2>3, SameItself, Undisturbed
<1>3. CASE c = n.bridge
  <2>1. session[c] # "off"
    BY <1>0, <1>3 DEF Known, Unheard, Underway
  <2>2. Unheard(c)'
    BY <1>1, <2>1 DEF Unheard
  <2> SUFFICES ASSUME c \notin failed' PROVE ToldOnce(c)' /\ Fresh(c)' /\ Adding(c)' /\ Gone(c)'
    BY <2>2 DEF Known
  <2>3. n.to = home[c] /\ c \notin failed /\ ToldOnce(c) /\ Fresh(c) /\ Adding(c) /\ Gone(c)
    BY <1>0, <1>1, <1>3 DEF Known
  <2>4. \A t : t # home[c] /\ (\E m \in flight : m.bridge = c /\ m.to = t) =>
               \E m \in flight' : m.bridge = c /\ m.to = t
    BY <1>1, <2>3
  <2>5. ToldOnce(c)' /\ Fresh(c)'
    BY <1>1, <1>3, <2>3 DEF ToldOnce, Fresh, Id
  <2>6. Adding(c)'
    <3> SUFFICES ASSUME session[c] = "added"
                 PROVE  /\ \A m \in news' \cup flight' : m.bridge = c => m.op = "add"
                        /\ \A t \in told[c] : Id(c) \in reg[t].uniqueness => Listed(t, c)
                        /\ home[c] \in told[c] => Listed(home[c], c)
                        /\ \A t \in told[c] : Listed(t, c) \/ \E m \in flight' : m.bridge = c /\ m.to = t
      BY <1>1 DEF Adding, Listed, Id
    <3> QED
      BY <1>1, <2>3, <2>4 DEF Adding
  <2>7. Gone(c)'
    <3> SUFFICES ASSUME session[c] = "closed"
                 PROVE  /\ \A m \in news' \cup flight' : m.bridge = c => m.op = "delete"
                        /\ \A t \in told[c] :
                              Listed(t, c) =>
                                 /\ t # home[c]
                                 /\ (\E m \in news' : m.bridge = c) \/ \E m \in flight' : m.bridge = c /\ m.to = t
      BY <1>1 DEF Gone, Listed, Id
    <3> QED
      BY <1>1, <2>3, <2>4 DEF Gone
  <2> QED
    BY <2>5, <2>6, <2>7
<1> QED
  BY <1>2, <1>3

(* A step that changes neither sessions nor what is on its way.             *)
LEMMA CalmNews ==
    ASSUME TypeInv, NewsInv, NEW c \in Bridge, UNCHANGED bridgeVars, news' = news,
           told' = told, failed' = failed, Within(flight, flight', c), Within(flight', flight, c),
           \A t \in Server : phase[t] = "serving" => phase'[t] = "serving" /\ reg'[t] = reg[t],
           \A t \in Server : reg'[t].uniqueness = reg[t].uniqueness,
           \A t \in Server : \E p \in Server : reg'[t].services = reg[p].services
    PROVE  Known(c)'
<1>1. Known(c) /\ AsBefore(c)
  BY DEF NewsInv, AsBefore
<1>2. session[c] = "off" =>
         \A t \in Server : Id(c) \notin IDs(reg'[t].services) /\ Id(c) \notin reg'[t].uniqueness
  <2> SUFFICES ASSUME session[c] = "off", NEW t \in Server
               PROVE  Id(c) \notin IDs(reg'[t].services) /\ Id(c) \notin reg'[t].uniqueness
    OBVIOUS
  <2>1. \A q \in Server : Id(c) \notin IDs(reg[q].services) /\ Id(c) \notin reg[q].uniqueness
    BY <1>1 DEF Known, Unheard, Listed, Id
  <2>2. PICK q \in Server : reg'[t].services = reg[q].services
    OBVIOUS
  <2> QED
    BY <2>1, <2>2
<1>3. \A t \in Server : phase[t] = "serving" => Same(reg[t], reg'[t], Id(c))
  BY SameItself
<1> QED
  BY <1>1, <1>2, <1>3, Undisturbed DEF bridgeVars

LEMMA NewsStep == TypeInv /\ NewsInv /\ [Next]_vars => NewsInv'
<1> SUFFICES ASSUME TypeInv, NewsInv, [Next]_vars PROVE NewsInv'
  OBVIOUS
<1>0. /\ TypeOK /\ Strangers /\ flight \in SUBSET Notification /\ news \in SUBSET News
      /\ home \in [Bridge -> Server \cup {NoServer}]
  BY DEF TypeInv, TypeOK
<1>1. ASSUME NEW b \in Bridge, NEW s \in Server, Add(b, s)
      PROVE  NewsInv'
  <2>1. \A n \in news \cup flight : n.bridge # b /\ n.from = home[n.bridge] /\ n.bridge \in Bridge
    BY <1>0, <1>1 DEF Add, NewsInv, Known, Unheard, Underway, Sent, Notification, News
  <2>2. \A n \in news' \cup flight' : n \in news \cup flight \/ (n.bridge = b /\ n.from = s)
    BY <1>1 DEF Add
  <2>3. home' = [home EXCEPT ![b] = s]
    BY <1>1 DEF Add
  <2>4. Sent'
    BY <1>0, <2>1, <2>2, <2>3 DEF Sent
  <2>5. ASSUME NEW c \in Bridge PROVE Known(c)'
    BY <1>1, AddNews
  <2> QED
    BY <2>4, <2>5 DEF NewsInv
<1>2. ASSUME NEW b \in Bridge, Close(b)
      PROVE  NewsInv'
  <2>1. home' = home /\ \A n \in news' \cup flight' : n \in news \cup flight \/ (n.bridge = b /\ n.from = home[b])
    BY <1>2 DEF Close
  <2>2. Sent'
    BY <2>1 DEF NewsInv, Sent
  <2>3. ASSUME NEW c \in Bridge PROVE Known(c)'
    BY <1>2, CloseNews
  <2> QED
    BY <2>2, <2>3 DEF NewsInv
<1>a. ASSUME NEW m \in news, Announce(m)
      PROVE  NewsInv'
  <2>1. home' = home /\ news' \subseteq news /\ m \in News /\ m.from = home[m.bridge]
    BY <1>0, <1>a DEF Announce, NewsInv, Sent, bridgeVars
  <2>2. \A n \in flight' \ flight : n.bridge = m.bridge /\ n.from = m.from
    BY <1>0, <1>a, <2>1, NotifyType DEF Announce
  <2>3. Sent'
    BY <2>1, <2>2 DEF NewsInv, Sent
  <2>4. ASSUME NEW c \in Bridge PROVE Known(c)'
    BY <1>a, AnnounceNews
  <2> QED
    BY <2>3, <2>4 DEF NewsInv
<1>3. ASSUME NEW n \in flight, Apply(n), flight' = flight \ {n}, news' = news, phase' = phase,
             UNCHANGED bridgeVars, UNCHANGED history
      PROVE  NewsInv'
  <2>1. Sent'
    BY <1>3 DEF NewsInv, Sent, bridgeVars
  <2>2. ASSUME NEW c \in Bridge PROVE Known(c)'
    BY <1>3, ApplyNews
  <2> QED
    BY <2>1, <2>2 DEF NewsInv
<1>4. ASSUME UNCHANGED bridgeVars, news' = news, told' = told, failed' = failed, Sent',
             \A c \in Bridge : Within(flight, flight', c) /\ Within(flight', flight, c),
             \A t \in Server : phase[t] = "serving" => phase'[t] = "serving" /\ reg'[t] = reg[t],
             \A t \in Server : reg'[t].uniqueness = reg[t].uniqueness,
             \A t \in Server : \E p \in Server : reg'[t].services = reg[p].services
      PROVE  NewsInv'
  BY <1>4, CalmNews DEF NewsInv
<1>5. ASSUME NEW n \in flight, Deliver(n)
      PROVE  NewsInv'
  <2>0. n \in Notification
    BY <1>0
  <2>1. CASE Handle(n)
    <3>1. CASE HasPeer(n.to, n.from)
      BY <1>3, <2>1, <3>1 DEF Handle, serverVars
    <3>2. CASE ~HasPeer(n.to, n.from)
      <4> DEFINE m == [n EXCEPT !.stranger = TRUE]
      <4>1. flight' = (flight \ {n}) \cup {m} /\ UNCHANGED <<reg, serverVars, bridgeVars, news, history>>
        BY <2>1, <3>2 DEF Handle
      <4>2. m.bridge = n.bridge /\ m.op = n.op /\ m.to = n.to /\ m.from = n.from
        BY <2>0 DEF Notification
      <4> HIDE DEF m
      <4>3. \A c \in Bridge : Within(flight, flight', c) /\ Within(flight', flight, c)
        BY <4>1, <4>2 DEF Within
      <4>4. Sent'
        BY <4>1, <4>2 DEF NewsInv, Sent, bridgeVars
      <4> QED
        BY <1>4, <4>1, <4>3, <4>4 DEF serverVars, history
    <3> QED
      BY <3>1, <3>2
  <2>2. CASE AppendPeer(n)
    BY <1>3, <2>2 DEF AppendPeer
  <2>3. CASE Fail(n)
    <3>1. Sent'
      BY <2>3 DEF Fail, NewsInv, Sent, bridgeVars
    <3>2. ASSUME NEW c \in Bridge PROVE Known(c)'
      BY <2>3, FailNews
    <3> QED
      BY <3>1, <3>2 DEF NewsInv
  <2> QED
    BY <1>5, <2>1, <2>2, <2>3 DEF Deliver
<1>6. ASSUME UNCHANGED <<bridgeVars, requests>>
      PROVE  Sent' /\ \A c \in Bridge : Within(flight, flight', c) /\ Within(flight', flight, c)
  BY <1>6 DEF NewsInv, Sent, Within, bridgeVars, requests
<1>7. ASSUME NEW s \in Server, Join(s) \/ StartUp(s)
      PROVE  NewsInv'
  <2>1. /\ \A t \in Server : phase[t] = "serving" => phase'[t] = "serving" /\ reg'[t] = reg[t]
        /\ \A t \in Server : reg'[t].uniqueness = reg[t].uniqueness
        /\ \A t \in Server : \E p \in Server : reg'[t].services = reg[p].services
        /\ UNCHANGED <<bridgeVars, requests, history>>
    BY <1>0, <1>7, StartUpType
  <2> QED
    BY <1>4, <1>6, <2>1 DEF requests, history
<1>8. ASSUME UNCHANGED <<phase, reg, bridgeVars, requests, failed, told>>
      PROVE  NewsInv'
  BY <1>4, <1>6, <1>8 DEF requests
<1>9. ASSUME NEW s \in Server, NEW p \in Server, RemovePeer(s, p)
      PROVE  NewsInv'
  BY <1>8, <1>9 DEF RemovePeer
<1>10. CASE UNCHANGED vars
  BY <1>8, <1>10 DEF vars, serverVars, history
<1> QED
  BY <1>1, <1>2, <1>a, <1>5, <1>7, <1>9, <1>10 DEF Next

LEMMA NewsInit == Init => NewsInv
<1> SUFFICES ASSUME Init, NEW b \in Bridge PROVE Sent /\ Known(b)
  BY DEF Init, NewsInv, Sent
<1>1. /\ session[b] = "off" /\ told[b] = {} /\ news = {} /\ flight = {}
      /\ \A t \in Server : reg[t] = NoService
  BY DEF Init
<1>2. IDs(NoService.services) = {} /\ NoService.uniqueness = {}
  BY DEF NoService, IDs
<1> QED
  BY <1>1, <1>2 DEF Sent, Known, Unheard, Underway, ToldOnce, Fresh, Adding, Gone, Listed

LEMMA NewsInvariant == Spec => []NewsInv
BY TypeInit, TypeStep, NewsInit, NewsStep, PTL DEF Spec

(* Whoever was told of a bridge that is registered, when the goroutine of   *)
(* Add read the peers, lists it, or the news is on its way: neither late    *)
(* notifications of it, nor ones that come twice, nor what is sent of other *)
(* bridges make it forget the bridge.                                       *)
THEOREM NewsArrives == Spec => []AddedIsEverywhere
<1>1. NewsInv => AddedIsEverywhere
  BY DEF NewsInv, Known, Adding, AddedIsEverywhere
<1> QED
  BY <1>1, NewsInvariant, PTL

(* When the last notification of a bridge that is gone has been handled,    *)
(* none of those who were told of it, and who were peers still when the     *)
(* goroutine of Delete read them, lists it, unless one of them failed or    *)
(* was overtaken.                                                           *)
THEOREM GoneForGood == Spec => []GoneIsGone
<1>1. NewsInv => GoneIsGone
  BY DEF NewsInv, Known, Gone, GoneIsGone, Underway
<1> QED
  BY <1>1, NewsInvariant, PTL

-----------------------------------------------------------------------------
(* The servers that join name a server first that lists all others which    *)
(* have been there before them.                                             *)
MeetAt(h) ==
    /\ h \in Founder
    /\ \A f \in Founder \ {h} : f \in Entries(Named[h])
    /\ \A f, g \in Founder : f # g => f \in Entries(Named[g]) \/ g \in Entries(Named[f])
    /\ \A s \in Server \ Founder : Named[s] # <<>> /\ Head(Named[s]) = h

(* A server lists another one, or is about to greet it.                     *)
Meets(s, t) == HasPeer(s, t) \/ (phase[s] = "greetMore" /\ t \in Entries(todo[s]))

(* A server that joins and has still to ask for peers will be told of those *)
(* that asked before it did.                                                *)
Late(s) == s \notin Founder /\ phase[s] \in {"off", "greet", "askPeers"}

Joining(s, h) ==
    s \notin missed =>
        /\ phase[s] = "askPeers" => todo[s] = Named[s]
        /\ ~Late(s) => /\ HasPeer(h, s)
                       /\ \A t \in Server \ {s} : Meets(s, t) \/ Meets(t, s) \/ Late(t) \/ t \in missed

MeshInv(h) ==
    ~removed =>
        /\ \A f \in Founder : phase[f] = "serving"
        /\ \A f \in Founder \ {h} : HasPeer(h, f)
        /\ \A f, g \in Founder : f # g => HasPeer(f, g) \/ HasPeer(g, f)
        /\ \A s \in Server \ Founder : Joining(s, h)

(* Steps that only make servers list more peers.                            *)
LEMMA MoreListed ==
    ASSUME TypeInv, NEW h, MeetAt(h), MeshInv(h),
           removed' = removed, phase' = phase, todo' = todo, missed' = missed,
           \A t \in Server : Entries(peers[t]) \subseteq Entries(peers'[t])
    PROVE  MeshInv(h)'
<1> SUFFICES ASSUME ~removed' PROVE
        /\ \A f \in Founder : phase'[f] = "serving"
        /\ \A f \in Founder \ {h} : HasPeer(h, f)'
        /\ \A f, g \in Founder : f # g => HasPeer(f, g)' \/ HasPeer(g, f)'
        /\ \A s \in Server \ Founder : Joining(s, h)'
  BY DEF MeshInv
<1>0. Founder \subseteq Server /\ h \in Founder
  BY DiscoveryClusterAssumption DEF MeetAt
<1>1. \A s, t \in Server : HasPeer(s, t) => HasPeer(s, t)'
  BY DEF HasPeer
<1>2. \A s, t \in Server : Meets(s, t) => Meets(s, t)'
  BY <1>1 DEF Meets
<1>3. \A s \in Server : Late(s)' <=> Late(s)
  BY DEF Late
<1>4. ASSUME NEW s \in Server \ Founder PROVE Joining(s, h)'
  <2>1. Joining(s, h)
    BY DEF MeshInv
  <2>2. HasPeer(h, s) => HasPeer(h, s)'
    BY <1>0, <1>1
  <2> QED
    BY <1>2, <1>3, <2>1, <2>2 DEF Joining
<1> QED
  BY <1>0, <1>1, <1>4 DEF MeshInv

(* A step of a server that joins.                                           *)
LEMMA OneJoins ==
    ASSUME TypeInv, NEW h, MeetAt(h), MeshInv(h), NEW s \in Server \ Founder, removed' = removed,
           \A t \in Server : Entries(peers[t]) \subseteq Entries(peers'[t]),
           \A t \in Server \ {s} : phase'[t] = phase[t] /\ todo'[t] = todo[t] /\ (t \in missed' <=> t \in missed),
           ~removed => Joining(s, h)'
    PROVE  MeshInv(h)'
<1> SUFFICES ASSUME ~removed' PROVE
        /\ \A f \in Founder : phase'[f] = "serving"
        /\ \A f \in Founder \ {h} : HasPeer(h, f)'
        /\ \A f, g \in Founder : f # g => HasPeer(f, g)' \/ HasPeer(g, f)'
        /\ \A t \in Server \ Founder : Joining(t, h)'
  BY DEF MeshInv
<1>0. Founder \subseteq Server \ {s} /\ h \in Server \ {s}
  BY DiscoveryClusterAssumption DEF MeetAt
<1>1. \A t, u \in Server : HasPeer(t, u) => HasPeer(t, u)'
  BY DEF HasPeer
<1>2. \A t \in Server \ {s} : \A u \in Server : Meets(t, u) => Meets(t, u)'
  BY <1>1 DEF Meets
<1>3. \A t \in Server \ {s} : Late(t)' <=> Late(t)
  BY DEF Late
<1>4. ASSUME NEW t \in Server \ Founder, t # s, t \notin missed' PROVE Joining(t, h)'
  <2>1. Joining(t, h) /\ Joining(s, h)' /\ t \notin missed
    BY <1>4 DEF MeshInv
  <2>2. HasPeer(h, t) => HasPeer(h, t)'
    BY <1>0, <1>1
  <2>3. ASSUME ~Late(t), NEW u \in Server \ {t}
        PROVE  Meets(t, u)' \/ Meets(u, t)' \/ Late(u)' \/ u \in missed'
    <3>1. CASE u = s
      <4>1. ~Late(t)'
        BY <1>3, <1>4, <2>3
      <4>2. ~Late(s)' /\ s \notin missed' => Meets(s, t)' \/ Meets(t, s)' \/ Late(t)' \/ t \in missed'
        BY <1>4, <2>1 DEF Joining
      <4> QED
        BY <1>4, <3>1, <4>1, <4>2
    <3>2. CASE u # s
      BY <1>2, <1>3, <1>4, <2>1, <2>3, <3>2 DEF Joining
    <3> QED
      BY <3>1, <3>2
  <2>4. /\ Late(t)' <=> Late(t)
        /\ phase'[t] = phase[t] /\ todo'[t] = todo[t]
    BY <1>3, <1>4
  <2> QED
    BY <2>1, <2>2, <2>3, <2>4 DEF Joining
<1>5. \A t \in Server \ Founder : Joining(t, h)'
  BY <1>4 DEF Joining, MeshInv
<1> QED
  BY <1>0, <1>1, <1>5 DEF MeshInv

LEMMA OthersStay ==
    ASSUME TypeOK, NEW s \in Server, Join(s) \/ StartUp(s)
    PROVE  \A t \in Server \ {s} : phase'[t] = phase[t] /\ todo'[t] = todo[t] /\ (t \in missed' <=> t \in missed)
<1>0. phase \in [Server -> Phase] /\ todo \in [Server -> Seq(Server)]
  BY DEF TypeOK
<1>1. CASE Join(s) \/ Greet(s) \/ Greeted(s) \/ Start(s)
  BY <1>0, <1>1 DEF Join, Greet, Greeted, Start
<1>2. CASE AskPeers(s)
  BY <1>0, <1>2 DEF AskPeers, AskFails, NobodyLeft
<1>3. CASE AskList(s)
  BY <1>0, <1>3 DEF AskList, AskFails, NobodyLeft
<1> QED
  BY <1>1, <1>2, <1>3 DEF StartUp

(* The steps by which a server joins. In each it keeps what it has found    *)
(* and goes on to what is still to do.                                      *)
LEMMA JoiningStep ==
    ASSUME TypeInv, NEW h, MeetAt(h), MeshInv(h), ~removed, NEW s \in Server \ Founder, Join(s) \/ StartUp(s)
    PROVE  Joining(s, h)'
<1> SUFFICES ASSUME s \notin missed' PROVE Joining(s, h)'
  BY DEF Joining
<1>0. /\ TypeOK /\ phase \in [Server -> Phase] /\ todo \in [Server -> Seq(Server)]
      /\ peers \in [Server -> Seq(Server)] /\ h \in Server \ {s} /\ phase[h] = "serving" /\ h \in Founder
      /\ Joining(s, h) /\ Named[s] # <<>> /\ Head(Named[s]) = h
  BY DiscoveryClusterAssumption DEF TypeInv, TypeOK, MeetAt, MeshInv
<1>a. s \notin missed
  BY DEF Join, StartUp, Greet, Greeted, AskPeers, AskList, Start
<1>1. /\ \A t \in Server : Entries(peers[t]) \subseteq Entries(peers'[t])
      /\ \A t \in Server \ {s} : phase'[t] = phase[t] /\ todo'[t] = todo[t] /\ (t \in missed' <=> t \in missed)
  BY <1>0, OthersStay, StartUpType
<1>2. \A t, u \in Server : HasPeer(t, u) => HasPeer(t, u)'
  BY <1>1 DEF HasPeer
<1>3. \A t \in Server \ {s} : Meets(t, s) => Meets(t, s)'
  BY <1>1, <1>2 DEF Meets
<1>4. \A t \in Server \ {s} : Late(t)' <=> Late(t)
  BY <1>1 DEF Late
(* Nothing that it lists, or is about to greet, is dropped.                 *)
<1>b. ASSUME ~Late(s), phase'[s] # "askPeers", \A t \in Server \ {s} : Meets(s, t) => Meets(s, t)'
      PROVE  Joining(s, h)'
  <2>1. HasPeer(h, s)'
    BY <1>0, <1>2, <1>a, <1>b DEF Joining
  <2>2. ASSUME NEW t \in Server \ {s} PROVE Meets(s, t)' \/ Meets(t, s)' \/ Late(t)' \/ t \in missed'
    <3>1. Meets(s, t) \/ Meets(t, s) \/ Late(t) \/ t \in missed
      BY <1>0, <1>a, <1>b DEF Joining
    <3> QED
      BY <1>1, <1>3, <1>4, <1>b, <3>1
  <2> QED
    BY <1>b, <2>1, <2>2 DEF Joining
<1>5. CASE Join(s)
  <2>1. phase'[s] = "greet"
    BY <1>0, <1>5 DEF Join
  <2> QED
    BY <2>1 DEF Joining, Late
<1>6. CASE Greet(s)
  <2>0. PICK p \in Server : p = Head(todo[s])
    BY <1>0, <1>6, HeadTailProperties DEF Greet
  <2>1. /\ phase[s] \in {"greet", "greetMore"} /\ phase' = phase
        /\ todo[s] # <<>> /\ todo'[s] = Tail(todo[s])
        /\ \/ HasPeer(s, p) /\ peers' = peers
           \/ peers' = Hear(s, p, peers)
           \/ peers' = Hear(p, s, Hear(s, p, peers))
    BY <1>0, <1>6, <2>0 DEF Greet
  <2>2. CASE phase[s] = "greet"
    BY <2>1, <2>2 DEF Joining, Late
  <2>3. CASE phase[s] = "greetMore"
    <3>1. HasPeer(s, p)'
      <4>1. CASE HasPeer(s, p)
        BY <1>0, <1>2, <2>1, <4>1
      <4>2. CASE peers' = Hear(s, p, peers) \/ peers' = Hear(p, s, Hear(s, p, peers))
        <5>1. Hear(s, p, peers) \in [Server -> Seq(Server)] /\ p \in Entries(Hear(s, p, peers)[s])
          BY <1>0, <2>1, HearType
        <5>2. p \in Entries(Hear(p, s, Hear(s, p, peers))[s])
          BY <2>1, <5>1, HearType
        <5> QED
          BY <4>2, <5>1, <5>2 DEF HasPeer
      <4> QED
        BY <2>1, <4>1, <4>2
    <3>2. \A t \in Entries(todo[s]) : t = p \/ t \in Entries(Tail(todo[s]))
      <4>1. /\ Len(todo[s]) \in Nat /\ DOMAIN todo[s] = 1 .. Len(todo[s])
            /\ DOMAIN Tail(todo[s]) = 1 .. Len(todo[s]) - 1
            /\ \A i \in 1 .. Len(todo[s]) - 1 : Tail(todo[s])[i] = todo[s][i + 1]
            /\ p = todo[s][1]
        BY <1>0, <2>0, <2>1, HeadTailProperties
      <4>2. ASSUME NEW i \in DOMAIN todo[s]
            PROVE  i = 1 \/ (i - 1 \in DOMAIN Tail(todo[s]) /\ Tail(todo[s])[i - 1] = todo[s][i])
        BY <4>1
      <4> QED
        BY <4>1, <4>2 DEF Entries
    <3>3. \A t \in Server \ {s} : Meets(s, t) => Meets(s, t)'
      BY <1>0, <1>2, <2>1, <2>3, <3>1, <3>2 DEF Meets
    <3>4. ~Late(s) /\ phase'[s] # "askPeers"
      BY <2>1, <2>3 DEF Late
    <3> QED
      BY <1>b, <3>3, <3>4
  <2> QED
    BY <2>1, <2>2, <2>3
<1>7. CASE Greeted(s)
  <2>1. /\ phase[s] \in {"greet", "greetMore"} /\ todo[s] = <<>> /\ todo'[s] = Named[s]
        /\ phase'[s] = IF phase[s] = "greet" THEN "askPeers" ELSE "askList"
    BY <1>0, <1>7 DEF Greeted
  <2>2. CASE phase[s] = "greet"
    BY <2>1, <2>2 DEF Joining, Late
  <2>3. CASE phase[s] = "greetMore"
    <3>1. \A t \in Server \ {s} : Meets(s, t) => Meets(s, t)'
      BY <1>2, <2>1 DEF Meets, Entries
    <3>2. ~Late(s) /\ phase'[s] = "askList"
      BY <2>1, <2>3 DEF Late
    <3> QED
      BY <1>b, <3>1, <3>2
  <2> QED
    BY <2>1, <2>2, <2>3
<1>8. CASE AskPeers(s)
  <2>0. phase[s] = "askPeers" /\ todo[s] = Named[s]
    BY <1>0, <1>8, <1>a DEF AskPeers, Joining
  <2>1. peers' = Hear(h, s, peers) /\ phase'[s] = "greetMore" /\ todo'[s] = peers'[h]
    <3>1. ASSUME NEW p \in Server, AskFails(s, p), missed' = IF phase[p] = "serving" THEN missed \cup {s} ELSE missed
          PROVE  FALSE
      BY <1>0, <2>0, <3>1 DEF AskFails
    <3>2. ~NobodyLeft(s)
      BY <1>0, <2>0 DEF NobodyLeft
    <3>3. PICK p \in Server : Asks(s, p) /\ todo' = [todo EXCEPT ![s] = peers'[p]]
      BY <1>8, <3>1, <3>2 DEF AskPeers
    <3>4. phase' = [phase EXCEPT ![s] = "greetMore"]
      BY <1>8, <3>1, <3>2 DEF AskPeers
    <3> QED
      BY <1>0, <2>0, <3>3, <3>4 DEF Asks
  <2>2. HasPeer(h, s)'
    BY <1>0, <2>1, HearType DEF HasPeer
  <2>3. ASSUME NEW t \in Server \ {s} PROVE Meets(s, t)' \/ Meets(t, s)' \/ Late(t)' \/ t \in missed'
    <3>1. CASE t = h
      BY <2>2, <3>1 DEF Meets
    <3>2. CASE HasPeer(h, t)
      <4>1. t \in Entries(todo'[s])
        BY <1>0, <1>1, <2>1, <3>2 DEF HasPeer
      <4> QED
        BY <2>1, <4>1 DEF Meets
    <3>3. CASE t # h /\ ~HasPeer(h, t)
      <4>1. t \notin Founder
        BY <3>3 DEF MeshInv
      <4>2. Late(t) \/ t \in missed
        BY <3>3, <4>1 DEF MeshInv, Joining
      <4> QED
        BY <1>1, <1>4, <4>2
    <3> QED
      BY <3>1, <3>2, <3>3
  <2> QED
    BY <2>1, <2>2, <2>3 DEF Joining
<1>9. CASE AskList(s) \/ Start(s)
  <2>1. phase[s] \in {"askList", "listed"} /\ phase'[s] \in {"askList", "listed", "serving"}
    BY <1>0, <1>9 DEF AskList, Start
  <2>2. \A t \in Server \ {s} : Meets(s, t) => Meets(s, t)'
    BY <1>2, <2>1 DEF Meets
  <2>3. ~Late(s)
    BY <2>1 DEF Late
  <2> QED
    BY <1>b, <2>1, <2>2, <2>3
<1> QED
  BY <1>5, <1>6, <1>7, <1>8, <1>9 DEF StartUp

LEMMA MeshStep ==
    ASSUME NEW h, MeetAt(h)
    PROVE  TypeInv /\ MeshInv(h) /\ [Next]_vars => MeshInv(h)'
<1> SUFFICES ASSUME TypeInv, MeshInv(h), [Next]_vars PROVE MeshInv(h)'
  OBVIOUS
<1>0. TypeOK /\ peers \in [Server -> Seq(Server)] /\ Strangers /\ flight \in SUBSET Notification
  BY DEF TypeInv, TypeOK
<1>1. ASSUME UNCHANGED <<serverVars, removed>> PROVE MeshInv(h)'
  BY <1>1, MoreListed DEF serverVars
<1>2. ASSUME NEW n \in flight, AppendPeer(n) PROVE MeshInv(h)'
  <2>1. n.to \in Server /\ n.from \in Server /\ phase[n.to] = "serving"
    BY <1>0, <1>2 DEF AppendPeer, Strangers, Notification
  <2>2. /\ peers' = [peers EXCEPT ![n.to] = Append(@, n.from)]
        /\ phase' = phase /\ todo' = todo /\ missed' = missed /\ removed' = removed
    BY <1>2 DEF AppendPeer, history
  <2>3. Entries(peers[n.to]) \subseteq Entries(Append(peers[n.to], n.from))
    <3> DEFINE old == peers[n.to]
               new == Append(old, n.from)
    <3>1. /\ Len(old) \in Nat /\ DOMAIN old = 1 .. Len(old) /\ DOMAIN new = 1 .. Len(old) + 1
          /\ \A i \in 1 .. Len(old) : new[i] = old[i]
      BY <1>0, <2>1, AppendProperties
    <3> HIDE DEF old, new
    <3>2. \A i \in DOMAIN old : i \in DOMAIN new /\ new[i] = old[i]
      BY <3>1
    <3>3. Entries(old) \subseteq Entries(new)
      BY <3>2 DEF Entries
    <3> QED
      BY <3>3 DEF old, new
  <2>4. \A t \in Server : t # n.to => peers'[t] = peers[t]
    BY <1>0, <2>2
  <2>5. peers'[n.to] = Append(peers[n.to], n.from)
    BY <1>0, <2>1, <2>2
  <2> QED
    BY <2>1, <2>2, <2>3, <2>4, <2>5, MoreListed
<1>3. ASSUME NEW s \in Server, Join(s) \/ StartUp(s) PROVE MeshInv(h)'
  <2>1. removed' = removed
    BY <1>0, <1>3, StartUpType DEF history
  <2>2. CASE removed
    BY <2>1, <2>2 DEF MeshInv
  <2>3. CASE ~removed
    <3>1. s \notin Founder
      <4>1. phase[s] # "serving"
        BY <1>3 DEF Join, StartUp, Greet, Greeted, AskPeers, AskList, Start
      <4> QED
        BY <2>3, <4>1 DEF MeshInv
    <3>2. Joining(s, h)'
      BY <1>3, <2>3, <3>1, JoiningStep
    <3>3. /\ \A t \in Server : Entries(peers[t]) \subseteq Entries(peers'[t])
          /\ \A t \in Server \ {s} :
                phase'[t] = phase[t] /\ todo'[t] = todo[t] /\ (t \in missed' <=> t \in missed)
      BY <1>0, <1>3, OthersStay, StartUpType
    <3> QED
      BY <2>1, <3>1, <3>2, <3>3, OneJoins
  <2> QED
    BY <2>2, <2>3
<1>4. ASSUME NEW s \in Server, NEW p \in Server, RemovePeer(s, p) PROVE MeshInv(h)'
  BY <1>4 DEF RemovePeer, MeshInv
<1>5. ASSUME NEW n \in flight, Handle(n) \/ Fail(n) PROVE MeshInv(h)'
  BY <1>1, <1>5 DEF Handle, Fail, history
<1>6. ASSUME NEW b \in Bridge, Close(b) \/ \E s \in Server : Add(b, s) PROVE MeshInv(h)'
  BY <1>1, <1>6 DEF Close, Add, history
<1>a. ASSUME NEW m \in news, Announce(m) PROVE MeshInv(h)'
  BY <1>1, <1>a DEF Announce
<1>7. CASE UNCHANGED vars
  BY <1>1, <1>7 DEF vars, history
<1> QED
  BY <1>2, <1>3, <1>4, <1>5, <1>6, <1>7, <1>a DEF Next, Deliver

(* Of two servers that serve one lists the other, so that it will be known  *)
(* there with its next notification, whenever they started and whatever     *)
(* greetings are lost: it takes a server that all others name first and that*)
(* lists those which were there before, and answers both when they ask for  *)
(* its peers (NewServer). Servers that name different ones first may miss   *)
(* each other.                                                              *)
THEOREM ServersMeet ==
    ASSUME NEW h, MeetAt(h)
    PROVE  Spec => []MeshLinked
<1>1. Init => MeshInv(h)
  <2> SUFFICES ASSUME Init PROVE MeshInv(h)
    OBVIOUS
  <2>1. /\ \A f \in Founder : phase[f] = "serving" /\ peers[f] = Named[f]
        /\ \A s \in Server \ Founder : phase[s] = "off" /\ peers[s] = <<>>
    BY DiscoveryClusterAssumption DEF Init
  <2>2. \A s \in Server \ Founder : Joining(s, h)
    BY <2>1 DEF Joining, Late
  <2> QED
    BY <2>1, <2>2 DEF MeshInv, MeetAt, HasPeer
<1>2. TypeInv /\ MeshInv(h) /\ [Next]_vars => MeshInv(h)'
  BY MeshStep
<1>3. MeshInv(h) => MeshLinked
  <2> SUFFICES ASSUME MeshInv(h), NEW s \in Server, NEW t \in Server, phase[s] = "serving", phase[t] = "serving",
                      s # t, s \notin missed, t \notin missed, ~removed
               PROVE  HasPeer(s, t) \/ HasPeer(t, s)
    BY DEF MeshLinked
  <2>1. CASE s \in Founder /\ t \in Founder
    BY <2>1 DEF MeshInv
  <2>2. CASE s \notin Founder
    BY <2>2 DEF MeshInv, Joining, Meets, Late
  <2>3. CASE t \notin Founder
    BY <2>3 DEF MeshInv, Joining, Meets, Late
  <2> QED
    BY <2>1, <2>2, <2>3
<1> QED
  BY <1>1, <1>2, <1>3, TypeInit, TypeStep, PTL DEF Spec
===============================================================================
