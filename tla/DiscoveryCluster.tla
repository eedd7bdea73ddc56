--------------------------- MODULE DiscoveryCluster ---------------------------
(***************************************************************************)
(* Several discovery servers that tell each other of added and deleted     *)
(* services. A goroutine reads the peers to tell, some time later, and each*)
(* notification is a request made by another one and never repeated: later *)
(* ones may overtake it, and one that fails is lost. Whoever makes a       *)
(* request becomes a peer of the server that handles it. A server that     *)
(* starts greets the peers it is configured with, takes their peers and    *)
(* one's services, and only then listens. Bridges register with any server *)
(* that serves.                                                            *)
(***************************************************************************)
EXTENDS ServiceIndex

CONSTANTS
    Server,     \* the discovery servers
    Founder,    \* those that have started before and list each other
    Named,      \* [Server -> the peers it is started with, in their order]
    Bridge,     \* the register sessions, each of a service of its own
    ServiceOf,  \* [Bridge -> its service, which has an ID]
    NoServer,   \* no server
    Faults      \* {"lose"}: requests fail; {"remove"}: peers are removed

ASSUME DiscoveryClusterAssumption ==
    /\ Founder \subseteq Server
    /\ Named \in [Server -> Seq(Server)]
    /\ ServiceOf \in [Bridge -> Service]
    /\ \A b, c \in Bridge : ServiceOf[b].id = ServiceOf[c].id => b = c
    /\ NoServer \notin Server
    /\ Faults \subseteq {"lose", "remove"}

VARIABLES
    phase,      \* how far each server has come with NewServer
    todo,       \* the peers it has still to greet or to ask
    peers,      \* the peers each server lists
    reg,        \* the services each server keeps
    home,       \* the server each bridge has its session with
    session,    \* what the session has done
    news,       \* additions and deletions whose peers are still to be read
    flight,     \* the notifications on their way
    failed,     \* bridges one of whose notifications failed or was overtaken
    told,       \* the peers that served and did not know when they were told of a bridge
    missed,     \* the servers whose request for the peers of one that served failed
    removed     \* whether a peer has been removed somewhere

serverVars == <<phase, todo, peers, missed>>
bridgeVars == <<home, session>>
requests == <<news, flight>>
history == <<failed, told, removed>>
vars == <<serverVars, reg, bridgeVars, requests, history>>

Phase == {"off", "greet", "askPeers", "greetMore", "askList", "listed", "serving"}

News == [op : {"add", "delete"}, bridge : Bridge, from : Server]

Notification ==
    [op : {"add", "delete"}, bridge : Bridge, from : Server, to : Server,
     copy : Nat,             \* a peer that is listed twice is told twice
     stranger : BOOLEAN]     \* the receiver found no such peer, and will append it

TypeOK ==
    /\ phase \in [Server -> Phase]
    /\ todo \in [Server -> Seq(Server)]
    /\ peers \in [Server -> Seq(Server)]
    /\ reg \in [Server -> Registry]
    /\ home \in [Bridge -> Server \cup {NoServer}]
    /\ session \in [Bridge -> {"off", "added", "closed"}]
    /\ news \in SUBSET News
    /\ flight \in SUBSET Notification
    /\ failed \in SUBSET Bridge
    /\ told \in [Bridge -> SUBSET Server]
    /\ missed \in SUBSET Server
    /\ removed \in BOOLEAN

Init ==
    /\ phase = [s \in Server |-> IF s \in Founder THEN "serving" ELSE "off"]
    /\ todo = [s \in Server |-> <<>>]
    /\ peers = [s \in Server |-> IF s \in Founder THEN Named[s] ELSE <<>>]
    /\ reg = [s \in Server |-> NoService]
    /\ home = [b \in Bridge |-> NoServer]
    /\ session = [b \in Bridge |-> "off"]
    /\ news = {}
    /\ flight = {}
    /\ failed = {}
    /\ missed = {}
    /\ told = [b \in Bridge |-> {}]
    /\ removed = FALSE

HasPeer(s, p) == p \in Entries(peers[s])
Listed(s, b) == ServiceOf[b].id \in IDs(reg[s].services)

-----------------------------------------------------------------------------
(* Register sessions and what they make their server tell its peers         *)

Add(b, s) ==
    /\ session[b] = "off"
    /\ phase[s] = "serving"
    /\ reg' = [reg EXCEPT ![s] = AddTo(@, ServiceOf[b])]
    /\ home' = [home EXCEPT ![b] = s]
    /\ session' = [session EXCEPT ![b] = "added"]
    /\ news' = news \cup {[op |-> "add", bridge |-> b, from |-> s]}
    /\ UNCHANGED <<serverVars, flight, history>>

(* Something of this bridge has still to be told.                           *)
Underway(b) == \E n \in news \cup flight : n.bridge = b

(* Variant: Delete(svc, false).                                             *)
CloseQuietly(b) ==
    /\ session[b] = "added"
    /\ reg' = [reg EXCEPT ![home[b]] = DeleteFrom(@, ServiceOf[b])]
    /\ session' = [session EXCEPT ![b] = "closed"]
    /\ failed' = IF Underway(b) THEN failed \cup {b} ELSE failed
    /\ UNCHANGED <<serverVars, home, requests, told, removed>>

(* The session ends. Its delete may overtake its add.                       *)
Close(b) ==
    /\ session[b] = "added"
    /\ reg' = [reg EXCEPT ![home[b]] = DeleteFrom(@, ServiceOf[b])]
    /\ session' = [session EXCEPT ![b] = "closed"]
    /\ news' = news \cup {[op |-> "delete", bridge |-> b, from |-> home[b]]}
    /\ failed' = IF Underway(b) THEN failed \cup {b} ELSE failed
    /\ UNCHANGED <<serverVars, home, flight, told, removed>>

(* Variant: the peer that joined last is not told.                          *)
NotifyAllButLast(m) ==
    flight \cup {[op |-> m.op, bridge |-> m.bridge, from |-> m.from, to |-> peers[m.from][i],
                  copy |-> i, stranger |-> FALSE] : i \in 1 .. Len(peers[m.from]) - 1}

NotifyPeersServiceMutation(m) ==
    flight \cup {[op |-> m.op, bridge |-> m.bridge, from |-> m.from, to |-> peers[m.from][i],
                  copy |-> i, stranger |-> FALSE] : i \in DOMAIN peers[m.from]}

(* A peer that serves and does not know yet; the server itself does. One    *)
(* that has learned it from a list will list it twice.                      *)
Awaits(t, m) == phase[t] = "serving" /\ (t = m.from \/ ~Listed(t, m.bridge))

(* The goroutine that Add or Delete has started reads the peers there are by*)
(* now, which need not be those there were then.                            *)
Announce(m) ==
    /\ news' = news \ {m}
    /\ flight' = NotifyPeersServiceMutation(m)
    /\ told' = [told EXCEPT ![m.bridge] =
                   IF m.op = "add" THEN {t \in Entries(peers[m.from]) : Awaits(t, m)}
                   ELSE @ \cap Entries(peers[m.from])]
    /\ UNCHANGED <<serverVars, reg, bridgeVars, failed, removed>>

-----------------------------------------------------------------------------
(* HandlePeer for a notification                                            *)

(* Variant: the ID of the service is not sent.                              *)
ApplyWithoutID(n) ==
    LET service == [ServiceOf[n.bridge] EXCEPT !.id = Nil]
    IN reg' = [reg EXCEPT ![n.to] = IF n.op = "add" THEN AddTo(@, service)
                                    ELSE DeleteFrom(@, service)]

Apply(n) ==
    reg' = [reg EXCEPT ![n.to] = IF n.op = "add" THEN AddTo(@, ServiceOf[n.bridge])
                                 ELSE DeleteFrom(@, ServiceOf[n.bridge])]

(* HasPeer, under a lock that AddPeer gives up before it appends.           *)
Handle(n) ==
    /\ phase[n.to] = "serving"
    /\ n.to # n.from
    /\ ~n.stranger
    /\ IF HasPeer(n.to, n.from)
       THEN Apply(n) /\ flight' = flight \ {n}
       ELSE UNCHANGED reg /\ flight' = (flight \ {n}) \cup {[n EXCEPT !.stranger = TRUE]}
    /\ UNCHANGED <<serverVars, bridgeVars, news, history>>

AppendPeer(n) ==
    /\ n.stranger
    /\ peers' = [peers EXCEPT ![n.to] = Append(@, n.from)]
    /\ Apply(n)
    /\ flight' = flight \ {n}
    /\ UNCHANGED <<phase, todo, missed, bridgeVars, news, history>>

(* A request fails when the peer does not listen yet, and may be lost.      *)
CanFail(p) == phase[p] # "serving" \/ "lose" \in Faults

(* So does one whose sender is the peer itself (error 400). The error is    *)
(* logged.                                                                  *)
Fail(n) ==
    /\ ~n.stranger
    /\ CanFail(n.to) \/ n.to = n.from
    /\ flight' = flight \ {n}
    /\ failed' = IF n.to = n.from THEN failed ELSE failed \cup {n.bridge}
    /\ UNCHANGED <<serverVars, reg, bridgeVars, news, told, removed>>

-----------------------------------------------------------------------------
(* NewServer                                                                *)

(* The requests of a server that starts are made one after the other, so    *)
(* that the peer's AddPeer may be taken as one step.                        *)
Hear(p, s, listed) == IF s \in Entries(listed[p]) THEN listed
                      ELSE [listed EXCEPT ![p] = Append(@, s)]

Join(s) ==
    /\ phase[s] = "off"
    /\ phase' = [phase EXCEPT ![s] = "greet"]
    /\ todo' = [todo EXCEPT ![s] = Named[s]]
    /\ UNCHANGED <<peers, missed, reg, bridgeVars, requests, history>>

(* Variant: the peers of the peer are not added.                            *)
GreetNamedOnly(s) ==
    LET p == Head(todo[s]) IN
    /\ phase[s] \in {"greet", "greetMore"}
    /\ todo[s] # <<>>
    /\ todo' = [todo EXCEPT ![s] = Tail(@)]
    /\ peers' = IF HasPeer(s, p) \/ phase[s] = "greetMore" THEN peers
                ELSE IF phase[p] = "serving" THEN Hear(p, s, Hear(s, p, peers))
                ELSE Hear(s, p, peers)
    /\ UNCHANGED <<phase, missed, reg, bridgeVars, requests, history>>

(* AddPeer with inform: the peer is appended, and then sent a Noop, whose   *)
(* failure leaves it there. The answer of a peer to "peers" contains the    *)
(* server that asks, which so becomes a peer of itself.                     *)
Greet(s) ==
    LET p == Head(todo[s]) IN
    /\ phase[s] \in {"greet", "greetMore"}
    /\ todo[s] # <<>>
    /\ todo' = [todo EXCEPT ![s] = Tail(@)]
    /\ \/ HasPeer(s, p) /\ UNCHANGED peers
       \/ /\ ~HasPeer(s, p)
          /\ \/ CanFail(p) /\ peers' = Hear(s, p, peers)
             \/ phase[p] = "serving" /\ peers' = Hear(p, s, Hear(s, p, peers))
    /\ UNCHANGED <<phase, missed, reg, bridgeVars, requests, history>>

Greeted(s) ==
    /\ phase[s] \in {"greet", "greetMore"}
    /\ todo[s] = <<>>
    /\ phase' = [phase EXCEPT ![s] = IF @ = "greet" THEN "askPeers" ELSE "askList"]
    /\ todo' = [todo EXCEPT ![s] = Named[s]]
    /\ UNCHANGED <<peers, missed, reg, bridgeVars, requests, history>>

(* "peers" and then "list" are asked of the named peers in turn, until one  *)
(* answers; without any answer NewServer goes on. What fails has perhaps    *)
(* been heard all the same.                                                 *)
Asks(s, p) ==
    /\ todo[s] # <<>> /\ p = Head(todo[s])
    /\ phase[p] = "serving" /\ peers' = Hear(p, s, peers)

AskFails(s, p) ==
    /\ todo[s] # <<>> /\ p = Head(todo[s])
    /\ CanFail(p) /\ (UNCHANGED peers \/ Asks(s, p))
    /\ todo' = [todo EXCEPT ![s] = Tail(@)]

NobodyLeft(s) == todo[s] = <<>> /\ UNCHANGED <<todo, peers>>

AskPeers(s) ==
    /\ phase[s] = "askPeers"
    /\ \/ /\ \E p \in Server : Asks(s, p) /\ todo' = [todo EXCEPT ![s] = peers'[p]]
          /\ phase' = [phase EXCEPT ![s] = "greetMore"]
          /\ UNCHANGED missed
       \/ /\ \E p \in Server : /\ AskFails(s, p)
                             /\ missed' = IF phase[p] = "serving" THEN missed \cup {s} ELSE missed
          /\ UNCHANGED phase
       \/ /\ NobodyLeft(s)
          /\ phase' = [phase EXCEPT ![s] = "greetMore"]
          /\ UNCHANGED missed
    /\ UNCHANGED <<reg, bridgeVars, requests, history>>

(* The IDs of the list do not become known as in use.                       *)
AskList(s) ==
    /\ phase[s] = "askList"
    /\ \/ /\ \E p \in Server :
                /\ Asks(s, p)
                /\ reg' = [reg EXCEPT ![s].services = reg[p].services,
                                      ![s].indexByType = buildIndex(reg[p].services)]
          /\ phase' = [phase EXCEPT ![s] = "listed"]
          /\ todo' = [todo EXCEPT ![s] = <<>>]
       \/ (\E p \in Server : AskFails(s, p)) /\ UNCHANGED <<phase, reg>>
       \/ /\ NobodyLeft(s)
          /\ phase' = [phase EXCEPT ![s] = "listed"]
          /\ UNCHANGED reg
    /\ UNCHANGED <<missed, bridgeVars, requests, history>>

(* Only now does it listen.                                                 *)
Start(s) ==
    /\ phase[s] = "listed"
    /\ phase' = [phase EXCEPT ![s] = "serving"]
    /\ UNCHANGED <<todo, peers, missed, reg, bridgeVars, requests, history>>

StartUp(s) == Greet(s) \/ Greeted(s) \/ AskPeers(s) \/ AskList(s) \/ Start(s)

(* RemovePeer takes the last entry of that address. Once is enough.         *)
RemovePeer(s, p) ==
    /\ "remove" \in Faults
    /\ ~removed
    /\ phase[s] = "serving"
    /\ HasPeer(s, p)
    /\ LET last == CHOOSE i \in DOMAIN peers[s] :
                       /\ peers[s][i] = p
                       /\ \A k \in DOMAIN peers[s] : peers[s][k] = p => k <= i
       IN peers' = [peers EXCEPT ![s] = Without(@, last)]
    /\ removed' = TRUE
    /\ UNCHANGED <<phase, todo, missed, reg, bridgeVars, requests, failed, told>>

-----------------------------------------------------------------------------
Deliver(n) == Handle(n) \/ AppendPeer(n) \/ Fail(n)

Next ==
    \/ \E b \in Bridge, s \in Server : Add(b, s)
    \/ \E b \in Bridge : Close(b)
    \/ \E m \in news : Announce(m)
    \/ \E n \in flight : Deliver(n)
    \/ \E s \in Server : Join(s) \/ StartUp(s)
    \/ \E s, p \in Server : RemovePeer(s, p)

Spec == Init /\ [][Next]_vars

-----------------------------------------------------------------------------
(* A bridge that is registered is known to every server that served and was *)
(* a peer of its server when the goroutine of Add came to read the peers, or*)
(* the news is on its way; what other sessions, servers that join and peers *)
(* that are removed do after that does not change it                        *)
(* (NotifyPeersServiceMutation, HandlePeer). A peer that was still starting *)
(* may miss it, and one that was removed before is not told.                *)
AddedIsEverywhere ==
    \A b \in Bridge : session[b] = "added" /\ b \notin failed =>
        \A t \in told[b] :
            \/ Listed(t, b)
            \/ \E n \in flight : n.op = "add" /\ n.bridge = b /\ n.to = t

(* A bridge that is gone is listed by none of those peers that were peers   *)
(* still when the goroutine of Delete came to read them, once its last      *)
(* notification has been handled, unless one failed or was overtaken. A peer*)
(* removed in between is never told.                                        *)
GoneIsGone ==
    \A b \in Bridge : session[b] = "closed" /\ b \notin failed /\ ~Underway(b) =>
        \A t \in told[b] : ~Listed(t, b)

(* Of two servers that serve, one at least lists the other, so that it will *)
(* become known there by its next notification: servers that start at the   *)
(* same time meet through the first peer they are started with (NewServer), *)
(* even if their greetings are lost, unless a peer has been removed or one  *)
(* of the two asked a server that serves for its peers in vain.             *)
MeshLinked ==
    \A s, t \in Server :
        {phase[s], phase[t]} = {"serving"} /\ s # t /\ {s, t} \cap missed = {} /\ ~removed =>
            HasPeer(s, t) \/ HasPeer(t, s)
===============================================================================
