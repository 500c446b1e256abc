------------------------------- MODULE Gossip -------------------------------
(***************************************************************************)
(* Rumor mongering, anti-entropy and the routing table of a network of     *)
(* peersters (gossiper/gossip.go, vectorclock.go, routing.go and the       *)
(* goroutines of gossiper.go).                                             *)
(*                                                                         *)
(* One action is one run of a handler or of a goroutine's loop body.  A    *)
(* node stands for both its Name and its gossip address.  UDP may lose,    *)
(* reorder and duplicate what is in flight.  The vector clock is a total   *)
(* function: an identifier the Want list lacks reads as NextID 1 in        *)
(* GetNextId, and so does one the list holds with NextID 1.                *)
(***************************************************************************)
EXTENDS Naturals, FiniteSets

CONSTANTS
  Nodes,          \* the peersters
  Texts,          \* what clients say
  RouteText,      \* Text: "" of a route rumor
  NoHop,          \* what the routing table answers for an unknown name
  InitialPeers,   \* the -peers flag of every node
  AddedPeers,     \* <<n, p>>: a user may enter p in the GUI of n
  Speakers,       \* the nodes that have a client, or a route rumor timer
  RouteRumoring,  \* TRUE iff -rtimer is not 0
  MaxId,          \* bound: the largest rumor ID a node hands out
  MaxInFlight,    \* bound: packets in flight at any time
  MaxMongers      \* bound: goroutines of RumorMonger that wait, at all nodes

ASSUME NodesAssumption == NoHop \notin Nodes
ASSUME TextsAssumption == RouteText \notin Texts
ASSUME PeersAssumption ==
  /\ InitialPeers \in [Nodes -> SUBSET Nodes]
  /\ AddedPeers \subseteq Nodes \X Nodes
  /\ Speakers \subseteq Nodes
ASSUME TimerAssumption == RouteRumoring \in BOOLEAN
ASSUME BoundAssumption == {MaxId, MaxInFlight, MaxMongers} \subseteq Nat \ {0}

VARIABLES
  peersList,      \* peersList[n]: the peers n knows
  vc,             \* vc[n][o]: NextID of origin o in n's vector clock
  rumors,         \* rumors[n]: allRumorMessages of n
  hop,            \* hop[n][o]: n's routing table entry for o
  mongering,      \* the goroutines of RumorMonger that wait
  net             \* packets in flight

vars == <<peersList, vc, rumors, hop, mongering, net>>

-----------------------------------------------------------------------------
Clock == [Nodes -> Nat \ {0}]

Rumor == [origin: Nodes, id: Nat \ {0}, text: Texts \cup {RouteText}]

Monger == [node: Nodes, dest: Nodes, rumor: Rumor]

RumorPacket == [type: {"rumor"}, src: Nodes, dst: Nodes, rumor: Rumor]

StatusPacket == [type: {"status"}, src: Nodes, dst: Nodes, want: Clock]

\* Mutant: a relay puts its own name on the rumor.
RumorMsg_Renamed(s, d, r) ==
  [type |-> "rumor", src |-> s, dst |-> d, rumor |-> [r EXCEPT !.origin = s]]

RumorMsg(s, d, r) == [type |-> "rumor", src |-> s, dst |-> d, rumor |-> r]

\* Mutant: the last ID seen instead of the next one.
StatusMsg_LastId(s, d) ==
  [type |-> "status", src |-> s, dst |-> d, want |-> [o \in Nodes |-> vc[s][o] - 1]]

StatusMsg(s, d) == [type |-> "status", src |-> s, dst |-> d, want |-> vc[s]]

TypeOK ==
  /\ peersList \in [Nodes -> SUBSET Nodes]
  /\ vc \in [Nodes -> Clock]
  /\ rumors \in [Nodes -> SUBSET Rumor]
  /\ hop \in [Nodes -> [Nodes -> Nodes \cup {NoHop}]]
  /\ mongering \in SUBSET Monger
  /\ net \in SUBSET (RumorPacket \cup StatusPacket)

Init ==
  /\ peersList = InitialPeers
  /\ vc = [n \in Nodes |-> [o \in Nodes |-> 1]]
  /\ rumors = [n \in Nodes |-> {}]
  /\ hop = [n \in Nodes |-> [o \in Nodes |-> NoHop]]
  /\ mongering = {}
  /\ net = {}

-----------------------------------------------------------------------------
(* The network.                                                            *)

\* What is left of the network once m is received: UDP may deliver it again.
AfterReceipt(m) == {net \ {m}, net}

\* The queue of the sender goroutine and the socket: packets go out, unordered.
Transmit(rest, packets) ==
  /\ net' = rest \cup packets
  /\ Cardinality(net') <= MaxInFlight

Lose(m) ==
  /\ net' = net \ {m}
  /\ UNCHANGED <<peersList, vc, rumors, hop, mongering>>

-----------------------------------------------------------------------------
(* Starting and ending RumorMonger goroutines.  channelsListening has one  *)
(* key per destination, origin and ID; a second goroutine for a key only   *)
(* sends.  An acknowledgement and the timer end the wait alike, so a       *)
(* waiting goroutine may end at any time.                                  *)

Listening(n, d, r) ==
  \E g \in mongering :
    g.node = n /\ g.dest = d /\ g.rumor.origin = r.origin /\ g.rumor.id = r.id

Mongers(n, d, rs) ==
  {[node |-> n, dest |-> d, rumor |-> r] : r \in {x \in rs : ~Listening(n, d, x)}}

\* n starts mongering the rumors rs with d, the other goroutines being gs.
StartMongering(n, d, rs, gs) ==
  /\ mongering' = gs \cup Mongers(n, d, rs)
  /\ Cardinality(mongering') <= MaxMongers

\* Tails, or heads with no other peer to pick: the goroutine returns.
StopMongering(g) ==
  /\ mongering' = mongering \ {g}
  /\ UNCHANGED <<peersList, vc, rumors, hop, net>>

\* Heads: the rumor goes to another peer.
FlippedCoin(g, p) ==
  /\ p \in peersList[g.node] \ {g.dest}
  /\ StartMongering(g.node, p, {g.rumor}, mongering \ {g})
  /\ Transmit(net, {RumorMsg(g.node, p, g.rumor)})
  /\ UNCHANGED <<peersList, vc, rumors, hop>>

-----------------------------------------------------------------------------
(* What the client and the node's own goroutines do.                       *)

\* Mutant: the ID is not used up.
Store_KeepId(n, r) ==
  /\ rumors' = [rumors EXCEPT ![n] = @ \cup {r}]
  /\ UNCHANGED vc

\* Update and addToAllRumorMessagesList: the clock moves with the store.
Store(n, r) ==
  /\ vc' = [vc EXCEPT ![n][r.origin] = @ + 1]
  /\ rumors' = [rumors EXCEPT ![n] = @ \cup {r}]

\* GetRandomPeer and RumorMonger; without a peer nothing is sent.
MongerWithRandomPeer(n, r) ==
  IF peersList[n] = {}
  THEN UNCHANGED <<mongering, net>>
  ELSE \E p \in peersList[n] :
         /\ StartMongering(n, p, {r}, mongering)
         /\ Transmit(net, {RumorMsg(n, p, r)})

ClientMessage(n, t) ==
  LET r == [origin |-> n, id |-> vc[n][n], text |-> t]
  IN  /\ r.id <= MaxId
      /\ Store(n, r)
      /\ MongerWithRandomPeer(n, r)
      /\ UNCHANGED <<peersList, hop>>

\* StartRouteRumoring takes the next ID of the node but does not use it up.
RouteRumor(n) ==
  LET r == [origin |-> n, id |-> vc[n][n], text |-> RouteText]
  IN  /\ RouteRumoring
      /\ r.id <= MaxId
      /\ peersList[n] # {}
      /\ MongerWithRandomPeer(n, r)
      /\ UNCHANGED <<peersList, vc, rumors, hop>>

AntiEntropy(n, p) ==
  /\ p \in peersList[n]
  /\ Transmit(net, {StatusMsg(n, p)})
  /\ UNCHANGED <<peersList, vc, rumors, hop, mongering>>

\* newNodeHandler of the GUI.
NewNode(n, p) ==
  /\ peersList' = [peersList EXCEPT ![n] = @ \cup {p}]
  /\ UNCHANGED <<vc, rumors, hop, mongering, net>>

-----------------------------------------------------------------------------
(* handleMessage.                                                          *)

AddPeerToList(m) == peersList' = [peersList EXCEPT ![m.dst] = @ \cup {m.src}]

\* Mutant: a node registers a route to itself.
RegisterNextHop_OwnToo(m) == hop' = [hop EXCEPT ![m.dst][m.rumor.origin] = m.src]

RegisterNextHop(m) ==
  hop' = IF m.rumor.origin = m.dst \/ m.src = m.dst THEN hop
         ELSE [hop EXCEPT ![m.dst][m.rumor.origin] = m.src]

\* Mutants: any later rumor, or any earlier one, passes for the next.
IsNext_OrLater(n, r) == r.id >= vc[n][r.origin]

IsNext_OrKnown(n, r) == r.id <= vc[n][r.origin]

\* The test of StatusPacket.Update.
IsNext(n, r) == r.id = vc[n][r.origin]

\* Update returns true: the rumor is the next one of its origin.
HandleRumor(m) ==
  /\ m.type = "rumor"
  /\ IsNext(m.dst, m.rumor)
  /\ AddPeerToList(m)
  /\ Store(m.dst, m.rumor)
  /\ RegisterNextHop(m)
  /\ \E rest \in AfterReceipt(m) : Transmit(rest, {StatusMsg(m.dst, m.src)'})
  /\ UNCHANGED mongering

\* Update returns false: known already, or ahead of a rumor still missing.
IgnoreRumor(m) ==
  /\ m.type = "rumor"
  /\ ~IsNext(m.dst, m.rumor)
  /\ AddPeerToList(m)
  /\ net' \in AfterReceipt(m)
  /\ UNCHANGED <<vc, rumors, hop, mongering>>

IsBehind(n, want) == \E o \in Nodes : vc[n][o] < want[o]

\* Mutant: a node hands on nothing but its own rumors.
Missing_OwnOnly(n, want) ==
  {r \in rumors[n] : r.origin = n /\ vc[n][n] > want[n] /\ r.id = want[n]}

\* For every origin we know more of: the first rumor the sender lacks.
Missing(n, want) ==
  {r \in rumors[n] : vc[n][r.origin] > want[r.origin] /\ r.id = want[r.origin]}

\* CompareVectorClocks.
HandleStatus(m) ==
  LET n     == m.dst
      asked == IF IsBehind(n, m.want) THEN {StatusMsg(n, m.src)} ELSE {}
      sent  == Missing(n, m.want)
  IN  /\ m.type = "status"
      /\ AddPeerToList(m)
      /\ StartMongering(n, m.src, sent, mongering)
      /\ \E rest \in AfterReceipt(m) :
           Transmit(rest, asked \cup {RumorMsg(n, m.src, r) : r \in sent})
      /\ UNCHANGED <<vc, rumors, hop>>

-----------------------------------------------------------------------------
Next ==
  \/ \E n \in Speakers, t \in Texts : ClientMessage(n, t)
  \/ \E n \in Speakers : RouteRumor(n)
  \/ \E n, p \in Nodes : AntiEntropy(n, p)
  \/ \E e \in AddedPeers : NewNode(e[1], e[2])
  \/ \E g \in mongering : StopMongering(g)
  \/ \E g \in mongering, p \in Nodes : FlippedCoin(g, p)
  \/ \E m \in net : HandleRumor(m) \/ IgnoreRumor(m) \/ HandleStatus(m) \/ Lose(m)

Spec == Init /\ [][Next]_vars

-----------------------------------------------------------------------------
(* Fairness.  A node's anti-entropy ticker fires for ever and GetRandomPeer *)
(* neglects no peer for ever; the timer of a waiting goroutine expires;    *)
(* no packet stays in flight for ever; a packet that is sent again and *)
(* again gets through again and again.  The last is asked only of a node   *)
(* and the peers it is started with.                                       *)

Consume(m) ==
  /\ HandleRumor(m) \/ IgnoreRumor(m) \/ HandleStatus(m)
  /\ m \notin net'

ConsumeStatus(s, d) ==
  \E m \in net : m.type = "status" /\ m.src = s /\ m.dst = d /\ Consume(m)

ConsumeRumor(s, d, id) ==
  \E m \in net : m.type = "rumor" /\ m.src = s /\ m.dst = d /\ m.rumor.id = id /\ Consume(m)

\* The packets the speakers' rumors give rise to, within the bounds.
Sendable ==
  LET clocks == [Nodes -> 1 .. MaxId + 1]
      said   == [origin: Speakers, id: 1 .. MaxId, text: Texts]
  IN  {m \in [type: {"status"}, src: Nodes, dst: Nodes, want: clocks] :
         m.src # m.dst /\ \A o \in Nodes \ Speakers : m.want[o] = 1}
      \cup [type: {"rumor"}, src: Nodes, dst: Nodes, rumor: said]

Fairness ==
  /\ WF_vars(\E g \in mongering : StopMongering(g))
  /\ \A m \in Sendable : WF_vars(m \in net /\ (Consume(m) \/ Lose(m)))
  /\ \A n \in Nodes : \A p \in InitialPeers[n] :
       /\ SF_vars(AntiEntropy(n, p))
       /\ SF_vars(ConsumeStatus(n, p))
       /\ \A id \in 1 .. MaxId : SF_vars(ConsumeRumor(p, n, id))

FairSpec == Spec /\ Fairness

-----------------------------------------------------------------------------
(* Safety.                                                                 *)

Of(rs, o) == {r \in rs : r.origin = o}

SameId(r, s) == r.origin = s.origin /\ r.id = s.id

(* What n stores of o is exactly the rumors below n's NextID for o: the    *)
(* clock a node advertises never claims a rumor it cannot hand on, and no  *)
(* rumor is stored twice or out of turn (StatusPacket.Update).             *)
StoreMatchesClock ==
  \A n, o \in Nodes :
    /\ {r.id : r \in Of(rumors[n], o)} = 1 .. (vc[n][o] - 1)
    /\ \A r, s \in Of(rumors[n], o) : r.id = s.id => r = s

(* With route rumors an ID may stand for a route rumor at one node and for *)
(* a client's message at another, because StartRouteRumoring does not use  *)
(* up the ID it sends; but two client messages never share an ID.          *)
ClientTextsAgree ==
  \A n, m \in Nodes : \A r \in rumors[n], s \in rumors[m] :
    SameId(r, s) /\ r.text # RouteText /\ s.text # RouteText => r = s

(* A next hop is the origin itself, or it has a route to the origin and    *)
(* knows at least as many of the origin's rumors: no private message,      *)
(* request or reply is sent towards a node that cannot pass it on.         *)
NextHopIsAhead ==
  \A n, o \in Nodes :
    LET m == hop[n][o]
    IN  m \notin {NoHop, o} => hop[m][o] # NoHop /\ vc[m][o] >= vc[n][o]

(* The next hops towards an origin never form a loop, whatever is lost,    *)
(* late or repeated: every set of other nodes has a member whose next hop  *)
(* leaves the set.                                                         *)
NoRoutingLoop ==
  \A o \in Nodes : \A S \in SUBSET (Nodes \ {o}) :
    S # {} => \E n \in S : hop[n][o] \notin S

(* The strengthening that makes the above inductive.  Whoever sends a rumor *)
(* or mongers it either wrote it or has used up its ID, a clock above 1    *)
(* comes with a route, nobody routes to itself, and a client's text        *)
(* travels unaltered.                                                      *)
Knows(n, r) == r.origin = n \/ r.id < vc[n][r.origin]

Genuine(r) == r.text # RouteText => r \in rumors[r.origin]

PacketsBacked ==
  \A m \in net : m.type = "rumor" => Knows(m.src, m.rumor) /\ Genuine(m.rumor)

MongersBacked == \A g \in mongering : Knows(g.node, g.rumor) /\ Genuine(g.rumor)

StoreGenuine == \A n \in Nodes : \A r \in rumors[n] : Genuine(r)

HeardHasRoute ==
  \A n, o \in Nodes : n # o /\ vc[n][o] > 1 => hop[n][o] # NoHop

OwnRouteless == \A n \in Nodes : hop[n][n] = NoHop

RumorInv ==
  /\ TypeOK
  /\ StoreMatchesClock
  /\ PacketsBacked
  /\ MongersBacked
  /\ StoreGenuine

RouteInv ==
  /\ RumorInv
  /\ HeardHasRoute
  /\ OwnRouteless
  /\ NextHopIsAhead
  /\ NoRoutingLoop

(* What n knows of o's log, for the abstract specification.                *)
LogOf(n, o) ==
  [i \in 1 .. (vc[n][o] - 1) |-> (CHOOSE r \in rumors[n] : r.origin = o /\ r.id = i).text]

RL == INSTANCE RumorLog WITH log <- [n \in Nodes |-> [o \in Nodes |-> LogOf(n, o)]]

(* Without route rumors the peersters together implement the replicated    *)
(* logs of RumorLog: in-order, gap-free, unaltered delivery.               *)
ImplementsRumorLog == RL!Spec

-----------------------------------------------------------------------------
(* Liveness.                                                               *)

(* Once clients fall silent, anti-entropy brings every vector clock to the *)
(* same value: everybody has every rumor, and a route to who spoke.        *)
Converged == \A n, m \in Nodes : vc[n] = vc[m]

Convergence == <>[]Converged

=============================================================================
