---------------------------- MODULE GossipProofs ----------------------------
(***************************************************************************)
(* Proofs about Gossip, for every network of nodes, every list of peers    *)
(* and any number of clients.  RouteInv is the inductive invariant; the    *)
(* one fact that is not local to a step is that a loop of next hops cannot *)
(* close, shown in LoopStep.                                               *)
(***************************************************************************)
EXTENDS Gossip, TLAPS

-----------------------------------------------------------------------------
(* Types.                                                                  *)

LEMMA PacketTypes ==
  ASSUME TypeOK
  PROVE  /\ \A m \in net : m.type \in {"rumor", "status"} /\ m.src \in Nodes /\ m.dst \in Nodes
         /\ \A m \in net : m.type = "rumor" => m \in RumorPacket /\ m.rumor \in Rumor
         /\ \A m \in net : m.type = "status" => m \in StatusPacket /\ m.want \in Clock
BY DEF TypeOK, RumorPacket, StatusPacket

LEMMA MsgTypes ==
  /\ \A s, d \in Nodes, r \in Rumor : RumorMsg(s, d, r) \in RumorPacket
  /\ TypeOK => \A s, d \in Nodes : StatusMsg(s, d) \in StatusPacket
BY DEF RumorMsg, StatusMsg, RumorPacket, StatusPacket, TypeOK

LEMMA StartTypes ==
  ASSUME TypeOK, NEW n \in Nodes, NEW d \in Nodes, NEW rs \in SUBSET Rumor,
         NEW gs \in SUBSET mongering, StartMongering(n, d, rs, gs)
  PROVE  mongering' \in SUBSET Monger
BY DEF TypeOK, StartMongering, Mongers, Monger

LEMMA StoreTypes ==
  ASSUME TypeOK, NEW n \in Nodes, NEW r \in Rumor, Store(n, r)
  PROVE  /\ vc' \in [Nodes -> Clock]
         /\ rumors' \in [Nodes -> SUBSET Rumor]
<1>1. r.origin \in Nodes
  BY DEF Rumor
<1>2. vc' = [vc EXCEPT ![n][r.origin] = vc[n][r.origin] + 1]
  BY DEF Store
<1>3. vc[n] \in Clock /\ vc[n][r.origin] + 1 \in Nat \ {0}
  BY <1>1 DEF TypeOK, Clock
<1>4. [vc[n] EXCEPT ![r.origin] = vc[n][r.origin] + 1] \in Clock
  BY <1>1, <1>3 DEF Clock
<1>5. vc' = [vc EXCEPT ![n] = [vc[n] EXCEPT ![r.origin] = vc[n][r.origin] + 1]]
  BY <1>2
<1>6. vc' \in [Nodes -> Clock]
  BY <1>4, <1>5 DEF TypeOK
<1>7. rumors' \in [Nodes -> SUBSET Rumor]
  BY DEF Store, TypeOK
<1> QED BY <1>6, <1>7

LEMMA OwnRumor ==
  ASSUME TypeOK, NEW n \in Nodes, NEW t \in Texts \cup {RouteText}
  PROVE  [origin |-> n, id |-> vc[n][n], text |-> t] \in Rumor
BY DEF TypeOK, Clock, Rumor

LEMMA TypeStep == TypeOK /\ [Next]_vars => TypeOK'
<1> SUFFICES ASSUME TypeOK, [Next]_vars
             PROVE  TypeOK'
  OBVIOUS
<1> USE DEF TypeOK
<1>1. ASSUME NEW n \in Speakers, NEW t \in Texts, ClientMessage(n, t)
      PROVE  TypeOK'
  <2> DEFINE r == [origin |-> n, id |-> vc[n][n], text |-> t]
  <2>1. n \in Nodes /\ r \in Rumor
    BY <1>1, PeersAssumption, OwnRumor
  <2>2. Store(n, r) /\ MongerWithRandomPeer(n, r) /\ UNCHANGED <<peersList, hop>>
    BY <1>1 DEF ClientMessage
  <2>3. vc' \in [Nodes -> Clock] /\ rumors' \in [Nodes -> SUBSET Rumor]
    BY <2>1, <2>2, StoreTypes
  <2> HIDE DEF r
  <2>4. mongering' \in SUBSET Monger /\ net' \in SUBSET (RumorPacket \cup StatusPacket)
    BY <2>1, <2>2, StartTypes, MsgTypes DEF MongerWithRandomPeer, Transmit
  <2> QED BY <2>2, <2>3, <2>4
<1>2. ASSUME NEW n \in Speakers, RouteRumor(n)
      PROVE  TypeOK'
  <2> DEFINE r == [origin |-> n, id |-> vc[n][n], text |-> RouteText]
  <2>1. n \in Nodes /\ r \in Rumor
    BY <1>2, PeersAssumption, OwnRumor
  <2>2. MongerWithRandomPeer(n, r) /\ UNCHANGED <<peersList, vc, rumors, hop>>
    BY <1>2 DEF RouteRumor
  <2> HIDE DEF r
  <2>3. mongering' \in SUBSET Monger /\ net' \in SUBSET (RumorPacket \cup StatusPacket)
    BY <2>1, <2>2, StartTypes, MsgTypes DEF MongerWithRandomPeer, Transmit
  <2> QED BY <2>2, <2>3
<1>3. ASSUME NEW n \in Nodes, NEW p \in Nodes, AntiEntropy(n, p)
      PROVE  TypeOK'
  BY <1>3, MsgTypes DEF AntiEntropy, Transmit
<1>4. ASSUME NEW e \in AddedPeers, NewNode(e[1], e[2])
      PROVE  TypeOK'
  BY <1>4, PeersAssumption DEF NewNode
<1>5. ASSUME NEW g \in mongering, StopMongering(g)
      PROVE  TypeOK'
  BY <1>5 DEF StopMongering
<1>6. ASSUME NEW g \in mongering, NEW p \in Nodes, FlippedCoin(g, p)
      PROVE  TypeOK'
  <2>1. g.node \in Nodes /\ g.rumor \in Rumor
    BY DEF Monger
  <2>2. mongering' \in SUBSET Monger
    BY <1>6, <2>1, StartTypes DEF FlippedCoin
  <2>3. net' \in SUBSET (RumorPacket \cup StatusPacket)
    BY <1>6, <2>1, MsgTypes DEF FlippedCoin, Transmit
  <2> QED BY <1>6, <2>2, <2>3 DEF FlippedCoin
<1>7. ASSUME NEW m \in net, HandleRumor(m)
      PROVE  TypeOK'
  <2>1. m.src \in Nodes /\ m.dst \in Nodes /\ m.rumor \in Rumor /\ m.rumor.origin \in Nodes
    BY <1>7, PacketTypes DEF HandleRumor, Rumor
  <2>2. vc' \in [Nodes -> Clock] /\ rumors' \in [Nodes -> SUBSET Rumor]
    BY <1>7, <2>1, StoreTypes DEF HandleRumor
  <2>3. hop' \in [Nodes -> [Nodes -> Nodes \cup {NoHop}]]
    BY <1>7, <2>1 DEF HandleRumor, RegisterNextHop
  <2>4. StatusMsg(m.dst, m.src)' \in StatusPacket
    BY <2>1, <2>2 DEF StatusMsg, StatusPacket
  <2>5. net' \in SUBSET (RumorPacket \cup StatusPacket)
    BY <1>7, <2>4 DEF HandleRumor, Transmit, AfterReceipt
  <2> QED BY <1>7, <2>1, <2>2, <2>3, <2>5 DEF HandleRumor, AddPeerToList
<1>8. ASSUME NEW m \in net, IgnoreRumor(m)
      PROVE  TypeOK'
  BY <1>8, PacketTypes DEF IgnoreRumor, AddPeerToList, AfterReceipt
<1>9. ASSUME NEW m \in net, HandleStatus(m)
      PROVE  TypeOK'
  <2> DEFINE sent  == Missing(m.dst, m.want)
             asked == IF IsBehind(m.dst, m.want) THEN {StatusMsg(m.dst, m.src)} ELSE {}
  <2>1. m.src \in Nodes /\ m.dst \in Nodes
    BY PacketTypes
  <2>2. sent \in SUBSET Rumor
    BY <2>1 DEF Missing
  <2>3. StartMongering(m.dst, m.src, sent, mongering) /\ AddPeerToList(m) /\ UNCHANGED <<vc, rumors, hop>>
    BY <1>9 DEF HandleStatus
  <2>4. PICK rest \in AfterReceipt(m) :
          net' = rest \cup asked \cup {RumorMsg(m.dst, m.src, r) : r \in sent}
    BY <1>9 DEF HandleStatus, Transmit
  <2> HIDE DEF sent
  <2>5. mongering' \in SUBSET Monger
    BY <2>1, <2>2, <2>3, StartTypes
  <2>6. net' \in SUBSET (RumorPacket \cup StatusPacket)
    BY <2>1, <2>2, <2>4, MsgTypes DEF AfterReceipt
  <2> QED BY <2>1, <2>3, <2>5, <2>6 DEF AddPeerToList
<1>10. ASSUME NEW m \in net, Lose(m)
       PROVE  TypeOK'
  BY <1>10 DEF Lose
<1>11. CASE UNCHANGED vars
  BY <1>11 DEF vars
<1> QED BY <1>1, <1>2, <1>3, <1>4, <1>5, <1>6, <1>7, <1>8, <1>9, <1>10, <1>11 DEF Next

(* Every variable keeps its type, whatever the nodes and the network do.   *)
THEOREM TypeCorrect == Spec => []TypeOK
<1>1. Init => TypeOK
  BY PeersAssumption DEF Init, TypeOK, Clock
<1> QED BY <1>1, TypeStep, PTL DEF Spec

-----------------------------------------------------------------------------
(* The store and the clock.                                                *)

\* A node stores a rumor whose ID is its NextID for the origin.
Accepts(n, r) == r.id = vc[n][r.origin] /\ Store(n, r)

LEMMA StoreEffect ==
  ASSUME TypeOK, NEW n \in Nodes, NEW r \in Rumor, Accepts(n, r)
  PROVE  /\ r.origin \in Nodes
         /\ vc'[n][r.origin] = vc[n][r.origin] + 1
         /\ \A m, o \in Nodes : m # n \/ o # r.origin => vc'[m][o] = vc[m][o]
         /\ \A m, o \in Nodes : vc'[m][o] >= vc[m][o]
         /\ rumors'[n] = rumors[n] \cup {r}
         /\ \A m \in Nodes : m # n => rumors'[m] = rumors[m]
         /\ \A m \in Nodes : rumors[m] \subseteq rumors'[m]
<1>1. r.origin \in Nodes
  BY DEF Rumor
<1>2. /\ vc'[n][r.origin] = vc[n][r.origin] + 1
      /\ \A m, o \in Nodes : m # n \/ o # r.origin => vc'[m][o] = vc[m][o]
  BY <1>1 DEF Accepts, Store, TypeOK, Clock
<1>3. \A m, o \in Nodes : vc[m][o] \in Nat
  BY DEF TypeOK, Clock
<1>4. \A m, o \in Nodes : vc'[m][o] >= vc[m][o]
  BY <1>1, <1>2, <1>3
<1>5. /\ rumors'[n] = rumors[n] \cup {r}
      /\ \A m \in Nodes : m # n => rumors'[m] = rumors[m]
  BY DEF Accepts, Store, TypeOK
<1> QED BY <1>1, <1>2, <1>4, <1>5

LEMMA StoreStep ==
  ASSUME TypeOK, StoreMatchesClock, NEW n \in Nodes, NEW r \in Rumor, Accepts(n, r)
  PROVE  StoreMatchesClock'
<1>1. SUFFICES ASSUME NEW m \in Nodes, NEW o \in Nodes
               PROVE  /\ {x.id : x \in Of(rumors'[m], o)} = 1 .. (vc'[m][o] - 1)
                      /\ \A x, y \in Of(rumors'[m], o) : x.id = y.id => x = y
  BY DEF StoreMatchesClock
<1>2. /\ {x.id : x \in Of(rumors[m], o)} = 1 .. (vc[m][o] - 1)
      /\ \A x, y \in Of(rumors[m], o) : x.id = y.id => x = y
  BY DEF StoreMatchesClock
<1>3. vc[m][o] \in Nat \ {0}
  BY DEF TypeOK, Clock
<1>4. CASE m = n /\ o = r.origin
  <2>1. Of(rumors'[m], o) = Of(rumors[m], o) \cup {r}
    BY <1>4, StoreEffect DEF Of
  <2>2. {x.id : x \in Of(rumors'[m], o)} = {x.id : x \in Of(rumors[m], o)} \cup {r.id}
    BY <2>1
  <2>3. r.id = vc[m][o] /\ vc'[m][o] = vc[m][o] + 1
    BY <1>4, StoreEffect DEF Accepts
  <2>4. (1 .. (vc[m][o] - 1)) \cup {vc[m][o]} = 1 .. (vc'[m][o] - 1)
    BY <1>3, <2>3
  <2>5. \A x \in Of(rumors[m], o) : x.id # r.id
    <3>1. \A x \in Of(rumors[m], o) : x.id \in 1 .. (vc[m][o] - 1)
      BY <1>2
    <3> QED BY <1>3, <2>3, <3>1
  <2> QED BY <1>2, <2>1, <2>2, <2>3, <2>4, <2>5
<1>5. CASE m # n \/ o # r.origin
  <2>1. Of(rumors'[m], o) = Of(rumors[m], o)
    BY <1>5, StoreEffect DEF Of
  <2> QED BY <1>2, <1>5, <2>1, StoreEffect
<1> QED BY <1>4, <1>5

LEMMA StoredIsKnown ==
  ASSUME TypeOK, StoreMatchesClock, NEW n \in Nodes, NEW r \in rumors[n]
  PROVE  r.id < vc[n][r.origin]
<1>1. r.origin \in Nodes /\ vc[n][r.origin] \in Nat
  BY DEF TypeOK, Rumor, Clock
<1>2. r \in Of(rumors[n], r.origin)
  BY DEF Of
<1>3. r.id \in 1 .. (vc[n][r.origin] - 1)
  BY <1>1, <1>2 DEF StoreMatchesClock
<1> QED BY <1>1, <1>3

-----------------------------------------------------------------------------
(* What is sent is backed by the sender's clock.                           *)

Grows ==
  \A n \in Nodes :
    /\ rumors[n] \subseteq rumors'[n]
    /\ \A o \in Nodes : vc'[n][o] >= vc[n][o]

Backed(n, r) == Knows(n, r) /\ Genuine(r)

\* Step A sends and mongers only rumors that are backed after it.
SendsBacked ==
  /\ \A m \in net' : m \in net \/ (m.type = "rumor" => Backed(m.src, m.rumor)')
  /\ \A g \in mongering' : g \in mongering \/ Backed(g.node, g.rumor)'

LEMMA BackedGrows ==
  ASSUME TypeOK, TypeOK', Grows, NEW n \in Nodes, NEW r \in Rumor, Backed(n, r)
  PROVE  Backed(n, r)'
<1>1. r.origin \in Nodes /\ r.id \in Nat /\ vc[n][r.origin] \in Nat /\ vc'[n][r.origin] \in Nat
  BY DEF TypeOK, Rumor, Clock
<1> QED BY <1>1 DEF Grows, Backed, Knows, Genuine

LEMMA BackedStep ==
  ASSUME RumorInv, TypeOK', Grows, SendsBacked
  PROVE  PacketsBacked' /\ MongersBacked'
<1>1. ASSUME NEW m \in net', m.type = "rumor"
      PROVE  Backed(m.src, m.rumor)'
  <2>1. CASE m \in net
    <3>1. m.src \in Nodes /\ m.rumor \in Rumor
      BY <1>1, <2>1, PacketTypes DEF RumorInv
    <3>2. Backed(m.src, m.rumor)
      BY <1>1, <2>1 DEF RumorInv, PacketsBacked, Backed
    <3> QED BY <3>1, <3>2, BackedGrows DEF RumorInv
  <2> QED BY <1>1, <2>1 DEF SendsBacked
<1>2. ASSUME NEW g \in mongering'
      PROVE  Backed(g.node, g.rumor)'
  <2>1. CASE g \in mongering
    <3>1. g.node \in Nodes /\ g.rumor \in Rumor
      BY <2>1 DEF RumorInv, TypeOK, Monger
    <3>2. Backed(g.node, g.rumor)
      BY <2>1 DEF RumorInv, MongersBacked, Backed
    <3> QED BY <3>1, <3>2, BackedGrows DEF RumorInv
  <2> QED BY <1>2, <2>1 DEF SendsBacked
<1> QED BY <1>1, <1>2 DEF PacketsBacked, MongersBacked, Backed

\* A step that stores nothing only has to send what is backed.
LEMMA QuietStep ==
  ASSUME RumorInv, TypeOK', UNCHANGED <<vc, rumors>>, SendsBacked
  PROVE  RumorInv'
<1>1. Grows
  BY DEF Grows, RumorInv, TypeOK, Clock
<1>2. StoreMatchesClock' /\ StoreGenuine'
  BY DEF RumorInv, StoreMatchesClock, StoreGenuine, Genuine
<1> QED BY <1>1, <1>2, BackedStep DEF RumorInv

\* A node that stores a rumor may send it on afterwards.
LEMMA StoringStep ==
  ASSUME RumorInv, TypeOK', NEW n \in Nodes, NEW r \in Rumor, Accepts(n, r),
         Genuine(r)', SendsBacked
  PROVE  RumorInv'
<1> USE DEF RumorInv
<1>1. Grows
  BY StoreEffect DEF Grows
<1>2. StoreMatchesClock'
  BY StoreStep
<1>3. StoreGenuine'
  <2>1. ASSUME NEW m \in Nodes, NEW x \in rumors'[m]
        PROVE  Genuine(x)'
    <3>1. CASE x \in rumors[m]
      <4>1. x \in Rumor /\ Genuine(x)
        BY <3>1 DEF StoreGenuine, TypeOK
      <4>2. x.origin \in Nodes
        BY <4>1 DEF Rumor
      <4> QED BY <1>1, <4>1, <4>2 DEF Genuine, Grows
    <3>2. CASE x \notin rumors[m]
      BY <2>1, <3>2, StoreEffect
    <3> QED BY <3>1, <3>2
  <2> QED BY <2>1 DEF StoreGenuine
<1> QED BY <1>1, <1>2, <1>3, BackedStep

LEMMA StartBacked ==
  ASSUME NEW n, NEW d, NEW rs, NEW gs \in SUBSET mongering,
         StartMongering(n, d, rs, gs), \A r \in rs : Backed(n, r)'
  PROVE  \A g \in mongering' : g \in mongering \/ Backed(g.node, g.rumor)'
BY DEF StartMongering, Mongers

LEMMA TransmitBacked ==
  ASSUME NEW n, NEW d, NEW rs, NEW rest \in SUBSET net, NEW ss,
         net' = rest \cup ss \cup {RumorMsg(n, d, r) : r \in rs},
         \A m \in ss : m.type = "status",
         \A r \in rs : Backed(n, r)'
  PROVE  \A m \in net' : m \in net \/ (m.type = "rumor" => Backed(m.src, m.rumor)')
<1>1. \A r \in rs : RumorMsg(n, d, r).src = n /\ RumorMsg(n, d, r).rumor = r
  BY DEF RumorMsg
<1> QED BY <1>1

LEMMA MongerBacked ==
  ASSUME NEW n, NEW r, MongerWithRandomPeer(n, r), Backed(n, r)'
  PROVE  SendsBacked
<1>1. CASE peersList[n] = {}
  BY <1>1 DEF MongerWithRandomPeer, SendsBacked
<1>2. CASE peersList[n] # {}
  <2>1. PICK p \in peersList[n] :
          StartMongering(n, p, {r}, mongering) /\ Transmit(net, {RumorMsg(n, p, r)})
    BY <1>2 DEF MongerWithRandomPeer
  <2>2. \A g \in mongering' : g \in mongering \/ Backed(g.node, g.rumor)'
    BY <2>1, StartBacked
  <2>3. RumorMsg(n, p, r).src = n /\ RumorMsg(n, p, r).rumor = r
    BY DEF RumorMsg
  <2>4. \A m \in net' : m \in net \/ (m.type = "rumor" => Backed(m.src, m.rumor)')
    BY <2>1, <2>3 DEF Transmit
  <2> QED BY <2>2, <2>4 DEF SendsBacked
<1> QED BY <1>1, <1>2

LEMMA RumorStep == RumorInv /\ [Next]_vars => RumorInv'
<1> SUFFICES ASSUME RumorInv, [Next]_vars
             PROVE  RumorInv'
  OBVIOUS
<1> TypeOK /\ TypeOK'
  BY TypeStep DEF RumorInv
<1>1. ASSUME NEW n \in Speakers, NEW t \in Texts, ClientMessage(n, t)
      PROVE  RumorInv'
  <2>0. n \in Nodes
    BY PeersAssumption
  <2>1. PICK r \in Rumor : r = [origin |-> n, id |-> vc[n][n], text |-> t]
    BY <2>0, OwnRumor
  <2>2. Accepts(n, r) /\ MongerWithRandomPeer(n, r) /\ r.origin = n
    BY <1>1, <2>1 DEF ClientMessage, Accepts
  <2>3. Backed(n, r)' /\ Genuine(r)'
    BY <2>0, <2>2, StoreEffect DEF Backed, Knows, Genuine
  <2>4. SendsBacked
    BY <2>2, <2>3, MongerBacked
  <2> QED BY <2>0, <2>2, <2>3, <2>4, StoringStep
<1>2. ASSUME NEW n \in Speakers, RouteRumor(n)
      PROVE  RumorInv'
  <2>0. PICK r : r = [origin |-> n, id |-> vc[n][n], text |-> RouteText]
    OBVIOUS
  <2>1. MongerWithRandomPeer(n, r) /\ UNCHANGED <<vc, rumors>>
    BY <1>2, <2>0 DEF RouteRumor
  <2>2. Backed(n, r)'
    BY <2>0 DEF Backed, Knows, Genuine
  <2>3. SendsBacked
    BY <2>1, <2>2, MongerBacked
  <2> QED BY <2>1, <2>3, QuietStep
<1>3. ASSUME NEW n \in Nodes, NEW p \in Nodes, AntiEntropy(n, p)
      PROVE  RumorInv'
  <2>1. SendsBacked
    BY <1>3 DEF AntiEntropy, Transmit, StatusMsg, SendsBacked
  <2> QED BY <1>3, <2>1, QuietStep DEF AntiEntropy
<1>4. ASSUME NEW e \in AddedPeers, NewNode(e[1], e[2])
      PROVE  RumorInv'
  BY <1>4, QuietStep DEF NewNode, SendsBacked
<1>5. ASSUME NEW g \in mongering, StopMongering(g)
      PROVE  RumorInv'
  BY <1>5, QuietStep DEF StopMongering, SendsBacked
<1>6. ASSUME NEW g \in mongering, NEW p \in Nodes, FlippedCoin(g, p)
      PROVE  RumorInv'
  <2>1. UNCHANGED <<vc, rumors>>
    BY <1>6 DEF FlippedCoin
  <2>2. Backed(g.node, g.rumor)'
    BY <2>1 DEF RumorInv, MongersBacked, Backed, Knows, Genuine
  <2>3. \A h \in mongering' : h \in mongering \/ Backed(h.node, h.rumor)'
    BY <1>6, <2>2, StartBacked DEF FlippedCoin
  <2>4. RumorMsg(g.node, p, g.rumor).src = g.node /\ RumorMsg(g.node, p, g.rumor).rumor = g.rumor
    BY DEF RumorMsg
  <2>5. \A m \in net' : m \in net \/ (m.type = "rumor" => Backed(m.src, m.rumor)')
    BY <1>6, <2>2, <2>4 DEF FlippedCoin, Transmit
  <2> QED BY <2>1, <2>3, <2>5, QuietStep DEF SendsBacked
<1>7. ASSUME NEW m \in net, HandleRumor(m)
      PROVE  RumorInv'
  <2>1. m.dst \in Nodes /\ m.rumor \in Rumor /\ Genuine(m.rumor)
    BY <1>7, PacketTypes DEF HandleRumor, RumorInv, PacketsBacked
  <2>2. Accepts(m.dst, m.rumor)
    BY <1>7 DEF HandleRumor, Accepts, IsNext
  <2>3. Genuine(m.rumor)'
    <3>1. m.rumor.origin \in Nodes
      BY <2>1 DEF Rumor
    <3> QED BY <2>1, <2>2, <3>1, StoreEffect DEF Genuine
  <2>4. SendsBacked
    BY <1>7 DEF HandleRumor, Transmit, AfterReceipt, StatusMsg, SendsBacked
  <2> QED BY <2>1, <2>2, <2>3, <2>4, StoringStep
<1>8. ASSUME NEW m \in net, IgnoreRumor(m)
      PROVE  RumorInv'
  <2>1. SendsBacked
    BY <1>8 DEF IgnoreRumor, AfterReceipt, SendsBacked
  <2> QED BY <1>8, <2>1, QuietStep DEF IgnoreRumor
<1>9. ASSUME NEW m \in net, HandleStatus(m)
      PROVE  RumorInv'
  <2> DEFINE sent  == Missing(m.dst, m.want)
             asked == IF IsBehind(m.dst, m.want) THEN {StatusMsg(m.dst, m.src)} ELSE {}
  <2>1. UNCHANGED <<vc, rumors>> /\ StartMongering(m.dst, m.src, sent, mongering)
    BY <1>9 DEF HandleStatus
  <2>2. PICK rest \in AfterReceipt(m) :
          net' = rest \cup asked \cup {RumorMsg(m.dst, m.src, r) : r \in sent}
    BY <1>9 DEF HandleStatus, Transmit
  <2>3. \A x \in asked : x.type = "status"
    BY DEF StatusMsg
  <2>4. \A r \in sent : Backed(m.dst, r)'
    <3>1. m.dst \in Nodes
      BY PacketTypes
    <3>2. \A r \in rumors[m.dst] : Knows(m.dst, r) /\ Genuine(r)
      BY <3>1, StoredIsKnown DEF RumorInv, Knows, StoreGenuine
    <3> QED BY <2>1, <3>2 DEF Missing, Backed, Knows, Genuine
  <2>5. rest \in SUBSET net
    BY DEF AfterReceipt
  <2> HIDE DEF sent, asked
  <2>6. \A g \in mongering' : g \in mongering \/ Backed(g.node, g.rumor)'
    BY <2>1, <2>4, StartBacked
  <2>7. \A x \in net' : x \in net \/ (x.type = "rumor" => Backed(x.src, x.rumor)')
    BY <2>2, <2>3, <2>4, <2>5, TransmitBacked
  <2> QED BY <2>1, <2>6, <2>7, QuietStep DEF SendsBacked
<1>10. ASSUME NEW m \in net, Lose(m)
       PROVE  RumorInv'
  BY <1>10, QuietStep DEF Lose, SendsBacked
<1>11. CASE UNCHANGED vars
  BY <1>11, QuietStep DEF vars, SendsBacked
<1> QED BY <1>1, <1>2, <1>3, <1>4, <1>5, <1>6, <1>7, <1>8, <1>9, <1>10, <1>11 DEF Next

-----------------------------------------------------------------------------
(* Routes.                                                                 *)

\* Only the origin's own clock moves without a route being registered.
QuietRoutes ==
  /\ hop' = hop
  /\ \A n, o \in Nodes : n # o => vc'[n][o] = vc[n][o]
  /\ \A o \in Nodes : vc'[o][o] >= vc[o][o]

LEMMA QuietRouteStep ==
  ASSUME RouteInv, TypeOK', RumorInv', QuietRoutes
  PROVE  RouteInv'
<1> USE DEF RouteInv, QuietRoutes
<1>1. HeardHasRoute'
  BY DEF HeardHasRoute
<1>2. NextHopIsAhead'
  <2> SUFFICES ASSUME NEW n \in Nodes, NEW o \in Nodes, hop[n][o] \notin {NoHop, o}
               PROVE  hop[hop[n][o]][o] # NoHop /\ vc'[hop[n][o]][o] >= vc'[n][o]
    BY DEF NextHopIsAhead
  <2>1. hop[n][o] \in Nodes
    BY DEF RumorInv, TypeOK
  <2>2. hop[hop[n][o]][o] # NoHop /\ vc[hop[n][o]][o] >= vc[n][o]
    BY DEF NextHopIsAhead
  <2>3. n # o
    BY DEF OwnRouteless
  <2> QED BY <2>1, <2>2, <2>3
<1>3. NoRoutingLoop'
  BY DEF NoRoutingLoop
<1>4. OwnRouteless'
  BY DEF OwnRouteless
<1> QED BY <1>1, <1>2, <1>3, <1>4

\* n accepts a rumor of o from src and routes to o through src.
Learns(n, o, src) ==
  /\ hop' = [hop EXCEPT ![n][o] = src]
  /\ vc'[n][o] = vc[n][o] + 1
  /\ \A x, y \in Nodes : x # n \/ y # o => vc'[x][y] = vc[x][y]
  /\ src = o \/ vc[src][o] > vc[n][o]

LEMMA AheadStep ==
  ASSUME RouteInv, NEW n \in Nodes, NEW o \in Nodes, NEW src \in Nodes,
         n # o, src # n, Learns(n, o, src)
  PROVE  HeardHasRoute' /\ NextHopIsAhead' /\ OwnRouteless'
<1> USE DEF RouteInv, Learns
<1>1. /\ hop'[n][o] = src
      /\ \A x, y \in Nodes : x # n \/ y # o => hop'[x][y] = hop[x][y]
      /\ \A x, y \in Nodes : vc[x][y] \in Nat \ {0}
      /\ \A x, y \in Nodes : hop[x][y] \in Nodes \cup {NoHop}
  BY DEF RumorInv, TypeOK, Clock
<1>2. HeardHasRoute'
  BY <1>1, NodesAssumption DEF HeardHasRoute
<1>3. NextHopIsAhead'
  <2> SUFFICES ASSUME NEW x \in Nodes, NEW y \in Nodes, hop'[x][y] \notin {NoHop, y}
               PROVE  hop'[hop'[x][y]][y] # NoHop /\ vc'[hop'[x][y]][y] >= vc'[x][y]
    BY DEF NextHopIsAhead
  <2>1. CASE x = n /\ y = o
    <3>1. src # o /\ vc[src][o] > vc[n][o]
      BY <1>1, <2>1
    <3>2. hop[src][o] # NoHop
      <4>1. vc[src][o] \in Nat /\ vc[n][o] \in Nat \ {0}
        BY <1>1
      <4>2. vc[src][o] > 1
        BY <3>1, <4>1
      <4> QED BY <3>1, <4>2 DEF HeardHasRoute
    <3>3. hop'[src][o] = hop[src][o] /\ vc'[src][o] = vc[src][o]
      BY <1>1
    <3> QED BY <1>1, <2>1, <3>1, <3>2, <3>3
  <2>2. CASE x # n \/ y # o
    <3>1. hop'[x][y] = hop[x][y] /\ vc'[x][y] = vc[x][y] /\ hop[x][y] \in Nodes
      BY <1>1, <2>2
    <3>2. hop[hop[x][y]][y] # NoHop /\ vc[hop[x][y]][y] >= vc[x][y]
      BY <3>1 DEF NextHopIsAhead
    <3>3. CASE hop[x][y] = n /\ y = o
      BY <1>1, <3>1, <3>2, <3>3, NodesAssumption
    <3>4. CASE hop[x][y] # n \/ y # o
      BY <1>1, <3>1, <3>2, <3>4
    <3> QED BY <3>3, <3>4
  <2> QED BY <2>1, <2>2
<1>4. OwnRouteless'
  BY <1>1 DEF OwnRouteless
<1> QED BY <1>2, <1>3, <1>4

(* A loop through the new hop n -> src would need every member to be at    *)
(* least as far as its predecessor; those ahead of n then form a loop that *)
(* was there before the step, without n.                                   *)
LEMMA LoopStep ==
  ASSUME RouteInv, NEW n \in Nodes, NEW o \in Nodes, NEW src \in Nodes,
         n # o, src # n, Learns(n, o, src)
  PROVE  NoRoutingLoop'
<1>1. /\ hop'[n][o] = src
      /\ \A x, y \in Nodes : x # n \/ y # o => hop'[x][y] = hop[x][y]
      /\ \A x, y \in Nodes : vc[x][y] \in Nat \ {0}
  BY DEF RouteInv, RumorInv, TypeOK, Clock, Learns
<1> SUFFICES ASSUME NEW y \in Nodes, NEW S \in SUBSET (Nodes \ {y}), S # {},
                    \A x \in S : hop'[x][y] \in S
             PROVE  FALSE
  BY DEF NoRoutingLoop
<1>2. CASE y # o \/ n \notin S
  <2>1. \A x \in S : hop[x][y] = hop'[x][y]
    BY <1>1, <1>2
  <2> QED BY <2>1 DEF RouteInv, NoRoutingLoop
<1>3. CASE y = o /\ n \in S
  <2> DEFINE T == {x \in S : vc[x][o] > vc[n][o]}
  <2>1. src \in S /\ src # o /\ vc[src][o] > vc[n][o]
    BY <1>1, <1>3 DEF Learns
  <2>2. src \in T
    BY <2>1
  <2>3. ASSUME NEW x \in T
        PROVE  hop[x][o] \in T
    <3>1. x \in Nodes /\ x # n
      BY <1>1
    <3>2. hop[x][o] = hop'[x][o] /\ hop[x][o] \in S
      BY <1>1, <1>3, <3>1
    <3>3. hop[x][o] \in Nodes /\ hop[x][o] \notin {NoHop, o}
      BY <1>3, <3>2, NodesAssumption
    <3>4. vc[hop[x][o]][o] >= vc[x][o]
      BY <3>1, <3>3 DEF RouteInv, NextHopIsAhead
    <3> QED BY <1>1, <3>1, <3>2, <3>3, <3>4
  <2>4. T \in SUBSET (Nodes \ {o})
    BY <1>3
  <2> HIDE DEF T
  <2> QED BY <2>2, <2>3, <2>4 DEF RouteInv, NoRoutingLoop
<1> QED BY <1>2, <1>3

\* What a step does to the routes and clocks: nothing, or one new route.
RouteChange ==
  \/ QuietRoutes
  \/ \E n, o, src \in Nodes : n # o /\ src # n /\ Learns(n, o, src)

LEMMA StepChanges == RouteInv /\ [Next]_vars => RouteChange
<1> SUFFICES ASSUME RouteInv, [Next]_vars
             PROVE  RouteChange
  OBVIOUS
<1> TypeOK /\ RumorInv
  BY DEF RouteInv, RumorInv
<1> \A n, o \in Nodes : vc[n][o] \in Nat
  BY DEF TypeOK, Clock
<1>1. ASSUME NEW n \in Speakers, NEW t \in Texts, ClientMessage(n, t)
      PROVE  RouteChange
  <2>1. PICK r \in Rumor : r = [origin |-> n, id |-> vc[n][n], text |-> t]
    BY PeersAssumption, OwnRumor
  <2>2. Accepts(n, r) /\ r.origin = n /\ n \in Nodes /\ hop' = hop
    BY <1>1, <2>1, PeersAssumption DEF ClientMessage, Accepts
  <2>3. QuietRoutes
    BY <2>2, StoreEffect DEF QuietRoutes
  <2> QED BY <2>3 DEF RouteChange
<1>2. ASSUME NEW m \in net, HandleRumor(m)
      PROVE  RouteChange
  <2> DEFINE n == m.dst
             o == m.rumor.origin
  <2>1. n \in Nodes /\ m.src \in Nodes /\ m.rumor \in Rumor /\ o \in Nodes
    BY <1>2, PacketTypes DEF HandleRumor, Rumor
  <2>2. Accepts(n, m.rumor) /\ RegisterNextHop(m)
    BY <1>2 DEF HandleRumor, Accepts, IsNext
  <2>3. Knows(m.src, m.rumor)
    BY <1>2 DEF HandleRumor, RumorInv, PacketsBacked
  <2>4. CASE n # o /\ m.src # n
    <3>1. Learns(n, o, m.src)
      BY <2>1, <2>2, <2>3, <2>4, StoreEffect DEF Learns, RegisterNextHop, Accepts, Knows
    <3> QED BY <2>1, <2>4, <3>1 DEF RouteChange
  <2>5. CASE n = o
    <3>1. QuietRoutes
      BY <2>1, <2>2, <2>5, StoreEffect DEF QuietRoutes, RegisterNextHop
    <3> QED BY <3>1 DEF RouteChange
  <2>6. CASE n # o /\ m.src = n
    BY <2>1, <2>2, <2>3, <2>6 DEF Knows, Accepts
  <2> QED BY <2>4, <2>5, <2>6
<1>3. CASE UNCHANGED <<vc, hop>>
  BY <1>3 DEF RouteChange, QuietRoutes
<1>4. ASSUME NEW m \in net, IgnoreRumor(m) \/ HandleStatus(m) \/ Lose(m)
      PROVE  RouteChange
  BY <1>3, <1>4 DEF IgnoreRumor, HandleStatus, Lose
<1>5. ASSUME NEW g \in mongering, StopMongering(g)
      PROVE  RouteChange
  BY <1>3, <1>5 DEF StopMongering
<1>6. ASSUME NEW g \in mongering, NEW p \in Nodes, FlippedCoin(g, p)
      PROVE  RouteChange
  BY <1>3, <1>6 DEF FlippedCoin
<1>7. ASSUME NEW n \in Speakers, RouteRumor(n)
      PROVE  RouteChange
  BY <1>3, <1>7 DEF RouteRumor
<1>8. ASSUME NEW n \in Nodes, NEW p \in Nodes, AntiEntropy(n, p)
      PROVE  RouteChange
  BY <1>3, <1>8 DEF AntiEntropy
<1>9. ASSUME NEW e \in AddedPeers, NewNode(e[1], e[2])
      PROVE  RouteChange
  BY <1>3, <1>9 DEF NewNode
<1>10. CASE UNCHANGED vars
  BY <1>3, <1>10 DEF vars
<1> QED BY <1>1, <1>2, <1>4, <1>5, <1>6, <1>7, <1>8, <1>9, <1>10 DEF Next

LEMMA RouteStep == RouteInv /\ [Next]_vars => RouteInv'
<1> SUFFICES ASSUME RouteInv, [Next]_vars
             PROVE  RouteInv'
  OBVIOUS
<1>1. TypeOK' /\ RumorInv'
  BY RumorStep DEF RouteInv, RumorInv
<1>2. CASE QuietRoutes
  BY <1>1, <1>2, QuietRouteStep
<1>3. ASSUME NEW n \in Nodes, NEW o \in Nodes, NEW src \in Nodes,
             n # o, src # n, Learns(n, o, src)
      PROVE  RouteInv'
  BY <1>1, <1>3, AheadStep, LoopStep DEF RouteInv
<1> QED BY <1>2, <1>3, StepChanges DEF RouteChange

LEMMA InitRoutes == Init => RouteInv
<1> SUFFICES ASSUME Init
             PROVE  RouteInv
  OBVIOUS
<1>1. TypeOK
  BY PeersAssumption DEF Init, TypeOK, Clock
<1>2. StoreMatchesClock
  <2>1. 1 .. (1 - 1) = {}
    OBVIOUS
  <2> QED BY <2>1 DEF Init, StoreMatchesClock, Of
<1>3. PacketsBacked /\ MongersBacked /\ StoreGenuine /\ HeardHasRoute /\ NextHopIsAhead /\ OwnRouteless
  BY DEF Init, PacketsBacked, MongersBacked, StoreGenuine, HeardHasRoute, NextHopIsAhead, OwnRouteless
<1>4. NoRoutingLoop
  BY NodesAssumption DEF Init, NoRoutingLoop
<1> QED BY <1>1, <1>2, <1>3, <1>4 DEF RouteInv, RumorInv

LEMMA Invariant == Spec => []RouteInv
BY InitRoutes, RouteStep, PTL DEF Spec

(* Every rumor below a clock is stored, once, and none above it: a node    *)
(* can hand on whatever its status claims to have.                         *)
THEOREM StoreCorrect == Spec => []StoreMatchesClock
<1>1. RouteInv => StoreMatchesClock
  BY DEF RouteInv, RumorInv
<1> QED BY Invariant, <1>1, PTL

(* What a client of o said under some ID reads the same at every node,     *)
(* although route rumors share the IDs of client messages.                 *)
THEOREM TextsCorrect == Spec => []ClientTextsAgree
<1>1. RouteInv => ClientTextsAgree
  <2> SUFFICES ASSUME RouteInv, NEW n \in Nodes, NEW m \in Nodes,
                      NEW r \in rumors[n], NEW s \in rumors[m],
                      SameId(r, s), r.text # RouteText, s.text # RouteText
               PROVE  r = s
    BY DEF ClientTextsAgree
  <2>1. r.origin \in Nodes
    BY DEF RouteInv, RumorInv, TypeOK, Rumor
  <2>2. r \in rumors[r.origin] /\ s \in rumors[r.origin]
    BY DEF RouteInv, RumorInv, StoreGenuine, Genuine, SameId
  <2>3. r \in Of(rumors[r.origin], r.origin) /\ s \in Of(rumors[r.origin], r.origin)
    BY <2>2 DEF Of, SameId
  <2> QED BY <2>1, <2>3 DEF RouteInv, RumorInv, StoreMatchesClock, SameId
<1> QED BY Invariant, <1>1, PTL

(* A next hop can itself forward: it has a route and is at least as far.   *)
THEOREM NextHopCorrect == Spec => []NextHopIsAhead
<1>1. RouteInv => NextHopIsAhead
  BY DEF RouteInv
<1> QED BY Invariant, <1>1, PTL

(* The next hops towards an origin are free of loops at all times, so that *)
(* point-to-point messages do not circulate until their hop limit is used. *)
THEOREM LoopFree == Spec => []NoRoutingLoop
<1>1. RouteInv => NoRoutingLoop
  BY DEF RouteInv
<1> QED BY Invariant, <1>1, PTL

=============================================================================
