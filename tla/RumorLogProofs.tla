--------------------------- MODULE RumorLogProofs ---------------------------
(***************************************************************************)
(* Without route rumors, the peersters of Gossip implement the replicated  *)
(* logs of RumorLog: every step either leaves all logs alone, or publishes *)
(* what a client said, or teaches one node the next entry of one log.      *)
(***************************************************************************)
EXTENDS GossipProofs, Sequences

\* Whatever is stored, sent or mongered is a client's.
Plain ==
  /\ \A n \in Nodes : \A r \in rumors[n] : r.text # RouteText
  /\ \A m \in net : m.type = "rumor" => m.rumor.text # RouteText
  /\ \A g \in mongering : g.rumor.text # RouteText

LEMMA PlainMonger ==
  ASSUME Plain, NEW n, NEW r, MongerWithRandomPeer(n, r), r.text # RouteText
  PROVE  /\ \A m \in net' : m.type = "rumor" => m.rumor.text # RouteText
         /\ \A g \in mongering' : g.rumor.text # RouteText
<1>1. CASE peersList[n] = {}
  BY <1>1 DEF MongerWithRandomPeer, Plain
<1>2. CASE peersList[n] # {}
  <2>1. PICK p \in peersList[n] :
          StartMongering(n, p, {r}, mongering) /\ Transmit(net, {RumorMsg(n, p, r)})
    BY <1>2 DEF MongerWithRandomPeer
  <2>2. \A g \in mongering' : g \in mongering \/ g.rumor = r
    BY <2>1 DEF StartMongering, Mongers
  <2>3. \A m \in net' : m \in net \/ m.rumor = r
    BY <2>1 DEF Transmit, RumorMsg
  <2> QED BY <2>2, <2>3 DEF Plain
<1> QED BY <1>1, <1>2

LEMMA PlainStore ==
  ASSUME TypeOK, Plain, NEW n \in Nodes, NEW r \in Rumor, r.text # RouteText, Store(n, r)
  PROVE  \A m \in Nodes : \A x \in rumors'[m] : x.text # RouteText
BY DEF Store, Plain, TypeOK

LEMMA PlainStep == ~RouteRumoring /\ RouteInv /\ Plain /\ [Next]_vars => Plain'
<1> SUFFICES ASSUME ~RouteRumoring, RouteInv, Plain, [Next]_vars
             PROVE  Plain'
  OBVIOUS
<1> TypeOK
  BY DEF RouteInv, RumorInv
<1>1. ASSUME NEW n \in Speakers, NEW t \in Texts, ClientMessage(n, t)
      PROVE  Plain'
  <2>1. PICK r \in Rumor : r = [origin |-> n, id |-> vc[n][n], text |-> t]
    BY PeersAssumption, OwnRumor
  <2>2. Store(n, r) /\ MongerWithRandomPeer(n, r) /\ r.text # RouteText /\ n \in Nodes
    BY <1>1, <2>1, TextsAssumption, PeersAssumption DEF ClientMessage
  <2> QED BY <2>2, PlainMonger, PlainStore DEF Plain
<1>2. ASSUME NEW g \in mongering, NEW p \in Nodes, FlippedCoin(g, p)
      PROVE  Plain'
  <2>1. \A h \in mongering' : h \in mongering \/ h.rumor = g.rumor
    BY <1>2 DEF FlippedCoin, StartMongering, Mongers
  <2>2. \A m \in net' : m \in net \/ m.rumor = g.rumor
    BY <1>2 DEF FlippedCoin, Transmit, RumorMsg
  <2> QED BY <1>2, <2>1, <2>2 DEF FlippedCoin, Plain
<1>3. ASSUME NEW m \in net, HandleRumor(m)
      PROVE  Plain'
  <2>1. m.dst \in Nodes /\ m.rumor \in Rumor /\ m.rumor.text # RouteText /\ Store(m.dst, m.rumor)
    BY <1>3, PacketTypes DEF HandleRumor, Plain
  <2>2. \A x \in net' : x \in net \/ x.type = "status"
    BY <1>3 DEF HandleRumor, Transmit, AfterReceipt, StatusMsg
  <2> QED BY <1>3, <2>1, <2>2, PlainStore DEF HandleRumor, Plain
<1>4. ASSUME NEW m \in net, HandleStatus(m)
      PROVE  Plain'
  <2> DEFINE sent  == Missing(m.dst, m.want)
             asked == IF IsBehind(m.dst, m.want) THEN {StatusMsg(m.dst, m.src)} ELSE {}
  <2>1. m.dst \in Nodes /\ StartMongering(m.dst, m.src, sent, mongering) /\ UNCHANGED rumors
    BY <1>4, PacketTypes DEF HandleStatus
  <2>2. \A r \in sent : r.text # RouteText
    BY <2>1 DEF Missing, Plain
  <2>3. \A g \in mongering' : g \in mongering \/ g.rumor \in sent
    BY <2>1 DEF StartMongering, Mongers
  <2>4. PICK rest \in AfterReceipt(m) :
          net' = rest \cup asked \cup {RumorMsg(m.dst, m.src, r) : r \in sent}
    BY <1>4 DEF HandleStatus, Transmit
  <2>5. \A x \in asked : x.type = "status"
    BY DEF StatusMsg
  <2>6. \A x \in net' : x \in net \/ x.type = "status" \/ x.rumor \in sent
    <3> HIDE DEF sent, asked
    <3> QED BY <2>4, <2>5 DEF AfterReceipt, RumorMsg
  <2> QED BY <2>1, <2>2, <2>3, <2>6 DEF Plain
<1>5. CASE rumors' = rumors /\ net' \in SUBSET net /\ mongering' \in SUBSET mongering
  BY <1>5 DEF Plain
<1>6. ASSUME NEW m \in net, IgnoreRumor(m) \/ Lose(m)
      PROVE  Plain'
  BY <1>5, <1>6 DEF IgnoreRumor, Lose, AfterReceipt
<1>7. ASSUME NEW g \in mongering, StopMongering(g)
      PROVE  Plain'
  BY <1>5, <1>7 DEF StopMongering
<1>8. ASSUME NEW n \in Nodes, NEW p \in Nodes, AntiEntropy(n, p)
      PROVE  Plain'
  BY <1>8 DEF AntiEntropy, Transmit, StatusMsg, Plain
<1>9. ASSUME NEW e \in AddedPeers, NewNode(e[1], e[2])
      PROVE  Plain'
  BY <1>5, <1>9 DEF NewNode
<1>10. CASE UNCHANGED vars
  BY <1>5, <1>10 DEF vars
<1> QED BY <1>1, <1>2, <1>3, <1>4, <1>6, <1>7, <1>8, <1>9, <1>10 DEF Next, RouteRumor

-----------------------------------------------------------------------------
(* What a node's log holds.                                                *)

LEMMA EntryExists ==
  ASSUME StoreMatchesClock, NEW n \in Nodes, NEW o \in Nodes, NEW i \in 1 .. (vc[n][o] - 1)
  PROVE  \E r \in rumors[n] : r.origin = o /\ r.id = i
BY DEF StoreMatchesClock, Of

LEMMA EntryIs ==
  ASSUME StoreMatchesClock, NEW n \in Nodes, NEW r \in rumors[n], r.origin \in Nodes
  PROVE  (CHOOSE x \in rumors[n] : x.origin = r.origin /\ x.id = r.id) = r
<1>1. \A x \in rumors[n] : x.origin = r.origin /\ x.id = r.id => x = r
  BY DEF StoreMatchesClock, Of
<1> QED BY <1>1

LEMMA LogIsSeq ==
  ASSUME RumorInv, NEW n \in Nodes, NEW o \in Nodes
  PROVE  /\ LogOf(n, o) \in Seq(Texts \cup {RouteText})
         /\ Len(LogOf(n, o)) = vc[n][o] - 1
<1>1. vc[n][o] - 1 \in Nat
  BY DEF RumorInv, TypeOK, Clock
<1>2. \A i \in 1 .. (vc[n][o] - 1) :
        (CHOOSE r \in rumors[n] : r.origin = o /\ r.id = i).text \in Texts \cup {RouteText}
  <2> SUFFICES ASSUME NEW i \in 1 .. (vc[n][o] - 1)
               PROVE  (CHOOSE r \in rumors[n] : r.origin = o /\ r.id = i).text \in Texts \cup {RouteText}
    OBVIOUS
  <2>1. \E r \in rumors[n] : r.origin = o /\ r.id = i
    BY EntryExists DEF RumorInv
  <2>2. (CHOOSE r \in rumors[n] : r.origin = o /\ r.id = i) \in rumors[n]
    BY <2>1
  <2> QED BY <2>2 DEF RumorInv, TypeOK, Rumor
<1>3. LogOf(n, o) \in [1 .. (vc[n][o] - 1) -> Texts \cup {RouteText}]
  BY <1>2 DEF LogOf
<1> QED BY <1>1, <1>3

\* A log whose clock stands still does not change.
LEMMA LogKept ==
  ASSUME RumorInv, RumorInv', NEW n \in Nodes, NEW o \in Nodes,
         rumors[n] \subseteq rumors'[n], vc'[n][o] = vc[n][o]
  PROVE  LogOf(n, o)' = LogOf(n, o)
<1> SUFFICES ASSUME NEW i \in 1 .. (vc[n][o] - 1)
             PROVE  (CHOOSE r \in rumors'[n] : r.origin = o /\ r.id = i).text =
                    (CHOOSE r \in rumors[n] : r.origin = o /\ r.id = i).text
  BY DEF LogOf
<1>1. PICK r \in rumors[n] : r.origin = o /\ r.id = i
  BY EntryExists DEF RumorInv
<1>2. (CHOOSE x \in rumors[n] : x.origin = o /\ x.id = i) = r
  BY <1>1, EntryIs DEF RumorInv
<1>3. \A x \in rumors'[n] : x.origin = o /\ x.id = i => x = r
  BY <1>1 DEF RumorInv, StoreMatchesClock, Of
<1>4. (CHOOSE x \in rumors'[n] : x.origin = o /\ x.id = i) = r
  BY <1>1, <1>3
<1> QED BY <1>2, <1>4

\* Accepting the next rumor appends its text.
LEMMA LogExtended ==
  ASSUME RumorInv, RumorInv', NEW n \in Nodes, NEW r \in Rumor, Accepts(n, r)
  PROVE  LogOf(n, r.origin)' = Append(LogOf(n, r.origin), r.text)
<1> DEFINE o == r.origin
           k == vc[n][o]
           old == LogOf(n, o)
           T == Texts \cup {RouteText}
<1>1. o \in Nodes /\ k \in Nat \ {0} /\ r.id = k /\ vc'[n][o] = k + 1
  BY StoreEffect DEF RumorInv, TypeOK, Rumor, Clock, Accepts
<1>2. rumors'[n] = rumors[n] \cup {r}
  BY StoreEffect DEF RumorInv
<1>3. old \in Seq(T) /\ Len(old) = k - 1 /\ r.text \in T
  BY <1>1, LogIsSeq DEF Rumor
<1>4. LogOf(n, o)' = [i \in 1 .. k |-> (CHOOSE x \in rumors'[n] : x.origin = o /\ x.id = i).text]
  BY <1>1 DEF LogOf
<1>5. ASSUME NEW i \in 1 .. k
      PROVE  (CHOOSE x \in rumors'[n] : x.origin = o /\ x.id = i).text =
             IF i = k THEN r.text ELSE old[i]
  <2>1. CASE i = k
    <3>1. \A x \in rumors'[n] : x.origin = o /\ x.id = i => x = r
      BY <1>1, <1>2, <2>1 DEF RumorInv, StoreMatchesClock, Of
    <3>2. (CHOOSE x \in rumors'[n] : x.origin = o /\ x.id = i) = r
      BY <1>1, <1>2, <2>1, <3>1
    <3>3. (CHOOSE x \in rumors'[n] : x.origin = o /\ x.id = i).text = r.text
      BY <3>2
    <3>4. (IF i = k THEN r.text ELSE old[i]) = r.text
      BY <2>1
    <3> HIDE DEF old, k
    <3> QED BY <3>3, <3>4
  <2>2. CASE i # k
    <3>0. i \in 1 .. (k - 1)
      BY <1>1, <2>2
    <3>1. PICK s \in rumors[n] : s.origin = o /\ s.id = i
      BY <1>1, <3>0, EntryExists DEF RumorInv
    <3>2. (CHOOSE x \in rumors[n] : x.origin = o /\ x.id = i) = s
      BY <1>1, <3>1, EntryIs DEF RumorInv
    <3>3. \A x \in rumors'[n] : x.origin = o /\ x.id = i => x = s
      BY <1>1, <1>2, <3>1 DEF RumorInv, StoreMatchesClock, Of
    <3>4. (CHOOSE x \in rumors'[n] : x.origin = o /\ x.id = i) = s
      BY <1>2, <3>1, <3>3
    <3>5. old[i] = s.text
      BY <3>0, <3>2 DEF LogOf
    <3> QED BY <2>2, <3>4, <3>5
  <2> QED BY <2>1, <2>2
<1>6. Append(old, r.text) = [i \in 1 .. k |-> IF i = k THEN r.text ELSE old[i]]
  <2> HIDE DEF old, k
  <2>1. Append(old, r.text) = [i \in 1 .. (Len(old) + 1) |-> IF i = Len(old) + 1 THEN r.text ELSE old[i]]
    BY <1>3
  <2>2. Len(old) + 1 = k
    BY <1>1, <1>3
  <2> QED BY <2>1, <2>2
<1> QED BY <1>4, <1>5, <1>6

-----------------------------------------------------------------------------
(* The refinement.                                                         *)

Logs == [n \in Nodes |-> [o \in Nodes |-> LogOf(n, o)]]

LEMMA LogsKept ==
  ASSUME RumorInv, RumorInv', UNCHANGED <<vc, rumors>>
  PROVE  Logs' = Logs
BY LogKept DEF Logs

LEMMA LogsExtended ==
  ASSUME RumorInv, RumorInv', NEW n \in Nodes, NEW r \in Rumor, Accepts(n, r)
  PROVE  Logs' = [Logs EXCEPT ![n][r.origin] = Append(@, r.text)]
<1>1. r.origin \in Nodes
  BY DEF Rumor
<1>2. ASSUME NEW m \in Nodes, NEW o \in Nodes, m # n \/ o # r.origin
      PROVE  LogOf(m, o)' = LogOf(m, o)
  <2>1. rumors[m] \subseteq rumors'[m] /\ vc'[m][o] = vc[m][o]
    BY <1>2, StoreEffect DEF RumorInv
  <2> QED BY <2>1, LogKept
<1>3. LogOf(n, r.origin)' = Append(LogOf(n, r.origin), r.text)
  BY LogExtended
<1> QED BY <1>1, <1>2, <1>3 DEF Logs

\* What is stored by n # o is the next entry of o's log.
LEMMA LearnStep ==
  ASSUME RumorInv, RumorInv', NEW n \in Nodes, NEW r \in Rumor, Accepts(n, r),
         r \in rumors[r.origin]
  PROVE  RL!Learn(n, r.origin)
<1> DEFINE o == r.origin
           next == Len(Logs[n][o]) + 1
<1>1. o \in Nodes /\ Logs[n][o] = LogOf(n, o) /\ Logs[o][o] = LogOf(o, o)
  BY DEF Rumor, Logs
<1>2. r.id \in Nat \ {0} /\ vc[o][o] \in Nat \ {0} /\ vc[n][o] = r.id
  BY <1>1 DEF RumorInv, TypeOK, Clock, Rumor, Accepts
<1>3. next = r.id
  BY <1>1, <1>2, LogIsSeq, SMTT(20)
<1>4. r.id < vc[o][o]
  BY <1>1, StoredIsKnown DEF RumorInv
<1>5. next <= Len(Logs[o][o])
  BY <1>1, <1>2, <1>3, <1>4, LogIsSeq
<1>6. Logs[o][o][next] = r.text
  <2>1. (CHOOSE x \in rumors[o] : x.origin = o /\ x.id = r.id) = r
    BY <1>1, EntryIs DEF RumorInv
  <2>2. r.id \in 1 .. (vc[o][o] - 1)
    BY <1>2, <1>4
  <2>3. LogOf(o, o)[r.id] = (CHOOSE x \in rumors[o] : x.origin = o /\ x.id = r.id).text
    BY <2>2 DEF LogOf
  <2> QED BY <1>1, <1>3, <2>1, <2>3
<1>7. Logs' = [Logs EXCEPT ![n][o] = Append(@, Logs[o][o][next])]
  BY <1>6, LogsExtended
<1> QED BY <1>5, <1>7 DEF RL!Learn, Logs

LEMMA LogStep ==
  ~RouteRumoring /\ RouteInv /\ RouteInv' /\ Plain /\ [Next]_vars => [RL!Next]_Logs
<1> SUFFICES ASSUME ~RouteRumoring, RouteInv, RouteInv', Plain, [Next]_vars
             PROVE  RL!Next \/ Logs' = Logs
  OBVIOUS
<1> RumorInv /\ RumorInv' /\ TypeOK
  BY DEF RouteInv, RumorInv
<1>1. ASSUME NEW n \in Speakers, NEW t \in Texts, ClientMessage(n, t)
      PROVE  RL!Next
  <2>1. PICK r \in Rumor : r = [origin |-> n, id |-> vc[n][n], text |-> t]
    BY PeersAssumption, OwnRumor
  <2>2. Accepts(n, r) /\ r.origin = n /\ r.text = t /\ n \in Nodes
    BY <1>1, <2>1, PeersAssumption DEF ClientMessage, Accepts
  <2>3. Logs' = [Logs EXCEPT ![n][n] = Append(@, t)]
    BY <2>2, LogsExtended
  <2>4. RL!Publish(n, t)
    BY <2>3 DEF RL!Publish, Logs
  <2> QED BY <2>2, <2>4 DEF RL!Next
<1>2. ASSUME NEW m \in net, HandleRumor(m)
      PROVE  RL!Next
  <2>1. m.dst \in Nodes /\ m.rumor \in Rumor /\ m.rumor.origin \in Nodes
    BY <1>2, PacketTypes DEF HandleRumor, Rumor
  <2>2. Accepts(m.dst, m.rumor)
    BY <1>2 DEF HandleRumor, Accepts, IsNext
  <2>3. m.rumor \in rumors[m.rumor.origin]
    BY <1>2 DEF HandleRumor, RumorInv, PacketsBacked, Genuine, Plain
  <2>4. RL!Learn(m.dst, m.rumor.origin)
    BY <2>1, <2>2, <2>3, LearnStep
  <2> QED BY <2>1, <2>4 DEF RL!Next
<1>3. CASE UNCHANGED <<vc, rumors>>
  BY <1>3, LogsKept
<1>4. ASSUME NEW m \in net, IgnoreRumor(m) \/ HandleStatus(m) \/ Lose(m)
      PROVE  Logs' = Logs
  BY <1>3, <1>4, LogsKept DEF IgnoreRumor, HandleStatus, Lose
<1>5. ASSUME NEW g \in mongering, StopMongering(g)
      PROVE  Logs' = Logs
  BY <1>5, LogsKept DEF StopMongering
<1>6. ASSUME NEW g \in mongering, NEW p \in Nodes, FlippedCoin(g, p)
      PROVE  Logs' = Logs
  BY <1>6, LogsKept DEF FlippedCoin
<1>7. ASSUME NEW n \in Nodes, NEW p \in Nodes, AntiEntropy(n, p)
      PROVE  Logs' = Logs
  BY <1>7, LogsKept DEF AntiEntropy
<1>8. ASSUME NEW e \in AddedPeers, NewNode(e[1], e[2])
      PROVE  Logs' = Logs
  BY <1>8, LogsKept DEF NewNode
<1>9. CASE UNCHANGED vars
  BY <1>3, <1>9 DEF vars
<1> QED BY <1>1, <1>2, <1>3, <1>4, <1>5, <1>6, <1>7, <1>8, <1>9 DEF Next, RouteRumor

LEMMA LogInit == Init => RL!Init
<1> SUFFICES ASSUME Init
             PROVE  \A n, o \in Nodes : LogOf(n, o) = << >>
  BY DEF RL!Init
<1> TAKE n, o \in Nodes
<1>1. vc[n][o] - 1 = 0
  BY DEF Init
<1> QED BY <1>1 DEF LogOf

(* Without route rumors every behaviour of the peersters, with whatever    *)
(* losses, repetitions and detours, is one of RumorLog: each node learns   *)
(* each log in order, without gaps and unaltered (StatusPacket.Update).    *)
THEOREM Refinement == ASSUME ~RouteRumoring PROVE Spec => ImplementsRumorLog
<1>1. Init => Plain
  BY DEF Init, Plain
<1>2. RouteInv /\ Plain /\ [Next]_vars => Plain'
  BY PlainStep
<1>3. RouteInv /\ RouteInv' /\ Plain /\ [Next]_vars
        => [RL!Next]_([n \in Nodes |-> [o \in Nodes |-> LogOf(n, o)]])
  BY LogStep DEF Logs
<1>4. Init => RL!Init
  BY LogInit
<1>5. Spec => []Plain
  BY <1>1, <1>2, Invariant, PTL DEF Spec
<1> QED BY <1>3, <1>4, <1>5, Invariant, PTL DEF Spec, ImplementsRumorLog, RL!Spec

=============================================================================
