--------------------------- MODULE DeliveryProofs ---------------------------
(***************************************************************************)
(* Proofs about Delivery, for any network and any number of packets: a     *)
(* packet meets no node that cannot pass it on, and comes back to a node   *)
(* only after that node has heard of the destination anew.                 *)
(*                                                                         *)
(* The invariant is RouteInv of Gossip with MailInv.  Routes and packets   *)
(* change in different steps, so there are two cases: a packet moves along *)
(* routes that stand still, or one route changes under the packets.        *)
(***************************************************************************)
EXTENDS Delivery, GossipProofs

\* What MailInv says of one packet.
Sound(m) ==
  /\ m \in Mail
  /\ m.at # m.to /\ ~m.back => hop[m.at][m.to] # NoHop
  /\ m.from # m.to /\ m.src # m.at
  /\ \A t \in m.trace : Passed(m, t[1], t[2])

LEMMA MailInvIsSound == MailInv <=> \A m \in mail : Sound(m)
BY DEF MailInv, Sound, MailTypeOK, NoDeadEnd

LEMMA RouteTypes ==
  ASSUME RouteInv, NEW n \in Nodes, NEW o \in Nodes
  PROVE  /\ vc[n][o] \in Nat \ {0}
         /\ hop[n][o] \in Nodes \cup {NoHop}
BY DEF RouteInv, RumorInv, TypeOK, Clock

-----------------------------------------------------------------------------
(* A packet moves.                                                         *)

\* The next hop is where at least as much is known of the destination.
LEMMA HopIsAhead ==
  ASSUME RouteInv, NEW d \in Nodes, NEW k \in Nat,
         NEW y \in Ahead(k, d), y # d, hop[y][d] # NoHop
  PROVE  hop[y][d] \in Ahead(k, d)
<1>1. y \in Nodes /\ vc[y][d] >= k
  BY DEF Ahead
<1>2. hop[y][d] \in Nodes
  BY <1>1, RouteTypes
<1>3. hop[y][d] = d \/ vc[hop[y][d]][d] >= vc[y][d]
  BY <1>1, <1>2 DEF RouteInv, NextHopIsAhead
<1>4. vc[y][d] \in Nat /\ vc[hop[y][d]][d] \in Nat
  BY <1>1, <1>2, RouteTypes
<1> QED BY <1>1, <1>2, <1>3, <1>4 DEF Ahead

(* Were every closed set around p's next hop to hold p, the nodes all of   *)
(* whose closed sets hold p would form a loop.                             *)
LEMMA WayOut ==
  ASSUME RouteInv, NEW d \in Nodes, NEW p \in Nodes, p # d, hop[p][d] # NoHop
  PROVE  \E T \in SUBSET Nodes : hop[p][d] \in T /\ p \notin T /\ Closed(T, d)
<1> DEFINE Back == {y \in Nodes : \A T \in SUBSET Nodes : y \in T /\ Closed(T, d) => p \in T}
<1> SUFFICES ASSUME \A T \in SUBSET Nodes : hop[p][d] \in T /\ Closed(T, d) => p \in T
             PROVE  FALSE
  OBVIOUS
<1>1. hop[p][d] \in Back
  BY RouteTypes
<1>2. d \notin Back
  <2>1. {d} \in SUBSET Nodes /\ Closed({d}, d) /\ p \notin {d}
    BY DEF Closed
  <2> QED BY <2>1
<1>3. ASSUME NEW y \in Back
      PROVE  hop[y][d] \in Back
  <2>1. CASE y = p
    BY <1>1, <2>1
  <2>2. CASE y # p
    <3>1. hop[y][d] # NoHop
      <4>1. SUFFICES ASSUME hop[y][d] = NoHop PROVE FALSE
        OBVIOUS
      <4>2. {y} \in SUBSET Nodes /\ Closed({y}, d)
        BY <4>1 DEF Closed
      <4> QED BY <2>2, <4>2
    <3>2. ASSUME NEW T \in SUBSET Nodes, hop[y][d] \in T, Closed(T, d)
          PROVE  p \in T
      <4>1. T \cup {y} \in SUBSET Nodes /\ Closed(T \cup {y}, d)
        BY <3>2 DEF Closed
      <4> QED BY <2>2, <4>1
    <3>3. hop[y][d] \in Nodes
      BY <3>1, RouteTypes
    <3> QED BY <3>2, <3>3
  <2> QED BY <2>1, <2>2
<1>4. Back \in SUBSET (Nodes \ {d})
  BY <1>2
<1> HIDE DEF Back
<1> QED BY <1>1, <1>3, <1>4 DEF RouteInv, NoRoutingLoop

LEMMA NoSelfHop ==
  ASSUME RouteInv, NEW d \in Nodes, NEW p \in Nodes, p # d
  PROVE  hop[p][d] # p
<1>1. {p} \in SUBSET (Nodes \ {d}) /\ {p} # {}
  OBVIOUS
<1>2. PICK n \in {p} : hop[n][d] \notin {p}
  BY <1>1 DEF RouteInv, NoRoutingLoop
<1> QED BY <1>2

\* The trace of a packet that p sends on: what was true before it moved ...
LEMMA PassedStays ==
  ASSUME RouteInv, NEW d \in Nodes, NEW p \in Nodes, p # d, hop[p][d] # NoHop,
         NEW m, m.to = d, m.at = p, NEW s, s.to = d, s.at = hop[p][d],
         NEW x \in Nodes, NEW k \in Nat, Passed(m, x, k)
  PROVE  Passed(s, x, k)
<1>1. x # d /\ k <= vc[x][d] /\ p \in Ahead(k, d)
  BY DEF Passed
<1>2. hop[p][d] \in Ahead(k, d)
  BY <1>1, HopIsAhead
<1>3. ASSUME vc[x][d] = k
      PROVE  \E S \in SUBSET Ahead(k, d) : hop[p][d] \in S /\ x \notin S /\ Closed(S, d)
  <2>1. PICK S \in SUBSET Ahead(k, d) : p \in S /\ x \notin S /\ Closed(S, d)
    BY <1>3 DEF Passed
  <2>2. hop[p][d] \in S
    BY <2>1 DEF Closed
  <2> QED BY <2>1, <2>2
<1> QED BY <1>1, <1>2, <1>3 DEF Passed

\* ... and p itself.
LEMMA PassedByMe ==
  ASSUME RouteInv, NEW d \in Nodes, NEW p \in Nodes, p # d, hop[p][d] # NoHop,
         NEW s, s.to = d, s.at = hop[p][d]
  PROVE  Passed(s, p, vc[p][d])
<1> DEFINE k == vc[p][d]
<1>1. k \in Nat /\ p \in Ahead(k, d)
  BY RouteTypes DEF Ahead
<1>2. hop[p][d] \in Ahead(k, d)
  <2> HIDE DEF k
  <2> QED BY <1>1, HopIsAhead
<1>3. PICK T \in SUBSET Nodes : hop[p][d] \in T /\ p \notin T /\ Closed(T, d)
  BY WayOut
<1> DEFINE S == T \cap Ahead(k, d)
<1>4. Closed(S, d)
  <2> SUFFICES ASSUME NEW y \in S \ {d}, hop[y][d] # NoHop
               PROVE  hop[y][d] \in S
    BY DEF Closed
  <2> HIDE DEF k
  <2>1. hop[y][d] \in T
    BY <1>3 DEF Closed
  <2>2. hop[y][d] \in Ahead(k, d)
    BY <1>1, HopIsAhead
  <2> QED BY <2>1, <2>2
<1>5. S \in SUBSET Ahead(k, d) /\ hop[p][d] \in S /\ p \notin S
  BY <1>2, <1>3
<1> QED BY <1>1, <1>2, <1>4, <1>5 DEF Passed

LEMMA HopType ==
  ASSUME NEW n \in Nodes, NEW m \in Mail, NEW p \in Nodes, vc[n][m.to] \in Nat \ {0}
  PROVE  Hop(n, m, p) \in Mail
<1> DEFINE trace == m.trace \cup {<<n, vc[n][m.to]>>}
<1>1. trace \in SUBSET (Nodes \X (Nat \ {0}))
  BY DEF Mail
<1>2. Hop(n, m, p) = [m EXCEPT !.src = n, !.at = p, !.back = FALSE, !.trace = trace]
  BY DEF Hop
<1> HIDE DEF trace
<1> QED BY <1>1, <1>2 DEF Mail

LEMMA HopOn ==
  ASSUME RouteInv, NEW m \in Mail, m.from # m.to, m.at # m.to, hop[m.at][m.to] # NoHop,
         \A t \in m.trace : Passed(m, t[1], t[2])
  PROVE  Sound(Hop(m.at, m, hop[m.at][m.to]))
<1> DEFINE d == m.to
           p == m.at
           s == Hop(p, m, hop[p][d])
<1>1. d \in Nodes /\ p \in Nodes /\ m.trace \in SUBSET (Nodes \X (Nat \ {0}))
  BY DEF Mail
<1>2. hop[p][d] \in Nodes /\ vc[p][d] \in Nat \ {0}
  BY <1>1, RouteTypes
<1>3. s \in Mail
  BY <1>1, <1>2, HopType
<1>4. /\ s.to = d /\ s.from = m.from /\ s.at = hop[p][d] /\ s.src = p
      /\ s.trace = m.trace \cup {<<p, vc[p][d]>>}
  BY DEF Hop, Mail
<1>5. s.at # d => hop[s.at][d] # NoHop
  BY <1>1, <1>2, <1>4 DEF RouteInv, NextHopIsAhead
<1>6. s.src # s.at
  BY <1>1, <1>4, NoSelfHop
<1>7. \A t \in s.trace : Passed(s, t[1], t[2])
  <2> HIDE DEF s, d, p
  <2>0. m.to = d /\ m.at = p /\ p # d /\ hop[p][d] # NoHop
    BY DEF d, p
  <2>1. Passed(s, p, vc[p][d])
    BY <1>1, <1>4, <2>0, PassedByMe
  <2>2. ASSUME NEW t \in m.trace
        PROVE  Passed(s, t[1], t[2])
    <3>1. t[1] \in Nodes /\ t[2] \in Nat
      BY <1>1
    <3> QED BY <1>1, <1>4, <2>0, <3>1, PassedStays
  <2> QED BY <1>4, <2>1, <2>2
<1> QED BY <1>3, <1>4, <1>5, <1>6, <1>7 DEF Sound

\* A hop limit keeps its width.
LEMMA DecrementedType ==
  ASSUME NEW h \in 0 .. Wide32 - 1
  PROVE  Decremented(h) \in 0 .. Wide32 - 1
BY LimitsAssumption DEF Decremented

\* Whatever the limit, PassOn adds nothing but a packet that is sound.
LEMMA PassOnSound ==
  ASSUME RouteInv, NEW rest, NEW m \in Mail, m.from # m.to, m.at # m.to,
         \A t \in m.trace : Passed(m, t[1], t[2]),
         \A r \in rest : Sound(r), PassOn(rest, m.at, m)
  PROVE  \A r \in mail' : Sound(r)
<1> DEFINE sent == [m EXCEPT !.limit = Decremented(@)]
           p    == hop[m.at][m.to]
<1>1. sent \in Mail
  <2>1. Decremented(m.limit) \in 0 .. Wide32 - 1
    BY DecrementedType DEF Mail
  <2> QED BY <2>1 DEF Mail
<1>2. sent.from = m.from /\ sent.to = m.to /\ sent.at = m.at /\ sent.trace = m.trace
  BY DEF Mail
<1>3. \A r \in mail' : r \in rest \/ (r = Hop(m.at, sent, p) /\ p # NoHop)
  BY <1>2 DEF PassOn, Send
<1> HIDE DEF sent
<1>4. \A t \in sent.trace : Passed(sent, t[1], t[2])
  BY <1>2 DEF Passed
<1>5. p # NoHop => Sound(Hop(m.at, sent, p))
  BY <1>1, <1>2, <1>4, HopOn
<1> QED BY <1>3, <1>5

LEMMA NewFields ==
  ASSUME NEW kind \in {"private", "request", "reply"}, NEW n \in Nodes, NEW d \in Nodes,
         NEW h \in 0 .. Wide32 - 1
  PROVE  /\ New(kind, n, d, h) \in Mail
         /\ New(kind, n, d, h).from = n /\ New(kind, n, d, h).to = d
         /\ New(kind, n, d, h).at = n /\ New(kind, n, d, h).trace = {}
BY DEF New, Mail

(* The destination of a request has no route back, so it knows nothing of  *)
(* the one who asks and is nobody's next hop to it.                        *)
LEMMA BackSound ==
  ASSUME RouteInv, NEW q \in Nodes, NEW d \in Nodes, q # d, hop[q][d] = NoHop,
         NEW p \in Nodes, p # q, NEW m \in Mail,
         m.from = q, m.to = d, m.at = q, m.trace = {}
  PROVE  Sound([Hop(q, m, p) EXCEPT !.back = TRUE])
<1> DEFINE h == Hop(q, m, p)
           s == [h EXCEPT !.back = TRUE]
<1>1. vc[q][d] = 1
  <2>1. vc[q][d] \in Nat \ {0}
    BY RouteTypes
  <2> QED BY <2>1 DEF RouteInv, HeardHasRoute
<1>0. h.from = q /\ h.to = d /\ h.src = q /\ h.at = p /\ h.trace = {<<q, 1>>}
  BY <1>1 DEF Hop, Mail
<1>8. h \in Mail
  BY <1>1, HopType
<1> HIDE DEF h
<1>2. s \in Mail
  BY <1>8 DEF Mail
<1>3. s.from = q /\ s.to = d /\ s.src = q /\ s.at = p /\ s.back = TRUE /\ s.trace = {<<q, 1>>}
  BY <1>0, <1>8 DEF Mail
<1>4. Nodes = Ahead(1, d)
  BY RouteTypes DEF Ahead
<1>5. Closed(Nodes \ {q}, d)
  <2> SUFFICES ASSUME NEW y \in Nodes, hop[y][d] = q
               PROVE  FALSE
    BY RouteTypes DEF Closed
  <2> QED BY NodesAssumption DEF RouteInv, NextHopIsAhead
<1> HIDE DEF s
<1>6. Passed(s, q, 1)
  <2>1. Nodes \ {q} \in SUBSET Ahead(1, d) /\ p \in Nodes \ {q} /\ q \notin Nodes \ {q}
    BY <1>4
  <2> QED BY <1>1, <1>3, <1>5, <2>1 DEF Passed
<1>7. Sound(s)
  BY <1>2, <1>3, <1>6 DEF Sound
<1> QED BY <1>7 DEF s, h

LEMMA MailStep ==
  ASSUME RouteInv, MailInv, MailNext, UNCHANGED vars
  PROVE  \A m \in mail' : Sound(m)
<1>0. \A m \in mail : Sound(m)
  BY MailInvIsSound
<1>1. ASSUME NEW n \in Senders, NEW d \in Speakers, NEW h \in Limits,
             SendPrivate(n, d, h) \/ SendRequest(n, d, h)
      PROVE  \A m \in mail' : Sound(m)
  <2>1. n \in Nodes /\ d \in Nodes /\ h \in 0 .. Wide32 - 1
    BY LimitsAssumption, PeersAssumption
  <2>2. PICK kind \in {"private", "request"} : n # d /\ PassOn(mail, n, New(kind, n, d, h))
    BY <1>1 DEF SendPrivate, SendRequest
  <2> DEFINE m == New(kind, n, d, h)
  <2>3. m \in Mail /\ m.from = n /\ m.to = d /\ m.at = n /\ m.trace = {}
    BY <2>1, NewFields
  <2>4. PassOn(mail, m.at, m) /\ m.from # m.to /\ m.at # m.to
    BY <2>2, <2>3
  <2> HIDE DEF m
  <2> QED BY <1>0, <2>3, <2>4, PassOnSound
<1>2. ASSUME NEW m \in mail, Forward(m)
      PROVE  \A r \in mail' : Sound(r)
  <2>1. m \in Mail /\ m.from # m.to /\ \A t \in m.trace : Passed(m, t[1], t[2])
    BY <1>0 DEF Sound
  <2>2. m.at # m.to /\ PassOn(mail \ {m}, m.at, m) /\ \A r \in mail \ {m} : Sound(r)
    BY <1>0, <1>2 DEF Forward
  <2> QED BY <2>1, <2>2, PassOnSound
<1>3. ASSUME NEW m \in mail, Receive(m) \/ LoseMail(m)
      PROVE  \A r \in mail' : Sound(r)
  BY <1>0, <1>3 DEF Receive, LoseMail
<1>4. ASSUME NEW m \in mail, Answer(m)
      PROVE  \A r \in mail' : Sound(r)
  <2> DEFINE q     == m.to
             d     == m.from
             reply == New("reply", q, d, HopLimit)
  <2>1. q \in Nodes /\ d \in Nodes /\ m.src \in Nodes /\ q # d /\ m.src # q
    BY <1>0, <1>4 DEF Sound, Mail, Answer
  <2>2. reply \in Mail /\ reply.from = q /\ reply.to = d /\ reply.at = q /\ reply.trace = {}
    BY <2>1, LimitsAssumption, NewFields
  <2>3. mail' = (mail \ {m}) \cup
                  {IF hop[q][d] = NoHop THEN [Hop(q, reply, m.src) EXCEPT !.back = TRUE]
                   ELSE Hop(q, reply, hop[q][d])}
    BY <1>4 DEF Answer, Send
  <2> HIDE DEF q, d, reply
  <2>4. CASE hop[q][d] = NoHop
    <3>1. Sound([Hop(q, reply, m.src) EXCEPT !.back = TRUE])
      BY <2>1, <2>2, <2>4, BackSound
    <3> QED BY <1>0, <2>3, <2>4, <3>1
  <2>5. CASE hop[q][d] # NoHop
    <3>1. Sound(Hop(q, reply, hop[q][d]))
      <4>1. reply.from # reply.to /\ reply.at # reply.to /\ hop[reply.at][reply.to] # NoHop
        BY <2>1, <2>2, <2>5
      <4>2. \A t \in reply.trace : Passed(reply, t[1], t[2])
        BY <2>2
      <4>3. Sound(Hop(reply.at, reply, hop[reply.at][reply.to]))
        BY <2>2, <4>1, <4>2, HopOn
      <4> QED BY <2>2, <4>3
    <3> QED BY <1>0, <2>3, <2>5, <3>1
  <2> QED BY <2>4, <2>5
<1> QED BY <1>1, <1>2, <1>3, <1>4 DEF MailNext

-----------------------------------------------------------------------------
(* A route changes.                                                        *)

\* Nothing changes on the way to d, but perhaps d's own clock.
LEMMA PassedUnmoved ==
  ASSUME NEW d \in Nodes, NEW m, m.to = d,
         \A y \in Nodes : hop'[y][d] = hop[y][d],
         \A y \in Nodes : y # d => vc'[y][d] = vc[y][d],
         NEW x \in Nodes, NEW k \in Nat, Passed(m, x, k)
  PROVE  Passed(m, x, k)'
<1>1. x # d /\ k <= vc[x][d] /\ m.at \in Ahead(k, d) /\ vc'[x][d] = vc[x][d]
  BY DEF Passed
<1>2. Ahead(k, d)' = Ahead(k, d)
  BY DEF Ahead
<1>3. ASSUME vc'[x][d] = k
      PROVE  \E S \in SUBSET Ahead(k, d)' : m.at \in S /\ x \notin S /\ Closed(S, d)'
  <2>1. PICK S \in SUBSET Ahead(k, d) : m.at \in S /\ x \notin S /\ Closed(S, d)
    BY <1>1, <1>3 DEF Passed
  <2>2. S \in SUBSET Nodes
    BY DEF Ahead
  <2>3. Closed(S, d)'
    BY <2>1, <2>2 DEF Closed
  <2> QED BY <1>2, <2>1, <2>3
<1> QED BY <1>1, <1>2, <1>3 DEF Passed

(* n turns to src for d: where src is, more is known than n knew.  The set *)
(* that holds the packet grows by the nodes that know more than x did.     *)
LEMMA PassedLearns ==
  ASSUME RouteInv, NEW d \in Nodes, NEW m \in Mail, m.to = d,
         NEW n \in Nodes, NEW src \in Nodes, n # d, src # n, Learns(n, d, src),
         NEW x \in Nodes, NEW k \in Nat \ {0}, Passed(m, x, k)
  PROVE  Passed(m, x, k)'
<1>0. /\ hop'[n][d] = src /\ vc'[n][d] = vc[n][d] + 1
      /\ \A y \in Nodes : y # n => hop'[y][d] = hop[y][d] /\ vc'[y][d] = vc[y][d]
      /\ \A y \in Nodes : vc[y][d] \in Nat /\ hop[y][d] \in Nodes \cup {NoHop}
      /\ src = d \/ vc[src][d] > vc[n][d]
  BY DEF Learns, RouteInv, RumorInv, TypeOK, Clock
<1>1. x # d /\ k <= vc[x][d] /\ m.at \in Ahead(k, d)
  BY DEF Passed
<1>2. k <= vc'[x][d] /\ Ahead(k, d) \subseteq Ahead(k, d)'
  BY <1>0, <1>1 DEF Ahead
<1>3. ASSUME vc'[x][d] = k
      PROVE  \E S \in SUBSET Ahead(k, d)' : m.at \in S /\ x \notin S /\ Closed(S, d)'
  <2>1. x # n /\ vc[x][d] = k
    BY <1>0, <1>1, <1>3
  <2>2. PICK T \in SUBSET Ahead(k, d) : m.at \in T /\ x \notin T /\ Closed(T, d)
    BY <2>1 DEF Passed
  <2>0. PICK More : More = {y \in Nodes : y = d \/ vc'[y][d] > k}
    OBVIOUS
  <2> DEFINE S == T \cup More
  <2>3. T \in SUBSET Nodes /\ \A y \in T : y = d \/ vc[y][d] >= k
    BY DEF Ahead
  <2>4. S \in SUBSET Ahead(k, d)'
    BY <1>0, <1>2, <2>0, <2>2 DEF Ahead
  <2>5. m.at \in S /\ x \notin S
    BY <1>1, <1>3, <2>0, <2>2
  <2>6. ASSUME NEW y \in S, y # d
        PROVE  hop'[y][d] \in S \cup {NoHop}
    <3>0. y \in Nodes
      BY <2>0, <2>3
    <3>1. CASE y = n
      <4>1. vc[n][d] >= k
        BY <1>0, <2>0, <2>3, <2>6, <3>1
      <4>2. src \in More
        BY <1>0, <2>0, <4>1
      <4> QED BY <1>0, <3>1, <4>2
    <3>2. CASE y # n /\ y \in T
      BY <1>0, <2>2, <2>6, <3>0, <3>2 DEF Closed
    <3>3. CASE y # n /\ y \notin T
      <4>1. vc[y][d] > k /\ hop'[y][d] = hop[y][d]
        BY <1>0, <2>0, <2>6, <3>0, <3>3
      <4>2. CASE hop[y][d] = NoHop
        BY <4>1, <4>2
      <4>3. CASE hop[y][d] # NoHop
        <5>1. hop[y][d] \in Nodes /\ (hop[y][d] = d \/ vc[hop[y][d]][d] >= vc[y][d])
          BY <1>0, <3>0, <4>3 DEF RouteInv, NextHopIsAhead
        <5>2. hop[y][d] \in More
          BY <1>0, <2>0, <3>0, <4>1, <5>1
        <5> QED BY <4>1, <5>2
      <4> QED BY <4>2, <4>3
    <3> QED BY <3>1, <3>2, <3>3
  <2>7. Closed(S, d)'
    <3> HIDE DEF S
    <3> QED BY <2>6 DEF Closed
  <2> HIDE DEF S
  <2> QED BY <2>4, <2>5, <2>7
<1> QED BY <1>1, <1>2, <1>3 DEF Passed

LEMMA RoutesStep ==
  ASSUME RouteInv, [Next]_vars, NEW m \in Mail, Sound(m)
  PROVE  Sound(m)'
<1>1. /\ m.at \in Nodes /\ m.to \in Nodes
      /\ \A t \in m.trace : t[1] \in Nodes /\ t[2] \in Nat \ {0} /\ Passed(m, t[1], t[2])
  BY DEF Sound, Mail
<1>2. CASE QuietRoutes
  <2>1. hop' = hop /\ \A y \in Nodes : y # m.to => vc'[y][m.to] = vc[y][m.to]
    BY <1>1, <1>2 DEF QuietRoutes
  <2>2. \A t \in m.trace : Passed(m, t[1], t[2])'
    BY <1>1, <2>1, PassedUnmoved
  <2> QED BY <2>1, <2>2 DEF Sound, Mail
<1>3. ASSUME NEW n \in Nodes, NEW o \in Nodes, NEW src \in Nodes,
             n # o, src # n, Learns(n, o, src)
      PROVE  Sound(m)'
  <2>1. /\ \A y \in Nodes : hop[y][m.to] # NoHop => hop'[y][m.to] # NoHop
        /\ m.to # o => \A y \in Nodes : hop'[y][m.to] = hop[y][m.to] /\ vc'[y][m.to] = vc[y][m.to]
    BY <1>1, <1>3, NodesAssumption DEF Learns, RouteInv, RumorInv, TypeOK
  <2>2. ASSUME NEW t \in m.trace
        PROVE  Passed(m, t[1], t[2])'
    <3>1. CASE m.to = o
      BY <1>1, <1>3, <3>1, PassedLearns
    <3>2. CASE m.to # o
      BY <1>1, <2>1, <3>2, PassedUnmoved
    <3> QED BY <3>1, <3>2
  <2> QED BY <1>1, <2>1, <2>2 DEF Sound, Mail
<1> QED BY <1>2, <1>3, StepChanges DEF RouteChange

-----------------------------------------------------------------------------
(* Both together.                                                          *)

LEMMA DeliveryStep == RouteInv /\ MailInv /\ [DeliveryNext]_<<vars, mail>> => RouteInv' /\ MailInv'
<1> SUFFICES ASSUME RouteInv, MailInv, [DeliveryNext]_<<vars, mail>>
             PROVE  RouteInv' /\ MailInv'
  OBVIOUS
<1>1. CASE [Next]_vars /\ UNCHANGED mail
  <2>1. \A m \in mail' : Sound(m)'
    <3>1. \A m \in mail : m \in Mail /\ Sound(m)
      BY MailInvIsSound DEF Sound
    <3> QED BY <1>1, <3>1, RoutesStep
  <2>2. MailInv'
    BY <2>1 DEF MailInv, Sound, MailTypeOK, NoDeadEnd
  <2> QED BY <1>1, <2>2, RouteStep
<1>2. CASE MailNext /\ UNCHANGED vars
  <2>1. \A m \in mail' : Sound(m)
    BY <1>2, MailStep
  <2>2. hop' = hop /\ vc' = vc
    BY <1>2 DEF vars
  <2>3. \A m \in mail' : Sound(m)'
    BY <2>1, <2>2 DEF Sound, Passed, Ahead, Closed, Mail
  <2>4. MailInv'
    BY <2>3 DEF MailInv, Sound, MailTypeOK, NoDeadEnd
  <2> QED BY <1>2, <2>4, RouteStep
<1> QED BY <1>1, <1>2 DEF DeliveryNext

LEMMA DeliveryInvariant == DeliverySpec => [](RouteInv /\ MailInv)
<1>1. DeliveryInit => RouteInv /\ MailInv
  BY InitRoutes DEF DeliveryInit, MailInv, MailTypeOK, NoDeadEnd
<1> QED BY <1>1, DeliveryStep, PTL DEF DeliverySpec

(* Every packet has the type the properties assume, and its hop limit      *)
(* stays within its width.                                                 *)
THEOREM MailTypeCorrect == DeliverySpec => []MailTypeOK
<1>1. MailInv => MailTypeOK
  BY DEF MailInv
<1> QED BY DeliveryInvariant, <1>1, PTL

(* No packet is ever at a node without a route for it, but for a reply     *)
(* sent back to where the request came from (ProcessDataRequest): along    *)
(* the routes nothing is dropped but for its hop limit.                    *)
THEOREM NoDeadEndCorrect == DeliverySpec => []NoDeadEnd
<1>1. MailInv => NoDeadEnd
  BY DEF MailInv
<1> QED BY DeliveryInvariant, <1>1, PTL

(* However routes change under way, a packet comes back to a node only     *)
(* after the node has heard of the destination anew: it cannot circle, not *)
(* even with a hop limit that wrapped (RoutePrivateMessage).               *)
THEOREM ReturnsCorrect == DeliverySpec => []ReturnsOnlyAfterNews
<1>1. RouteInv /\ MailInv => ReturnsOnlyAfterNews
  <2> SUFFICES ASSUME RouteInv, MailInv, NEW m \in mail, NEW t \in m.trace, t[1] = m.at
               PROVE  t[2] < vc[m.at][m.to]
    BY DEF ReturnsOnlyAfterNews
  <2>1. m \in Mail /\ Passed(m, t[1], t[2])
    BY DEF MailInv, MailTypeOK
  <2>2. t[2] \in Nat /\ vc[m.at][m.to] \in Nat
    BY <2>1, RouteTypes DEF Mail
  <2> QED BY <2>1, <2>2 DEF Passed
<1> QED BY DeliveryInvariant, <1>1, PTL

=============================================================================
