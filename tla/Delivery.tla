------------------------------ MODULE Delivery ------------------------------
(***************************************************************************)
(* What travels along the routing tables while Gossip changes them:        *)
(* private messages (gossiper/gossip.go), data requests and replies        *)
(* (process-file-message.go) and search replies (search-file.go).  Each    *)
(* packet is passed on from listener to listener, with a hop limit.        *)
(*                                                                         *)
(* A packet carries, for the properties only, the nodes it was passed on   *)
(* by, with what each knew of its destination then.  A copy that UDP makes *)
(* is a packet of its own.                                                 *)
(***************************************************************************)
EXTENDS Gossip

CONSTANTS
  Senders,   \* the nodes whose clients write or download
  Limits,    \* the hop limits the clients give
  HopLimit,  \* hopLimit of the nodes, for replies
  Wide32,    \* stands for 2^32, at which hop limits wrap
  MaxMail    \* bound: packets travelling at any time

ASSUME LimitsAssumption ==
  /\ Wide32 \in Nat \ {0}
  /\ HopLimit \in 1 .. Wide32 - 1 /\ Limits \subseteq 0 .. Wide32 - 1
  /\ Senders \subseteq Nodes
ASSUME MailAssumption == MaxMail \in Nat \ {0}

VARIABLE mail  \* the packets on their way

Mail ==
  [kind: {"private", "request", "reply"}, from: Nodes, to: Nodes, limit: 0 .. Wide32 - 1,
   src: Nodes, at: Nodes, back: BOOLEAN, trace: SUBSET (Nodes \X (Nat \ {0}))]

MailTypeOK == mail \subseteq Mail

DeliveryInit == Init /\ mail = {}

-----------------------------------------------------------------------------
\* Mutant: a number that does not wrap.
Decremented_Long(h) == h + Wide32 - 1

\* HopLimit--, on an unsigned number.
Decremented(h) == (h + Wide32 - 1) % Wide32

\* n sends m on to p.
Hop(n, m, p) ==
  [m EXCEPT !.src = n, !.at = p, !.back = FALSE, !.trace = @ \cup {<<n, vc[n][m.to]>>}]

Send(rest, packets) == mail' = rest \cup packets /\ Cardinality(mail') <= MaxMail

\* Mutant: without a next hop the packet goes back to the one who sent it.
PassOn_OrBack(rest, n, m) ==
  LET sent == [m EXCEPT !.limit = Decremented(@)]
      p    == IF hop[n][m.to] = NoHop THEN m.src ELSE hop[n][m.to]
  IN  Send(rest, IF sent.limit > 0 THEN {Hop(n, sent, p)} ELSE {})

\* Mutant: the next hop to where the packet came from.
PassOn_ToOrigin(rest, n, m) ==
  LET sent == [m EXCEPT !.limit = Decremented(@)]
      p    == IF n = m.from THEN hop[n][m.to] ELSE hop[n][m.from]
  IN  Send(rest, IF sent.limit > 0 /\ p # NoHop THEN {Hop(n, sent, p)} ELSE {})

\* The packet is dropped if no hops are left or no next hop is known.
PassOn(rest, n, m) ==
  LET sent == [m EXCEPT !.limit = Decremented(@)]
  IN  Send(rest, IF sent.limit > 0 /\ hop[n][m.to] # NoHop
                 THEN {Hop(n, sent, hop[n][m.to])} ELSE {})

New(kind, n, d, h) ==
  [kind |-> kind, from |-> n, to |-> d, limit |-> h,
   src |-> n, at |-> n, back |-> FALSE, trace |-> {}]

\* RoutePrivateMessage, called by handleClientMessage.
SendPrivate(n, d, h) == n # d /\ PassOn(mail, n, New("private", n, d, h))

\* StartFileDownload asks for a metafile or a chunk.
SendRequest(n, d, h) == n # d /\ PassOn(mail, n, New("request", n, d, h))

\* The same for every kind of packet at a node that is not its destination.
Forward(m) == m.at # m.to /\ PassOn(mail \ {m}, m.at, m)

Receive(m) ==
  /\ m.at = m.to
  /\ m.kind # "request"
  /\ mail' = mail \ {m}

\* ProcessDataRequest has the chunk: without a next hop to the one who asks,
\* the reply goes back the way the request came.
Answer(m) ==
  LET reply == New("reply", m.to, m.from, HopLimit)
      next  == hop[m.to][m.from]
  IN  /\ m.at = m.to
      /\ m.kind = "request"
      /\ Send(mail \ {m},
              {IF next = NoHop THEN [Hop(m.to, reply, m.src) EXCEPT !.back = TRUE]
               ELSE Hop(m.to, reply, next)})

\* Lost by UDP; or a request for what the destination does not have.
LoseMail(m) == mail' = mail \ {m}

MailNext ==
  \/ \E n \in Senders, d \in Speakers, h \in Limits : SendPrivate(n, d, h) \/ SendRequest(n, d, h)
  \/ \E m \in mail : Forward(m) \/ Receive(m) \/ Answer(m) \/ LoseMail(m)

DeliveryNext ==
  \/ Next /\ UNCHANGED mail
  \/ MailNext /\ UNCHANGED vars

DeliverySpec == DeliveryInit /\ [][DeliveryNext]_<<vars, mail>>

-----------------------------------------------------------------------------
(* A packet never reaches a node that cannot pass it on, but for a reply   *)
(* that was just sent back to where the request came from: routes are not  *)
(* lost, and a next hop has a route itself.                                *)
NoDeadEnd ==
  \A m \in mail : m.at # m.to /\ ~m.back => hop[m.at][m.to] # NoHop

(* Routes change under a packet, so it may meet a node twice; but only     *)
(* after the node heard of the destination anew.  So a packet travels at   *)
(* most once round the network per rumor, whatever its hop limit, be it 0, *)
(* which wraps (RoutePrivateMessage).                                      *)
ReturnsOnlyAfterNews ==
  \A m \in mail : \A t \in m.trace : t[1] = m.at => t[2] < vc[m.at][m.to]

(* The strengthening that makes the two inductive.  For a node x that      *)
(* passed m on with clock k for the destination: m is where nothing less   *)
(* is known than k, and, as long as x has heard nothing new, within a set  *)
(* that no route leaves and x is not in.                                   *)
Ahead(k, o) == {y \in Nodes : y = o \/ vc[y][o] >= k}

Closed(S, o) == \A y \in S \ {o} : hop[y][o] \in S \cup {NoHop}

Passed(m, x, k) ==
  /\ x # m.to
  /\ k <= vc[x][m.to]
  /\ m.at \in Ahead(k, m.to)
  /\ vc[x][m.to] = k =>
       \E S \in SUBSET Ahead(k, m.to) : m.at \in S /\ x \notin S /\ Closed(S, m.to)

MailInv ==
  /\ MailTypeOK
  /\ NoDeadEnd
  /\ \A m \in mail : m.from # m.to /\ m.src # m.at
  /\ \A m \in mail : \A t \in m.trace : Passed(m, t[1], t[2])

=============================================================================
