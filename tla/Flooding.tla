------------------------------ MODULE Flooding ------------------------------
(***************************************************************************)
(* Blocks and transactions flooding a network of peersters                 *)
(* (gossiper/blockchain.go): each listener inserts what it receives and    *)
(* passes it on with one hop less, if it was inserted.  The packets arrive *)
(* in any order; that some are lost is left out, for nothing is sent       *)
(* again.                                                                  *)
(*                                                                         *)
(* A block is its place in "mined", a transaction the name of its file.    *)
(* Here a miner inserts a block as it finds it and every block keeps its   *)
(* contents; the races and the shared arrays of one node are in            *)
(* Blockchain.                                                             *)
(***************************************************************************)
EXTENDS Naturals, Sequences, FiniteSets, SequencesExt, BagsExt

CONSTANTS
  Nodes,      \* the peersters
  Peers,      \* Peers[n]: the peersList of n, without n
  Miners,     \* the nodes that find blocks
  Sharers,    \* the nodes whose clients share files
  Txs,        \* the names of the files
  HopLimit,   \* hopLimit, for transactions; blocks have twice as much
  MaxBlocks   \* bound: the blocks there ever are

ASSUME NodesAssumption ==
  /\ Peers \in [Nodes -> SUBSET Nodes] /\ \A n \in Nodes : n \notin Peers[n]
  /\ Miners \subseteq Nodes /\ Sharers \subseteq Nodes
ASSUME BoundAssumption == HopLimit \in Nat \ {0} /\ MaxBlocks \in Nat

VARIABLES
  mined,      \* mined[k]: finder, parent (or 0) and transactions of block k
  unsent,     \* blocks whose finder waits before it publishes them
  tree,       \* tree[n]: the routes of the tree of n
  fork,       \* fork[n]: the route of the fork n is on
  pending,    \* pending[n]: the transactions of the block n is mining
  locked,     \* nodes whose blockMutex was left locked
  shared,     \* what clients have shared
  net         \* the packets on their way, as a bag

vars == <<mined, unsent, tree, fork, pending, locked, shared, net>>

BlockLimit == 2 * HopLimit

Packet ==
  [kind: {"block"}, item: 1 .. MaxBlocks, limit: 1 .. BlockLimit, from: Nodes, to: Nodes] \cup
  [kind: {"tx"}, item: Txs, limit: 1 .. HopLimit, from: Nodes, to: Nodes]

Block == [by: Miners, prev: Nat, txs: SUBSET Txs]

TypeOK ==
  /\ mined \in Seq(Block) /\ Len(mined) <= MaxBlocks
  /\ \A k \in DOMAIN mined : mined[k].prev < k
  /\ unsent \subseteq DOMAIN mined
  /\ tree \in [Nodes -> SUBSET Seq(DOMAIN mined)]
  /\ \A n \in Nodes : \A r \in tree[n] : r # <<>> /\ IsInjective(r)
  /\ fork \in [Nodes -> Seq(DOMAIN mined)]
  /\ pending \in [Nodes -> SUBSET Txs]
  /\ locked \subseteq Nodes
  /\ shared \subseteq Sharers \X Txs
  /\ BagToSet(net) \subseteq Packet

Init ==
  /\ mined = <<>>
  /\ unsent = {}
  /\ tree = [n \in Nodes |-> {}]
  /\ fork = [n \in Nodes |-> <<>>]
  /\ pending = [n \in Nodes |-> {}]
  /\ locked = {}
  /\ shared = {}
  /\ net = EmptyBag

-----------------------------------------------------------------------------
\* Mutant: a packet keeps its hops.
PassedOn_AsIs(m, n) == {[m EXCEPT !.from = n, !.to = p] : p \in Peers[n] \ {m.from}}

\* Mutant: a packet without hops goes on.
PassedOn_Once(m, n) ==
  {[m EXCEPT !.limit = @ - 1, !.from = n, !.to = p] : p \in Peers[n] \ {m.from}}

\* A packet goes on to all peers but the one it came from, while it has hops.
PassedOn(m, n) ==
  IF m.limit > 1
  THEN {[m EXCEPT !.limit = @ - 1, !.from = n, !.to = p] : p \in Peers[n] \ {m.from}}
  ELSE {}

Sent(kind, item, limit, n) ==
  {[kind |-> kind, item |-> item, limit |-> limit, from |-> n, to |-> p] : p \in Peers[n]}

Knows(n, k) == \E r \in tree[n] : Last(r) = k

\* Mutant: a first block is inserted whatever the node has.
RoutesFor_First(n, prev) ==
  IF prev = 0 THEN {<<>>} ELSE {r \in tree[n] : Last(r) = prev}

\* Where a block belongs: the first one a node gets becomes the root of its
\* tree, whatever its parent; any other needs its parent.
RoutesFor(n, prev) ==
  IF tree[n] = {} THEN {<<>>} ELSE {r \in tree[n] : Last(r) = prev}

\* InsertToChainByRoute: a block that is there loses what is below it.
Planted(t, leaf) == {r \in t : ~IsStrictPrefix(leaf, r)} \cup {leaf}

\* GetLongestFork.
LongestRoutes(t) == {r \in t : \A s \in t : Len(s) <= Len(r)}

\* FileNameExistsInRoute, which stops where the fork leaves the tree.
ClaimedIn(t, route) ==
  UNION {mined'[route[i]].txs : i \in {j \in DOMAIN route : SubSeq(route, 1, j) \in t}}

\* Mutant: a block that the node has is not inserted again.
CanInsert_New(n, k, prev) == RoutesFor(n, prev) # {} /\ ~Knows(n, k)

CanInsert(n, k, prev) == RoutesFor(n, prev) # {}

\* InsertBlockToBlockChain: the tree, the fork, and what is left to be mined.
Insert(n, k, prev) ==
  \E route \in RoutesFor(n, prev) :
    /\ tree' = [tree EXCEPT ![n] = Planted(@, Append(route, k))]
    /\ \E longest \in LongestRoutes(tree'[n]) :
         fork' = [fork EXCEPT ![n] = IF Len(longest) + 1 > Len(@) THEN longest ELSE @]
    /\ pending' = [pending EXCEPT ![n] = @ \ ClaimedIn(tree'[n], fork'[n])]

InFork(n, t) ==
  \E i \in DOMAIN fork[n] :
    SubSeq(fork[n], 1, i) \in tree[n] /\ t \in mined[fork[n][i]].txs

-----------------------------------------------------------------------------
(* The miners.                                                             *)

\* startMining: the block continues the fork and holds what is pending.  It
\* is lost if the end of the fork is no longer in the tree.
FindBlock(n) ==
  LET k    == Len(mined) + 1
      prev == IF fork[n] = <<>> THEN 0 ELSE Last(fork[n])
  IN  /\ n \notin locked
      /\ k <= MaxBlocks
      /\ mined' = Append(mined, [by |-> n, prev |-> prev, txs |-> pending[n]])
      /\ IF CanInsert(n, k, prev)
         THEN Insert(n, k, prev) /\ unsent' = unsent \cup {k}
         ELSE UNCHANGED <<tree, fork, pending, unsent>>
      /\ UNCHANGED <<locked, shared, net>>

\* PublishBlockWithDelays: the delays differ, so blocks may overtake others.
PublishBlock(k) ==
  /\ unsent' = unsent \ {k}
  /\ net' = net (+) SetToBag(Sent("block", k, BlockLimit, mined[k].by))
  /\ UNCHANGED <<mined, tree, fork, pending, locked, shared>>

-----------------------------------------------------------------------------
(* The clients and the listeners.                                          *)

\* InsertTransactionToMiningBlock: a name that the fork has leaves the mutex
\* locked.
InsertTransaction(n, t) ==
  LET pends == t \in pending[n]
  IN  /\ pending' = IF pends \/ InFork(n, t) THEN pending ELSE [pending EXCEPT ![n] = @ \cup {t}]
      /\ locked'  = IF ~pends /\ InFork(n, t) THEN locked \cup {n} ELSE locked

\* Sharing a file sends its transaction twice: processTransactionReceived
\* passes it on, if it is new, and broadcastNewFile sends it.
ShareFile(n, t) ==
  LET own == [kind |-> "tx", item |-> t, limit |-> HopLimit, from |-> n, to |-> n]
      new == t \notin pending[n] /\ ~InFork(n, t)
  IN  /\ <<n, t>> \notin shared /\ n \notin locked
      /\ shared' = shared \cup {<<n, t>>}
      /\ InsertTransaction(n, t)
      /\ net' = net (+) SetToBag(IF new THEN PassedOn(own, n) ELSE {})
                    (+) SetToBag(Sent("tx", t, HopLimit, n))
      /\ UNCHANGED <<mined, unsent, tree, fork>>

Listens(n) == n \notin locked

\* processTransactionReceived.
ReceiveTransaction(m) ==
  LET n == m.to
      new == m.item \notin pending[n] /\ ~InFork(n, m.item)
  IN  /\ m.kind = "tx" /\ Listens(n)
      /\ InsertTransaction(n, m.item)
      /\ net' = (net (-) SetToBag({m})) (+) SetToBag(IF new THEN PassedOn(m, n) ELSE {})
      /\ UNCHANGED <<mined, unsent, tree, fork, shared>>

\* processBlockPublishReceived: one that the node has counts as inserted; one
\* of an unknown parent is dropped, for good.
ReceiveBlock(m) ==
  LET n == m.to
      inserted == CanInsert(n, m.item, mined[m.item].prev)
  IN  /\ m.kind = "block" /\ Listens(n)
      /\ UNCHANGED mined
      /\ IF inserted THEN Insert(n, m.item, mined[m.item].prev) ELSE UNCHANGED <<tree, fork, pending>>
      /\ net' = (net (-) SetToBag({m})) (+) SetToBag(IF inserted THEN PassedOn(m, n) ELSE {})
      /\ UNCHANGED <<unsent, locked, shared>>

-----------------------------------------------------------------------------
Listen(n) == \E m \in BagToSet(net) : m.to = n /\ (ReceiveTransaction(m) \/ ReceiveBlock(m))

Next ==
  \/ \E n \in Miners : FindBlock(n)
  \/ \E k \in unsent : PublishBlock(k)
  \/ \E n \in Sharers, t \in Txs : ShareFile(n, t)
  \/ \E n \in Nodes : Listen(n)

Spec == Init /\ [][Next]_vars

\* A listener that can take packets does; nothing but this is promised.
Fairness == \A n \in Nodes : WF_vars(Listen(n))

FairSpec == Spec /\ Fairness

-----------------------------------------------------------------------------
(* The hop limits alone end the flood of a block, for a node passes on     *)
(* what it has already as often as it gets it: once nobody finds or shares *)
(* anything more, only packets to nodes whose mutex is lost stay.          *)
FloodEnds == <>[](\A m \in BagToSet(net) : m.to \in locked)

Reach(n, d) ==
  LET within[i \in 0 .. d] ==
        IF i = 0 THEN {n} ELSE within[i - 1] \cup UNION {Peers[p] : p \in within[i - 1]}
  IN  within[d]

\* Block k was just published, n is within its hop limit, and every node has
\* its parent.
Ready(k, n) ==
  /\ k \in DOMAIN mined
  /\ n \in Reach(mined[k].by, BlockLimit) \ {mined[k].by}
  /\ Sent("block", k, BlockLimit, mined[k].by) \subseteq BagToSet(net)
  /\ locked = {}
  /\ \A p \in Nodes : Knows(p, mined[k].prev)

Arrived(k, n) ==
  /\ k \in DOMAIN mined
  /\ Knows(n, k) \/ locked # {} \/ \E p \in Nodes : ~Knows(p, mined[k].prev)

(* A block that everybody could insert when it was published gets to every *)
(* node within its hop limit, though the copy that arrives first may have  *)
(* taken a longer way and be out of hops sooner; unless, meanwhile, a      *)
(* mutex is lost, or the block before its parent arrives again and removes *)
(* the parent (processBlockPublishReceived).                               *)
BlocksSpread == \A k \in 1 .. MaxBlocks, n \in Nodes : Ready(k, n) ~> Arrived(k, n)

Roots(n) == {r[1] : r \in tree[n]}

Blocks(n) == UNION {Range(r) : r \in tree[n]}

\* k and its ancestors: what has k and, with every block, its parent.
Line(k) ==
  {j \in DOMAIN mined :
     \A S \in SUBSET DOMAIN mined :
       k \in S /\ (\A i \in S : mined[i].prev \in S \cup {0}) => j \in S}

(* Nodes whose trees grew from different blocks, neither of which is an    *)
(* ancestor of the other, have no block in common and never will: who      *)
(* finds a first block of its own before hearing of another's never agrees *)
(* with it (InsertBlockToBlockChain tests for an empty tree only).         *)
RootsDivide ==
  \A n, m \in Nodes : \A x \in Roots(n), y \in Roots(m) :
    Blocks(n) \cap Blocks(m) # {} => x \in Line(y) \/ y \in Line(x)

(* The inductive invariant: a route goes from block to later block, down   *)
(* the line of its first, which all routes of a node share; and the blocks *)
(* that travel were found.                                                 *)
Descends(r) ==
  /\ \A i \in DOMAIN r : r[1] \in Line(r[i])
  /\ \A i, j \in DOMAIN r : i < j => r[i] < r[j]

TreesGrow ==
  \A n \in Nodes :
    /\ \A r \in tree[n] : Descends(r)
    /\ \A r, s \in tree[n] : r[1] = s[1]

FoundFirst == \A m \in BagToSet(net) : m.kind = "block" => m.item \in DOMAIN mined

FloodInv == TypeOK /\ TreesGrow /\ FoundFirst

=============================================================================
