--------------------------- MODULE FloodingProofs ---------------------------
(***************************************************************************)
(* Proofs about Flooding, for any network, any miners and any number of    *)
(* blocks.                                                                 *)
(***************************************************************************)
EXTENDS Flooding, TLAPS

-----------------------------------------------------------------------------
(* Lines of ancestors.                                                     *)

\* A set that has the parents of its blocks.
UpClosed(S) == \A i \in S : mined[i].prev \in S \cup {0}

ParentsFound == \A k \in DOMAIN mined : mined[k].prev \in DOMAIN mined \cup {0}

LEMMA LineLeast ==
  ASSUME NEW S \in SUBSET DOMAIN mined, UpClosed(S), NEW k \in S
  PROVE  Line(k) \subseteq S
BY DEF Line, UpClosed

LEMMA LineHasSelf == \A k \in DOMAIN mined : k \in Line(k)
BY DEF Line

LEMMA LineClosed ==
  ASSUME ParentsFound, NEW k \in DOMAIN mined
  PROVE  UpClosed(Line(k)) /\ Line(k) \subseteq DOMAIN mined
<1>1. ASSUME NEW i \in Line(k), mined[i].prev # 0 PROVE mined[i].prev \in Line(k)
  BY <1>1 DEF Line, ParentsFound
<1> QED BY <1>1 DEF Line, UpClosed

LEMMA LineOfParent ==
  ASSUME ParentsFound, NEW k \in DOMAIN mined, mined[k].prev \in DOMAIN mined
  PROVE  Line(k) \subseteq {k} \cup Line(mined[k].prev)
<1>1. UpClosed({k} \cup Line(mined[k].prev))
  BY LineClosed, LineHasSelf DEF UpClosed
<1> QED BY <1>1, LineLeast, LineClosed

(* The ancestors of a block are in one line: of two of them, one is an     *)
(* ancestor of the other.                                                  *)
LEMMA LinesMeet ==
  ASSUME ParentsFound, NEW z \in DOMAIN mined, NEW x \in Line(z), NEW y \in Line(z)
  PROVE  x \in Line(y) \/ y \in Line(x)
<1> DEFINE S == {j \in DOMAIN mined : x \in Line(j) \/ j \in Line(x)}
<1>1. x \in DOMAIN mined /\ z \in S
  BY DEF Line
<1>2. UpClosed(S)
  <2>1. ASSUME NEW j \in S, mined[j].prev # 0 PROVE mined[j].prev \in S
    <3>1. mined[j].prev \in DOMAIN mined
      BY <2>1 DEF ParentsFound
    <3>2. CASE j \in Line(x)
      BY <1>1, <2>1, <3>2, LineClosed DEF UpClosed
    <3>3. CASE x \in Line(j) /\ x # j
      BY <2>1, <3>1, <3>3, LineOfParent
    <3>4. CASE x = j
      BY <1>1, <3>2, <3>4, LineHasSelf
    <3> QED BY <3>2, <3>3, <3>4
  <2> QED BY <2>1 DEF UpClosed
<1>3. y \in S
  BY <1>1, <1>2, LineLeast
<1> QED BY <1>3

\* A block that is added leaves the lines of the others as they are.
LEMMA LinesStay ==
  ASSUME ParentsFound, mined \in Seq(Block), NEW b \in Block, mined' = Append(mined, b),
         NEW k \in DOMAIN mined
  PROVE  Line(k) \subseteq Line(k)'
<1>1. /\ DOMAIN mined \subseteq DOMAIN mined'
      /\ \A i \in DOMAIN mined : mined'[i] = mined[i]
  OBVIOUS
<1> SUFFICES ASSUME NEW j \in Line(k), NEW S \in SUBSET DOMAIN mined', k \in S,
                    \A i \in S : mined'[i].prev \in S \cup {0}
             PROVE  j \in S
  BY <1>1 DEF Line
<1>2. UpClosed(S \cap DOMAIN mined)
  BY <1>1 DEF UpClosed, ParentsFound
<1> QED BY <1>2, LineLeast

LinesGrow ==
  ParentsFound => \A k \in DOMAIN mined :
    /\ k \in Line(k)
    /\ mined[k].prev # 0 => Line(mined[k].prev) \subseteq Line(k)

LEMMA LineGrows == LinesGrow
<1> SUFFICES ASSUME ParentsFound, NEW k \in DOMAIN mined, mined[k].prev # 0
             PROVE  Line(mined[k].prev) \subseteq Line(k)
  BY LineHasSelf DEF LinesGrow
<1>1. mined[k].prev \in Line(k)
  BY LineHasSelf, LineClosed DEF UpClosed
<1> QED BY <1>1, LineClosed, LineLeast

LEMMA LineGrowsNext == LinesGrow'
BY LineGrows, PTL

LEMMA MinedTypes ==
  TypeOK => /\ DOMAIN mined = 1 .. Len(mined) /\ Len(mined) \in Nat
            /\ \A k \in DOMAIN mined : mined[k].prev \in 0 .. k - 1 /\ mined[k].by \in Nodes
            /\ ParentsFound
<1> SUFFICES ASSUME TypeOK
             PROVE  /\ DOMAIN mined = 1 .. Len(mined) /\ Len(mined) \in Nat
                    /\ \A k \in DOMAIN mined : mined[k].prev \in 0 .. k - 1 /\ mined[k].by \in Nodes
                    /\ ParentsFound
  OBVIOUS
<1>1. DOMAIN mined = 1 .. Len(mined) /\ Len(mined) \in Nat
  BY DEF TypeOK
<1>2. ASSUME NEW k \in DOMAIN mined PROVE mined[k].prev \in 0 .. k - 1 /\ mined[k].by \in Nodes
  <2>1. mined[k] \in Block
    BY DEF TypeOK
  <2> QED BY <1>1, <2>1, NodesAssumption DEF TypeOK, Block
<1> QED BY <1>1, <1>2 DEF ParentsFound

-----------------------------------------------------------------------------
(* Inserting a block.                                                      *)

\* What a tree and a fork have of TypeOK and TreesGrow.
TreeOK(n) ==
  /\ \A r \in tree[n] : r \in Seq(DOMAIN mined) /\ r # <<>> /\ IsInjective(r)
  /\ \A r \in tree[n] : Descends(r)
  /\ \A r, s \in tree[n] : r[1] = s[1]
  /\ fork[n] \in Seq(DOMAIN mined)

LEMMA LeafDescends ==
  ASSUME TypeOK, TreesGrow, NEW n \in Nodes, NEW k \in Nat, k \in DOMAIN mined',
         DOMAIN mined \subseteq DOMAIN mined', ParentsFound',
         \A j \in DOMAIN mined : Line(j) \subseteq Line(j)',
         NEW prev \in 0 .. k - 1, mined'[k].prev = prev, NEW route \in RoutesFor(n, prev),
         NEW leaf, leaf = Append(route, k)
  PROVE  /\ leaf \in Seq(DOMAIN mined') /\ leaf # <<>> /\ IsInjective(leaf)
         /\ Descends(leaf)'
         /\ \A r \in tree[n] : r[1] = leaf[1]
<1>1. k \in Line(k)'
  BY LineGrowsNext DEF LinesGrow
<1>2. CASE tree[n] = {}
  <2>1. route = <<>> /\ leaf = <<k>>
    BY <1>2 DEF RoutesFor
  <2>2. leaf \in Seq(DOMAIN mined') /\ leaf # <<>> /\ DOMAIN leaf = {1} /\ leaf[1] = k
    BY <2>1
  <2> QED BY <1>1, <1>2, <2>2 DEF Descends, IsInjective
<1>3. CASE tree[n] # {}
  <2>1. /\ route \in tree[n] /\ Last(route) = prev
        /\ route \in Seq(DOMAIN mined) /\ route # <<>> /\ Descends(route)
    BY <1>3 DEF RoutesFor, TypeOK, TreesGrow
  <2>2. /\ Len(route) \in Nat \ {0} /\ DOMAIN route = 1 .. Len(route)
        /\ DOMAIN leaf = 1 .. (Len(route) + 1)
        /\ \A i \in DOMAIN route : leaf[i] = route[i] /\ route[i] \in DOMAIN mined
        /\ leaf[Len(route) + 1] = k
    BY <2>1
  <2>3. leaf \in Seq(DOMAIN mined') /\ leaf # <<>>
    BY <2>1
  <2>4. route[Len(route)] = prev /\ prev \in DOMAIN mined /\ prev # 0
    BY <2>1, <2>2 DEF Last, TypeOK
  <2>5. ASSUME NEW i \in DOMAIN leaf PROVE leaf[1] \in Line(leaf[i])'
    <3>1. CASE i \in DOMAIN route
      BY <2>1, <2>2, <3>1 DEF Descends
    <3>2. CASE i = Len(route) + 1
      <4>1. route[1] \in Line(prev)'
        BY <2>1, <2>2, <2>4 DEF Descends
      <4> QED BY <2>2, <2>4, <3>2, <4>1, LineGrowsNext DEF LinesGrow
    <3> QED BY <2>2, <3>1, <3>2
  <2>6. ASSUME NEW i \in DOMAIN leaf, NEW j \in DOMAIN leaf, i < j PROVE leaf[i] < leaf[j]
    <3>1. i \in DOMAIN route /\ (i # Len(route) => route[i] < route[Len(route)])
      BY <2>1, <2>2, <2>6 DEF Descends
    <3>4. route[i] \in Nat
      BY <2>2, <3>1, MinedTypes
    <3>2. CASE j \in DOMAIN route
      BY <2>1, <2>2, <2>6, <3>1, <3>2 DEF Descends
    <3>3. CASE j = Len(route) + 1
      <4>1. route[i] <= prev /\ prev \in Nat
        BY <2>2, <2>4, <3>1, <3>4
      <4> QED BY <2>2, <3>1, <3>3, <3>4, <4>1
    <3> QED BY <2>2, <3>2, <3>3
  <2>7. IsInjective(leaf)
    <3>1. \A i \in DOMAIN leaf : i \in Nat
      BY <2>2
    <3>2. \A i \in DOMAIN leaf : leaf[i] \in Nat
      BY <2>2, MinedTypes
    <3> QED BY <2>6, <3>1, <3>2 DEF IsInjective
  <2>8. \A r \in tree[n] : r[1] = leaf[1]
    BY <2>1, <2>2 DEF TreesGrow
  <2> QED BY <2>3, <2>5, <2>6, <2>7, <2>8 DEF Descends
<1> QED BY <1>2, <1>3

LEMMA InsertStep ==
  ASSUME TypeOK, TreesGrow, NEW n \in Nodes, NEW k \in Nat, k \in DOMAIN mined',
         DOMAIN mined \subseteq DOMAIN mined', ParentsFound',
         \A j \in DOMAIN mined : Line(j) \subseteq Line(j)',
         NEW prev \in 0 .. k - 1, mined'[k].prev = prev, Insert(n, k, prev)
  PROVE  /\ \A m \in Nodes : TreeOK(m)'
         /\ tree' \in [Nodes -> SUBSET Seq(DOMAIN mined')]
         /\ fork' \in [Nodes -> Seq(DOMAIN mined')]
         /\ pending' \in [Nodes -> SUBSET Txs]
<1>1. PICK route \in RoutesFor(n, prev) :
        /\ tree' = [tree EXCEPT ![n] = Planted(@, Append(route, k))]
        /\ \E longest \in LongestRoutes(tree'[n]) :
             fork' = [fork EXCEPT ![n] = IF Len(longest) + 1 > Len(@) THEN longest ELSE @]
        /\ pending' = [pending EXCEPT ![n] = @ \ ClaimedIn(tree'[n], fork'[n])]
  BY DEF Insert
<1>2. pending' \in [Nodes -> SUBSET Txs]
  BY <1>1 DEF TypeOK
<1>3. \A r \in Seq(DOMAIN mined) : r \in Seq(DOMAIN mined')
  OBVIOUS
<1>4. \A r \in Seq(DOMAIN mined) : Descends(r) => Descends(r)'
  BY DEF Descends
<1>5. ASSUME NEW m \in Nodes \ {n} PROVE TreeOK(m)'
  <2>1. tree'[m] = tree[m] /\ fork'[m] = fork[m]
    BY <1>1 DEF TypeOK
  <2> QED BY <1>3, <1>4, <2>1 DEF TreeOK, TypeOK, TreesGrow
<1>6. TreeOK(n)'
  <2>0. PICK leaf : leaf = Append(route, k)
    OBVIOUS
  <2>1. /\ leaf \in Seq(DOMAIN mined') /\ leaf # <<>> /\ IsInjective(leaf)
        /\ Descends(leaf)'
        /\ \A r \in tree[n] : r[1] = leaf[1]
    BY <2>0, LeafDescends, ZenonT(60)
  <2>2. \A r \in tree'[n] : r = leaf \/ r \in tree[n]
    BY <1>1, <2>0 DEF Planted, TypeOK
  <2>3. fork'[n] \in tree'[n] \cup {fork[n]}
    BY <1>1 DEF LongestRoutes, TypeOK
  <2>4. \A r \in tree[n] : r \in Seq(DOMAIN mined) /\ r # <<>> /\ IsInjective(r) /\ Descends(r)
    BY DEF TypeOK, TreesGrow
  <2>5. \A r, s \in tree'[n] : r[1] = s[1]
    BY <2>1, <2>2 DEF TreesGrow
  <2>6. fork[n] \in Seq(DOMAIN mined)
    BY DEF TypeOK
  <2> QED BY <1>3, <1>4, <2>1, <2>2, <2>3, <2>4, <2>5, <2>6 DEF TreeOK
<1>7. \A m \in Nodes : TreeOK(m)'
  BY <1>5, <1>6
<1>8. /\ tree' = [m \in Nodes |-> tree'[m]]
      /\ fork' = [m \in Nodes |-> fork'[m]]
  BY <1>1 DEF TypeOK
<1>9. \A m \in Nodes : tree'[m] \subseteq Seq(DOMAIN mined') /\ fork'[m] \in Seq(DOMAIN mined')
  BY <1>7 DEF TreeOK
<1> QED BY <1>2, <1>7, <1>8, <1>9

-----------------------------------------------------------------------------
(* The packets.                                                            *)

LEMMA SentTypes ==
  ASSUME NEW n \in Nodes
  PROVE  /\ \A k \in 1 .. MaxBlocks : Sent("block", k, BlockLimit, n) \subseteq Packet
         /\ \A t \in Txs : Sent("tx", t, HopLimit, n) \subseteq Packet
<1>1. BlockLimit \in 1 .. BlockLimit /\ HopLimit \in 1 .. HopLimit
  BY BoundAssumption DEF BlockLimit
<1> QED BY <1>1, NodesAssumption DEF Sent, Packet

LEMMA PassedOnTypes ==
  ASSUME NEW m \in Packet, NEW n \in Nodes
  PROVE  /\ PassedOn(m, n) \subseteq Packet
         /\ \A p \in PassedOn(m, n) : p.kind = m.kind /\ p.item = m.item
<1> SUFFICES ASSUME NEW p \in Peers[n], m.limit > 1
             PROVE  LET x == [m EXCEPT !.limit = @ - 1, !.from = n, !.to = p]
                    IN  x \in Packet /\ x.kind = m.kind /\ x.item = m.item
  BY DEF PassedOn
<1>1. p \in Nodes
  BY NodesAssumption
<1>2. CASE m \in [kind: {"block"}, item: 1 .. MaxBlocks, limit: 1 .. BlockLimit, from: Nodes, to: Nodes]
  <2>1. BlockLimit \in Nat /\ m.limit - 1 \in 1 .. BlockLimit
    BY <1>2, BoundAssumption DEF BlockLimit
  <2> QED BY <1>1, <1>2, <2>1 DEF Packet
<1>3. CASE m \in [kind: {"tx"}, item: Txs, limit: 1 .. HopLimit, from: Nodes, to: Nodes]
  <2>1. m.limit - 1 \in 1 .. HopLimit
    BY <1>3, BoundAssumption
  <2> QED BY <1>1, <1>3, <2>1 DEF Packet
<1> QED BY <1>2, <1>3 DEF Packet

\* The contents of a bag after adding and taking away.
LEMMA BagContents ==
  ASSUME NEW B, NEW S, NEW T
  PROVE  /\ BagToSet(B (+) SetToBag(S)) = BagToSet(B) \cup S
         /\ BagToSet(B (-) SetToBag(S)) \subseteq BagToSet(B)
BY DEF BagToSet, SetToBag, (+), (-)

-----------------------------------------------------------------------------
(* The steps.                                                              *)

LEMMA SameMined ==
  ASSUME TypeOK, UNCHANGED mined
  PROVE  /\ mined' \in Seq(Block) /\ Len(mined') <= MaxBlocks
         /\ \A k \in DOMAIN mined' : mined'[k].prev < k
         /\ ParentsFound'
         /\ \A j \in DOMAIN mined : Line(j) \subseteq Line(j)'
<1>1. ParentsFound
  BY MinedTypes
<1> QED BY <1>1 DEF TypeOK, ParentsFound, Line

LEMMA TreesOK ==
  ASSUME TypeOK, TreesGrow, UNCHANGED <<mined, tree, fork>>
  PROVE  \A m \in Nodes : TreeOK(m)'
BY DEF TypeOK, TreesGrow, TreeOK, Descends, Line

\* What a step leaves to be shown of the invariant.
LEMMA Gathered ==
  ASSUME FloodInv,
         tree' \in [Nodes -> SUBSET Seq(DOMAIN mined')],
         fork' \in [Nodes -> Seq(DOMAIN mined')],
         \A m \in Nodes : TreeOK(m)', pending' \in [Nodes -> SUBSET Txs],
         mined' \in Seq(Block), Len(mined') <= MaxBlocks,
         \A k \in DOMAIN mined' : mined'[k].prev < k,
         unsent' \subseteq DOMAIN mined', locked' \subseteq Nodes, shared' \subseteq Sharers \X Txs,
         BagToSet(net') \subseteq Packet, FoundFirst'
  PROVE  FloodInv'
BY DEF FloodInv, TypeOK, TreesGrow, TreeOK

LEMMA FindBlockStep ==
  ASSUME FloodInv, NEW n \in Miners, FindBlock(n)
  PROVE  FloodInv'
<1> DEFINE k    == Len(mined) + 1
           prev == IF fork[n] = <<>> THEN 0 ELSE Last(fork[n])
           b    == [by |-> n, prev |-> prev, txs |-> pending[n]]
<1>1. /\ n \in Nodes /\ Len(mined) \in Nat /\ k \in Nat \ {0} /\ k <= MaxBlocks
      /\ DOMAIN mined = 1 .. Len(mined) /\ ParentsFound
      /\ mined \in Seq(Block)
  BY MinedTypes, NodesAssumption DEF FindBlock, FloodInv, TypeOK
<1>2. prev \in 0 .. k - 1
  <2>1. fork[n] \in Seq(DOMAIN mined)
    BY <1>1 DEF FloodInv, TypeOK
  <2>2. CASE fork[n] # <<>>
    <3>1. Last(fork[n]) \in DOMAIN mined
      BY <2>1, <2>2 DEF Last
    <3> QED BY <1>1, <2>2, <3>1
  <2> QED BY <1>1, <2>2
<1>3. b \in Block /\ mined' = Append(mined, b)
  BY <1>1, <1>2 DEF FindBlock, FloodInv, TypeOK, Block
<1> HIDE DEF prev
<1>4. /\ b.prev = prev
      /\ DOMAIN mined' = 1 .. k /\ Len(mined') = k
      /\ \A i \in DOMAIN mined : mined'[i] = mined[i]
      /\ mined'[k] = b
  BY <1>1, <1>3
<1> HIDE DEF b
<1>5. /\ DOMAIN mined \subseteq DOMAIN mined' /\ k \in DOMAIN mined'
      /\ mined' \in Seq(Block)
      /\ \A i \in DOMAIN mined' : mined'[i].prev < i
  <2>1. ASSUME NEW i \in DOMAIN mined' PROVE mined'[i].prev < i
    <3>1. CASE i = k
      BY <1>2, <1>4, <3>1
    <3>2. CASE i \in DOMAIN mined
      BY <1>4, <3>2 DEF FloodInv, TypeOK
    <3> QED BY <1>1, <1>4, <3>1, <3>2
  <2>2. mined' \in Seq(Block)
    BY <1>1, <1>3
  <2> QED BY <1>1, <1>4, <2>1, <2>2
<1>6. ParentsFound'
  BY <1>1, <1>2, <1>4 DEF ParentsFound
<1>7. \A j \in DOMAIN mined : Line(j) \subseteq Line(j)'
  BY <1>1, <1>3, LinesStay
<1>8. /\ tree' \in [Nodes -> SUBSET Seq(DOMAIN mined')]
      /\ fork' \in [Nodes -> Seq(DOMAIN mined')]
      /\ \A m \in Nodes : TreeOK(m)'
      /\ pending' \in [Nodes -> SUBSET Txs]
      /\ unsent' \subseteq DOMAIN mined'
  <2>1. CASE CanInsert(n, k, prev)
    <3>1. Insert(n, k, prev) /\ unsent' = unsent \cup {k}
      BY <2>1 DEF FindBlock, prev
    <3>2. unsent' \subseteq DOMAIN mined'
      BY <1>5, <3>1 DEF FloodInv, TypeOK
    <3> HIDE DEF k
    <3> QED BY <1>1, <1>2, <1>4, <1>5, <1>6, <1>7, <3>1, <3>2, InsertStep DEF FloodInv
  <2>2. CASE ~CanInsert(n, k, prev)
    <3>1. UNCHANGED <<tree, fork, pending, unsent>>
      BY <2>2 DEF FindBlock, prev
    <3>2. \A S \in SUBSET Seq(DOMAIN mined) : S \subseteq Seq(DOMAIN mined')
      BY <1>5
    <3>3. /\ tree' \in [Nodes -> SUBSET Seq(DOMAIN mined')]
          /\ fork' \in [Nodes -> Seq(DOMAIN mined')]
      BY <1>5, <3>1, <3>2 DEF FloodInv, TypeOK
    <3>4. ASSUME NEW m \in Nodes PROVE TreeOK(m)'
      <4>1. \A r \in tree[m] : r \in Seq(DOMAIN mined) /\ r # <<>> /\ IsInjective(r) /\ Descends(r)
        BY DEF FloodInv, TypeOK, TreesGrow
      <4>2. \A r \in tree[m] : r \in Seq(DOMAIN mined') /\ Descends(r)'
        BY <1>5, <1>7, <4>1 DEF Descends
      <4>3. fork'[m] \in Seq(DOMAIN mined') /\ \A r, s \in tree[m] : r[1] = s[1]
        BY <3>3 DEF FloodInv, TreesGrow
      <4> QED BY <3>1, <4>1, <4>2, <4>3 DEF TreeOK
    <3> QED BY <1>5, <3>1, <3>3, <3>4 DEF FloodInv, TypeOK
  <2> QED BY <2>1, <2>2
<1>9. UNCHANGED <<locked, shared, net>>
  BY DEF FindBlock
<1>10. /\ locked' \subseteq Nodes /\ shared' \subseteq Sharers \X Txs
       /\ BagToSet(net') \subseteq Packet /\ FoundFirst'
  BY <1>5, <1>9 DEF FloodInv, TypeOK, FoundFirst
<1>11. Len(mined') <= MaxBlocks
  BY <1>1, <1>4
<1> QED BY <1>5, <1>8, <1>10, <1>11, Gathered

\* The types that a step keeps that leaves the blocks and the trees alone.
LEMMA SameTypes ==
  ASSUME FloodInv, UNCHANGED <<mined, tree, fork>>
  PROVE  /\ tree' \in [Nodes -> SUBSET Seq(DOMAIN mined')]
         /\ fork' \in [Nodes -> Seq(DOMAIN mined')]
         /\ \A m \in Nodes : TreeOK(m)'
         /\ mined' \in Seq(Block) /\ Len(mined') <= MaxBlocks
         /\ \A k \in DOMAIN mined' : mined'[k].prev < k
BY TreesOK, SameMined DEF FloodInv, TypeOK

LEMMA PublishBlockStep ==
  ASSUME FloodInv, NEW k \in unsent, PublishBlock(k)
  PROVE  FloodInv'
<1> DEFINE sent == Sent("block", k, BlockLimit, mined[k].by)
<1>1. k \in DOMAIN mined /\ k \in 1 .. MaxBlocks /\ mined[k].by \in Nodes
  BY MinedTypes, BoundAssumption DEF FloodInv, TypeOK
<1>2. sent \subseteq Packet /\ \A m \in sent : m.item = k
  BY <1>1, SentTypes DEF Sent
<1> HIDE DEF sent
<1>3. BagToSet(net') = BagToSet(net) \cup sent
  BY BagContents DEF PublishBlock, sent
<1>4. BagToSet(net') \subseteq Packet /\ FoundFirst'
  BY <1>1, <1>2, <1>3 DEF PublishBlock, FloodInv, TypeOK, FoundFirst
<1>5. /\ pending' \in [Nodes -> SUBSET Txs] /\ unsent' \subseteq DOMAIN mined'
      /\ locked' \subseteq Nodes /\ shared' \subseteq Sharers \X Txs
  BY DEF PublishBlock, FloodInv, TypeOK
<1>6. UNCHANGED <<mined, tree, fork>>
  BY DEF PublishBlock
<1> QED BY <1>4, <1>5, <1>6, SameTypes, Gathered

LEMMA InsertTransactionTypes ==
  ASSUME TypeOK, NEW n \in Nodes, NEW t \in Txs, InsertTransaction(n, t)
  PROVE  pending' \in [Nodes -> SUBSET Txs] /\ locked' \subseteq Nodes
BY DEF InsertTransaction, TypeOK

LEMMA ShareFileStep ==
  ASSUME FloodInv, NEW n \in Sharers, NEW t \in Txs, ShareFile(n, t)
  PROVE  FloodInv'
<1> DEFINE own  == [kind |-> "tx", item |-> t, limit |-> HopLimit, from |-> n, to |-> n]
           new  == t \notin pending[n] /\ ~InFork(n, t)
           pass == IF new THEN PassedOn(own, n) ELSE {}
           sent == Sent("tx", t, HopLimit, n)
<1>1. n \in Nodes /\ own \in Packet /\ own.kind = "tx"
  BY NodesAssumption, BoundAssumption DEF Packet
<1>2. pass \subseteq Packet /\ \A m \in pass : m.kind = "tx"
  BY <1>1, PassedOnTypes
<1>3. sent \subseteq Packet /\ \A m \in sent : m.kind = "tx"
  <2>1. sent \subseteq Packet
    BY <1>1, SentTypes
  <2> QED BY <2>1 DEF Sent
<1>4. net' = net (+) SetToBag(pass) (+) SetToBag(sent)
  BY DEF ShareFile
<1> HIDE DEF pass, sent
<1>5. BagToSet(net') = BagToSet(net) \cup pass \cup sent
  BY <1>4, BagContents
<1>6. UNCHANGED <<mined, unsent, tree, fork>> /\ shared' = shared \cup {<<n, t>>}
  BY DEF ShareFile
<1>7. BagToSet(net') \subseteq Packet /\ FoundFirst'
  BY <1>2, <1>3, <1>5, <1>6 DEF FloodInv, TypeOK, FoundFirst
<1>8. /\ pending' \in [Nodes -> SUBSET Txs] /\ unsent' \subseteq DOMAIN mined'
      /\ locked' \subseteq Nodes /\ shared' \subseteq Sharers \X Txs
  BY <1>1, <1>6, InsertTransactionTypes DEF ShareFile, FloodInv, TypeOK
<1> QED BY <1>6, <1>7, <1>8, SameTypes, Gathered

\* What a listener does to the packets, whatever it passes on.
LEMMA NetStep ==
  ASSUME FloodInv, NEW m \in BagToSet(net), NEW pass,
         pass = {} \/ pass = PassedOn(m, m.to),
         net' = (net (-) SetToBag({m})) (+) SetToBag(pass), UNCHANGED mined
  PROVE  BagToSet(net') \subseteq Packet /\ FoundFirst'
<1>1. m \in Packet /\ m.to \in Nodes
  BY DEF FloodInv, TypeOK, Packet
<1>2. pass \subseteq Packet /\ \A p \in pass : p.kind = m.kind /\ p.item = m.item
  BY <1>1, PassedOnTypes
<1>3. BagToSet(net') \subseteq BagToSet(net) \cup pass
  BY BagContents
<1> QED BY <1>2, <1>3 DEF FloodInv, TypeOK, FoundFirst

LEMMA ReceiveTransactionStep ==
  ASSUME FloodInv, NEW m \in BagToSet(net), ReceiveTransaction(m)
  PROVE  FloodInv'
<1> DEFINE new  == m.item \notin pending[m.to] /\ ~InFork(m.to, m.item)
           pass == IF new THEN PassedOn(m, m.to) ELSE {}
<1>1. m.to \in Nodes /\ m.item \in Txs
  <2>1. m \in Packet /\ m.kind = "tx"
    BY DEF ReceiveTransaction, FloodInv, TypeOK
  <2> QED BY <2>1 DEF Packet
<1>2. UNCHANGED <<mined, unsent, tree, fork, shared>>
  BY DEF ReceiveTransaction
<1>3. /\ net' = (net (-) SetToBag({m})) (+) SetToBag(pass)
      /\ pass = {} \/ pass = PassedOn(m, m.to)
  BY DEF ReceiveTransaction
<1> HIDE DEF pass
<1>4. BagToSet(net') \subseteq Packet /\ FoundFirst'
  BY <1>2, <1>3, NetStep
<1>5. /\ pending' \in [Nodes -> SUBSET Txs] /\ unsent' \subseteq DOMAIN mined'
      /\ locked' \subseteq Nodes /\ shared' \subseteq Sharers \X Txs
  BY <1>1, <1>2, InsertTransactionTypes DEF ReceiveTransaction, FloodInv, TypeOK
<1> QED BY <1>2, <1>4, <1>5, SameTypes, Gathered

LEMMA ReceiveBlockStep ==
  ASSUME FloodInv, NEW m \in BagToSet(net), ReceiveBlock(m)
  PROVE  FloodInv'
<1> DEFINE n    == m.to
           k    == m.item
           prev == mined[k].prev
           pass == IF CanInsert(n, k, prev) THEN PassedOn(m, n) ELSE {}
<1>1. n \in Nodes /\ k \in DOMAIN mined
  <2>1. m \in Packet /\ m.kind = "block"
    BY DEF ReceiveBlock, FloodInv, TypeOK
  <2> QED BY <2>1 DEF Packet, FloodInv, FoundFirst
<1>2. UNCHANGED <<mined, unsent, locked, shared>>
  BY DEF ReceiveBlock
<1>3. /\ net' = (net (-) SetToBag({m})) (+) SetToBag(pass)
      /\ pass = {} \/ pass = PassedOn(m, n)
  BY DEF ReceiveBlock
<1>4. BagToSet(net') \subseteq Packet /\ FoundFirst'
  <2> HIDE DEF pass
  <2> QED BY <1>2, <1>3, NetStep
<1>5. /\ tree' \in [Nodes -> SUBSET Seq(DOMAIN mined')]
      /\ fork' \in [Nodes -> Seq(DOMAIN mined')]
      /\ \A p \in Nodes : TreeOK(p)'
      /\ pending' \in [Nodes -> SUBSET Txs]
  <2>1. CASE CanInsert(n, k, prev)
    <3>1. Insert(n, k, prev)
      BY <2>1 DEF ReceiveBlock
    <3>2. k \in Nat /\ prev \in 0 .. k - 1
      BY <1>1, MinedTypes DEF FloodInv
    <3>3. k \in DOMAIN mined' /\ DOMAIN mined \subseteq DOMAIN mined' /\ mined'[k].prev = prev
      BY <1>1, <1>2
    <3> HIDE DEF n, k, prev
    <3> QED BY <1>1, <1>2, <3>1, <3>2, <3>3, SameMined, InsertStep DEF FloodInv
  <2>2. CASE ~CanInsert(n, k, prev)
    <3>1. UNCHANGED <<tree, fork, pending>>
      BY <2>2 DEF ReceiveBlock
    <3> QED BY <1>2, <3>1, SameTypes DEF FloodInv, TypeOK
  <2> QED BY <2>1, <2>2
<1>6. /\ unsent' \subseteq DOMAIN mined'
      /\ locked' \subseteq Nodes /\ shared' \subseteq Sharers \X Txs
  BY <1>2 DEF FloodInv, TypeOK
<1>7. /\ mined' \in Seq(Block) /\ Len(mined') <= MaxBlocks
      /\ \A i \in DOMAIN mined' : mined'[i].prev < i
  BY <1>2, SameMined DEF FloodInv
<1> QED BY <1>4, <1>5, <1>6, <1>7, Gathered

-----------------------------------------------------------------------------
(* The theorems.                                                           *)

LEMMA FloodInit == Init => FloodInv
<1> SUFFICES ASSUME Init PROVE FloodInv
  OBVIOUS
<1>1. mined \in Seq(Block) /\ Len(mined) = 0 /\ DOMAIN mined = {}
  BY DEF Init
<1>2. BagToSet(net) = {}
  BY DEF Init, EmptyBag, SetToBag, BagToSet
<1>3. \A S : <<>> \in Seq(S)
  OBVIOUS
<1>4. TypeOK
  BY <1>1, <1>2, <1>3, BoundAssumption DEF Init, TypeOK
<1> QED BY <1>2, <1>4 DEF Init, FloodInv, TreesGrow, FoundFirst

LEMMA FloodNext == FloodInv /\ [Next]_vars => FloodInv'
<1> SUFFICES ASSUME FloodInv, [Next]_vars PROVE FloodInv'
  OBVIOUS
<1>1. ASSUME NEW n \in Miners, FindBlock(n) PROVE FloodInv'
  BY <1>1, FindBlockStep
<1>2. ASSUME NEW k \in unsent, PublishBlock(k) PROVE FloodInv'
  BY <1>2, PublishBlockStep
<1>3. ASSUME NEW n \in Sharers, NEW t \in Txs, ShareFile(n, t) PROVE FloodInv'
  BY <1>3, ShareFileStep
<1>4. ASSUME NEW n \in Nodes, Listen(n) PROVE FloodInv'
  BY <1>4, ReceiveTransactionStep, ReceiveBlockStep DEF Listen
<1>5. CASE UNCHANGED vars
  <2>1. UNCHANGED <<mined, tree, fork>>
    BY <1>5 DEF vars
  <2>2. /\ pending' \in [Nodes -> SUBSET Txs] /\ unsent' \subseteq DOMAIN mined'
        /\ locked' \subseteq Nodes /\ shared' \subseteq Sharers \X Txs
        /\ BagToSet(net') \subseteq Packet /\ FoundFirst'
    BY <1>5 DEF vars, FloodInv, TypeOK, FoundFirst
  <2> QED BY <2>1, <2>2, SameTypes, Gathered
<1> QED BY <1>1, <1>2, <1>3, <1>4, <1>5 DEF Next

LEMMA Invariant == Spec => []FloodInv
BY FloodInit, FloodNext, PTL DEF Spec

(* Blocks, routes and packets keep their types: every block a route or a   *)
(* packet names was found, its parent before it, and no route passes a     *)
(* block twice (InsertToChainByRoute).                                     *)
THEOREM TypeCorrect == Spec => []TypeOK
<1>1. FloodInv => TypeOK
  BY DEF FloodInv
<1> QED BY <1>1, Invariant, PTL

LEMMA SharedBlock == FloodInv => RootsDivide
<1> SUFFICES ASSUME FloodInv, NEW n \in Nodes, NEW m \in Nodes,
                    NEW r \in tree[n], NEW s \in tree[m],
                    Blocks(n) \cap Blocks(m) # {}
             PROVE  r[1] \in Line(s[1]) \/ s[1] \in Line(r[1])
  BY DEF RootsDivide, Roots
<1>1. PICK rz \in tree[n], sz \in tree[m] :
        \E i \in DOMAIN rz, j \in DOMAIN sz : rz[i] = sz[j]
  BY DEF Blocks, Range
<1>2. rz[1] = r[1] /\ sz[1] = s[1]
  BY DEF FloodInv, TreesGrow
<1> PICK i \in DOMAIN rz, j \in DOMAIN sz : rz[i] = sz[j]
  BY <1>1
<1>3. rz[1] \in Line(rz[i]) /\ sz[1] \in Line(rz[i])
  BY DEF FloodInv, TreesGrow, Descends
<1>4. rz[i] \in DOMAIN mined
  BY DEF FloodInv, TypeOK
<1> QED BY <1>2, <1>3, <1>4, LinesMeet, MinedTypes DEF FloodInv

(* Two nodes whose trees grew from blocks in different lines of descent    *)
(* have no block in common, and never will, whatever the network, and      *)
(* whatever is found, resent or reordered (InsertBlockToBlockChain).       *)
THEOREM RootsCorrect == Spec => []RootsDivide
BY SharedBlock, Invariant, PTL

=============================================================================
