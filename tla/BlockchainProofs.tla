-------------------------- MODULE BlockchainProofs --------------------------
(***************************************************************************)
(* Proofs about Blockchain, for any transactions and any number of blocks. *)
(***************************************************************************)
EXTENDS Blockchain, FiniteSetTheorems, TLAPS

-----------------------------------------------------------------------------
(* Routes.                                                                 *)

LEMMA PrefixesOfAppend ==
  ASSUME NEW S, NEW r \in Seq(S), NEW e \in S
  PROVE  /\ Append(r, e) \in Seq(S) /\ Len(Append(r, e)) = Len(r) + 1
         /\ \A i \in 1 .. Len(r) : SubSeq(Append(r, e), 1, i) = SubSeq(r, 1, i)
         /\ SubSeq(Append(r, e), 1, Len(r) + 1) = Append(r, e)
         /\ Append(r, e)[Len(r) + 1] = e
         /\ Append(r, e) # <<>>
OBVIOUS

\* What does not continue "leaf" has no prefix that does.
LEMMA PrefixContinues ==
  ASSUME NEW S, NEW leaf \in Seq(S), NEW r \in Seq(S), NEW i \in 1 .. Len(r),
         IsStrictPrefix(leaf, SubSeq(r, 1, i))
  PROVE  IsStrictPrefix(leaf, r)
<1>1. /\ SubSeq(r, 1, i) \in Seq(S) /\ Len(SubSeq(r, 1, i)) = i
      /\ Len(r) \in Nat /\ i <= Len(r) /\ Len(leaf) \in Nat
  OBVIOUS
<1>2. Len(leaf) <= i /\ SubSeq(leaf, 1, Len(leaf)) = SubSeq(SubSeq(r, 1, i), 1, Len(leaf))
  BY <1>1 DEF IsStrictPrefix, IsPrefix
<1>3. SubSeq(SubSeq(r, 1, i), 1, Len(leaf)) = SubSeq(r, 1, Len(leaf))
  BY <1>1, <1>2
<1>4. leaf # r
  <2>1. SUFFICES ASSUME leaf = r PROVE FALSE
    OBVIOUS
  <2>2. i = Len(r) /\ SubSeq(r, 1, Len(r)) = r
    BY <1>1, <1>2, <2>1
  <2> QED BY <2>1, <2>2 DEF IsStrictPrefix
<1> QED BY <1>1, <1>2, <1>3, <1>4 DEF IsStrictPrefix, IsPrefix

-----------------------------------------------------------------------------
(* Types.                                                                  *)

LEMMA MinedIsTyped ==
  ASSUME MinedTyped, NEW k \in DOMAIN mined
  PROVE  /\ mined[k].prev \in Hashes /\ mined[k].txs \in Seq(Txs)
         /\ mined[k].own \in BOOLEAN /\ mined[k].names \subseteq Txs
<1>1. mined[k] \in MinedBlock
  BY DEF MinedTyped
<1> QED BY <1>1 DEF MinedBlock

LEMMA ContentsTyped ==
  ASSUME MinedTyped, PendingTyped, NEW b, b.nonce \in 0 .. Len(mined), Fits(b)
  PROVE  Contents(b) \in Seq(Txs)
<1>1. CASE b.cap = 0 /\ b.nonce = 0
  BY <1>1 DEF Contents
<1>2. CASE b.cap = 0 /\ b.nonce # 0
  <2>1. b.nonce \in DOMAIN mined
    BY <1>2 DEF MinedTyped
  <2>2. mined[b.nonce].txs \in Seq(Txs)
    BY <2>1, MinedIsTyped
  <2> QED BY <1>2, <2>2 DEF Contents
<1>3. CASE b.cap # 0
  <2>1. array[b.cap] \in Seq(Txs) /\ b.len \in 0 .. Len(array[b.cap])
    BY DEF Fits, PendingTyped
  <2>2. SubSeq(array[b.cap], 1, b.len) \in Seq(Txs)
    BY <2>1
  <2> QED BY <1>3, <2>2 DEF Contents
<1> QED BY <1>1, <1>2, <1>3

LEMMA PlainHash == \A k \in 0 .. Len(mined), s \in Seq(Txs) : <<k, s>> \in Hashes
BY DEF Hashes

LEMMA HashTyped ==
  ASSUME MinedTyped, PendingTyped, NEW b, IsBlock(b)
  PROVE  Hash(b) \in Hashes /\ Contents(b) \in Seq(Txs) /\ b.nonce \in 1 .. Len(mined)
<1>1. b.nonce \in 1 .. Len(mined) /\ Fits(b)
  BY DEF IsBlock, MinedTyped
<1> QED BY <1>1, ContentsTyped, PlainHash DEF Hash, HashOf

LEMMA PendingIsTyped ==
  ASSUME PendingTyped
  PROVE  /\ Pending \in Seq(Txs) /\ Len(Pending) = mining.len
         /\ \A i \in 1 .. mining.len : Pending[i] = array[mining.cap][i]
<1>1. array[mining.cap] \in Seq(Txs) /\ mining.len \in 0 .. Len(array[mining.cap])
  BY DEF PendingTyped, Fits
<1> QED BY <1>1 DEF Pending

\* Blocks and hashes keep their types while nothing shrinks.
Grows ==
  /\ mined \in Seq(Range(mined)) /\ mined' \in Seq(Range(mined'))
  /\ Len(mined) <= Len(mined')
  /\ \A c \in DOMAIN array :
       c \in DOMAIN array' /\ Len(array[c]) \in Nat /\ Len(array'[c]) \in Nat /\ Len(array[c]) <= Len(array'[c])

LEMMA BlocksStay ==
  ASSUME Grows
  PROVE  /\ Hashes \subseteq Hashes'
         /\ \A b : Fits(b) => Fits(b)'
         /\ \A b : IsBlock(b) => IsBlock(b)'
<1>1. 0 .. Len(mined) \subseteq 0 .. Len(mined') /\ DOMAIN mined \subseteq DOMAIN mined'
  BY DEF Grows
<1>2. Hashes \subseteq Hashes'
  BY <1>1 DEF Hashes
<1>3. ASSUME NEW b, Fits(b) PROVE Fits(b)'
  BY <1>3 DEF Fits, Grows
<1>4. ASSUME NEW b, IsBlock(b) PROVE IsBlock(b)'
  <2>1. b \in [prev: Hashes', nonce: DOMAIN mined', cap: Nat, len: Nat]
    BY <1>1, <1>2, <1>4 DEF IsBlock
  <2> QED BY <1>3, <1>4, <2>1 DEF IsBlock
<1> QED BY <1>2, <1>3, <1>4

LEMMA TreeStays ==
  ASSUME Grows, TreeTyped, UNCHANGED tree
  PROVE  TreeTyped'
<1>1. \A r \in DOMAIN tree : r \in Seq(Hashes')
  BY BlocksStay DEF TreeTyped
<1>2. \A r \in DOMAIN tree : IsBlock(tree[r])'
  BY BlocksStay DEF TreeTyped
<1> QED BY <1>1, <1>2 DEF TreeTyped

LEMMA ForkStays ==
  ASSUME Grows, ForkTyped, UNCHANGED <<forkRoute, fork>>
  PROVE  ForkTyped'
<1>1. forkRoute \in Seq(Hashes')
  BY BlocksStay DEF ForkTyped
<1>2. \A i \in 1 .. Len(forkRoute) : IsBlock(fork[i])'
  BY BlocksStay DEF ForkTyped
<1> QED BY <1>1, <1>2 DEF ForkTyped

-----------------------------------------------------------------------------
(* Inserting a block.                                                      *)

LEMMA PlantedTyped ==
  ASSUME MinedTyped, PendingTyped, TreeTyped, NEW b, IsBlock(b),
         NEW route \in DOMAIN tree \cup {<<>>}, tree' = Planted(b, route),
         UNCHANGED <<mined, array>>
  PROVE  /\ TreeTyped'
         /\ Append(route, Hash(b)) \in DOMAIN tree'
<1> DEFINE leaf == Append(route, Hash(b))
           kept == {r \in DOMAIN tree : ~IsStrictPrefix(leaf, r)}
<1>1. route \in Seq(Hashes) /\ Hash(b) \in Hashes
  <2>1. <<>> \in Seq(Hashes)
    OBVIOUS
  <2> QED BY <2>1, HashTyped DEF TreeTyped
<1>2. /\ leaf \in Seq(Hashes) /\ leaf # <<>> /\ Len(leaf) = Len(route) + 1
      /\ \A i \in 1 .. Len(route) : SubSeq(leaf, 1, i) = SubSeq(route, 1, i)
      /\ SubSeq(leaf, 1, Len(leaf)) = leaf
  BY <1>1, PrefixesOfAppend
<1>3. /\ DOMAIN tree' = kept \cup {leaf}
      /\ tree' = [r \in DOMAIN tree' |-> tree'[r]]
      /\ \A r \in DOMAIN tree' : tree'[r] = IF r = leaf THEN b ELSE tree[r]
  BY DEF Planted
<1> HIDE DEF leaf
<1>4. ASSUME NEW r \in DOMAIN tree' PROVE r \in Seq(Hashes) /\ r # <<>> /\ IsBlock(tree'[r])
  BY <1>2, <1>3 DEF TreeTyped
<1>5. ASSUME NEW r \in kept, NEW i \in 1 .. Len(r) PROVE SubSeq(r, 1, i) \in kept
  <2>1. r \in Seq(Hashes) /\ SubSeq(r, 1, i) \in DOMAIN tree
    BY DEF TreeTyped
  <2> QED BY <1>2, <2>1, PrefixContinues
<1>6. ASSUME NEW i \in 1 .. Len(leaf) PROVE SubSeq(leaf, 1, i) \in kept \cup {leaf}
  <2>1. CASE i = Len(leaf)
    BY <1>2, <2>1
  <2>2. CASE i # Len(leaf)
    <3>1. i \in 1 .. Len(route) /\ route # <<>>
      BY <1>1, <1>2, <2>2
    <3>2. SubSeq(leaf, 1, i) = SubSeq(route, 1, i) /\ SubSeq(route, 1, i) \in DOMAIN tree
      BY <1>2, <3>1 DEF TreeTyped
    <3>3. Len(SubSeq(route, 1, i)) = i /\ Len(SubSeq(route, 1, i)) < Len(leaf)
      BY <1>1, <1>2, <3>1
    <3>4. ~IsStrictPrefix(leaf, SubSeq(route, 1, i))
      BY <1>1, <1>2, <3>1, <3>3 DEF IsStrictPrefix, IsPrefix
    <3> QED BY <3>2, <3>4
  <2> QED BY <2>1, <2>2
<1>7. \A r \in DOMAIN tree' : \A i \in 1 .. Len(r) : SubSeq(r, 1, i) \in DOMAIN tree'
  BY <1>3, <1>5, <1>6
<1>8. Hashes' = Hashes
  BY DEF Hashes
<1>9. \A r \in DOMAIN tree' : IsBlock(tree[r])'
  BY <1>4 DEF IsBlock, Fits, Hashes
<1> QED BY <1>3, <1>4, <1>7, <1>8, <1>9 DEF TreeTyped, leaf

\* No route is longer than the fork in use.
Longest == \A r \in DOMAIN tree : Len(r) <= Len(forkRoute)

LEMMA ForkChosen ==
  ASSUME TreeTyped', ForkTyped, DOMAIN tree' # {}, ChooseFork(tree'),
         UNCHANGED <<mined, array>>
  PROVE  ForkTyped' /\ Longest' /\ Len(forkRoute') \in Nat \ {0} /\ Len(forkRoute') >= Len(forkRoute)
<1> DEFINE t == tree'
<1>1. PICK route \in LongestRoutes(t) :
        IF IsLonger(route)
        THEN forkRoute' = route /\ fork' = BlocksOf(t, route)
        ELSE UNCHANGED <<forkRoute, fork>>
  BY DEF ChooseFork
<1>2. /\ route \in DOMAIN t /\ route \in Seq(Hashes') /\ route # <<>>
      /\ \A s \in DOMAIN t : s \in Seq(Hashes') /\ Len(s) <= Len(route)
      /\ \A i \in 1 .. Len(route) : SubSeq(route, 1, i) \in DOMAIN t
      /\ \A s \in DOMAIN t : IsBlock(tree[s])'
  BY DEF LongestRoutes, TreeTyped
<1>3. Len(route) \in Nat \ {0} /\ Len(forkRoute) \in Nat /\ \A s \in DOMAIN t : Len(s) \in Nat
  BY <1>2 DEF ForkTyped
<1> HIDE DEF t
<1>4. CASE IsLonger(route)
  <2>1. forkRoute' = route /\ fork' = BlocksOf(t, route)
    BY <1>1, <1>4
  <2>2. \A i \in 1 .. Len(route) : fork'[i] = tree'[SubSeq(route, 1, i)]
    BY <2>1 DEF BlocksOf, t
  <2>3. fork' = [i \in 1 .. Len(forkRoute') |-> fork'[i]]
    BY <2>1 DEF BlocksOf
  <2>4. \A i \in 1 .. Len(route) : IsBlock(fork[i])'
    BY <1>2, <2>2 DEF IsBlock, Fits, t
  <2>5. ForkTyped'
    BY <1>2, <2>1, <2>3, <2>4 DEF ForkTyped
  <2>6. Longest'
    BY <1>2, <2>1 DEF Longest, t
  <2> QED BY <1>3, <1>4, <2>1, <2>5, <2>6 DEF IsLonger
<1>5. CASE ~IsLonger(route)
  <2>1. UNCHANGED <<forkRoute, fork>>
    BY <1>1, <1>5
  <2>2. ForkTyped'
    BY <2>1 DEF ForkTyped, IsBlock, Fits, Hashes
  <2>3. Len(route) + 1 <= Len(forkRoute)
    BY <1>3, <1>5 DEF IsLonger
  <2>4. Longest'
    BY <1>2, <1>3, <2>1, <2>3 DEF Longest, t
  <2> QED BY <1>3, <2>1, <2>2, <2>3, <2>4
<1> QED BY <1>4, <1>5

ChainInv == TypeOK /\ Longest

\* What every step keeps of the types of mined, and what a found block adds.
LEMMA MinedGrows ==
  ASSUME MinedTyped, PendingTyped, UNCHANGED array,
         NEW prev \in Hashes, NEW txs \in Seq(Txs), NEW own \in BOOLEAN,
         Len(mined) < MaxBlocks, mined' = Append(mined, Mined(prev, txs, own))
  PROVE  /\ mined' \in Seq(MinedBlock)' /\ Len(mined') = Len(mined) + 1
         /\ Len(mined') <= MaxBlocks
         /\ DOMAIN mined \subseteq DOMAIN mined' /\ Len(mined) + 1 \in DOMAIN mined'
         /\ Grows
<1> DEFINE new == Mined(prev, txs, own)
<1>1. mined \in Seq(MinedBlock) /\ Len(mined) \in Nat
  BY DEF MinedTyped
<1>2. NamesTo(prev) \subseteq Txs
  <2>1. CASE prev[1] = 0
    BY <2>1 DEF NamesTo
  <2>2. CASE prev[1] # 0
    <3>1. prev[1] \in DOMAIN mined
      BY <1>1, <2>2 DEF Hashes
    <3> QED BY <2>2, <3>1, MinedIsTyped DEF NamesTo
  <2> QED BY <2>1, <2>2
<1>3. new \in MinedBlock
  <2>1. Range(txs) \subseteq Txs
    BY DEF Range
  <2> QED BY <1>2, <2>1 DEF Mined, MinedBlock
<1> HIDE DEF new
<1>4. mined' = Append(mined, new)
  BY DEF new
<1>5. /\ mined' \in Seq(MinedBlock) /\ Len(mined') = Len(mined) + 1
      /\ DOMAIN mined = 1 .. Len(mined) /\ DOMAIN mined' = 1 .. Len(mined')
  BY <1>1, <1>3, <1>4
<1>6. Hashes \subseteq Hashes'
  BY <1>1, <1>5 DEF Hashes
<1>7. MinedBlock \subseteq MinedBlock'
  BY <1>6 DEF MinedBlock
<1>8. mined' \in Seq(MinedBlock)'
  BY <1>5, <1>7
<1>9. Grows
  <2>1. \A c \in DOMAIN array : Len(array[c]) \in Nat
    BY DEF PendingTyped
  <2>2. mined \in Seq(Range(mined)) /\ mined' \in Seq(Range(mined'))
    BY <1>1, <1>5, SMTT(20) DEF Range
  <2> QED BY <1>1, <1>5, <2>1, <2>2 DEF Grows
<1> QED BY <1>1, <1>5, <1>8, <1>9, BoundAssumption

LEMMA SameGrows ==
  ASSUME MinedTyped, PendingTyped, UNCHANGED <<mined, array>>
  PROVE  Grows
<1>1. \A c \in DOMAIN array : Len(array[c]) \in Nat
  BY DEF PendingTyped
<1>2. mined \in Seq(Range(mined)) /\ Len(mined) \in Nat
  BY DEF MinedTyped, Range
<1> QED BY <1>1, <1>2 DEF Grows

\* mined, the tree and the fork keep their types.
LEMMA MinedStays ==
  ASSUME MinedTyped, UNCHANGED mined, received' \subseteq published', published' \subseteq DOMAIN mined
  PROVE  MinedTyped'
BY DEF MinedTyped, MinedBlock, Hashes

LEMMA ChainStays ==
  ASSUME ChainInv, Grows, UNCHANGED <<tree, forkRoute, fork>>
  PROVE  TreeTyped' /\ ForkTyped' /\ Longest'
BY TreeStays, ForkStays DEF ChainInv, TypeOK, Longest

LEMMA PendingStays ==
  ASSUME PendingTyped, Grows, UNCHANGED <<array, mining>>
  PROVE  PendingTyped'
<1>1. Hashes \subseteq Hashes'
  BY BlocksStay
<1> QED BY <1>1 DEF PendingTyped, Fits

LEMMA MinerStays ==
  ASSUME MinerTyped, Grows, UNCHANGED found,
         miner' \in {miner, "mining", "checked"}, miner' # "mining" => miner # "mining",
         lock' \in {"free", "miner", "listener", "leaked"}, lock' = "miner" => miner' = "checked"
  PROVE  MinerTyped'
<1>1. Hashes \subseteq Hashes' /\ Fits(found)'
  BY BlocksStay DEF MinerTyped, Fits, Grows
<1>2. 0 .. Len(mined) \subseteq 0 .. Len(mined')
  BY DEF Grows
<1> QED BY <1>1, <1>2 DEF MinerTyped

LEMMA AdoptStep ==
  ASSUME ChainInv, NEW b, IsBlock(b), NEW thread, Adopt(b, thread)
  PROVE  TreeTyped' /\ ForkTyped' /\ PendingTyped' /\ Longest' /\ Len(forkRoute') >= Len(forkRoute)
<1>1. PICK route \in DOMAIN tree \cup {<<>>} : tree' = Planted(b, route)
  BY DEF Adopt, RoutesTo
<1>2. UNCHANGED <<mined, published, array, found>>
  BY DEF Adopt
<1>3. TreeTyped' /\ DOMAIN tree' # {}
  BY <1>1, <1>2, PlantedTyped DEF ChainInv, TypeOK
<1>4. /\ ForkTyped' /\ Longest' /\ Len(forkRoute') \in Nat \ {0}
      /\ Len(forkRoute') >= Len(forkRoute)
  BY <1>2, <1>3, ForkChosen DEF Adopt, ChainInv, TypeOK
<1>5. PrevAfter(b, fork') \in Hashes
  <2>1. Len(fork') = Len(forkRoute') /\ IsBlock(fork[Len(forkRoute)])'
    BY <1>4 DEF ForkTyped
  <2>2. IsBlock(fork'[Len(fork')])
    BY <1>2, <2>1 DEF IsBlock, Fits, Hashes
  <2> QED BY <2>2, HashTyped DEF PrevAfter, ChainInv, TypeOK
<1>6. mining' = [mining EXCEPT !.prev = PrevAfter(b, fork')]
  BY DEF Adopt
<1>7. PendingTyped'
  BY <1>2, <1>5, <1>6 DEF ChainInv, TypeOK, PendingTyped, Fits, Hashes
<1> QED BY <1>3, <1>4, <1>7

\* The transactions that stay are moved to the front, the array keeps its
\* length.
LEMMA FilterStep ==
  ASSUME MinedTyped, PendingTyped, Filter
  PROVE  /\ PendingTyped' /\ Grows
         /\ \A i \in 1 .. mining'.len : \E j \in 1 .. mining.len :
              array'[mining'.cap][i] = Pending[j] /\ ~ExistsInRoute(Pending[j])
<1> DEFINE stay == {i \in 1 .. mining.len : ~ExistsInRoute(Pending[i])}
           old  == array[mining.cap]
           n    == Cardinality(stay)
<1>1. PICK at \in [1 .. n -> stay] :
        /\ array' = [array EXCEPT ![mining.cap] =
             [i \in DOMAIN old |-> IF i <= n THEN old[at[i]] ELSE old[i]]]
        /\ mining' = [mining EXCEPT !.len = n]
  BY DEF Filter
<1>2. old \in Seq(Txs) /\ mining.len \in 0 .. Len(old) /\ mining.cap \in DOMAIN array /\ Len(old) \in Nat
  BY DEF PendingTyped, Fits
<1>3. n \in 0 .. mining.len
  <2>1. IsFiniteSet(1 .. mining.len) /\ Cardinality(1 .. mining.len) = mining.len
    <3>1. mining.len \in Nat
      BY <1>2
    <3> QED BY <3>1, FS_Interval, SMTT(20)
  <2>2. IsFiniteSet(stay) /\ n <= mining.len
    BY <2>1, FS_Subset
  <2> QED BY <1>2, <2>2, FS_CardinalityType
<1>4. \A i \in 1 .. n : at[i] \in 1 .. mining.len /\ ~ExistsInRoute(Pending[at[i]])
  BY <1>1
<1> HIDE DEF stay, n
<1> DEFINE new == [i \in DOMAIN old |-> IF i <= n THEN old[at[i]] ELSE old[i]]
<1>5. new \in Seq(Txs) /\ Len(new) = Len(old)
  <2>1. DOMAIN old = 1 .. Len(old) /\ \A i \in DOMAIN old : old[i] \in Txs
    BY <1>2
  <2>2. \A i \in DOMAIN old : (IF i <= n THEN old[at[i]] ELSE old[i]) \in Txs
    BY <1>2, <1>3, <1>4, <2>1
  <2> QED BY <1>2, <2>1, <2>2
<1>6. \A i \in 1 .. n : new[i] = old[at[i]]
  BY <1>2, <1>3
<1> HIDE DEF new
<1>7. /\ array' = [array EXCEPT ![mining.cap] = new]
      /\ mining' = [mining EXCEPT !.len = n]
      /\ UNCHANGED mined
  BY <1>1 DEF new, Filter
<1>8. PendingTyped'
  <2>0. mining \in [prev: Hashes, cap: Nat, len: Nat] /\ n \in Nat /\ Hashes' = Hashes
    BY <1>2, <1>3, <1>7 DEF PendingTyped, Hashes
  <2>1. /\ mining'.cap = mining.cap /\ mining'.len = n
        /\ mining' \in [prev: Hashes', cap: Nat, len: Nat]
        /\ DOMAIN array' = DOMAIN array /\ array'[mining.cap] = new
        /\ \A c \in DOMAIN array : c # mining.cap => array'[c] = array[c]
        /\ array' = [c \in DOMAIN array' |-> array'[c]]
    <3>1. mining' \in [prev: Hashes', cap: Nat, len: Nat]
      BY <1>7, <2>0
    <3> QED BY <1>2, <1>7, <2>0, <3>1 DEF PendingTyped
  <2>2. Fits(mining)'
    BY <1>2, <1>3, <1>5, <2>1 DEF Fits
  <2>3. \A c \in DOMAIN array' : array'[c] \in Seq(Txs) /\ Len(array'[c]) <= c
    BY <1>2, <1>5, <2>1 DEF PendingTyped
  <2> QED BY <2>1, <2>2, <2>3 DEF PendingTyped
<1>9. Grows
  <2>1. \A c \in DOMAIN array : Len(array[c]) \in Nat
    BY DEF PendingTyped
  <2>2. mined \in Seq(Range(mined)) /\ Len(mined) \in Nat
    BY DEF MinedTyped, Range
  <2> QED BY <1>5, <1>7, <2>1, <2>2 DEF Grows
<1>10. ASSUME NEW i \in 1 .. mining'.len
       PROVE  \E j \in 1 .. mining.len :
                array'[mining'.cap][i] = Pending[j] /\ ~ExistsInRoute(Pending[j])
  <2>1. i \in 1 .. n /\ array'[mining'.cap] = new
    BY <1>2, <1>7 DEF PendingTyped
  <2> QED BY <1>4, <1>6, <2>1, PendingIsTyped
<1> QED BY <1>8, <1>9, <1>10

LEMMA Concatenated ==
  ASSUME NEW S, NEW s \in Seq(S), NEW t \in Seq(S)
  PROVE  /\ s \o t \in Seq(S) /\ Len(s \o t) = Len(s) + Len(t)
         /\ \A i \in 1 .. Len(s) : (s \o t)[i] = s[i]
OBVIOUS

LEMMA AppendStep ==
  ASSUME MinedTyped, PendingTyped, NEW t \in Txs, AppendPending(t), UNCHANGED mined
  PROVE  /\ PendingTyped' /\ Grows
         /\ mining'.prev = mining.prev
         /\ \A i \in 1 .. mining'.len :
              array'[mining'.cap][i] = t \/ \E j \in 1 .. mining.len : array'[mining'.cap][i] = Pending[j]
<1> DEFINE c == IF HasRoom THEN mining.cap ELSE IF mining.cap = 0 THEN 1 ELSE 2 * mining.cap
           n == mining.len + 1
           old == array[mining.cap]
           new == [i \in 1 .. n |-> IF i = n THEN t ELSE old[i]]
           rest == SubSeq(old, n + 1, Len(old))
           written == IF c = mining.cap THEN new \o rest ELSE new
<1>1. /\ old \in Seq(Txs) /\ mining.len \in 0 .. Len(old) /\ mining.cap \in DOMAIN array
      /\ Len(old) \in Nat /\ Len(old) <= mining.cap /\ mining.cap \in Nat
      /\ n \in Nat \ {0} /\ n - 1 <= Len(old)
      /\ DOMAIN array \subseteq 0 .. mining.cap
      /\ \A i \in 1 .. mining.len : Pending[i] = old[i]
  BY PendingIsTyped DEF PendingTyped, Fits
<1>2. c \in Nat /\ n <= c /\ mining.cap <= c
  BY <1>1 DEF HasRoom
<1>3. new \in Seq(Txs) /\ Len(new) = n
  <2>1. \A i \in 1 .. n : (IF i = n THEN t ELSE old[i]) \in Txs
    BY <1>1
  <2>2. new \in [1 .. n -> Txs] /\ n \in Nat
    BY <1>1, <2>1
  <2> HIDE DEF new, n
  <2> QED BY <2>2
<1>4. rest \in Seq(Txs) /\ Len(rest) = IF n <= Len(old) THEN Len(old) - n ELSE 0
  BY <1>1
<1>5. /\ \A i \in 1 .. n : new[i] = IF i = n THEN t ELSE old[i]
      /\ written = IF c = mining.cap THEN new \o rest ELSE new
  OBVIOUS
<1>6. /\ array' = [d \in DOMAIN array \cup {c} |-> IF d = c THEN written ELSE array[d]]
      /\ mining' = [mining EXCEPT !.cap = c, !.len = n]
  BY DEF AppendPending
<1> HIDE DEF c, new, rest, written
<1>7. /\ written \in Seq(Txs) /\ Len(written) <= c /\ n <= Len(written) /\ Len(written) \in Nat
      /\ c = mining.cap => Len(old) <= Len(written)
      /\ \A i \in 1 .. n : written[i] = IF i = n THEN t ELSE old[i]
  <2>1. CASE c = mining.cap
    <3>1. /\ new \o rest \in Seq(Txs) /\ Len(new \o rest) = n + Len(rest)
          /\ \A i \in 1 .. n : (new \o rest)[i] = new[i]
      BY <1>3, <1>4, Concatenated
    <3>2. written = new \o rest
      BY <1>5, <2>1
    <3>3. Len(written) <= c /\ n <= Len(written) /\ Len(old) <= Len(written) /\ Len(written) \in Nat
      BY <1>1, <1>2, <1>4, <2>1, <3>1, <3>2, SMTT(20)
    <3>4. \A i \in 1 .. n : written[i] = IF i = n THEN t ELSE old[i]
      BY <1>5, <3>1, <3>2
    <3> QED BY <3>1, <3>2, <3>3, <3>4
  <2>2. CASE c # mining.cap
    BY <1>1, <1>2, <1>3, <1>5, <2>2
  <2> QED BY <2>1, <2>2
<1> HIDE DEF n, old
<1>8. /\ mining'.cap = c /\ mining'.len = n /\ mining'.prev = mining.prev
      /\ mining' \in [prev: Hashes, cap: Nat, len: Nat]
      /\ DOMAIN array' = DOMAIN array \cup {c} /\ array'[c] = written
      /\ \A d \in DOMAIN array : d # c => array'[d] = array[d]
  BY <1>1, <1>2, <1>6 DEF PendingTyped
<1>9. PendingTyped'
  BY <1>1, <1>2, <1>6, <1>7, <1>8, SMTT(20) DEF PendingTyped, Fits, Hashes
<1>10. Grows
  <2>1. \A d \in DOMAIN array : Len(array[d]) \in Nat
    BY DEF PendingTyped
  <2>2. mined \in Seq(Range(mined)) /\ Len(mined) \in Nat
    BY DEF MinedTyped, Range
  <2>3. ASSUME NEW d \in DOMAIN array PROVE Len(array'[d]) \in Nat /\ Len(array[d]) <= Len(array'[d])
    <3>1. CASE d = c
      <4>1. c = mining.cap
        BY <1>1, <1>2, <3>1
      <4> QED BY <1>7, <1>8, <3>1, <4>1 DEF old
    <3> QED BY <1>8, <2>1, <3>1
  <2> QED BY <1>8, <2>1, <2>2, <2>3 DEF Grows
<1>11. ASSUME NEW i \in 1 .. n, i # n PROVE \E j \in 1 .. mining.len : array'[c][i] = Pending[j]
  <2>1. i \in 1 .. mining.len
    BY <1>1, <1>11 DEF n
  <2> QED BY <1>1, <1>7, <1>8, <1>11, <2>1
<1>12. n \in 1 .. n => array'[c][n] = t
  BY <1>7, <1>8
<1> QED BY <1>8, <1>9, <1>10, <1>11, <1>12

-----------------------------------------------------------------------------
(* The steps.                                                              *)

Kept == ChainInv' /\ Len(forkRoute') >= Len(forkRoute)

\* A step that leaves the tree and the fork alone.
LEMMA Unforked ==
  ASSUME ChainInv, Grows, UNCHANGED <<tree, forkRoute, fork>>,
         MinedTyped', PendingTyped', MinerTyped'
  PROVE  Kept
<1>1. TreeTyped' /\ ForkTyped' /\ Longest'
  BY ChainStays
<1>2. Len(forkRoute) \in Nat
  BY DEF ChainInv, TypeOK, ForkTyped
<1> QED BY <1>1, <1>2 DEF Kept, ChainInv, TypeOK

LEMMA ReceiveBlockStep ==
  ASSUME ChainInv, NEW k \in published, ReceiveBlock(k)
  PROVE  Kept
<1> DEFINE b == [prev |-> mined[k].prev, nonce |-> k, cap |-> 0, len |-> 0]
<1>1. k \in DOMAIN mined /\ mined[k].prev \in Hashes
  BY MinedIsTyped DEF ChainInv, TypeOK, MinedTyped
<1>2. Fits(b)
  BY DEF ChainInv, TypeOK, PendingTyped, Fits
<1>3. IsBlock(b)
  BY <1>1, <1>2 DEF IsBlock
<1>4. Adopt(b, "listener") /\ received' = received \cup {k} /\ UNCHANGED miner
  BY DEF ReceiveBlock
<1> HIDE DEF b
<1>5. TreeTyped' /\ ForkTyped' /\ PendingTyped' /\ Longest' /\ Len(forkRoute') >= Len(forkRoute)
  BY <1>3, <1>4, AdoptStep
<1>6. UNCHANGED <<mined, published, array, found, miner>> /\ lock' = "listener"
  BY <1>4 DEF Adopt
<1>7. MinedTyped'
  BY <1>4, <1>6, MinedStays DEF ChainInv, TypeOK, MinedTyped
<1>8. MinerTyped'
  BY <1>6, SameGrows, MinerStays DEF ChainInv, TypeOK, MinerTyped
<1> QED BY <1>5, <1>7, <1>8 DEF Kept, ChainInv, TypeOK

LEMMA InsertFoundStep ==
  ASSUME ChainInv, InsertFound
  PROVE  Kept
<1>1. IsBlock(found)
  BY DEF InsertFound, ChainInv, TypeOK, MinedTyped, MinerTyped, IsBlock
<1>2. Adopt(found, "miner") /\ UNCHANGED <<received, miner>> /\ miner = "checked"
  BY DEF InsertFound
<1>3. TreeTyped' /\ ForkTyped' /\ PendingTyped' /\ Longest' /\ Len(forkRoute') >= Len(forkRoute)
  BY <1>1, <1>2, AdoptStep
<1>4. UNCHANGED <<mined, published, array, found>> /\ lock' = "miner"
  BY <1>2 DEF Adopt
<1>5. MinedTyped'
  BY <1>2, <1>4, MinedStays DEF ChainInv, TypeOK, MinedTyped
<1>6. MinerTyped'
  BY <1>2, <1>4, SameGrows, MinerStays DEF ChainInv, TypeOK
<1> QED BY <1>3, <1>5, <1>6 DEF Kept, ChainInv, TypeOK

LEMMA FiltersStep ==
  ASSUME ChainInv, ListenerFilters \/ MinerFilters
  PROVE  Kept
<1>1. Filter
  BY DEF ListenerFilters, MinerFilters
<1>2. PendingTyped' /\ Grows
  BY <1>1, FilterStep DEF ChainInv, TypeOK
<1>3. UNCHANGED <<mined, received, tree, forkRoute, fork, found>> /\ lock' = "free"
  BY <1>1 DEF Filter
<1>4. CASE ListenerFilters
  <2>1. UNCHANGED <<published, miner>>
    BY <1>4 DEF ListenerFilters
  <2>2. MinedTyped'
    BY <1>3, <2>1, MinedStays DEF ChainInv, TypeOK, MinedTyped
  <2>3. MinerTyped'
    BY <1>2, <1>3, <2>1, MinerStays DEF ChainInv, TypeOK
  <2> QED BY <1>2, <1>3, <2>2, <2>3, Unforked
<1>5. CASE MinerFilters
  <2>1. published' = published \cup {found.nonce} /\ miner' = "mining" /\ lock = "miner"
    BY <1>5 DEF MinerFilters
  <2>2. found.nonce \in DOMAIN mined
    BY <2>1 DEF ChainInv, TypeOK, MinedTyped, MinerTyped
  <2>3. MinedTyped'
    BY <1>3, <2>1, <2>2, MinedStays DEF ChainInv, TypeOK, MinedTyped
  <2>4. MinerTyped'
    BY <1>2, <1>3, <2>1, MinerStays DEF ChainInv, TypeOK
  <2> QED BY <1>2, <1>3, <2>3, <2>4, Unforked
<1> QED BY <1>4, <1>5

LEMMA InsertTransactionStep ==
  ASSUME ChainInv, NEW t \in Txs, InsertTransaction(t)
  PROVE  Kept
<1>1. UNCHANGED <<mined, published, received, tree, forkRoute, fork, found, miner>>
  BY DEF InsertTransaction
<1>2. PendingTyped' /\ Grows
  <2>1. CASE UNCHANGED <<array, mining>>
    BY <1>1, <2>1, SameGrows, PendingStays DEF ChainInv, TypeOK
  <2>2. CASE AppendPending(t)
    BY <1>1, <2>2, AppendStep DEF ChainInv, TypeOK
  <2> QED BY <2>1, <2>2 DEF InsertTransaction
<1>3. lock' \in {"leaked", "free"}
  BY DEF InsertTransaction
<1>4. MinedTyped'
  BY <1>1, MinedStays DEF ChainInv, TypeOK, MinedTyped
<1>5. MinerTyped'
  BY <1>1, <1>2, <1>3, MinerStays DEF ChainInv, TypeOK
<1> QED BY <1>1, <1>2, <1>4, <1>5, Unforked

LEMMA FindNonceStep ==
  ASSUME ChainInv, FindNonce
  PROVE  Kept
<1>1. PICK prev \in {mining.prev, Torn} :
        /\ found' = [prev |-> prev, nonce |-> Len(mined) + 1, cap |-> mining.cap, len |-> mining.len]
        /\ mined' = Append(mined, Mined(prev, Pending, TRUE))
  BY DEF FindNonce
<1>2. /\ Len(mined) < MaxBlocks /\ miner' = "found"
      /\ UNCHANGED <<published, received, tree, forkRoute, fork, mining, array, lock>>
  BY DEF FindNonce
<1>3. prev \in Hashes /\ Len(mined) \in Nat
  <2>1. <<"torn">> \in Seq(Txs \cup {"torn"}) /\ Len(mined) \in Nat
    BY DEF ChainInv, TypeOK, MinedTyped
  <2>2. Torn \in Hashes
    <3>1. 0 \in 0 .. Len(mined)
      BY <2>1
    <3> QED BY <2>1, <3>1 DEF Torn, Hashes
  <2> QED BY <2>1, <2>2 DEF ChainInv, TypeOK, PendingTyped
<1>4. /\ mined' \in Seq(MinedBlock)' /\ Len(mined') = Len(mined) + 1 /\ Len(mined') <= MaxBlocks
      /\ DOMAIN mined \subseteq DOMAIN mined' /\ Grows
  BY <1>1, <1>2, <1>3, PendingIsTyped, MinedGrows DEF ChainInv, TypeOK
<1>5. MinedTyped'
  BY <1>2, <1>4 DEF ChainInv, TypeOK, MinedTyped
<1>6. PendingTyped' /\ Hashes \subseteq Hashes'
  BY <1>2, <1>4, PendingStays, BlocksStay DEF ChainInv, TypeOK
<1>7. MinerTyped'
  <2>1. found' \in [prev: Hashes', nonce: 0 .. Len(mined'), cap: Nat, len: Nat] /\ found'.nonce # 0
    BY <1>1, <1>3, <1>4, <1>6 DEF ChainInv, TypeOK, PendingTyped
  <2>2. Fits(found)'
    BY <1>1, <1>2 DEF ChainInv, TypeOK, PendingTyped, Fits
  <2>3. lock' # "miner" /\ lock' \in {"free", "miner", "listener", "leaked"}
    BY <1>2 DEF FindNonce, ChainInv, TypeOK, MinerTyped
  <2> QED BY <1>2, <2>1, <2>2, <2>3 DEF MinerTyped
<1> QED BY <1>2, <1>4, <1>5, <1>6, <1>7, Unforked

LEMMA PeerFindsStep ==
  ASSUME ChainInv, NEW prev \in {Zero} \cup {Published(k) : k \in published},
         NEW txs \in Seq(Txs), PeerFinds(prev, txs)
  PROVE  Kept
<1>1. /\ Len(mined) < MaxBlocks
      /\ mined' = Append(mined, Mined(prev, txs, FALSE))
      /\ published' = published \cup {Len(mined) + 1}
      /\ UNCHANGED <<received, tree, forkRoute, fork, mining, array, found, miner, lock>>
  BY DEF PeerFinds
<1>2. prev \in Hashes
  <2>1. CASE prev = Zero
    <3>1. <<>> \in Seq(Txs) /\ 0 \in 0 .. Len(mined)
      BY DEF ChainInv, TypeOK, MinedTyped
    <3> QED BY <2>1, <3>1, PlainHash DEF Zero
  <2>2. ASSUME NEW k \in published, prev = Published(k) PROVE prev \in Hashes
    <3>1. k \in DOMAIN mined /\ k \in 0 .. Len(mined)
      BY DEF ChainInv, TypeOK, MinedTyped
    <3>2. mined[k].txs \in Seq(Txs)
      BY <3>1, MinedIsTyped DEF ChainInv, TypeOK
    <3> QED BY <2>2, <3>1, <3>2, PlainHash DEF Published, HashOf
  <2> QED BY <2>1, <2>2
<1>3. /\ mined' \in Seq(MinedBlock)' /\ Len(mined') <= MaxBlocks
      /\ DOMAIN mined \subseteq DOMAIN mined' /\ Len(mined) + 1 \in DOMAIN mined' /\ Grows
  BY <1>1, <1>2, MinedGrows DEF ChainInv, TypeOK
<1>4. MinedTyped'
  BY <1>1, <1>3 DEF ChainInv, TypeOK, MinedTyped
<1>5. PendingTyped' /\ MinerTyped'
  BY <1>1, <1>3, PendingStays, MinerStays DEF ChainInv, TypeOK, MinerTyped
<1> QED BY <1>1, <1>3, <1>4, <1>5, Unforked

LEMMA OtherStep ==
  ASSUME ChainInv,
         \/ \E k \in published : RejectBlock(k)
         \/ CheckFound \/ RejectFound \/ UNCHANGED vars
  PROVE  Kept
<1>1. /\ UNCHANGED <<mined, published, tree, forkRoute, fork, mining, array, found, lock>>
      /\ received' \subseteq published
      /\ miner' = miner \/ (miner' = "mining" /\ lock # "miner") \/ (miner = "found" /\ miner' \in {"checked", "mining"})
  <2>1. ASSUME NEW k \in published, RejectBlock(k)
        PROVE  /\ UNCHANGED <<mined, published, tree, forkRoute, fork, mining, array, found, lock, miner>>
               /\ received' = received \cup {k}
    BY <2>1 DEF RejectBlock
  <2>2. CASE CheckFound
    BY <2>2 DEF CheckFound, ChainInv, TypeOK, MinedTyped
  <2>3. CASE RejectFound
    BY <2>3 DEF RejectFound, ChainInv, TypeOK, MinedTyped
  <2>4. CASE UNCHANGED vars
    BY <2>4 DEF vars, ChainInv, TypeOK, MinedTyped
  <2> QED BY <2>1, <2>2, <2>3, <2>4 DEF ChainInv, TypeOK, MinedTyped
<1>2. Grows
  BY <1>1, SameGrows DEF ChainInv, TypeOK
<1>3. MinedTyped'
  BY <1>1, MinedStays DEF ChainInv, TypeOK, MinedTyped
<1>4. PendingTyped' /\ MinerTyped'
  BY <1>1, <1>2, PendingStays, MinerStays DEF ChainInv, TypeOK, MinerTyped
<1> QED BY <1>1, <1>2, <1>3, <1>4, Unforked

LEMMA ChainInit == Init => ChainInv
<1> SUFFICES ASSUME Init PROVE ChainInv
  OBVIOUS
<1>1. mined = <<>> /\ Len(mined) = 0 /\ DOMAIN mined = {}
  BY DEF Init
<1>2. \A S : <<>> \in Seq(S) /\ Len(<<>>) = 0 /\ DOMAIN <<>> = {}
  OBVIOUS
<1>3. Zero \in Hashes
  <2>1. 0 \in 0 .. Len(mined) /\ <<>> \in Seq(Txs)
    BY <1>1, <1>2
  <2> QED BY <2>1, PlainHash DEF Zero
<1>4. MinedTyped
  BY <1>1, <1>2, BoundAssumption DEF Init, MinedTyped
<1>5. TreeTyped
  BY <1>2 DEF Init, TreeTyped
<1>6. ForkTyped
  BY <1>2 DEF Init, ForkTyped
<1>7. PendingTyped
  BY <1>2, <1>3 DEF Init, PendingTyped, Fits
<1>8. MinerTyped
  BY <1>1, <1>2, <1>3 DEF Init, MinerTyped, Fits
<1>9. Longest
  BY <1>2 DEF Init, Longest
<1> QED BY <1>4, <1>5, <1>6, <1>7, <1>8, <1>9 DEF ChainInv, TypeOK

LEMMA ChainNext == ChainInv /\ [Next]_vars => Kept
<1> SUFFICES ASSUME ChainInv, [Next]_vars PROVE Kept
  OBVIOUS
<1>1. CASE Listener
  BY <1>1, ReceiveBlockStep, FiltersStep, OtherStep DEF Listener
<1>2. CASE Miner
  BY <1>2, FindNonceStep, InsertFoundStep, FiltersStep, OtherStep DEF Miner
<1>3. ASSUME NEW t \in Txs, InsertTransaction(t) PROVE Kept
  BY <1>3, InsertTransactionStep
<1>4. ASSUME NEW prev \in {Zero} \cup {Published(k) : k \in published},
             NEW txs \in SeqOf(Txs, MaxTxs), PeerFinds(prev, txs)
      PROVE  Kept
  <2>1. txs \in Seq(Txs)
    BY BoundAssumption DEF SeqOf
  <2> QED BY <1>4, <2>1, PeerFindsStep
<1> QED BY <1>1, <1>2, <1>3, <1>4, OtherStep DEF Next

LEMMA Invariant == Spec => []ChainInv
BY ChainInit, ChainNext, PTL DEF Spec, Kept

-----------------------------------------------------------------------------
(* The theorems.                                                           *)

(* Slices fit their arrays, every prefix of a route of the tree is one,    *)
(* and blocks keep their types, whatever the threads of a node do to the   *)
(* arrays they share (InsertTransactionToMiningBlock, the filter of        *)
(* InsertBlockToBlockChain).                                               *)
THEOREM TypeCorrect == Spec => []TypeOK
<1>1. ChainInv => TypeOK
  BY DEF ChainInv
<1> QED BY <1>1, Invariant, PTL

(* The node is on one of the longest forks of its tree, whatever blocks    *)
(* arrive, again or for the first time, and whatever it finds itself       *)
(* (InsertBlockToBlockChain).                                              *)
THEOREM OnLongestFork == Spec => []ForkIsLongest
<1>1. ChainInv => ForkIsLongest
  BY DEF ChainInv, Longest, ForkIsLongest
<1> QED BY <1>1, Invariant, PTL

(* The route of the fork in use never gets shorter, also where a block     *)
(* that is inserted again removes blocks from the tree (GetRewindedRoute). *)
THEOREM ForkGrows == Spec => ForkNeverShrinks
<1>1. ChainInv /\ [Next]_vars => [Len(forkRoute') >= Len(forkRoute)]_vars
  BY ChainNext DEF Kept
<1> QED BY <1>1, Invariant, PTL DEF Spec, ForkNeverShrinks

-----------------------------------------------------------------------------
(* The chain of a node that has found no block itself: nobody writes to    *)
(* the arrays of its blocks.                                               *)

Foreign == \A k \in DOMAIN mined : ~mined[k].own

PeerBlocks ==
  /\ miner = "mining"
  /\ \A r \in DOMAIN tree : tree[r].cap = 0
  /\ \A i \in DOMAIN fork : fork[i].cap = 0

Continues == fork # <<>> => mining.prev = Hash(fork[Len(fork)])

\* If, also, no block comes again: a block is in the tree once.
Once ==
  /\ \A r \in DOMAIN tree : tree[r].nonce \in received
  /\ ForkInTree

PeerInv ==
  Foreign =>
    /\ PeerBlocks
    /\ TreeIsHashed
    /\ Continues
    /\ ~Repeated => Once /\ PendingNotInChain

MinedKept == \A k \in DOMAIN mined : k \in DOMAIN mined' /\ mined'[k] = mined[k]

LEMMA KeptByAppend ==
  ASSUME MinedTyped, NEW x, mined' = Append(mined, x)
  PROVE  MinedKept
BY DEF MinedTyped, MinedKept

LEMMA PeerContents ==
  ASSUME MinedKept, NEW b, b.cap = 0, b.nonce \in DOMAIN mined
  PROVE  Contents(b)' = Contents(b) /\ Hash(b)' = Hash(b)
BY DEF Contents, Hash, HashOf, MinedKept

\* What an end of a route continues.
LEMMA Ends ==
  ASSUME NEW S, NEW r \in Seq(S), r # <<>>
  PROVE  /\ Len(r) \in Nat \ {0} /\ Last(r) = r[Len(r)]
         /\ Front(r) = SubSeq(r, 1, Len(r) - 1)
         /\ Len(r) > 1 => Len(r) - 1 \in 1 .. Len(r)
BY DEF Last, Front

LEMMA EndsOfAppend ==
  ASSUME NEW S, NEW r \in Seq(S), NEW e \in S
  PROVE  Last(Append(r, e)) = e /\ Front(Append(r, e)) = r
<1>1. Append(r, e) \in Seq(S) /\ Len(Append(r, e)) = Len(r) + 1 /\ Append(r, e)[Len(r) + 1] = e
  OBVIOUS
<1>2. SubSeq(Append(r, e), 1, Len(r)) = r
  OBVIOUS
<1> QED BY <1>1, <1>2 DEF Last, Front

\* The block a fork or a tree of peers' blocks has is one that was found.
LEMMA TreeBlocks ==
  ASSUME ChainInv, PeerBlocks
  PROVE  /\ \A r \in DOMAIN tree : tree[r].cap = 0 /\ tree[r].nonce \in DOMAIN mined
         /\ \A i \in DOMAIN fork : fork[i].cap = 0 /\ fork[i].nonce \in DOMAIN mined
         /\ DOMAIN fork = 1 .. Len(forkRoute) /\ Len(fork) = Len(forkRoute) /\ Len(forkRoute) \in Nat
         /\ fork # <<>> => Len(fork) \in DOMAIN fork
<1>1. DOMAIN fork = 1 .. Len(forkRoute) /\ Len(fork) = Len(forkRoute) /\ Len(forkRoute) \in Nat
  BY DEF ChainInv, TypeOK, ForkTyped
<1>2. fork # <<>> => Len(fork) \in DOMAIN fork
  <2>1. CASE Len(forkRoute) = 0
    <3>1. fork = [i \in 1 .. 0 |-> fork[i]]
      BY <2>1 DEF ChainInv, TypeOK, ForkTyped
    <3>2. fork = <<>>
      BY <3>1
    <3> QED BY <3>2
  <2>2. CASE Len(forkRoute) # 0
    BY <1>1, <2>2
  <2> QED BY <2>1, <2>2
<1> QED BY <1>1, <1>2 DEF ChainInv, TypeOK, TreeTyped, ForkTyped, IsBlock, PeerBlocks

\* A name that is not found along the fork is not in its blocks.
LEMMA NotInFork ==
  ASSUME ChainInv, PeerBlocks, ForkInTree, NEW t, ~ExistsInRoute(t)
  PROVE  t \notin Names(fork)
BY TreeBlocks DEF ExistsInRoute, Names, ForkInTree

LEMMA NamesStay ==
  ASSUME ChainInv, PeerBlocks, MinedKept, UNCHANGED fork
  PROVE  Names(fork)' = Names(fork)
<1>1. \A i \in DOMAIN fork : Contents(fork[i])' = Contents(fork[i])
  BY TreeBlocks, PeerContents
<1> QED BY <1>1 DEF Names

\* A step that leaves the tree and the fork alone.
LEMMA PeerUnforked ==
  ASSUME ChainInv, PeerBlocks, TreeIsHashed, Continues, MinedKept,
         UNCHANGED <<tree, forkRoute, fork, miner>>, mining'.prev = mining.prev,
         received \subseteq received'
  PROVE  /\ PeerBlocks' /\ TreeIsHashed' /\ Continues'
         /\ Once => Once'
<1>1. PeerBlocks'
  BY DEF PeerBlocks
<1>2. \A r \in DOMAIN tree : Hash(tree[r])' = Hash(tree[r])
  BY TreeBlocks, PeerContents
<1>3. TreeIsHashed'
  <2>1. ASSUME NEW r \in DOMAIN tree, Len(r) > 1 PROVE Front(r) \in DOMAIN tree
    <3>1. r \in Seq(Hashes) /\ r # <<>> /\ \A i \in 1 .. Len(r) : SubSeq(r, 1, i) \in DOMAIN tree
      BY DEF ChainInv, TypeOK, TreeTyped
    <3> QED BY <2>1, <3>1, Ends
  <2> QED BY <1>2, <2>1 DEF TreeIsHashed
<1>4. Continues'
  <2>1. fork # <<>> => Hash(fork[Len(fork)])' = Hash(fork[Len(fork)])
    BY TreeBlocks, PeerContents
  <2> QED BY <2>1 DEF Continues
<1>5. Once => Once'
  BY DEF Once, ForkInTree
<1> QED BY <1>1, <1>3, <1>4, <1>5

LEMMA PeerReceives ==
  ASSUME ChainInv, ChainInv', Foreign, PeerBlocks, TreeIsHashed, Continues, NEW k \in published, ReceiveBlock(k)
  PROVE  /\ PeerBlocks' /\ TreeIsHashed' /\ Continues'
         /\ ~Repeated /\ Once => Once'
         /\ ~Idle'
<1> DEFINE b == [prev |-> mined[k].prev, nonce |-> k, cap |-> 0, len |-> 0]
<1>1. /\ Adopt(b, "listener") /\ received' = received \cup {k} /\ UNCHANGED miner
      /\ Repeated \/ k \notin received
      /\ b.cap = 0 /\ b.nonce = k /\ k \in DOMAIN mined
  BY DEF ReceiveBlock, ChainInv, TypeOK, MinedTyped
<1>2. IsBlock(b)
  <2>1. Fits(b) /\ mined[k].prev \in Hashes
    BY <1>1, MinedIsTyped DEF ChainInv, TypeOK, PendingTyped, Fits
  <2> QED BY <1>1, <2>1 DEF IsBlock
<1> HIDE DEF b
<1>3. PICK route : /\ \/ tree = <<>> /\ route = <<>>
                      \/ route \in RoutesTo(b.prev)
                   /\ tree' = Planted(b, route)
  BY <1>1 DEF Adopt
<1>4. UNCHANGED <<mined, array>> /\ MinedKept
  BY <1>1 DEF Adopt, MinedKept
<1> DEFINE leaf == Append(route, Hash(b))
           kept == {r \in DOMAIN tree : ~IsStrictPrefix(leaf, r)}
<1>5. /\ route \in Seq(Hashes) /\ Hash(b) \in Hashes
      /\ \/ route = <<>> /\ DOMAIN tree = {}
         \/ route \in DOMAIN tree /\ route # <<>> /\ Hash(tree[route]) = b.prev
  <2>1. <<>> \in Seq(Hashes) /\ DOMAIN <<>> = {}
    OBVIOUS
  <2>2. Hash(b) \in Hashes
    BY <1>2, HashTyped DEF ChainInv, TypeOK
  <2>3. CASE tree = <<>> /\ route = <<>>
    <3>1. DOMAIN tree = {}
      BY <2>1, <2>3
    <3>2. route \in Seq(Hashes)
      BY <2>1, <2>3
    <3> QED BY <2>2, <2>3, <3>1, <3>2
  <2>4. CASE route \in RoutesTo(b.prev)
    <3>1. route \in DOMAIN tree /\ Hash(tree[route]) = b.prev
      BY <2>4 DEF RoutesTo
    <3> QED BY <2>2, <3>1 DEF ChainInv, TypeOK, TreeTyped
  <2> QED BY <1>3, <2>3, <2>4
<1>6. /\ leaf \in Seq(Hashes) /\ leaf # <<>> /\ Len(leaf) = Len(route) + 1 /\ Len(route) \in Nat
      /\ Last(leaf) = Hash(b) /\ Front(leaf) = route
  BY <1>5, PrefixesOfAppend, EndsOfAppend
<1>7. /\ DOMAIN tree' = kept \cup {leaf}
      /\ tree'[leaf] = b
      /\ \A r \in kept : r # leaf => tree'[r] = tree[r]
  BY <1>3 DEF Planted
<1> HIDE DEF leaf
<1>8. \A r \in DOMAIN tree' : tree'[r].cap = 0 /\ tree'[r].nonce \in DOMAIN mined
  BY <1>1, <1>7, TreeBlocks
<1>9. \A r \in DOMAIN tree' : Hash(tree[r])' = Hash(tree'[r])
  BY <1>4, <1>8 DEF Contents, Hash, HashOf
<1>10. TreeIsHashed'
  <2>1. ASSUME NEW r \in DOMAIN tree' PROVE Hash(tree'[r]) = Last(r)
    BY <1>6, <1>7 DEF TreeIsHashed
  <2>2. ASSUME NEW q \in DOMAIN tree', NEW r \in DOMAIN tree', Len(q) = 1, Len(r) = 1 PROVE q = r
    <3>1. CASE route = <<>> /\ DOMAIN tree = {}
      BY <1>7, <3>1
    <3>2. CASE route # <<>>
      <4>1. Len(leaf) # 1
        BY <1>5, <1>6, <3>2
      <4> QED BY <1>7, <2>2, <4>1 DEF TreeIsHashed
    <3> QED BY <1>5, <3>1, <3>2
  <2>3. ASSUME NEW r \in DOMAIN tree', Len(r) > 1
        PROVE  Front(r) \in DOMAIN tree' /\ tree'[r].prev = Hash(tree'[Front(r)])
    <3>1. CASE r = leaf
      <4>1. route \in DOMAIN tree /\ Hash(tree[route]) = b.prev
        BY <1>5, <1>6, <2>3, <3>1
      <4>2. Len(route) < Len(leaf) /\ route # leaf /\ ~IsStrictPrefix(leaf, route)
        BY <1>5, <1>6 DEF IsStrictPrefix, IsPrefix
      <4> QED BY <1>6, <1>7, <3>1, <4>1, <4>2
    <3>2. CASE r \in kept /\ r # leaf
      <4>1. r \in Seq(Hashes) /\ r # <<>> /\ \A i \in 1 .. Len(r) : SubSeq(r, 1, i) \in DOMAIN tree
        BY <3>2 DEF ChainInv, TypeOK, TreeTyped
      <4>2. Len(r) - 1 \in 1 .. Len(r) /\ Front(r) = SubSeq(r, 1, Len(r) - 1) /\ Front(r) \in DOMAIN tree
        BY <2>3, <4>1, Ends
      <4>3. ~IsStrictPrefix(leaf, Front(r))
        BY <1>6, <3>2, <4>1, <4>2, PrefixContinues
      <4>4. Front(r) # leaf
        <5> SUFFICES ASSUME Front(r) = leaf PROVE FALSE
          OBVIOUS
        <5>1. Len(leaf) = Len(r) - 1 /\ SubSeq(r, 1, Len(leaf)) = leaf /\ SubSeq(leaf, 1, Len(leaf)) = leaf
          BY <1>6, <4>1, <4>2
        <5>2. Len(r) \in Nat /\ Len(leaf) \in Nat /\ Len(leaf) <= Len(r) /\ leaf # r
          BY <1>6, <4>1, <5>1
        <5>3. IsStrictPrefix(leaf, r)
          BY <5>1, <5>2 DEF IsStrictPrefix, IsPrefix
        <5> QED BY <3>2, <5>3
      <4>5. tree[r].prev = Hash(tree[Front(r)])
        BY <2>3, <3>2 DEF TreeIsHashed
      <4> QED BY <1>7, <3>2, <4>2, <4>3, <4>4, <4>5
    <3> QED BY <1>7, <3>1, <3>2
  <2> QED BY <1>9, <2>1, <2>2, <2>3 DEF TreeIsHashed
<1>11. PICK path \in LongestRoutes(tree') :
         IF IsLonger(path)
         THEN forkRoute' = path /\ fork' = BlocksOf(tree', path)
         ELSE UNCHANGED <<forkRoute, fork>>
  BY <1>1 DEF Adopt, ChooseFork
<1>12. path \in DOMAIN tree' /\ \A i \in 1 .. Len(path) : SubSeq(path, 1, i) \in DOMAIN tree'
  BY DEF LongestRoutes, ChainInv, TypeOK, TreeTyped
<1>13. PeerBlocks'
  <2>1. \A i \in DOMAIN fork' : fork'[i].cap = 0
    BY <1>8, <1>11, <1>12, TreeBlocks DEF BlocksOf
  <2> QED BY <1>1, <1>8, <2>1 DEF PeerBlocks
<1>14. Continues'
  <2>1. mining'.prev = Hash(fork'[Len(fork')])
    BY <1>1 DEF Adopt, PrevAfter, ChainInv, TypeOK, PendingTyped
  <2>2. fork' # <<>> => fork'[Len(fork')].cap = 0
    <3>1. fork' # <<>> => Len(fork') \in DOMAIN fork'
      BY <1>11, <1>12, TreeBlocks DEF BlocksOf
    <3> QED BY <1>13, <3>1 DEF PeerBlocks
  <2> QED BY <1>4, <2>1, <2>2 DEF Continues, Hash, HashOf, Contents
<1>15. ASSUME ~Repeated, Once PROVE Once'
  <2>1. leaf \notin DOMAIN tree
    <3> SUFFICES ASSUME leaf \in DOMAIN tree PROVE FALSE
      OBVIOUS
    <3>1. Hash(tree[leaf]) = Hash(b)
      BY <1>6 DEF TreeIsHashed
    <3>2. tree[leaf].nonce = k
      BY <1>1, <3>1 DEF Hash, HashOf
    <3> QED BY <1>1, <1>15, <3>2 DEF Once
  <2>2. ASSUME NEW r \in DOMAIN tree PROVE r \in kept /\ r # leaf
    <3>1. r \in Seq(Hashes) /\ \A i \in 1 .. Len(r) : SubSeq(r, 1, i) \in DOMAIN tree
      BY DEF ChainInv, TypeOK, TreeTyped
    <3>2. ~IsStrictPrefix(leaf, r)
      <4> SUFFICES ASSUME IsStrictPrefix(leaf, r) PROVE FALSE
        OBVIOUS
      <4>1. Len(leaf) <= Len(r) /\ SubSeq(leaf, 1, Len(leaf)) = SubSeq(r, 1, Len(leaf))
        BY DEF IsStrictPrefix, IsPrefix
      <4>2. SubSeq(leaf, 1, Len(leaf)) = leaf /\ Len(leaf) \in 1 .. Len(r)
        BY <1>6, <3>1, <4>1
      <4> QED BY <2>1, <3>1, <4>1, <4>2
    <3> QED BY <2>1, <3>2
  <2>3. \A r \in DOMAIN tree : r \in DOMAIN tree' /\ tree'[r] = tree[r]
    BY <1>7, <2>2
  <2>4. \A r \in DOMAIN tree' : tree'[r].nonce \in received'
    BY <1>1, <1>7, <1>15, <2>3 DEF Once
  <2>5. ForkInTree'
    <3>1. CASE IsLonger(path)
      BY <1>11, <1>12, <3>1 DEF BlocksOf, ForkInTree
    <3>2. CASE ~IsLonger(path)
      BY <1>11, <1>15, <2>3, <3>2 DEF Once, ForkInTree
    <3> QED BY <3>1, <3>2
  <2> QED BY <2>4, <2>5 DEF Once
<1>16. ~Idle'
  BY <1>1 DEF Adopt, Idle
<1> QED BY <1>10, <1>13, <1>14, <1>15, <1>16


\* The elements of what is pending, in the next state.
PendingPlain == PendingTyped => Range(Pending) = {array[mining.cap][i] : i \in 1 .. mining.len}

LEMMA PendingIsPlain == PendingPlain
<1> SUFFICES ASSUME PendingTyped PROVE Range(Pending) = {array[mining.cap][i] : i \in 1 .. mining.len}
  BY DEF PendingPlain
<1>1. DOMAIN Pending = 1 .. mining.len
  BY PendingIsTyped
<1> QED BY <1>1, PendingIsTyped DEF Range

LEMMA PendingIsPlainNext == PendingPlain'
BY PendingIsPlain, PTL

LEMMA PeerFilters ==
  ASSUME ChainInv, ChainInv', PeerBlocks, ListenerFilters
  PROVE  ForkInTree => PendingNotInChain'
<1> SUFFICES ASSUME ForkInTree, NEW t \in Range(Pending)', t \in Names(fork)' PROVE FALSE
  BY DEF PendingNotInChain
<1>1. PICK i \in 1 .. mining'.len : t = array'[mining'.cap][i]
  BY PendingIsPlainNext DEF PendingPlain, ChainInv, TypeOK
<1>2. ~ExistsInRoute(t)
  BY <1>1, FilterStep DEF ListenerFilters, ChainInv, TypeOK
<1>3. UNCHANGED <<mined, fork>> /\ MinedKept
  BY DEF ListenerFilters, Filter, MinedKept
<1> QED BY <1>2, <1>3, NamesStay, NotInFork

LEMMA PeerInserts ==
  ASSUME ChainInv, ChainInv', PeerBlocks, NEW x \in Txs, InsertTransaction(x)
  PROVE  ForkInTree /\ PendingNotInChain => PendingNotInChain'
<1> SUFFICES ASSUME ForkInTree, PendingNotInChain, Idle', NEW t \in Range(Pending)', t \in Names(fork)'
             PROVE  FALSE
  BY DEF PendingNotInChain
<1>1. Idle /\ ~ExistsInRoute(x) /\ AppendPending(x) /\ UNCHANGED <<mined, fork>> /\ MinedKept
  BY DEF InsertTransaction, Idle, MinedKept
<1>2. PICK i \in 1 .. mining'.len : t = array'[mining'.cap][i]
  BY PendingIsPlainNext DEF PendingPlain, ChainInv, TypeOK
<1>3. t = x \/ \E j \in 1 .. mining.len : t = Pending[j]
  BY <1>1, <1>2, AppendStep DEF ChainInv, TypeOK
<1>4. t = x \/ t \in Range(Pending)
  <2>1. DOMAIN Pending = 1 .. mining.len
    BY PendingIsTyped DEF ChainInv, TypeOK
  <2> QED BY <1>3, <2>1 DEF Range
<1>5. t \in Names(fork)
  BY <1>1, NamesStay
<1> QED BY <1>1, <1>4, <1>5, NotInFork DEF PendingNotInChain

LEMMA PeerIdles ==
  ASSUME ChainInv, PeerBlocks, MinedKept, PendingNotInChain, UNCHANGED <<fork, array, mining, lock>>
  PROVE  PendingNotInChain'
<1>1. Names(fork)' = Names(fork)
  BY NamesStay
<1> QED BY <1>1 DEF PendingNotInChain, Pending, Idle

LEMMA PeerNext == ChainInv /\ ChainInv' /\ PeerInv /\ [Next]_vars => PeerInv'
<1> SUFFICES ASSUME ChainInv, ChainInv', PeerInv, [Next]_vars, Foreign'
             PROVE  /\ PeerBlocks' /\ TreeIsHashed' /\ Continues'
                    /\ ~Repeated => Once' /\ PendingNotInChain'
  BY DEF PeerInv
<1> DEFINE Goal == /\ PeerBlocks' /\ TreeIsHashed' /\ Continues'
                   /\ ~Repeated => Once' /\ PendingNotInChain'
<1>1. MinedKept /\ Foreign /\ ~FindNonce
  <2>1. ASSUME NEW x, mined' = Append(mined, x) PROVE MinedKept /\ mined'[Len(mined) + 1] = x /\ Len(mined) + 1 \in DOMAIN mined'
    <3>1. mined \in Seq(MinedBlock)
      BY DEF ChainInv, TypeOK, MinedTyped
    <3> QED BY <2>1, <3>1, KeptByAppend DEF ChainInv, TypeOK
  <2>2. ~FindNonce
    <3> SUFFICES ASSUME FindNonce PROVE FALSE
      OBVIOUS
    <3>1. PICK prev : mined' = Append(mined, Mined(prev, Pending, TRUE))
      BY DEF FindNonce
    <3>2. mined'[Len(mined) + 1].own /\ Len(mined) + 1 \in DOMAIN mined'
      BY <2>1, <3>1 DEF Mined
    <3> QED BY <3>2 DEF Foreign
  <2>3. mined' = mined \/ \E x : mined' = Append(mined, x)
    BY <2>2 DEF Next, Listener, Miner, ReceiveBlock, RejectBlock, ListenerFilters, MinerFilters, Filter,
                Adopt, CheckFound, InsertFound, RejectFound, InsertTransaction, PeerFinds, vars
  <2>4. MinedKept
    BY <2>1, <2>3 DEF MinedKept
  <2> QED BY <2>2, <2>4 DEF Foreign, MinedKept
<1>2. /\ PeerBlocks /\ TreeIsHashed /\ Continues
      /\ ~Repeated => Once /\ ForkInTree /\ PendingNotInChain
  BY <1>1 DEF PeerInv, Once
<1>3. ASSUME UNCHANGED <<tree, forkRoute, fork, miner>>, mining'.prev = mining.prev, received \subseteq received',
             ForkInTree /\ PendingNotInChain => PendingNotInChain'
      PROVE  Goal
  BY <1>1, <1>2, <1>3, PeerUnforked
<1>4. ASSUME NEW k \in published, ReceiveBlock(k) PROVE Goal
  BY <1>1, <1>2, <1>4, PeerReceives DEF PendingNotInChain
<1>5. ASSUME NEW k \in published, RejectBlock(k) PROVE Goal
  BY <1>1, <1>2, <1>3, <1>5, PeerIdles DEF RejectBlock
<1>6. CASE ListenerFilters
  <2>1. UNCHANGED <<tree, forkRoute, fork, miner, received>> /\ mining'.prev = mining.prev
    BY <1>6 DEF ListenerFilters, Filter, ChainInv, TypeOK, PendingTyped
  <2> QED BY <1>2, <1>3, <1>6, <2>1, PeerFilters
<1>7. CASE Miner
  <2>1. miner = "mining" /\ lock # "miner"
    BY <1>2 DEF PeerBlocks, ChainInv, TypeOK, MinerTyped
  <2> QED BY <1>1, <1>7, <2>1 DEF Miner, CheckFound, InsertFound, RejectFound, MinerFilters
<1>8. ASSUME NEW t \in Txs, InsertTransaction(t) PROVE Goal
  <2>1. UNCHANGED <<mined, tree, forkRoute, fork, miner, received>>
    BY <1>8 DEF InsertTransaction
  <2>2. mining'.prev = mining.prev
    BY <1>8, <2>1, AppendStep DEF InsertTransaction, ChainInv, TypeOK
  <2> QED BY <1>2, <1>3, <1>8, <2>1, <2>2, PeerInserts
<1>9. ASSUME NEW prev, NEW txs, PeerFinds(prev, txs) PROVE Goal
  BY <1>1, <1>2, <1>3, <1>9, PeerIdles DEF PeerFinds
<1>10. CASE UNCHANGED vars
  BY <1>1, <1>2, <1>3, <1>10, PeerIdles DEF vars
<1> QED BY <1>4, <1>5, <1>6, <1>7, <1>8, <1>9, <1>10 DEF Next, Listener

LEMMA PeerInit == Init => PeerInv
<1> SUFFICES ASSUME Init
             PROVE  PeerBlocks /\ TreeIsHashed /\ Continues /\ Once /\ PendingNotInChain
  BY DEF PeerInv
<1>1. DOMAIN tree = {} /\ fork = <<>> /\ DOMAIN fork = {} /\ miner = "mining"
  BY DEF Init
<1>2. Names(fork) = {}
  BY <1>1 DEF Names
<1> QED BY <1>1, <1>2 DEF PeerBlocks, TreeIsHashed, Continues, Once, ForkInTree, PendingNotInChain

LEMMA PeerInvariant == Spec => []PeerInv
<1>1. ChainInv /\ [Next]_vars => ChainInv'
  BY ChainNext DEF Kept
<1> QED BY <1>1, ChainInit, PeerInit, PeerNext, PTL DEF Spec

(* As long as the node has found no block itself: every block of its tree  *)
(* is below its parent, under its own hash, whatever arrives, in whatever  *)
(* order and how often (InsertToChainByRoute).                             *)
THEOREM TreeHashed == Spec => [](Foreign => TreeIsHashed)
<1>1. PeerInv => (Foreign => TreeIsHashed)
  BY DEF PeerInv
<1> QED BY <1>1, PeerInvariant, PTL

(* The miner continues the last block of the fork in use, as long as it    *)
(* found none itself (InsertBlockToBlockChain).                            *)
THEOREM MiningContinues == Spec => [](Foreign => MiningContinuesFork)
<1>1. PeerInv => (Foreign => MiningContinuesFork)
  BY DEF PeerInv, Continues, MiningContinuesFork
<1> QED BY <1>1, PeerInvariant, PTL

(* If, also, no block comes twice, the fork in use stays in the tree: the  *)
(* node never abandons what it is on by receiving a block again            *)
(* (InsertToChainByRoute, which replaces a block that is there).           *)
THEOREM ForkStaysInTree == Spec => [](Foreign /\ ~Repeated => ForkInTree)
<1>1. PeerInv => (Foreign /\ ~Repeated => ForkInTree)
  BY DEF PeerInv, Once
<1> QED BY <1>1, PeerInvariant, PTL

(* Then no transaction waits to be mined that the chain has, whether it    *)
(* arrives before or after the block (the filter of                        *)
(* InsertBlockToBlockChain, InsertTransactionToMiningBlock).               *)
THEOREM PendingApart == Spec => [](Foreign /\ ~Repeated => PendingNotInChain)
<1>1. PeerInv => (Foreign /\ ~Repeated => PendingNotInChain)
  BY DEF PeerInv
<1> QED BY <1>1, PeerInvariant, PTL

=============================================================================
