----------------------------- MODULE Blockchain -----------------------------
(***************************************************************************)
(* The block chain of one peerster (gossiper/blockchain.go): the tree of   *)
(* blocks it has accepted, the fork it is on, the block it is mining, and  *)
(* the threads that share them: the miner, the listener and the client's.  *)
(*                                                                         *)
(* The nonce of a block is its place in "mined", the sequence of all       *)
(* blocks anybody found; a block whose contents are no longer those found  *)
(* with its nonce fails the proof of work.  Block.Transactions is a Go     *)
(* slice: a block the node found itself shares its backing array with the  *)
(* block it is mining.  Arrays of the mining block are told apart by their *)
(* capacity, which doubles whenever append allocates a new one; capacity 0 *)
(* marks a block received from a peer, whose array nobody writes to.       *)
(***************************************************************************)
EXTENDS Naturals, Sequences, FiniteSets, SequencesExt

CONSTANTS
  Txs,         \* transactions, each the claim of another file name
  MaxBlocks,   \* bound: the blocks found by anybody
  MaxOwn,      \* bound: those found by the node itself
  MaxTxs,      \* bound: transactions per block of a peer
  Repeated     \* TRUE iff a block may be delivered more than once

ASSUME BoundAssumption == {MaxBlocks, MaxOwn, MaxTxs} \subseteq Nat
ASSUME RepeatedAssumption == Repeated \in BOOLEAN

VARIABLES
  mined,       \* mined[k]: the block found with nonce k, whether by the node
               \* itself, and the names its chain claims
  published,   \* the nonces whose blocks are sent to the node and to others
  received,    \* the nonces whose blocks were delivered to the node
  tree,        \* tree[r]: the block reached from the root by the keys of r
  forkRoute,   \* currentForkRoute
  fork,        \* currentFork
  mining,      \* miningBlock: prev, and cap and len of its transactions
  array,       \* array[c]: the backing array of capacity c, once allocated
  found,       \* the block the miner is about to insert
  miner,       \* what the miner does next
  lock         \* who holds blockMutex

vars == <<mined, published, received, tree, forkRoute, fork, mining, array, found, miner, lock>>

-----------------------------------------------------------------------------
Zero == <<0, <<>>>>         \* the PrevHash of a block that has no parent

Torn == <<0, <<"torn">>>>   \* a PrevHash read while it is written

\* What Block.Hash depends on: PrevHash is fixed by the nonce.
HashOf(k, txs) == <<k, txs>>

NamesTo(prev) == IF prev[1] = 0 THEN {} ELSE mined[prev[1]].names

Mined(prev, txs, own) ==
  [prev |-> prev, txs |-> txs, own |-> own, names |-> NamesTo(prev) \cup Range(txs)]

Contents(b) ==
  IF b.cap = 0 THEN (IF b.nonce = 0 THEN <<>> ELSE mined[b.nonce].txs)
  ELSE SubSeq(array[b.cap], 1, b.len)

Hash(b) == HashOf(b.nonce, Contents(b))

Published(k) == HashOf(k, mined[k].txs)

isBlockPOWValid(b) == Contents(b) = mined[b.nonce].txs

Pending == SubSeq(array[mining.cap], 1, mining.len)

Hashes == (0 .. Len(mined)) \X Seq(Txs \cup {"torn"})

\* A slice within its backing array.
Fits(b) == b.cap \in DOMAIN array /\ b.len \in 0 .. Len(array[b.cap])

IsBlock(b) ==
  /\ b \in [prev: Hashes, nonce: DOMAIN mined, cap: Nat, len: Nat]
  /\ Fits(b)

MinedBlock == [prev: Hashes, txs: Seq(Txs), own: BOOLEAN, names: SUBSET Txs]

MinedTyped ==
  /\ mined \in Seq(MinedBlock)
  /\ Len(mined) <= MaxBlocks
  /\ received \subseteq published /\ published \subseteq DOMAIN mined

\* With a block the tree has all those on the route to it.
TreeTyped ==
  /\ tree = [r \in DOMAIN tree |-> tree[r]]
  /\ \A r \in DOMAIN tree :
       /\ r \in Seq(Hashes) /\ r # <<>> /\ IsBlock(tree[r])
       /\ \A i \in 1 .. Len(r) : SubSeq(r, 1, i) \in DOMAIN tree

ForkTyped ==
  /\ forkRoute \in Seq(Hashes)
  /\ fork = [i \in 1 .. Len(forkRoute) |-> fork[i]]
  /\ \A i \in 1 .. Len(forkRoute) : IsBlock(fork[i])

PendingTyped ==
  /\ mining \in [prev: Hashes, cap: Nat, len: Nat] /\ Fits(mining)
  /\ 0 \in DOMAIN array /\ DOMAIN array \subseteq 0 .. mining.cap
  /\ array = [c \in DOMAIN array |-> array[c]]
  /\ \A c \in DOMAIN array : array[c] \in Seq(Txs) /\ Len(array[c]) <= c

\* From when a block is found until it is published, its nonce is known.
MinerTyped ==
  /\ found \in [prev: Hashes, nonce: 0 .. Len(mined), cap: Nat, len: Nat] /\ Fits(found)
  /\ miner \in {"mining", "found", "checked"}
  /\ lock \in {"free", "miner", "listener", "leaked"}
  /\ miner # "mining" => found.nonce # 0
  /\ lock = "miner" => miner = "checked"

TypeOK == MinedTyped /\ TreeTyped /\ ForkTyped /\ PendingTyped /\ MinerTyped

Init ==
  /\ mined = <<>>
  /\ published = {}
  /\ received = {}
  /\ tree = <<>>
  /\ forkRoute = <<>>
  /\ fork = <<>>
  /\ mining = [prev |-> Zero, cap |-> 0, len |-> 0]
  /\ array = [c \in {0} |-> <<>>]
  /\ found = [prev |-> Zero, nonce |-> 0, cap |-> 0, len |-> 0]
  /\ miner = "mining"
  /\ lock = "free"

-----------------------------------------------------------------------------
(* The tree.                                                               *)

\* Mutant: only the last block of the fork is searched.
ExistsInRoute_LastOnly(t) ==
  forkRoute \in DOMAIN tree /\ t \in Range(Contents(tree[forkRoute]))

\* FileNameExistsInRoute: it stops where the route leaves the tree.
ExistsInRoute(t) ==
  \E i \in 1 .. Len(forkRoute) :
    LET r == SubSeq(forkRoute, 1, i)
    IN  r \in DOMAIN tree /\ t \in Range(Contents(tree[r]))

\* FindRouteToBlockByHash: maps are searched in any order.
RoutesTo(hash) == {r \in DOMAIN tree : Hash(tree[r]) = hash}

\* Mutant: next to the parent instead of below it.
Planted_Beside(b, route) ==
  LET leaf == Append(IF route = <<>> THEN <<>> ELSE Front(route), Hash(b))
  IN  [r \in DOMAIN tree \cup {leaf} |-> IF r = leaf THEN b ELSE tree[r]]

\* InsertToChainByRoute: a node that is there is replaced by a new leaf.
Planted(b, route) ==
  LET leaf == Append(route, Hash(b))
      kept == {r \in DOMAIN tree : ~IsStrictPrefix(leaf, r)}
  IN  [r \in kept \cup {leaf} |-> IF r = leaf THEN b ELSE tree[r]]

\* Mutant: any route to a leaf.
LongestRoutes_AnyLeaf(t) ==
  {r \in DOMAIN t : \A s \in DOMAIN t : ~IsStrictPrefix(r, s)}

\* GetLongestFork: any of the longest routes, the root counting for one.
LongestRoutes(t) == {r \in DOMAIN t : \A s \in DOMAIN t : Len(s) <= Len(r)}

\* Mutant: the last block is cut off instead of the root.
BlocksOf_FromRoot(t, route) ==
  [i \in 1 .. Len(route) |-> t[SubSeq(route, 1, IF i = 1 THEN 1 ELSE i - 1)]]

\* GetBlocksFromRoute without the root.
BlocksOf(t, route) == [i \in 1 .. Len(route) |-> t[SubSeq(route, 1, i)]]

\* Mutant: no test.
IsLonger_Untested(route) == TRUE

\* The "new longest fork" test: the size compared counts the root.
IsLonger(route) == Len(route) + 1 > Len(forkRoute)

\* Mutant: the block just inserted instead of the end of the fork.
PrevAfter_NewBlock(b, newFork) == Hash(b)

\* What the mining block continues after b was inserted.
PrevAfter(b, newFork) == Hash(newFork[Len(newFork)])

\* The fork the node is on once its tree is t.
ChooseFork(t) ==
  \E route \in LongestRoutes(t) :
    IF IsLonger(route)
    THEN forkRoute' = route /\ fork' = BlocksOf(t, route)
    ELSE UNCHANGED <<forkRoute, fork>>

\* InsertBlockToBlockChain up to the new PrevHash; the lock stays held.
Adopt(b, thread) ==
  /\ lock = "free"
  /\ \/ tree = <<>> /\ tree' = Planted(b, <<>>)
     \/ \E route \in RoutesTo(b.prev) : tree' = Planted(b, route)
  /\ ChooseFork(tree')
  /\ mining' = [mining EXCEPT !.prev = PrevAfter(b, fork')]
  /\ lock' = thread
  /\ UNCHANGED <<mined, published, array, found>>

\* The rest of it: the transactions of the new fork leave the mining block,
\* in place, and the lock is released.  "at" are the places of those that stay.
Filter ==
  LET stay == {i \in 1 .. mining.len : ~ExistsInRoute(Pending[i])}
      old  == array[mining.cap]
      n    == Cardinality(stay)
  IN  \E at \in [1 .. n -> stay] :
        /\ \A i, j \in 1 .. n : i < j => at[i] < at[j]
        /\ array' = [array EXCEPT ![mining.cap] =
             [i \in DOMAIN old |-> IF i <= n THEN old[at[i]] ELSE old[i]]]
        /\ mining' = [mining EXCEPT !.len = n]
        /\ lock' = "free"
        /\ UNCHANGED <<mined, received, tree, forkRoute, fork, found>>

-----------------------------------------------------------------------------
(* The listener and the client's thread.                                   *)

\* A block received is decoded into memory of its own.
ReceiveBlock(k) ==
  /\ Repeated \/ (k \notin received /\ ~mined[k].own)
  /\ received' = received \cup {k}
  /\ Adopt([prev |-> mined[k].prev, nonce |-> k, cap |-> 0, len |-> 0], "listener")
  /\ UNCHANGED miner

\* A block of unknown parent is dropped, for good.
RejectBlock(k) ==
  /\ Repeated \/ (k \notin received /\ ~mined[k].own)
  /\ lock = "free"
  /\ tree # <<>> /\ RoutesTo(mined[k].prev) = {}
  /\ received' = received \cup {k}
  /\ UNCHANGED <<mined, published, tree, forkRoute, fork, mining, array, found, miner, lock>>

ListenerFilters == lock = "listener" /\ Filter /\ UNCHANGED <<published, miner>>

\* Mutant: one element too many fits.
HasRoom_ForOneMore == mining.len <= mining.cap

HasRoom == mining.len < mining.cap

\* append in place if the capacity allows, else in a new array.
AppendPending(t) ==
  LET c == IF HasRoom THEN mining.cap
           ELSE IF mining.cap = 0 THEN 1 ELSE 2 * mining.cap
      n == mining.len + 1
      old == array[mining.cap]
      new == [i \in 1 .. n |-> IF i = n THEN t ELSE old[i]]
      written == IF c = mining.cap THEN new \o SubSeq(old, n + 1, Len(old)) ELSE new
  IN  /\ array' = [d \in DOMAIN array \cup {c} |-> IF d = c THEN written ELSE array[d]]
      /\ mining' = [mining EXCEPT !.cap = c, !.len = n]

\* InsertTransactionToMiningBlock, for a peer's or the client's transaction.
\* A name that the chain has is refused by a return that skips the Unlock.
InsertTransaction(t) ==
  /\ lock = "free"
  /\ t \notin Range(Pending)
  /\ IF ExistsInRoute(t)
     THEN lock' = "leaked" /\ UNCHANGED <<array, mining>>
     ELSE AppendPending(t) /\ UNCHANGED lock
  /\ UNCHANGED <<mined, published, received, tree, forkRoute, fork, found, miner>>

-----------------------------------------------------------------------------
(* The miner.                                                              *)

\* A valid nonce for a copy of miningBlock, read without blockMutex.
FindNonce ==
  /\ miner = "mining"
  /\ Len(mined) < MaxBlocks
  /\ Cardinality({k \in DOMAIN mined : mined[k].own}) < MaxOwn
  /\ \E prev \in {mining.prev} \cup (IF lock = "listener" THEN {Torn} ELSE {}) :
       /\ found' = [prev |-> prev, nonce |-> Len(mined) + 1, cap |-> mining.cap, len |-> mining.len]
       /\ mined' = Append(mined, Mined(prev, Pending, TRUE))
  /\ miner' = "found"
  /\ UNCHANGED <<published, received, tree, forkRoute, fork, mining, array, lock>>

\* The proof of work is checked again before the lock is taken.
CheckFound ==
  /\ miner = "found"
  /\ miner' = IF isBlockPOWValid(found) THEN "checked" ELSE "mining"
  /\ UNCHANGED <<mined, published, received, tree, forkRoute, fork, mining, array, found, lock>>

InsertFound ==
  /\ miner = "checked"
  /\ Adopt(found, "miner")
  /\ UNCHANGED <<received, miner>>

\* Mutant: the Unlock of this return is missing.
RejectFound_Locked ==
  /\ miner = "checked" /\ lock = "free"
  /\ tree # <<>> /\ RoutesTo(found.prev) = {}
  /\ miner' = "mining"
  /\ lock' = "leaked"
  /\ UNCHANGED <<mined, published, received, tree, forkRoute, fork, mining, array, found>>

RejectFound ==
  /\ miner = "checked" /\ lock = "free"
  /\ tree # <<>> /\ RoutesTo(found.prev) = {}
  /\ miner' = "mining"
  /\ UNCHANGED <<mined, published, received, tree, forkRoute, fork, mining, array, found, lock>>

\* PublishBlockWithDelays sends the block to all peers, and back it comes.
MinerFilters ==
  /\ lock = "miner"
  /\ Filter
  /\ published' = published \cup {found.nonce}
  /\ miner' = "mining"

-----------------------------------------------------------------------------
(* The other peers.                                                        *)

\* A peer finds a block after one that is published, or a first block.
PeerFinds(prev, txs) ==
  /\ Len(mined) < MaxBlocks
  /\ Range(txs) \cap NamesTo(prev) = {}
  /\ mined' = Append(mined, Mined(prev, txs, FALSE))
  /\ published' = published \cup {Len(mined) + 1}
  /\ UNCHANGED <<received, tree, forkRoute, fork, mining, array, found, miner, lock>>

-----------------------------------------------------------------------------
Listener ==
  \/ \E k \in published : ReceiveBlock(k) \/ RejectBlock(k)
  \/ ListenerFilters

Miner == FindNonce \/ CheckFound \/ InsertFound \/ RejectFound \/ MinerFilters

Next ==
  \/ Listener
  \/ Miner
  \/ \E t \in Txs : InsertTransaction(t)
  \/ \E prev \in {Zero} \cup {Published(k) : k \in published},
        txs \in {s \in SeqOf(Txs, MaxTxs) : IsInjective(s)} : PeerFinds(prev, txs)

Spec == Init /\ [][Next]_vars

\* No thread stops in the middle of an insertion, and blockMutex is handed
\* to whoever waits for it (after 1 ms Go's mutex serves in order).
Fairness ==
  /\ WF_vars(ListenerFilters)
  /\ WF_vars(MinerFilters)
  /\ WF_vars(CheckFound)
  /\ SF_vars(InsertFound \/ RejectFound)

FairSpec == Spec /\ Fairness

-----------------------------------------------------------------------------
Idle == lock = "free"

Names(blocks) == UNION {Range(Contents(blocks[i])) : i \in DOMAIN blocks}

(* The chain the node is on, as far as its own tree can tell.              *)
ForkInTree ==
  \A i \in DOMAIN fork :
    LET r == SubSeq(forkRoute, 1, i) IN r \in DOMAIN tree /\ tree[r] = fork[i]

(* After every insertion the node is on one of the longest forks it has.   *)
ForkIsLongest ==
  Idle => \A r \in DOMAIN tree : Len(r) <= Len(forkRoute)

(* The fork in use never gets shorter, so that the rewind never looks      *)
(* beyond the end of the new route (GetRewindedRoute indexes newRoute).    *)
ForkNeverShrinks == [][Len(forkRoute') >= Len(forkRoute)]_vars

(* The block being mined continues the last block of the fork in use.      *)
MiningContinuesFork ==
  Idle /\ fork # <<>> => mining.prev = Hash(fork[Len(fork)])

(* A transaction waiting to be mined is not in the chain (the comments of  *)
(* InsertTransactionToMiningBlock and of the filter).                      *)
PendingNotInChain == Idle => Range(Pending) \cap Names(fork) = {}

(* No file name is claimed twice in the chain, if the peers' blocks do not.*)
NamesClaimedOnce ==
  \A i, j \in DOMAIN fork :
    LET s == Contents(fork[i])  t == Contents(fork[j])
    IN  /\ i # j => Range(s) \cap Range(t) = {}
        /\ IsInjective(s)

(* Every key of the tree is the hash of the block it leads to, and every   *)
(* block but the first hangs below its parent.                             *)
TreeIsHashed ==
  \A r \in DOMAIN tree :
    /\ Hash(tree[r]) = Last(r)
    /\ \A q \in DOMAIN tree : Len(q) = 1 /\ Len(r) = 1 => q = r
    /\ Len(r) > 1 => tree[r].prev = Hash(tree[Front(r)])

(* A block that was found is inserted or given up, and mining goes on.     *)
FoundIsSettled == miner # "mining" ~> miner = "mining"

=============================================================================
