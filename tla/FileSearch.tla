----------------------------- MODULE FileSearch -----------------------------
(***************************************************************************)
(* Searching files by keyword (gossiper/search-file.go): the threads that  *)
(* run StartFileSearch at some nodes, the listener of every node, which    *)
(* answers requests, passes them on with a share of the budget and hands   *)
(* replies to whoever searches, and the collection of the results.         *)
(*                                                                         *)
(* A file stands for the hash of its metafile and a keyword for a list of  *)
(* them.  requests and replies hold every packet ever sent: one that is    *)
(* lost, late or repeated is never, later or again received.  A reply      *)
(* travels as one packet; how it is passed on is in Delivery.  The channel *)
(* searchesListening has no buffer: the listener waits until a search      *)
(* takes what it sends.                                                    *)
(***************************************************************************)
EXTENDS Naturals, Sequences, FiniteSets, SequencesExt

CONSTANTS
  Nodes,             \* the peersters
  Peers,             \* Peers[n]: the peersList of n
  Routed,            \* Routed[n]: the names n has a next hop for
  Files,             \* files
  ChunkCount,        \* ChunkCount[f]: how many chunks f has
  Holds,             \* Holds[n]: metaDataList of n, as [file, map, origins] each
  Fetching,          \* Fetching[n]: the metaData in fileDownloadsList of n
  Keywords,          \* lists of keywords
  Matches,           \* <<k, f>>: a keyword in k is part of the name of f
  Searches,          \* bound: the runs of StartFileSearch there ever are
  Searcher,          \* Searcher[s]: the node s runs at
  Wanted,            \* Wanted[s]: the keywords of s
  StartBudgets,      \* StartBudgets[s]: the budgets s may start with
  maxSearchBudget,
  searchMatchesThreshold,
  Wide,              \* stands for 2^64, at which budgets wrap
  Nobody             \* "": no origin, or no reply at hand

Held == [file: Files, map: Seq(Nat), origins: Seq(Nodes \cup {Nobody}) \ {<<>>}]

Ascending(map) == \A i, j \in DOMAIN map : i < j => map[i] < map[j]

Lists(n, f) == \E h \in Range(Holds[n]) : h.file = f

HasChunk(n, f, c) == \E h \in Range(Holds[n]) : h.file = f /\ c \in Range(h.map)

ASSUME NodesAssumption ==
  /\ Nobody \notin Nodes
  /\ Peers \in [Nodes -> Seq(Nodes)]
  /\ Routed \in [Nodes -> SUBSET Nodes] /\ \A n \in Nodes : n \notin Routed[n]
ASSUME FilesAssumption ==
  /\ ChunkCount \in [Files -> Nat \ {0}]
  /\ Holds \in [Nodes -> Seq(Held)] /\ Fetching \in [Nodes -> Seq(Held)]
  /\ Matches \subseteq Keywords \X Files
\* A chunk map ascends (ChunkMapAscends of FileDownload).  What is downloaded
\* without being in metaDataList is the result of an earlier search: its map was
\* complete before the download added the chunks once more.
ASSUME MapsAssumption ==
  \A n \in Nodes :
    /\ \A h \in Range(Holds[n]) : Range(h.map) \subseteq 1 .. ChunkCount[h.file] /\ Ascending(h.map)
    /\ \A h \in Range(Fetching[n]) :
         \/ Lists(n, h.file)
         \/ /\ h.map = [c \in 1 .. ChunkCount[h.file] |-> c] \/ Len(h.map) > ChunkCount[h.file]
            /\ \A c \in 1 .. ChunkCount[h.file] : \E m \in Nodes \ {n} : HasChunk(m, h.file, c)
ASSUME SearchesAssumption ==
  Searcher \in [Searches -> Nodes] /\ Wanted \in [Searches -> Keywords]
ASSUME BudgetAssumption ==
  /\ Wide \in Nat /\ maxSearchBudget \in 1 .. Wide - 1
  /\ StartBudgets \in [Searches -> SUBSET (0 .. Wide - 1)]
  /\ searchMatchesThreshold \in Nat \ {0}

VARIABLES
  requests,    \* every search request sent
  replies,     \* every search reply sent
  recent,      \* recent[n]: recentSearches of n
  handing,     \* handing[n]: the reply the listener of n is sending to a search
  searchList,  \* searchList[n]: the results of finished searches at n
  crashed,     \* nodes where a thread panicked
  budgetMax,   \* budgetMax[s]
  aux,         \* aux[s]: auxMetaDataList, as [file, origins, map] each
  valid,       \* valid[s]: the files in validMetaDatas
  nextFetch,   \* nextFetch[s]: index of the next metafile to fetch
  pc           \* pc[s]: what s does next

search == <<budgetMax, aux, valid, nextFetch, pc>>
vars == <<requests, replies, recent, handing, searchList, crashed, search>>

Request == [to: Nodes, origin: Nodes, budget: 0 .. Wide - 1, keywords: Keywords]

Reply == [to: Nodes, from: Nodes, results: Seq(Held)]

Entry == [file: Files, origins: Seq(Nodes \cup {Nobody}), map: Seq(Nat)]

\* Only a file that n lists, twice, is found twice.
NoneTwice(n, files) ==
  \A i, j \in DOMAIN files : i # j => files[i] # files[j] \/ Lists(n, files[i])

TypeOK ==
  /\ requests \subseteq Request
  /\ \A m \in replies :
       /\ m \in Reply
       /\ m.to # m.from /\ m.results # <<>> /\ Range(m.results) \subseteq Range(Holds[m.from])
  /\ recent \in [Nodes -> SUBSET Keywords]
  /\ handing \in [Nodes -> replies \cup {Nobody}]
  /\ \A n \in Nodes : handing[n] # Nobody => handing[n].to = n
  /\ searchList \in [Nodes -> SUBSET Entry]
  /\ crashed \subseteq Nodes
  /\ budgetMax \in [Searches -> 0 .. Wide - 1]
  /\ aux \in [Searches -> Seq(Entry)]
  /\ valid \in [Searches -> Seq(Files)]
  /\ \A s \in Searches : NoneTwice(Searcher[s], valid[s])
  /\ nextFetch \in [Searches -> Nat \ {0}]
  /\ pc \in [Searches -> {"idle", "round", "wait", "ended", "fetch", "fetching", "over"}]

Init ==
  /\ requests = {} /\ replies = {}
  /\ recent = [n \in Nodes |-> {}]
  /\ handing = [n \in Nodes |-> Nobody]
  /\ searchList = [n \in Nodes |-> {}]
  /\ crashed = {}
  /\ budgetMax = [s \in Searches |-> 0]
  /\ aux = [s \in Searches |-> <<>>]
  /\ valid = [s \in Searches |-> <<>>]
  /\ nextFetch = [s \in Searches |-> 1]
  /\ pc = [s \in Searches |-> "idle"]

-----------------------------------------------------------------------------
(* Budgets.                                                                *)

\* Mutant: a relay searches for free.
Spend_Nothing(b) == b

\* searchBudget--, on an unsigned number.
Spend(b) == (b + Wide - 1) % Wide

\* What the peer at position i of n peers gets of the budget b: one peer gets
\* more than there is, or nothing where that wraps.
Share(b, n, i) == (b \div n + (IF b % n <= i - 1 THEN 1 ELSE 0)) % Wide

Asked(n, b) == [to |-> n, budget |-> b]

\* The ways to spread the budget b over the peers p: a share for everybody,
\* or 1 each for b of them, from a random one on.
Spread(p, b) ==
  IF b > Len(p)
  THEN {{Asked(p[i], Share(b, Len(p), i)) : i \in DOMAIN p}}
  ELSE {{Asked(p[((r + i) % Len(p)) + 1], 1) : i \in 0 .. b - 1} : r \in 0 .. Len(p) - 1}

\* n asks its peers for k on behalf of o.
Ask(n, o, k, b) ==
  \E asked \in Spread(Peers[n], b) :
    requests' = requests \cup
      {[to |-> a.to, origin |-> o, budget |-> a.budget, keywords |-> k] : a \in asked}

-----------------------------------------------------------------------------
(* Results.                                                                *)

\* searchFileLocally, in either list.
Found(held, k) ==
  LET found[i \in 0 .. Len(held)] ==
        IF i = 0 THEN <<>>
        ELSE IF <<k, held[i].file>> \in Matches THEN Append(found[i - 1], held[i])
        ELSE found[i - 1]
  IN  found[Len(held)]

\* expandMetaDataOrigins: the origins are repeated until there is one per chunk.
Expanded(held) ==
  [i \in DOMAIN held |->
    [file    |-> held[i].file,
     map     |-> held[i].map,
     origins |-> [c \in 1 .. ChunkCount[held[i].file] |->
                   held[i].origins[((c - 1) % Len(held[i].origins)) + 1]]]]

FilesOf(held) == [i \in DOMAIN held |-> held[i].file]

\* Mutant: two chunk maps one after the other.
MergeUint64Slices_Appended(left, right) == left \o right

\* The next element of right, unless that of left is smaller or the same.
MergeNext(left, right, m) ==
  LET more == m.l <= Len(left)
  IN  IF m.r <= Len(right) /\ (more => right[m.r] <= left[m.l])
      THEN [m EXCEPT !.into = IF more /\ right[m.r] = left[m.l] THEN @ ELSE Append(@, right[m.r]),
                     !.r = @ + 1]
      ELSE [m EXCEPT !.into = Append(@, left[m.l]), !.l = @ + 1]

\* Every element of left, after those of right below it.
MergeUint64Slices(left, right) ==
  LET merged[i \in 0 .. Len(left) + Len(right)] ==
        IF i = 0 THEN [into |-> <<>>, l |-> 1, r |-> 1]
        ELSE MergeNext(left, right, merged[i - 1])
  IN  merged[Len(left) + Len(right)].into

\* Mutant: a chunk's origin is stored under the next index, as in mergeOrigins.
resultToNewMetadata_Shifted(origin, result) ==
  [file    |-> result.file,
   map     |-> result.map,
   origins |-> [c \in 1 .. ChunkCount[result.file] |->
                 IF c - 1 \in Range(result.map) THEN origin ELSE Nobody]]

resultToNewMetadata(origin, result) ==
  [file    |-> result.file,
   map     |-> result.map,
   origins |-> [c \in 1 .. ChunkCount[result.file] |->
                 IF c \in Range(result.map) THEN origin ELSE Nobody]]

\* mergeOrigins takes the number of a chunk, from 1, for its index, from 0:
\* the next chunk gets the origin, and the last one is out of range.
OutOfRange(entry, result) == \E c \in Range(result.map) : c >= Len(entry.origins)

mergeOrigins(origin, result, entry) ==
  [entry EXCEPT
     !.origins = [c \in DOMAIN @ |-> IF c - 1 \in Range(result.map) THEN origin ELSE @[c]],
     !.map = MergeUint64Slices(@, result.map)]

\* Mutant: whatever is complete is listed, again if need be.
WithResult_Again(entry, result, files) ==
  IF Len(entry.map) = ChunkCount[result.file] THEN Append(files, result.file) ELSE files

\* A file is complete by the length of its chunk map.
WithResult(entry, result, files) ==
  IF Len(entry.map) = ChunkCount[result.file] /\ ~Contains(files, result.file)
  THEN Append(files, result.file) ELSE files

EntryAt(list, f) == SelectInSeq(list, LAMBDA e : e.file = f)

\* One result, unless an earlier one panicked or this one does.
Collect(from, acc, result) ==
  LET i == EntryAt(acc.list, result.file)
      entry == IF i = 0 THEN resultToNewMetadata(from, result)
               ELSE mergeOrigins(from, result, acc.list[i])
  IN  IF acc.panic \/ (i # 0 /\ OutOfRange(acc.list[i], result))
      THEN [acc EXCEPT !.panic = TRUE]
      ELSE [list  |-> IF i = 0 THEN Append(acc.list, entry) ELSE [acc.list EXCEPT ![i] = entry],
            files |-> WithResult(entry, result, acc.files),
            panic |-> FALSE]

processSearchContent(list, files, reply) ==
  LET acc[i \in 0 .. Len(reply.results)] ==
        IF i = 0 THEN [list |-> list, files |-> files, panic |-> FALSE]
        ELSE Collect(reply.from, acc[i - 1], reply.results[i])
  IN  acc[Len(reply.results)]

\* The entry of auxMetaDataList that the valid file f shares its origins with.
EntryOf(s, f) == aux[s][EntryAt(aux[s], f)]

-----------------------------------------------------------------------------
(* StartFileSearch.                                                        *)

At(s, label) == pc[s] = label /\ Searcher[s] \notin crashed

Goto(s, label) == pc' = [pc EXCEPT ![s] = label]

Enough(files) == Len(files) >= searchMatchesThreshold

StartSearch(s, b) ==
  /\ At(s, "idle")
  /\ budgetMax' = [budgetMax EXCEPT ![s] = b]
  /\ Goto(s, "round")
  /\ UNCHANGED <<requests, replies, recent, handing, searchList, crashed, aux, valid, nextFetch>>

\* A round: what earlier rounds found is dropped, the node's own lists are
\* searched and the peers are asked.
StartRound(s) ==
  LET n == Searcher[s]
      k == Wanted[s]
      budget == Spend(budgetMax[s])
      local == Found(Holds[n], k)
  IN  /\ At(s, "round")
      /\ aux' = [aux EXCEPT ![s] = Expanded(local \o Found(Fetching[n], k))]
      /\ valid' = [valid EXCEPT ![s] = FilesOf(local)]
      /\ IF Enough(valid'[s])
         THEN Goto(s, "fetch") /\ UNCHANGED requests
         ELSE IF budget > 0
         THEN Goto(s, "wait") /\ Ask(n, n, k, budget)
         ELSE Goto(s, "ended") /\ UNCHANGED requests
      /\ UNCHANGED <<replies, recent, handing, searchList, crashed, budgetMax, nextFetch>>

\* The search takes the reply the listener is sending.  If the first result
\* matches, all are collected; with more files than asked for the round ends.
TakeReply(s) ==
  LET n == Searcher[s]
      reply == handing[n]
      collected == processSearchContent(aux[s], valid[s], reply)
  IN  /\ At(s, "wait")
      /\ reply # Nobody
      /\ handing' = [handing EXCEPT ![n] = Nobody]
      /\ IF <<Wanted[s], reply.results[1].file>> \notin Matches
         THEN UNCHANGED <<crashed, aux, valid, pc>>
         ELSE IF collected.panic
         THEN crashed' = crashed \cup {n} /\ UNCHANGED <<aux, valid, pc>>
         ELSE /\ aux' = [aux EXCEPT ![s] = collected.list]
              /\ valid' = [valid EXCEPT ![s] = collected.files]
              /\ Goto(s, IF Len(collected.files) > searchMatchesThreshold THEN "ended" ELSE "wait")
              /\ UNCHANGED crashed
      /\ UNCHANGED <<requests, replies, recent, searchList, budgetMax, nextFetch>>

\* The timer of 1 s.
TimerExpires(s) ==
  /\ At(s, "wait")
  /\ Goto(s, "ended")
  /\ UNCHANGED <<requests, replies, recent, handing, searchList, crashed, budgetMax, aux, valid, nextFetch>>

\* Mutant: every round with the same budget.
Doubled_Not(b) == b

Doubled(b) == (2 * b) % Wide

\* With too few files the next round has twice the budget, up to the largest.
EndRound(s) ==
  /\ At(s, "ended")
  /\ IF Enough(valid[s])
     THEN Goto(s, "fetch") /\ UNCHANGED budgetMax
     ELSE /\ budgetMax' = [budgetMax EXCEPT ![s] = Doubled(@)]
          /\ Goto(s, IF budgetMax'[s] > maxSearchBudget THEN "fetch" ELSE "round")
  /\ UNCHANGED <<requests, replies, recent, handing, searchList, crashed, aux, valid, nextFetch>>

FetchedBy(s) == valid[s][nextFetch[s]]

\* The metafile of the next file is asked of its first origin.  Without a
\* route, or if another search waits for it, everything found is given up.
FetchMetaFile(s) ==
  LET n == Searcher[s]
      next == FetchedBy(s)
      waited == \E t \in Searches : Searcher[t] = n /\ pc[t] = "fetching" /\ FetchedBy(t) = next
  IN  /\ At(s, "fetch")
      /\ nextFetch[s] <= Len(valid[s])
      /\ Goto(s, IF EntryOf(s, next).origins[1] \in Routed[n] /\ ~waited THEN "fetching" ELSE "over")
      /\ UNCHANGED <<requests, replies, recent, handing, searchList, crashed, budgetMax, aux, valid, nextFetch>>

\* The listener hands over the metafile, if it is not busy with a search reply.
ReceiveMetaFile(s) ==
  /\ At(s, "fetching")
  /\ handing[Searcher[s]] = Nobody
  /\ nextFetch' = [nextFetch EXCEPT ![s] = @ + 1]
  /\ Goto(s, "fetch")
  /\ UNCHANGED <<requests, replies, recent, handing, searchList, crashed, budgetMax, aux, valid>>

\* searchList.Add, with all metafiles at hand.
FinishSearch(s) ==
  /\ At(s, "fetch")
  /\ nextFetch[s] > Len(valid[s])
  /\ searchList' = [searchList EXCEPT ![Searcher[s]] = @ \cup {EntryOf(s, f) : f \in Range(valid[s])}]
  /\ Goto(s, "over")
  /\ UNCHANGED <<requests, replies, recent, handing, crashed, budgetMax, aux, valid, nextFetch>>

-----------------------------------------------------------------------------
(* The listener.                                                           *)

Listens(n) == n \notin crashed /\ handing[n] = Nobody

\* ProcessSearchRequest, for keywords that were not searched in the last 0.5 s.
ReceiveRequest(m) ==
  LET n == m.to
      local == Found(Holds[n], m.keywords)
      reply == [to |-> m.origin, from |-> n, results |-> local]
  IN  /\ Listens(n)
      /\ m.keywords \notin recent[n]
      /\ recent' = [recent EXCEPT ![n] = @ \cup {m.keywords}]
      /\ IF ~Enough(local) /\ Spend(m.budget) > 0
         THEN Ask(n, m.origin, m.keywords, Spend(m.budget))
         ELSE UNCHANGED requests
      /\ replies' = replies \cup (IF local # <<>> /\ m.origin \in Routed[n] THEN {reply} ELSE {})
      /\ UNCHANGED <<handing, searchList, crashed, search>>

\* After 0.5 s the keywords may be searched again.
Forget(n, k) ==
  /\ n \notin crashed
  /\ k \in recent[n]
  /\ recent' = [recent EXCEPT ![n] = @ \ {k}]
  /\ UNCHANGED <<requests, replies, handing, searchList, crashed, search>>

\* processSearchReply at the node that searched.
ReceiveReply(m) ==
  /\ Listens(m.to)
  /\ handing' = [handing EXCEPT ![m.to] = m]
  /\ UNCHANGED <<requests, replies, recent, searchList, crashed, search>>

-----------------------------------------------------------------------------
Step(s) ==
  \/ StartRound(s) \/ TimerExpires(s) \/ EndRound(s)
  \/ FetchMetaFile(s) \/ FinishSearch(s)

Next ==
  \/ \E s \in Searches : \E b \in StartBudgets[s] : StartSearch(s, b)
  \/ \E s \in Searches : Step(s) \/ TakeReply(s) \/ ReceiveMetaFile(s)
  \/ \E m \in requests : ReceiveRequest(m)
  \/ \E n \in Nodes, k \in Keywords : Forget(n, k)
  \/ \E m \in replies : ReceiveReply(m)

Spec == Init /\ [][Next]_vars

\* The threads are scheduled and their timers expire.
Fairness == \A s \in Searches : WF_vars(Step(s))

FairSpec == Spec /\ Fairness

-----------------------------------------------------------------------------
\* A share of a budget; of 0, on which searchBudget-- wraps, it is anything.
Within(budget, whole) == whole > 0 => budget \in 1 .. whole

(* However a request is passed on and split, no part of it has more budget *)
(* than it came with, nor so little that it would wrap; a round asks for   *)
(* no more than its budget.  Budgets may only wrap at 0, which a search    *)
(* may start with (ProcessSearchRequest, StartFileSearch).                 *)
BudgetNeverGrows ==
  [][\A r \in requests' \ requests :
       \/ \E m \in requests :
            m.origin = r.origin /\ m.keywords = r.keywords /\ Within(r.budget, m.budget)
       \/ \E s \in Searches :
            /\ pc[s] = "round" /\ pc'[s] = "wait"
            /\ r.origin = Searcher[s] /\ r.keywords = Wanted[s]
            /\ Within(r.budget, budgetMax[s])]_vars

(* "how many peers we will search the file on" (client/README.md): in the  *)
(* first round no more nodes search for the keywords than the budget says. *)
SearchedWithinBudget ==
  \A s \in Searches : pc[s] \in {"wait", "ended"} =>
    Cardinality({Searcher[s]} \cup {n \in Nodes : Wanted[s] \in recent[n]}) <= budgetMax[s]

(* A file that peers are found to have is found whole, in the order of its *)
(* chunks and whatever partial and repeated replies it is put together     *)
(* from (processSearchContent counts the chunk map).                       *)
FoundIsWhole ==
  \A s \in Searches : \A f \in Range(valid[s]) :
    ~Lists(Searcher[s], f) =>
      /\ EntryOf(s, f).map = [c \in 1 .. ChunkCount[f] |-> c]
      /\ \A c \in 1 .. ChunkCount[f] : \E n \in Nodes \ {Searcher[s]} : HasChunk(n, f, c)

(* Whoever has the last chunk of a file has its first, for chunks are      *)
(* fetched from the first on; and so had the first origin of what an       *)
(* earlier search found.  Not assumed, for a ChunkMap may begin with chunk *)
(* 2: if the file is listed while another thread has chunk 1 already.      *)
FirstChunksFirst ==
  \A n \in Nodes :
    /\ \A h \in Range(Holds[n]) : ChunkCount[h.file] \in Range(h.map) => 1 \in Range(h.map)
    /\ \A h \in Range(Fetching[n]) :
         \/ Lists(n, h.file)
         \/ h.origins[1] # Nobody /\ HasChunk(h.origins[1], h.file, 1)

(* The node that the metafile and the first chunk of a result are asked of *)
(* has them (StartFileSearch asks Origins[0]).                             *)
FirstOriginServes ==
  \A s \in Searches : \A f \in Range(valid[s]) :
    ~Lists(Searcher[s], f) =>
      LET o == EntryOf(s, f).origins[1] IN o # Nobody /\ HasChunk(o, f, 1)

(* The rounds of a search end, found or not, for any budget but 0 and half *)
(* of 2^64, which doubles to 0: each asks with twice the budget until the  *)
(* largest is passed (StartFileSearch).                                    *)
InRounds(s) == pc[s] \in {"round", "wait", "ended"}

RoundsEnd ==
  \A s \in Searches :
    InRounds(s) /\ budgetMax[s] \notin {0, Wide \div 2} ~> ~InRounds(s) \/ Searcher[s] \in crashed

=============================================================================
