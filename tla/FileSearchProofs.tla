-------------------------- MODULE FileSearchProofs --------------------------
(***************************************************************************)
(* Proofs about FileSearch, for any network, any files and any searches:   *)
(* budgets (BudgetInv), and what is found (SearchInv).  What the recursive *)
(* functions that collect replies and merge chunk maps compute is shown by *)
(* induction on the number of steps, as Climbs states it for sets of       *)
(* numbers; that they are defined at all follows from Recursion.           *)
(***************************************************************************)
EXTENDS FileSearch, WellFoundedInduction, TLAPS

-----------------------------------------------------------------------------
(* Budgets.                                                                *)

Budget == 0 .. Wide - 1

LEMMA SpendOne ==
  ASSUME NEW b \in Budget
  PROVE  Spend(b) \in Budget /\ (b > 0 => Spend(b) = b - 1)
<1>1. Wide \in Nat \ {0} /\ b \in Nat /\ b < Wide
  BY BudgetAssumption DEF Budget
<1>2. CASE b = 0
  <2>1. Spend(b) = (Wide - 1) % Wide
    BY <1>1, <1>2 DEF Spend
  <2> QED BY <1>1, <1>2, <2>1 DEF Budget
<1>3. CASE b > 0
  <2>1. b + Wide - 1 = (b - 1) + 1 * Wide
    BY <1>1
  <2>2. Spend(b) = b - 1
    BY <1>1, <1>3, <2>1 DEF Spend
  <2> QED BY <1>1, <1>3, <2>2 DEF Budget
<1> QED BY <1>1, <1>2, <1>3

LEMMA DoubledTypes == \A b \in Budget : Doubled(b) \in Budget
BY BudgetAssumption DEF Doubled, Budget

\* A peer gets at least one of a budget that is more than one for each, and,
\* unless that wraps, at most one more than there is.
LEMMA ShareBounds ==
  ASSUME NEW b \in Budget, NEW n \in Nat \ {0}, b > n, NEW i \in 1 .. n
  PROVE  /\ Share(b, n, i) \in Budget
         /\ b + 1 < Wide => Share(b, n, i) \in 1 .. b + 1
<1>1. Wide \in Nat \ {0} /\ b \in Nat /\ b < Wide
  BY BudgetAssumption DEF Budget
<1>2. b \div n \in 1 .. b
  BY <1>1
<1> DEFINE more == b \div n + (IF b % n <= i - 1 THEN 1 ELSE 0)
<1>3. more \in 1 .. b + 1
  BY <1>1, <1>2
<1>4. Share(b, n, i) = more % Wide
  BY DEF Share
<1> HIDE DEF more
<1>5. Share(b, n, i) \in Budget
  BY <1>1, <1>3, <1>4 DEF Budget
<1>6. ASSUME b + 1 < Wide PROVE Share(b, n, i) = more
  BY <1>1, <1>3, <1>4, <1>6
<1> QED BY <1>3, <1>5, <1>6

LEMMA Around == \A n \in Nat \ {0}, x \in Nat : (x % n) + 1 \in 1 .. n
OBVIOUS

\* What asking sends, with what is left of a budget of which one was spent.
LEMMA AskedShares ==
  ASSUME NEW n \in Nodes, NEW o \in Nodes, NEW k \in Keywords, NEW whole \in Budget,
         Spend(whole) > 0, Ask(n, o, k, Spend(whole))
  PROVE  \A r \in requests' \ requests :
           r \in Request /\ r.origin = o /\ r.keywords = k /\ Within(r.budget, whole)
<1> DEFINE b == Spend(whole)
           p == Peers[n]
<1>1. /\ b \in Budget /\ b > 0 /\ (whole > 0 => b = whole - 1)
      /\ Wide \in Nat \ {0} /\ whole \in Nat /\ whole < Wide /\ b \in Nat /\ b < Wide
  BY SpendOne, BudgetAssumption DEF Budget
<1> HIDE DEF b
<1>2. p \in Seq(Nodes) /\ Len(p) \in Nat /\ DOMAIN p = 1 .. Len(p)
  BY NodesAssumption
<1>3. PICK asked \in Spread(p, b) :
        requests' = requests \cup
          {[to |-> a.to, origin |-> o, budget |-> a.budget, keywords |-> k] : a \in asked}
  BY DEF Ask, b
<1>4. ASSUME NEW a \in asked
      PROVE  a.to \in Nodes /\ a.budget \in Budget /\ Within(a.budget, whole)
  <2>1. CASE b > Len(p)
    <3>1. PICK i \in DOMAIN p : a = Asked(p[i], Share(b, Len(p), i))
      BY <1>3, <2>1 DEF Spread
    <3>2. Len(p) \in Nat \ {0} /\ i \in 1 .. Len(p)
      BY <1>2
    <3>3. /\ Share(b, Len(p), i) \in Budget
          /\ b + 1 < Wide => Share(b, Len(p), i) \in 1 .. b + 1
      BY <1>1, <2>1, <3>2, ShareBounds
    <3>4. p[i] \in Nodes
      BY <1>2
    <3> QED BY <1>1, <3>1, <3>3, <3>4 DEF Asked, Within
  <2>2. CASE ~(b > Len(p))
    <3>1. PICK r \in 0 .. Len(p) - 1, i \in 0 .. b - 1 : a = Asked(p[((r + i) % Len(p)) + 1], 1)
      BY <1>3, <2>2 DEF Spread
    <3>2. Len(p) \in Nat \ {0} /\ ((r + i) % Len(p)) + 1 \in 1 .. Len(p)
      <4>1. Len(p) \in Nat \ {0} /\ r + i \in Nat
        BY <1>1, <1>2
      <4> QED BY <4>1, Around
    <3>3. p[((r + i) % Len(p)) + 1] \in Nodes
      BY <1>2, <3>2
    <3>4. 1 \in Budget /\ (whole > 0 => 1 \in 1 .. whole)
      BY <1>1 DEF Budget
    <3> QED BY <3>1, <3>3, <3>4 DEF Asked, Within
  <2> QED BY <2>1, <2>2
<1> QED BY <1>3, <1>4 DEF Request, Budget

-----------------------------------------------------------------------------
(* The inductive invariant of budgets: the types of what carries one.      *)
BudgetInv ==
  /\ requests \subseteq Request
  /\ budgetMax \in [Searches -> Budget]
  /\ pc \in [Searches -> {"idle", "round", "wait", "ended", "fetch", "fetching", "over"}]

NewWithin ==
  \A r \in requests' \ requests :
    \/ \E m \in requests :
         m.origin = r.origin /\ m.keywords = r.keywords /\ Within(r.budget, m.budget)
    \/ \E s \in Searches :
         /\ pc[s] = "round" /\ pc'[s] = "wait"
         /\ r.origin = Searcher[s] /\ r.keywords = Wanted[s]
         /\ Within(r.budget, budgetMax[s])

LEMMA InvInit == Init => BudgetInv
BY BudgetAssumption DEF Init, BudgetInv, Budget

LEMMA StartRoundStep ==
  ASSUME BudgetInv, NEW s \in Searches, StartRound(s)
  PROVE  BudgetInv' /\ NewWithin
<1> DEFINE n == Searcher[s]
           k == Wanted[s]
<1>1. n \in Nodes /\ k \in Keywords /\ budgetMax[s] \in Budget /\ pc[s] = "round"
  BY SearchesAssumption DEF BudgetInv, StartRound, At
<1>2. budgetMax' = budgetMax
  BY DEF StartRound
<1>3. CASE Spend(budgetMax[s]) > 0 /\ Goto(s, "wait") /\ Ask(n, n, k, Spend(budgetMax[s]))
  <2>1. \A r \in requests' \ requests :
          r \in Request /\ r.origin = n /\ r.keywords = k /\ Within(r.budget, budgetMax[s])
    BY <1>1, <1>3, AskedShares
  <2>2. pc'[s] = "wait"
    BY <1>3 DEF Goto, BudgetInv
  <2> QED BY <1>1, <1>2, <1>3, <2>1, <2>2 DEF BudgetInv, NewWithin, Goto
<1>4. CASE UNCHANGED requests /\ (Goto(s, "fetch") \/ Goto(s, "ended"))
  BY <1>2, <1>4 DEF BudgetInv, NewWithin, Goto
<1> QED BY <1>3, <1>4 DEF StartRound

LEMMA ReceiveRequestStep ==
  ASSUME BudgetInv, NEW m \in requests, ReceiveRequest(m)
  PROVE  BudgetInv' /\ NewWithin
<1>1. m.to \in Nodes /\ m.origin \in Nodes /\ m.keywords \in Keywords /\ m.budget \in Budget
  BY DEF BudgetInv, Request, Budget
<1>2. UNCHANGED <<budgetMax, pc>>
  BY DEF ReceiveRequest, search
<1>3. CASE Spend(m.budget) > 0 /\ Ask(m.to, m.origin, m.keywords, Spend(m.budget))
  <2>1. \A r \in requests' \ requests :
          /\ r \in Request /\ r.origin = m.origin /\ r.keywords = m.keywords
          /\ Within(r.budget, m.budget)
    BY <1>1, <1>3, AskedShares
  <2> QED BY <1>2, <2>1 DEF BudgetInv, NewWithin
<1>4. CASE UNCHANGED requests
  BY <1>2, <1>4 DEF BudgetInv, NewWithin
<1> QED BY <1>3, <1>4 DEF ReceiveRequest

\* What the other steps of a search leave to be shown: no requests are sent.
LEMMA OtherSteps ==
  ASSUME BudgetInv, NEW s \in Searches, UNCHANGED requests,
         \/ budgetMax' = budgetMax
         \/ \E b \in Budget : budgetMax' = [budgetMax EXCEPT ![s] = b],
         \/ pc' = pc
         \/ \E label \in {"round", "ended", "wait", "fetch", "fetching", "over"} : Goto(s, label)
  PROVE  BudgetInv' /\ NewWithin
BY DEF BudgetInv, NewWithin, Goto

LEMMA InvNext == BudgetInv /\ [Next]_vars => BudgetInv' /\ NewWithin
<1> SUFFICES ASSUME BudgetInv, [Next]_vars PROVE BudgetInv' /\ NewWithin
  OBVIOUS
<1>1. ASSUME NEW s \in Searches, NEW b \in StartBudgets[s], StartSearch(s, b)
      PROVE  BudgetInv' /\ NewWithin
  <2>1. b \in Budget
    BY BudgetAssumption DEF Budget
  <2> QED BY <1>1, <2>1, OtherSteps DEF StartSearch
<1>2. ASSUME NEW s \in Searches, Step(s) PROVE BudgetInv' /\ NewWithin
  <2>1. CASE StartRound(s)
    BY <2>1, StartRoundStep
  <2>2. CASE TimerExpires(s)
    BY <2>2, OtherSteps DEF TimerExpires
  <2>3. CASE EndRound(s)
    <3>1. Doubled(budgetMax[s]) \in Budget
      BY DoubledTypes DEF BudgetInv
    <3>2. CASE Goto(s, "fetch") /\ UNCHANGED budgetMax
      BY <2>3, <3>2, OtherSteps DEF EndRound
    <3>3. CASE /\ budgetMax' = [budgetMax EXCEPT ![s] = Doubled(@)]
               /\ Goto(s, "fetch") \/ Goto(s, "round")
      BY <2>3, <3>1, <3>3, OtherSteps DEF EndRound
    <3> QED BY <2>3, <3>2, <3>3 DEF EndRound
  <2>4. CASE FetchMetaFile(s)
    <3>1. Goto(s, "fetching") \/ Goto(s, "over")
      BY <2>4 DEF FetchMetaFile
    <3> QED BY <2>4, <3>1, OtherSteps DEF FetchMetaFile
  <2>5. CASE FinishSearch(s)
    BY <2>5, OtherSteps DEF FinishSearch
  <2> QED BY <1>2, <2>1, <2>2, <2>3, <2>4, <2>5 DEF Step
<1>3. ASSUME NEW s \in Searches, TakeReply(s) PROVE BudgetInv' /\ NewWithin
  <2>1. UNCHANGED <<requests, budgetMax>>
    BY <1>3 DEF TakeReply
  <2>2. pc' = pc \/ Goto(s, "ended") \/ Goto(s, "wait")
    BY <1>3 DEF TakeReply
  <2> QED BY <2>1, <2>2, OtherSteps
<1>4. ASSUME NEW s \in Searches, ReceiveMetaFile(s) PROVE BudgetInv' /\ NewWithin
  BY <1>4, OtherSteps DEF ReceiveMetaFile
<1>5. ASSUME NEW m \in requests, ReceiveRequest(m) PROVE BudgetInv' /\ NewWithin
  BY <1>5, ReceiveRequestStep
<1>6. CASE \/ \E n \in Nodes, k \in Keywords : Forget(n, k)
           \/ \E m \in replies : ReceiveReply(m)
           \/ UNCHANGED vars
  BY <1>6 DEF Forget, ReceiveReply, vars, search, BudgetInv, NewWithin
<1> QED BY <1>1, <1>2, <1>3, <1>4, <1>5, <1>6 DEF Next

LEMMA Invariant == Spec => []BudgetInv
BY InvInit, InvNext, PTL DEF Spec

(* However often a request is split and passed on, by peers and lists of   *)
(* peers of any kind, no part of it has more budget than it came with, or  *)
(* one that would wrap; and rounds ask for no more than their budget       *)
(* (ProcessSearchRequest, StartFileSearch).                                *)
THEOREM BudgetsShrink == Spec => BudgetNeverGrows
<1>1. BudgetInv /\ [Next]_vars => [NewWithin]_vars
  BY InvNext
<1> QED BY <1>1, Invariant, PTL DEF Spec, BudgetNeverGrows, NewWithin

-----------------------------------------------------------------------------
(* Recursion over numbers, and sequences.                                  *)

LEMMA Least ==
  ASSUME NEW T \in SUBSET Nat, T # {}
  PROVE  \E x \in T : \A y \in T : x <= y
<1>1. PICK x \in T : \A y \in T : <<y, x>> \notin OpToRel(<, Nat)
  BY NatLessThanWellFounded, WFMin
<1>2. ASSUME NEW y \in T PROVE x <= y
  <2>1. ~(y < x)
    BY <1>1 DEF OpToRel
  <2> QED BY <2>1
<1> QED BY <1>2

LEMMA Climbs ==
  ASSUME NEW n \in Nat, NEW S, 0 \in S, \A i \in 1 .. n : i - 1 \in S => i \in S
  PROVE  \A i \in 0 .. n : i \in S
<1> DEFINE T == (0 .. n) \ S
<1>1. SUFFICES ASSUME T # {} PROVE FALSE
  OBVIOUS
<1>2. T \in SUBSET Nat
  OBVIOUS
<1>3. PICK x \in T : \A y \in T : x <= y
  <2> HIDE DEF T
  <2> QED BY <1>1, <1>2, Least
<1>4. x \in 1 .. n /\ x - 1 \in 0 .. n
  BY <1>3
<1>5. x - 1 \in S
  BY <1>3, <1>4
<1> QED BY <1>3, <1>4, <1>5

Unfolds(g, n, a, F) == g = [i \in 0 .. n |-> IF i = 0 THEN a ELSE F[<<g[i - 1], i>>]]

LEMMA Recursion ==
  ASSUME NEW n \in Nat, NEW F, NEW a
  PROVE  \E g : Unfolds(g, n, a, F)
<1> DEFINE S == {m \in 0 .. n : \E g : Unfolds(g, m, a, F)}
<1>1. 0 \in S
  <2> DEFINE g == [j \in 0 .. 0 |-> a]
  <2>1. Unfolds(g, 0, a, F)
    BY DEF Unfolds
  <2> QED BY <2>1
<1>2. ASSUME NEW m \in 1 .. n, m - 1 \in S PROVE m \in S
  <2>1. PICK g : Unfolds(g, m - 1, a, F)
    BY <1>2
  <2> DEFINE h == [i \in 0 .. m |-> IF i = m THEN F[<<g[m - 1], m>>] ELSE g[i]]
  <2>2. \A i \in 0 .. m - 1 : h[i] = g[i]
    OBVIOUS
  <2>3. ASSUME NEW i \in 0 .. m PROVE h[i] = IF i = 0 THEN a ELSE F[<<h[i - 1], i>>]
    <3>1. CASE i = 0
      BY <2>1, <3>1 DEF Unfolds
    <3>2. CASE i = m
      <4>1. i - 1 \in 0 .. m - 1 /\ i # 0
        BY <3>2
      <4>2. h[i] = F[<<g[m - 1], m>>]
        BY <3>2
      <4>3. h[i - 1] = g[i - 1]
        BY <2>2, <4>1
      <4> HIDE DEF h
      <4> QED BY <3>2, <4>1, <4>2, <4>3
    <3>3. CASE i \in 1 .. m - 1
      <4>1. i - 1 \in 0 .. m - 1 /\ i \in 0 .. m - 1 /\ i # 0
        BY <3>3
      <4>2. h[i] = g[i] /\ h[i - 1] = g[i - 1]
        BY <2>2, <4>1
      <4>3. g[i] = F[<<g[i - 1], i>>]
        BY <2>1, <4>1 DEF Unfolds
      <4> HIDE DEF h
      <4> QED BY <4>1, <4>2, <4>3
    <3> QED BY <3>1, <3>2, <3>3
  <2>4. Unfolds(h, m, a, F)
    BY <2>3 DEF Unfolds
  <2> HIDE DEF h
  <2>5. m \in 0 .. n
    OBVIOUS
  <2> QED BY <2>4, <2>5
<1>3. n \in S
  <2> HIDE DEF S
  <2> QED BY <1>1, <1>2, Climbs
<1> QED BY <1>3

LEMMA RangeType ==
  ASSUME NEW S, NEW q \in Seq(S)
  PROVE  /\ DOMAIN q = 1 .. Len(q) /\ Len(q) \in Nat
         /\ Range(q) = {q[i] : i \in 1 .. Len(q)} /\ Range(q) \subseteq S
<1>1. DOMAIN q = 1 .. Len(q) /\ Len(q) \in Nat /\ \A i \in 1 .. Len(q) : q[i] \in S
  OBVIOUS
<1> QED BY <1>1 DEF Range

LEMMA InRange ==
  ASSUME NEW S, NEW q \in Seq(S)
  PROVE  q \in Seq(Range(q))
<1>1. DOMAIN q = 1 .. Len(q) /\ Len(q) \in Nat /\ q = [i \in 1 .. Len(q) |-> q[i]]
  OBVIOUS
<1>2. \A i \in 1 .. Len(q) : q[i] \in Range(q)
  BY <1>1 DEF Range
<1> DEFINE n == Len(q)
<1>3. q \in [1 .. n -> Range(q)]
  BY <1>1, <1>2
<1> HIDE DEF n
<1>4. n \in Nat
  BY <1>1 DEF n
<1> QED BY <1>3, <1>4

LEMMA AppendType ==
  ASSUME NEW S, NEW q \in Seq(S), NEW x \in S
  PROVE  /\ Append(q, x) \in Seq(S) /\ Len(Append(q, x)) = Len(q) + 1
         /\ \A i \in 1 .. Len(q) : Append(q, x)[i] = q[i]
         /\ Append(q, x)[Len(q) + 1] = x
OBVIOUS

\* A chunk map that ascends has a chunk at most once, and all if it is full.
LEMMA Full ==
  ASSUME NEW n \in Nat, NEW map \in Seq(Nat), Range(map) \subseteq 1 .. n, Ascending(map)
  PROVE  Len(map) <= n /\ (Len(map) = n => map = [c \in 1 .. n |-> c])
<1> DEFINE len == Len(map)
<1>1. len \in Nat /\ DOMAIN map = 1 .. len /\ \A i \in 1 .. len : map[i] \in 1 .. n
  BY RangeType
<1>2. \A i, j \in 1 .. len : i < j => map[i] < map[j]
  BY <1>1 DEF Ascending
<1> HIDE DEF len
<1>3. \A i \in 0 .. len : i > 0 => map[i] >= i
  <2> DEFINE S == {i \in 0 .. len : i > 0 => map[i] >= i}
  <2>1. 0 \in S
    BY <1>1
  <2>2. ASSUME NEW i \in 1 .. len, i - 1 \in S PROVE i \in S
    <3>1. CASE i = 1
      BY <1>1, <3>1
    <3>2. CASE i > 1
      <4>1. i - 1 \in 1 .. len /\ i - 1 < i
        BY <1>1, <3>2
      <4>2. map[i - 1] < map[i] /\ map[i - 1] >= i - 1 /\ map[i - 1] \in Nat /\ map[i] \in Nat
        BY <1>1, <1>2, <2>2, <4>1
      <4> QED BY <1>1, <4>1, <4>2
    <3> QED BY <1>1, <3>1, <3>2
  <2> HIDE DEF S
  <2>3. \A i \in 0 .. len : i \in S
    BY <1>1, <2>1, <2>2, Climbs
  <2> QED BY <2>3 DEF S
<1>4. \A k \in 0 .. len : k < len => map[len - k] <= n - k
  <2> DEFINE S == {k \in 0 .. len : k < len => map[len - k] <= n - k}
  <2>1. 0 \in S
    BY <1>1
  <2>2. ASSUME NEW k \in 1 .. len, k - 1 \in S PROVE k \in S
    <3>1. SUFFICES ASSUME k < len PROVE map[len - k] <= n - k
      BY <1>1
    <3>2. len - k \in 1 .. len /\ len - (k - 1) \in 1 .. len /\ len - k < len - (k - 1)
      BY <1>1, <3>1
    <3>3. map[len - k] < map[len - (k - 1)] /\ map[len - (k - 1)] <= n - (k - 1)
      BY <1>1, <1>2, <2>2, <3>1, <3>2
    <3>4. map[len - k] \in Nat /\ map[len - (k - 1)] \in Nat
      BY <1>1, <3>2
    <3> QED BY <3>3, <3>4
  <2> HIDE DEF S
  <2>3. \A k \in 0 .. len : k \in S
    BY <1>1, <2>1, <2>2, Climbs
  <2> QED BY <2>3 DEF S
<1>5. len <= n
  <2>1. CASE len = 0
    BY <2>1
  <2>2. CASE len > 0
    <3>1. len \in 1 .. len /\ len \in 0 .. len
      BY <1>1, <2>2
    <3>2. map[len] >= len /\ map[len] \in 1 .. n
      BY <1>1, <1>3, <2>2, <3>1
    <3> QED BY <1>1, <3>2
  <2> QED BY <1>1, <2>1, <2>2
<1>6. ASSUME len = n PROVE map = [c \in 1 .. n |-> c]
  <2>1. ASSUME NEW c \in 1 .. n PROVE map[c] = c
    <3>1. c \in 0 .. len /\ c \in 1 .. len /\ len - c \in 0 .. len /\ len - c < len /\ len - (len - c) = c
      BY <1>1, <1>6
    <3>2. map[c] \in Nat /\ map[c] >= c
      BY <1>1, <1>3, <3>1
    <3>3. map[c] <= n - (len - c)
      BY <1>4, <3>1
    <3> QED BY <1>1, <1>6, <3>2, <3>3
  <2>2. map = [c \in 1 .. len |-> map[c]]
    BY <1>1 DEF len
  <2> QED BY <1>1, <1>6, <2>1, <2>2
<1> QED BY <1>5, <1>6 DEF len

LEMMA FoundType ==
  ASSUME NEW H, NEW held \in Seq(H), NEW k
  PROVE  Found(held, k) \in Seq(H)
<1> DEFINE n == Len(held)
           A == Seq(H)
           step(q, i) == IF <<k, held[i].file>> \in Matches THEN Append(q, held[i]) ELSE q
           F == [p \in A \X (1 .. n) |-> step(p[1], p[2])]
           Is(g) == g = [i \in 0 .. n |-> IF i = 0 THEN <<>> ELSE step(g[i - 1], i)]
<1>1. n \in Nat /\ <<>> \in A
  OBVIOUS
<1>2. \A q \in A, i \in 1 .. n : step(q, i) \in A
  OBVIOUS
<1>3. \A q \in A, i \in 1 .. n : F[<<q, i>>] = step(q, i)
  OBVIOUS
<1> HIDE DEF F, step, A
<1>4. ASSUME NEW g, g[0] = <<>>, \A i \in 1 .. n : g[i - 1] \in A => g[i] = step(g[i - 1], i)
      PROVE  \A i \in 0 .. n : g[i] \in A
  <2> DEFINE S == {i \in 0 .. n : g[i] \in A}
  <2>1. 0 \in S
    BY <1>1, <1>4
  <2>2. ASSUME NEW i \in 1 .. n, i - 1 \in S PROVE i \in S
    BY <1>1, <1>2, <1>4, <2>2
  <2> HIDE DEF S
  <2>3. \A i \in 0 .. n : i \in S
    BY <1>1, <2>1, <2>2, Climbs
  <2> QED BY <2>3 DEF S
<1>5. \E g : Is(g)
  <2>1. PICK g : Unfolds(g, n, <<>>, F)
    BY <1>1, Recursion
  <2>2. g[0] = <<>> /\ \A i \in 1 .. n : g[i] = F[<<g[i - 1], i>>]
    BY <1>1, <2>1 DEF Unfolds
  <2>3. \A i \in 0 .. n : g[i] \in A
    BY <1>3, <1>4, <2>2
  <2>4. ASSUME NEW i \in 0 .. n PROVE g[i] = IF i = 0 THEN <<>> ELSE step(g[i - 1], i)
    <3>1. CASE i = 0
      BY <2>2, <3>1
    <3>2. CASE i # 0
      <4>1. i - 1 \in 0 .. n /\ i \in 1 .. n
        BY <1>1, <3>2
      <4> QED BY <1>3, <2>2, <2>3, <3>2, <4>1
    <3> QED BY <3>1, <3>2
  <2>5. g = [i \in 0 .. n |-> g[i]]
    BY <2>1 DEF Unfolds
  <2>6. Is(g)
    BY <2>4, <2>5
  <2> HIDE DEF Is
  <2> QED BY <2>6
<1> DEFINE f == CHOOSE g : Is(g)
<1>6. Is(f)
  <2> HIDE DEF Is
  <2> QED BY <1>5
<1>7. Found(held, k) = f[n]
  BY DEF Found, step
<1> HIDE DEF f
<1>8. f[0] = <<>> /\ \A i \in 1 .. n : f[i] = step(f[i - 1], i)
  <2>1. 0 \in 0 .. n /\ \A i \in 1 .. n : i \in 0 .. n /\ i # 0
    BY <1>1
  <2> QED BY <1>6, <2>1
<1>9. f[n] \in A
  BY <1>1, <1>4, <1>8
<1> QED BY <1>7, <1>9 DEF A

LEMMA EntryAtType ==
  ASSUME NEW list \in Seq(Entry), NEW f
  PROVE  /\ EntryAt(list, f) \in 0 .. Len(list)
         /\ EntryAt(list, f) # 0 =>
              /\ list[EntryAt(list, f)].file = f
              /\ \A j \in 1 .. Len(list) : j < EntryAt(list, f) => list[j].file # f
         /\ EntryAt(list, f) = 0 => \A j \in 1 .. Len(list) : list[j].file # f
<1> DEFINE I == {i \in 1 .. Len(list) : list[i].file = f}
<1>1. EntryAt(list, f) = IF I # {} THEN CHOOSE i \in I : \A j \in I : i <= j ELSE 0
  BY DEF EntryAt, SelectInSeq, Min
<1>2. I # {} => \E i \in I : \A j \in I : i <= j
  <2>1. I \in SUBSET Nat
    OBVIOUS
  <2> HIDE DEF I
  <2> QED BY <2>1, Least
<1>3. CASE I # {}
  <2>1. EntryAt(list, f) \in I /\ \A j \in I : EntryAt(list, f) <= j
    <3> HIDE DEF I
    <3> QED BY <1>1, <1>2, <1>3
  <2>2. \A j \in 1 .. Len(list) : j < EntryAt(list, f) => j \notin I
    BY <2>1
  <2> QED BY <2>1, <2>2
<1>4. CASE I = {}
  BY <1>1, <1>4
<1> QED BY <1>3, <1>4

LEMMA EntryAtIs ==
  ASSUME NEW list \in Seq(Entry), NEW f, NEW i \in 1 .. Len(list), list[i].file = f,
         \A j \in 1 .. Len(list) : j < i => list[j].file # f
  PROVE  EntryAt(list, f) = i
<1>1. EntryAt(list, f) # 0 /\ EntryAt(list, f) \in 1 .. Len(list)
  BY EntryAtType
<1>2. ~(EntryAt(list, f) < i) /\ ~(i < EntryAt(list, f))
  BY <1>1, EntryAtType
<1> QED BY <1>1, <1>2

\* An entry that is replaced by one for the same file moves none.
LEMMA EntryAtExcept ==
  ASSUME NEW list \in Seq(Entry), NEW f, NEW i \in 1 .. Len(list), NEW e \in Entry,
         e.file = list[i].file
  PROVE  EntryAt([list EXCEPT ![i] = e], f) = EntryAt(list, f)
<1> DEFINE new == [list EXCEPT ![i] = e]
<1>1. new \in Seq(Entry) /\ Len(new) = Len(list) /\ \A j \in 1 .. Len(list) : new[j].file = list[j].file
  OBVIOUS
<1> HIDE DEF new
<1>2. CASE EntryAt(list, f) = 0
  <2>1. EntryAt(new, f) = 0
    BY <1>1, <1>2, EntryAtType
  <2> QED BY <1>2, <2>1 DEF new
<1>3. CASE EntryAt(list, f) # 0
  <2>1. EntryAt(list, f) \in 1 .. Len(new)
    BY <1>1, <1>3, EntryAtType
  <2>2. EntryAt(new, f) = EntryAt(list, f)
    BY <1>1, <1>3, <2>1, EntryAtIs, EntryAtType
  <2> QED BY <2>2 DEF new
<1> QED BY <1>2, <1>3

\* One that is added is the first for its file, if there was none.
LEMMA EntryAtAppend ==
  ASSUME NEW list \in Seq(Entry), NEW f, NEW e \in Entry
  PROVE  /\ EntryAt(list, f) # 0 => EntryAt(Append(list, e), f) = EntryAt(list, f)
         /\ EntryAt(list, f) = 0 /\ e.file = f => EntryAt(Append(list, e), f) = Len(list) + 1
<1> DEFINE new == Append(list, e)
<1>1. /\ new \in Seq(Entry) /\ Len(new) = Len(list) + 1 /\ Len(list) \in Nat
      /\ new[Len(list) + 1] = e /\ \A j \in 1 .. Len(list) : new[j] = list[j]
  OBVIOUS
<1> HIDE DEF new
<1>2. ASSUME EntryAt(list, f) # 0 PROVE EntryAt(new, f) = EntryAt(list, f)
  <2>1. EntryAt(list, f) \in 1 .. Len(list)
    BY <1>2, EntryAtType
  <2>2. EntryAt(list, f) \in 1 .. Len(new) /\ new[EntryAt(list, f)].file = f
    BY <1>1, <1>2, <2>1, EntryAtType
  <2>3. \A j \in 1 .. Len(new) : j < EntryAt(list, f) => new[j].file # f
    BY <1>1, <1>2, <2>1, EntryAtType
  <2> QED BY <1>1, <2>2, <2>3, EntryAtIs
<1>3. ASSUME EntryAt(list, f) = 0, e.file = f PROVE EntryAt(new, f) = Len(list) + 1
  <2>1. \A j \in 1 .. Len(new) : j < Len(list) + 1 => new[j].file # f
    BY <1>1, <1>3, EntryAtType
  <2> QED BY <1>1, <1>3, <2>1, EntryAtIs
<1> QED BY <1>2, <1>3 DEF new

LEMMA AscendingAppend ==
  ASSUME NEW q \in Seq(Nat), NEW x \in Nat, Ascending(q), \A j \in 1 .. Len(q) : q[j] < x
  PROVE  Ascending(Append(q, x))
<1>1. DOMAIN q = 1 .. Len(q) /\ DOMAIN Append(q, x) = 1 .. Len(q) + 1 /\ Len(q) \in Nat
  OBVIOUS
<1>2. SUFFICES ASSUME NEW i \in 1 .. Len(q) + 1, NEW j \in 1 .. Len(q) + 1, i < j
               PROVE  Append(q, x)[i] < Append(q, x)[j]
  BY <1>1 DEF Ascending
<1>3. i \in 1 .. Len(q) /\ Append(q, x)[i] = q[i]
  BY <1>1, <1>2, AppendType
<1>4. CASE j = Len(q) + 1
  BY <1>3, <1>4, AppendType
<1>5. CASE j # Len(q) + 1
  <2>1. j \in 1 .. Len(q) /\ Append(q, x)[j] = q[j]
    BY <1>1, <1>2, <1>5, AppendType
  <2> QED BY <1>1, <1>2, <1>3, <2>1 DEF Ascending
<1> QED BY <1>4, <1>5

\* What has been merged is less than what is left.
Below(into, q, from) == \A j \in 1 .. Len(into), i \in from .. Len(q) : into[j] < q[i]

\* into is made of left and right, in their order, up to l and r.
Merged(left, right, into, l, r) ==
  /\ l \in 1 .. Len(left) + 1 /\ r \in 1 .. Len(right) + 1
  /\ \A j \in 1 .. Len(into) : into[j] \in Range(left) \cup Range(right)
  /\ Ascending(left) /\ Ascending(right) =>
       Ascending(into) /\ Below(into, left, l) /\ Below(into, right, r)

\* The loop invariant of MergeUint64Slices after i elements.
Merging(left, right, i) ==
  {m \in [into: Seq(Nat), l: Nat, r: Nat] :
    /\ m.l + m.r = i + 2
    /\ Len(m.into) >= m.l - 1
    /\ Merged(left, right, m.into, m.l, m.r)}

LEMMA BelowAppend ==
  ASSUME NEW into \in Seq(Nat), NEW q \in Seq(Nat), NEW from \in Nat, NEW x \in Nat,
         Below(into, q, from), \A i \in from .. Len(q) : x < q[i]
  PROVE  Below(Append(into, x), q, from)
<1> SUFFICES ASSUME NEW j \in 1 .. Len(Append(into, x)), NEW i \in from .. Len(q)
             PROVE  Append(into, x)[j] < q[i]
  BY DEF Below
<1>1. Len(into) \in Nat /\ Len(Append(into, x)) = Len(into) + 1
  OBVIOUS
<1>2. CASE j = Len(into) + 1
  BY <1>2, AppendType
<1>3. CASE j # Len(into) + 1
  <2>1. j \in 1 .. Len(into) /\ Append(into, x)[j] = into[j]
    BY <1>1, <1>3, AppendType
  <2> QED BY <2>1 DEF Below
<1> QED BY <1>2, <1>3

LEMMA BelowNext ==
  ASSUME NEW into, NEW q \in Seq(Nat), NEW from \in Nat, Below(into, q, from)
  PROVE  Below(into, q, from + 1)
<1>1. Len(q) \in Nat
  OBVIOUS
<1>2. \A i \in from + 1 .. Len(q) : i \in from .. Len(q)
  BY <1>1
<1> QED BY <1>2 DEF Below

LEMMA MergedSwap ==
  ASSUME NEW left, NEW right, NEW into, NEW l, NEW r, Merged(left, right, into, l, r)
  PROVE  Merged(right, left, into, r, l)
BY DEF Merged

\* An element of right that left has, too.
LEMMA MergedSkip ==
  ASSUME NEW left \in Seq(Nat), NEW right \in Seq(Nat), NEW into, NEW l \in Nat, NEW r \in Nat,
         Merged(left, right, into, l, r), r <= Len(right)
  PROVE  Merged(left, right, into, l, r + 1)
<1>1. Len(right) \in Nat /\ r \in 1 .. Len(right) + 1
  BY DEF Merged
<1>2. r + 1 \in 1 .. Len(right) + 1
  BY <1>1
<1> QED BY <1>2, BelowNext DEF Merged

\* The next element of right, which is less than that of left.
LEMMA MergedTake ==
  ASSUME NEW left \in Seq(Nat), NEW right \in Seq(Nat), NEW into \in Seq(Nat), NEW l \in Nat, NEW r \in Nat,
         Merged(left, right, into, l, r), r <= Len(right), l <= Len(left) => right[r] < left[l]
  PROVE  Merged(left, right, Append(into, right[r]), l, r + 1)
<1>1. /\ Len(left) \in Nat /\ Len(right) \in Nat /\ Len(into) \in Nat
      /\ \A k \in 1 .. Len(left) : left[k] \in Nat
      /\ \A k \in 1 .. Len(right) : right[k] \in Nat /\ right[k] \in Range(right)
  <2>1. \A k \in 1 .. Len(right) : right[k] \in Range(right)
    BY RangeType
  <2> QED BY <2>1
<1>2. l \in 1 .. Len(left) + 1 /\ r \in 1 .. Len(right)
  <2>1. l \in 1 .. Len(left) + 1 /\ r \in 1 .. Len(right) + 1
    BY DEF Merged
  <2> QED BY <1>1, <2>1
<1> DEFINE x == right[r]
           new == Append(into, x)
<1>3. x \in Nat /\ x \in Range(right)
  BY <1>1, <1>2
<1>4. \A j \in 1 .. Len(new) : new[j] \in Range(left) \cup Range(right)
  <2> SUFFICES ASSUME NEW j \in 1 .. Len(new) PROVE new[j] \in Range(left) \cup Range(right)
    OBVIOUS
  <2>1. CASE j = Len(into) + 1
    BY <1>3, <2>1, AppendType
  <2>2. CASE j # Len(into) + 1
    <3>1. Len(new) = Len(into) + 1
      BY <1>3, AppendType
    <3>2. j \in 1 .. Len(into)
      <4> HIDE DEF new
      <4> QED BY <1>1, <2>2, <3>1
    <3>3. new[j] = into[j]
      BY <1>3, <3>2, AppendType
    <3> QED BY <3>2, <3>3 DEF Merged
  <2> QED BY <2>1, <2>2
<1>5. ASSUME Ascending(left), Ascending(right)
      PROVE  Ascending(new) /\ Below(new, left, l) /\ Below(new, right, r + 1)
  <2>1. Ascending(into) /\ Below(into, left, l) /\ Below(into, right, r)
    BY <1>5 DEF Merged
  <2>2. \A j \in 1 .. Len(into) : into[j] < x
    <3>1. r \in r .. Len(right)
      BY <1>1, <1>2
    <3> QED BY <2>1, <3>1 DEF Below
  <2>3. \A k \in l .. Len(left) : x < left[k]
    <3> SUFFICES ASSUME NEW k \in l .. Len(left) PROVE x < left[k]
      OBVIOUS
    <3>1. l \in 1 .. Len(left) /\ k \in 1 .. Len(left) /\ (k = l \/ l < k)
      BY <1>1, <1>2
    <3>2. x < left[l] /\ left[l] \in Nat /\ left[k] \in Nat
      BY <1>1, <3>1
    <3>3. k = l \/ left[l] < left[k]
      BY <1>5, <3>1, RangeType DEF Ascending
    <3> HIDE DEF x
    <3> QED BY <1>3, <3>2, <3>3
  <2>4. \A k \in r + 1 .. Len(right) : x < right[k]
    <3> SUFFICES ASSUME NEW k \in r + 1 .. Len(right) PROVE x < right[k]
      OBVIOUS
    <3>1. k \in 1 .. Len(right) /\ r < k
      BY <1>1, <1>2
    <3> QED BY <1>2, <1>5, <3>1, RangeType DEF Ascending
  <2> HIDE DEF x
  <2>5. Ascending(new)
    BY <1>3, <2>1, <2>2, AscendingAppend
  <2>6. Below(new, left, l)
    BY <1>3, <2>1, <2>3, BelowAppend
  <2>7. Below(into, right, r + 1)
    BY <2>1, BelowNext
  <2>8. Below(new, right, r + 1)
    BY <1>3, <2>4, <2>7, BelowAppend
  <2> QED BY <2>5, <2>6, <2>8
<1>6. r + 1 \in 1 .. Len(right) + 1
  BY <1>1, <1>2
<1> HIDE DEF new
<1>7. Merged(left, right, new, l, r + 1)
  BY <1>2, <1>4, <1>5, <1>6 DEF Merged
<1> QED BY <1>7 DEF new, x

\* Where an element is taken from, numbers apart.
LEMMA NextPlace ==
  ASSUME NEW i \in Nat, NEW l \in Nat, NEW r \in Nat, l + r = (i - 1) + 2
  PROVE  l + (r + 1) = i + 2 /\ (l + 1) + r = i + 2
OBVIOUS

LEMMA InMerging ==
  ASSUME NEW left, NEW right, NEW i \in Nat, NEW into \in Seq(Nat), NEW l \in Nat, NEW r \in Nat,
         l + r = i + 2, Len(into) >= l - 1, Merged(left, right, into, l, r)
  PROVE  [into |-> into, l |-> l, r |-> r] \in Merging(left, right, i)
<1> DEFINE m == [into |-> into, l |-> l, r |-> r]
<1>1. m \in [into: Seq(Nat), l: Nat, r: Nat] /\ m.into = into /\ m.l = l /\ m.r = r
  OBVIOUS
<1> HIDE DEF m
<1>2. m \in Merging(left, right, i)
  BY <1>1 DEF Merging
<1> QED BY <1>2 DEF m

LEMMA MergeNextType ==
  ASSUME NEW left \in Seq(Nat), NEW right \in Seq(Nat), NEW i \in Nat \ {0},
         NEW m \in Merging(left, right, i - 1), i <= Len(left) + Len(right)
  PROVE  MergeNext(left, right, m) \in Merging(left, right, i)
<1> DEFINE into == m.into
           l == m.l
           r == m.r
           more == l <= Len(left)
           over == r <= Len(right) /\ (more => right[r] <= left[l])
<1>1. /\ m = [into |-> into, l |-> l, r |-> r] /\ into \in Seq(Nat) /\ l \in Nat /\ r \in Nat
      /\ l + r = (i - 1) + 2 /\ Len(into) >= l - 1 /\ Merged(left, right, into, l, r)
  BY DEF Merging
<1>2. /\ over /\ more /\ right[r] = left[l] =>
           MergeNext(left, right, m) = [into |-> into, l |-> l, r |-> r + 1]
      /\ over /\ ~(more /\ right[r] = left[l]) =>
           MergeNext(left, right, m) = [into |-> Append(into, right[r]), l |-> l, r |-> r + 1]
      /\ ~over => MergeNext(left, right, m) = [into |-> Append(into, left[l]), l |-> l + 1, r |-> r]
  <2>1. m \in [into: Seq(Nat), l: Nat, r: Nat]
    BY DEF Merging
  <2>2. CASE over /\ more /\ right[r] = left[l]
    BY <2>1, <2>2 DEF MergeNext
  <2>3. CASE over /\ ~(more /\ right[r] = left[l])
    BY <2>1, <2>3 DEF MergeNext
  <2>4. CASE ~over
    BY <2>1, <2>4 DEF MergeNext
  <2> QED BY <2>2, <2>3, <2>4
<1> HIDE DEF into, l, r
<1>3. Len(left) \in Nat /\ Len(right) \in Nat /\ Len(into) \in Nat
  BY <1>1
<1>4. l \in 1 .. Len(left) + 1 /\ r \in 1 .. Len(right) + 1
  BY <1>1 DEF Merged
<1>5. l + (r + 1) = i + 2 /\ (l + 1) + r = i + 2 /\ l + 1 \in Nat /\ r + 1 \in Nat
  BY <1>1, NextPlace
<1>6. CASE over /\ more /\ right[r] = left[l]
  <2>1. Merged(left, right, into, l, r + 1)
    BY <1>1, <1>6, MergedSkip
  <2>2. MergeNext(left, right, m) = [into |-> into, l |-> l, r |-> r + 1]
    BY <1>2, <1>6
  <2>3. [into |-> into, l |-> l, r |-> r + 1] \in Merging(left, right, i)
    BY <1>1, <1>5, <2>1, InMerging
  <2> QED BY <2>2, <2>3
<1>7. CASE over /\ ~(more /\ right[r] = left[l])
  <2>1. right[r] \in Nat
    BY <1>3, <1>4, <1>7
  <2>2. more => right[r] < left[l]
    <3>1. ASSUME more PROVE left[l] \in Nat
      BY <1>3, <1>4, <3>1
    <3> QED BY <1>7, <2>1, <3>1
  <2>3. Merged(left, right, Append(into, right[r]), l, r + 1)
    BY <1>1, <1>7, <2>2, MergedTake
  <2>4. Append(into, right[r]) \in Seq(Nat) /\ Len(Append(into, right[r])) = Len(into) + 1
    BY <1>1, <2>1, AppendType
  <2>5. Len(Append(into, right[r])) >= l - 1
    BY <1>1, <1>3, <2>4
  <2>6. MergeNext(left, right, m) = [into |-> Append(into, right[r]), l |-> l, r |-> r + 1]
    BY <1>2, <1>7
  <2>7. [into |-> Append(into, right[r]), l |-> l, r |-> r + 1] \in Merging(left, right, i)
    BY <1>1, <1>5, <2>3, <2>4, <2>5, InMerging
  <2> QED BY <2>6, <2>7
<1>8. CASE ~over
  <2>1. more
    <3>1. r = Len(right) + 1 => l <= Len(left)
      BY <1>1, <1>3
    <3>2. CASE r <= Len(right)
      BY <1>8, <3>2
    <3>3. CASE ~(r <= Len(right))
      BY <1>3, <1>4, <3>1, <3>3
    <3> QED BY <3>2, <3>3
  <2>2. left[l] \in Nat
    BY <1>3, <1>4, <2>1
  <2>3. r <= Len(right) => left[l] < right[r]
    <3>1. ASSUME r <= Len(right) PROVE right[r] \in Nat
      BY <1>3, <1>4, <3>1
    <3> QED BY <1>8, <2>2, <3>1
  <2>4. Merged(right, left, Append(into, left[l]), r, l + 1)
    BY <1>1, <2>1, <2>3, MergedSwap, MergedTake
  <2>5. Merged(left, right, Append(into, left[l]), l + 1, r)
    BY <2>4, MergedSwap
  <2>6. Append(into, left[l]) \in Seq(Nat) /\ Len(Append(into, left[l])) = Len(into) + 1
    BY <1>1, <2>2, AppendType
  <2>7. Len(Append(into, left[l])) >= (l + 1) - 1
    BY <1>1, <1>3, <2>6
  <2>8. MergeNext(left, right, m) = [into |-> Append(into, left[l]), l |-> l + 1, r |-> r]
    BY <1>2, <1>8
  <2>9. [into |-> Append(into, left[l]), l |-> l + 1, r |-> r] \in Merging(left, right, i)
    BY <1>1, <1>5, <2>5, <2>6, <2>7, InMerging
  <2> QED BY <2>8, <2>9
<1> QED BY <1>6, <1>7, <1>8

LEMMA MergeType ==
  ASSUME NEW left \in Seq(Nat), NEW right \in Seq(Nat)
  PROVE  LET into == MergeUint64Slices(left, right)
         IN  /\ into \in Seq(Nat) /\ Len(into) >= Len(left)
             /\ Range(into) \subseteq Range(left) \cup Range(right)
             /\ Ascending(left) /\ Ascending(right) => Ascending(into)
<1> DEFINE n == Len(left) + Len(right)
           start == [into |-> <<>>, l |-> 1, r |-> 1]
           A(i) == Merging(left, right, i)
           D == UNION {A(i) : i \in 0 .. n}
           step(m) == MergeNext(left, right, m)
           F == [p \in D \X (1 .. n) |-> step(p[1])]
           Is(g) == g = [i \in 0 .. n |-> IF i = 0 THEN start ELSE step(g[i - 1])]
<1>1. n \in Nat /\ Len(left) \in Nat /\ Len(right) \in Nat
  OBVIOUS
<1>2. start \in A(0)
  <2>1. start \in [into: Seq(Nat), l: Nat, r: Nat] /\ start.into = <<>> /\ start.l = 1 /\ start.r = 1
    OBVIOUS
  <2>2. Len(<<>>) = 0 /\ 1 .. 0 = {} /\ DOMAIN <<>> = 1 .. 0
    OBVIOUS
  <2> HIDE DEF start
  <2> QED BY <1>1, <2>1, <2>2 DEF Merging, Merged, Ascending, Below
<1> HIDE DEF start
<1>3. \A i \in 1 .. n : \A m \in A(i - 1) : step(m) \in A(i)
  BY <1>1, MergeNextType
<1>4. ASSUME NEW i \in 1 .. n, NEW m \in A(i - 1) PROVE F[<<m, i>>] = step(m)
  <2>1. i - 1 \in 0 .. n
    BY <1>1
  <2>2. m \in D
    BY <2>1
  <2> QED BY <2>2
<1> HIDE DEF F, A, step, D, n
<1>5. ASSUME NEW g, g[0] = start, \A i \in 1 .. n : g[i - 1] \in A(i - 1) => g[i] = step(g[i - 1])
      PROVE  \A i \in 0 .. n : g[i] \in A(i)
  <2> DEFINE S == {i \in 0 .. n : g[i] \in A(i)}
  <2>1. 0 \in S
    BY <1>1, <1>2, <1>5
  <2>2. ASSUME NEW i \in 1 .. n, i - 1 \in S PROVE i \in S
    <3>1. g[i - 1] \in A(i - 1)
      BY <2>2
    <3>2. g[i] \in A(i)
      BY <1>3, <1>5, <3>1
    <3> QED BY <1>1, <3>2
  <2> HIDE DEF S
  <2>3. \A i \in 0 .. n : i \in S
    BY <1>1, <2>1, <2>2, Climbs
  <2> QED BY <2>3 DEF S
<1>6. \E g : Is(g)
  <2>1. PICK g : Unfolds(g, n, start, F)
    BY <1>1, Recursion
  <2>2. g[0] = start /\ \A i \in 1 .. n : g[i] = F[<<g[i - 1], i>>]
    BY <1>1, <2>1 DEF Unfolds
  <2>3. \A i \in 0 .. n : g[i] \in A(i)
    BY <1>4, <1>5, <2>2
  <2>4. ASSUME NEW i \in 0 .. n PROVE g[i] = IF i = 0 THEN start ELSE step(g[i - 1])
    <3>1. CASE i = 0
      BY <2>2, <3>1
    <3>2. CASE i # 0
      <4>1. i - 1 \in 0 .. n /\ i \in 1 .. n
        BY <1>1, <3>2
      <4> QED BY <1>4, <2>2, <2>3, <3>2, <4>1
    <3> QED BY <3>1, <3>2
  <2>5. g = [i \in 0 .. n |-> g[i]]
    BY <2>1 DEF Unfolds
  <2>6. Is(g)
    BY <2>4, <2>5
  <2> HIDE DEF Is
  <2> QED BY <2>6
<1> DEFINE f == CHOOSE g : Is(g)
<1>7. Is(f)
  <2> HIDE DEF Is
  <2> QED BY <1>6
<1>8. MergeUint64Slices(left, right) = f[n].into
  BY DEF MergeUint64Slices, step, start, n
<1> HIDE DEF f
<1>9. f[0] = start /\ \A i \in 1 .. n : f[i] = step(f[i - 1])
  <2>1. 0 \in 0 .. n /\ \A i \in 1 .. n : i \in 0 .. n /\ i # 0
    BY <1>1
  <2> QED BY <1>7, <2>1
<1>10. f[n] \in A(n)
  BY <1>1, <1>5, <1>9
<1>11. /\ f[n] \in [into: Seq(Nat), l: Nat, r: Nat]
       /\ f[n].l = Len(left) + 1
       /\ \A j \in 1 .. Len(f[n].into) : f[n].into[j] \in Range(left) \cup Range(right)
       /\ Len(f[n].into) >= f[n].l - 1
       /\ Ascending(left) /\ Ascending(right) => Ascending(f[n].into)
  <2>1. /\ f[n] \in [into: Seq(Nat), l: Nat, r: Nat] /\ f[n].l + f[n].r = n + 2
        /\ Len(f[n].into) >= f[n].l - 1 /\ Merged(left, right, f[n].into, f[n].l, f[n].r)
    BY <1>10 DEF A, Merging
  <2>2. f[n].l \in 1 .. Len(left) + 1 /\ f[n].r \in 1 .. Len(right) + 1
    BY <2>1 DEF Merged
  <2> DEFINE l == f[n].l
             r == f[n].r
  <2>3. \A x \in 1 .. Len(left) + 1, y \in 1 .. Len(right) + 1 :
          x + y = Len(left) + Len(right) + 2 => x = Len(left) + 1
    BY <1>1
  <2>4. l = Len(left) + 1
    <3> HIDE DEF l, r
    <3>1. l + r = Len(left) + Len(right) + 2
      BY <2>1 DEF l, r, n
    <3> QED BY <2>2, <2>3, <3>1 DEF l, r
  <2> QED BY <2>1, <2>4 DEF Merged
<1>12. f[n].into \in Seq(Nat) /\ Range(f[n].into) \subseteq Range(left) \cup Range(right)
  <2>1. f[n].into \in Seq(Nat)
    BY <1>11
  <2> DEFINE into == f[n].into
  <2>2. Range(into) = {into[i] : i \in 1 .. Len(into)}
    BY <2>1, RangeType
  <2> HIDE DEF into
  <2>3. \A i \in 1 .. Len(into) : into[i] \in Range(left) \cup Range(right)
    BY <1>11 DEF into
  <2>4. Range(into) \subseteq Range(left) \cup Range(right)
    BY <2>2, <2>3
  <2> QED BY <2>1, <2>4 DEF into
<1> QED BY <1>1, <1>8, <1>11, <1>12

-----------------------------------------------------------------------------
(***************************************************************************)
(* What peers are found to have.                                           *)
(***************************************************************************)

ChunksOf(e) == Range(e.map) \subseteq 1 .. ChunkCount[e.file] /\ Ascending(e.map)

FirstLeads(e) ==
  Len(e.map) <= ChunkCount[e.file] /\ ChunkCount[e.file] \in Range(e.map) =>
    e.origins[1] # Nobody /\ HasChunk(e.origins[1], e.file, 1)

\* What an entry says of a file that n does not have.
Sound(n, e) ==
  ~Lists(n, e.file) =>
    /\ Len(e.origins) = ChunkCount[e.file]
    /\ \/ Len(e.map) > ChunkCount[e.file]
       \/ ChunksOf(e) /\ \A c \in Range(e.map) : \E m \in Nodes \ {n} : HasChunk(m, e.file, c)
    /\ FirstChunksFirst => FirstLeads(e)

\* A file that is found has an entry, with as many chunks as it should.
IsFound(n, list, f) ==
  /\ EntryAt(list, f) # 0
  /\ ~Lists(n, f) => Len(list[EntryAt(list, f)].map) = ChunkCount[f]

Collection(n, list, files) ==
  /\ \A i \in 1 .. Len(list) : Sound(n, list[i])
  /\ \A i \in 1 .. Len(files) : IsFound(n, list, files[i])
  /\ NoneTwice(n, files)


LEMMA HeldType ==
  ASSUME NEW n \in Nodes, NEW h \in Range(Holds[n])
  PROVE  /\ h \in Held /\ h.file \in Files /\ h.map \in Seq(Nat)
         /\ ChunkCount[h.file] \in Nat \ {0} /\ ChunksOf(h)
         /\ \A c \in Range(h.map) : HasChunk(n, h.file, c)
<1>1. h \in Held
  BY FilesAssumption, RangeType
<1> QED BY <1>1, FilesAssumption, MapsAssumption DEF Held, ChunksOf, HasChunk

LEMMA NewEntry ==
  ASSUME NEW n \in Nodes, NEW from \in Nodes, from # n, NEW h \in Range(Holds[from])
  PROVE  /\ resultToNewMetadata(from, h) \in Entry
         /\ resultToNewMetadata(from, h).file = h.file
         /\ Sound(n, resultToNewMetadata(from, h))
<1> DEFINE e == resultToNewMetadata(from, h)
           count == ChunkCount[h.file]
<1>1. /\ h.file \in Files /\ h.map \in Seq(Nat) /\ count \in Nat /\ 1 \in 1 .. count /\ ChunksOf(h)
      /\ \A c \in Range(h.map) : HasChunk(from, h.file, c)
  <2>1. \A k \in Nat \ {0} : k \in Nat /\ 1 \in 1 .. k
    OBVIOUS
  <2> QED BY <2>1, HeldType
<1>2. /\ e.file = h.file /\ e.map = h.map
      /\ e.origins = [c \in 1 .. count |-> IF c \in Range(h.map) THEN from ELSE Nobody]
      /\ e = [file |-> h.file, map |-> h.map, origins |-> e.origins]
  BY DEF resultToNewMetadata
<1>3. e.origins \in Seq(Nodes \cup {Nobody}) /\ Len(e.origins) = count
  <2>1. e.origins \in [1 .. count -> Nodes \cup {Nobody}]
    BY <1>2
  <2>2. count \in Nat
    BY <1>1
  <2> HIDE DEF e, count
  <2> QED BY <2>1, <2>2
<1>4. e \in Entry
  BY <1>1, <1>2, <1>3 DEF Entry
<1>5. FirstChunksFirst => FirstLeads(e)
  <2>1. SUFFICES ASSUME FirstChunksFirst, count \in Range(h.map)
                 PROVE  e.origins[1] # Nobody /\ HasChunk(e.origins[1], h.file, 1)
    BY <1>2 DEF FirstLeads
  <2>2. 1 \in Range(h.map)
    BY <2>1 DEF FirstChunksFirst
  <2> QED BY <1>1, <1>2, <2>2, NodesAssumption
<1>6. ChunksOf(e) /\ \A c \in Range(e.map) : HasChunk(from, e.file, c)
  BY <1>1, <1>2 DEF ChunksOf
<1> HIDE DEF e
<1>7. Sound(n, e)
  BY <1>2, <1>3, <1>5, <1>6 DEF Sound
<1> QED BY <1>2, <1>4, <1>7 DEF e

\* Chunks that another node has are added to an entry, never the last one.
LEMMA MergedEntry ==
  ASSUME NEW n \in Nodes, NEW from \in Nodes, from # n, NEW h \in Range(Holds[from]),
         NEW e \in Entry, Sound(n, e), e.file = h.file, ~OutOfRange(e, h)
  PROVE  LET new == mergeOrigins(from, h, e)
         IN  /\ new \in Entry /\ new.file = e.file /\ Sound(n, new)
             /\ ~Lists(n, e.file) /\ Len(e.map) = ChunkCount[e.file] =>
                  Len(new.map) = ChunkCount[e.file]
<1> DEFINE new == mergeOrigins(from, h, e)
           count == ChunkCount[e.file]
<1>1. /\ h.map \in Seq(Nat) /\ count \in Nat /\ count >= 1 /\ ChunksOf(h)
      /\ \A c \in Range(h.map) : HasChunk(from, e.file, c)
  <2>1. \A k \in Nat \ {0} : k \in Nat /\ k >= 1
    OBVIOUS
  <2> QED BY <2>1, HeldType
<1>2. e.file \in Files /\ e.map \in Seq(Nat) /\ e.origins \in Seq(Nodes \cup {Nobody})
  BY DEF Entry
<1>3. /\ new.file = e.file /\ new.map = MergeUint64Slices(e.map, h.map)
      /\ new.origins = [c \in DOMAIN e.origins |-> IF c - 1 \in Range(h.map) THEN from ELSE e.origins[c]]
      /\ new = [file |-> new.file, origins |-> new.origins, map |-> new.map]
  <2>1. e \in [file: Files, origins: Seq(Nodes \cup {Nobody}), map: Seq(Nat)]
    BY DEF Entry
  <2> DEFINE origins == [c \in DOMAIN e.origins |-> IF c - 1 \in Range(h.map) THEN from ELSE e.origins[c]]
             map == MergeUint64Slices(e.map, h.map)
  <2>2. new = [e EXCEPT !.origins = origins, !.map = map]
    BY DEF mergeOrigins
  <2> HIDE DEF new, origins, map
  <2>3. /\ new.file = e.file /\ new.map = map /\ new.origins = origins
        /\ new = [file |-> new.file, origins |-> new.origins, map |-> new.map]
    BY <2>1, <2>2
  <2> QED BY <2>3 DEF origins, map
<1>4. /\ new.map \in Seq(Nat) /\ Len(new.map) >= Len(e.map)
      /\ Range(new.map) \subseteq Range(e.map) \cup Range(h.map)
      /\ Ascending(e.map) /\ Ascending(h.map) => Ascending(new.map)
  BY <1>1, <1>2, <1>3, MergeType
<1>5. new.origins \in Seq(Nodes \cup {Nobody}) /\ Len(new.origins) = Len(e.origins)
  <2> DEFINE len == Len(e.origins)
  <2>1. DOMAIN e.origins = 1 .. len /\ len \in Nat /\ \A c \in 1 .. len : e.origins[c] \in Nodes \cup {Nobody}
    BY <1>2, RangeType
  <2> HIDE DEF len, new
  <2>2. new.origins \in [1 .. len -> Nodes \cup {Nobody}]
    BY <1>3, <2>1
  <2>3. new.origins \in Seq(Nodes \cup {Nobody}) /\ Len(new.origins) = len
    BY <2>1, <2>2
  <2> QED BY <2>3 DEF len
<1> HIDE DEF new
<1>6. new \in Entry
  BY <1>2, <1>3, <1>4, <1>5 DEF Entry
<1>7. Len(new.map) \in Nat /\ Len(e.map) \in Nat
  BY <1>2, <1>4
<1>8. ASSUME ~Lists(n, e.file)
      PROVE  /\ Len(new.origins) = count
             /\ \/ Len(new.map) > count
                \/ ChunksOf(new) /\ \A c \in Range(new.map) : \E m \in Nodes \ {n} : HasChunk(m, e.file, c)
             /\ FirstChunksFirst => FirstLeads(new)
             /\ Len(e.map) = count => Len(new.map) = count
  <2>1. /\ Len(e.origins) = count
        /\ \/ Len(e.map) > count
           \/ ChunksOf(e) /\ \A c \in Range(e.map) : \E m \in Nodes \ {n} : HasChunk(m, e.file, c)
        /\ FirstChunksFirst => FirstLeads(e)
    BY <1>8 DEF Sound
  <2>2. CASE Len(e.map) > count
    <3>1. Len(new.map) > count
      BY <1>1, <1>4, <1>7, <2>2
    <3>2. ~(Len(new.map) <= count) /\ Len(e.map) # count
      BY <1>1, <1>7, <2>2, <3>1
    <3> QED BY <1>3, <1>5, <2>1, <3>1, <3>2 DEF FirstLeads
  <2>3. CASE ChunksOf(e) /\ \A c \in Range(e.map) : \E m \in Nodes \ {n} : HasChunk(m, e.file, c)
    <3>1. ChunksOf(new)
      BY <1>1, <1>3, <1>4, <2>3 DEF ChunksOf
    <3>2. \A c \in Range(new.map) : \E m \in Nodes \ {n} : HasChunk(m, e.file, c)
      BY <1>1, <1>4, <2>3
    <3>3. Len(new.map) <= count
      BY <1>1, <1>3, <1>4, <3>1, Full DEF ChunksOf
    <3>4. FirstChunksFirst => FirstLeads(new)
      <4>1. SUFFICES ASSUME FirstChunksFirst, count \in Range(new.map)
                     PROVE  new.origins[1] # Nobody /\ HasChunk(new.origins[1], e.file, 1)
        BY <1>3 DEF FirstLeads
      <4>2. count \notin Range(h.map)
        <5>1. \A c \in Range(h.map) : ~(c >= count)
          BY <2>1 DEF OutOfRange
        <5> QED BY <1>1, <5>1
      <4>3. count \in Range(e.map)
        BY <1>4, <4>1, <4>2
      <4>4. Len(e.map) <= count
        BY <1>1, <1>2, <2>3, Full DEF ChunksOf
      <4>5. e.origins[1] # Nobody /\ HasChunk(e.origins[1], e.file, 1)
        BY <2>1, <4>1, <4>3, <4>4 DEF FirstLeads
      <4>6. new.origins[1] = e.origins[1]
        <5>1. 1 \in DOMAIN e.origins
          BY <1>1, <1>2, <2>1
        <5>2. 1 - 1 \notin Range(h.map)
          BY <1>1 DEF ChunksOf
        <5> QED BY <1>3, <5>1, <5>2
      <4> QED BY <4>5, <4>6
    <3>5. Len(e.map) = count => Len(new.map) = count
      BY <1>1, <1>4, <1>7, <3>3
    <3> QED BY <1>5, <2>1, <3>1, <3>2, <3>4, <3>5
  <2> QED BY <2>1, <2>2, <2>3
<1>9. Sound(n, new)
  BY <1>3, <1>8 DEF Sound
<1> QED BY <1>3, <1>6, <1>8, <1>9 DEF new

Collections(n) ==
  {acc \in [list: Seq(Entry), files: Seq(Files), panic: BOOLEAN] : Collection(n, acc.list, acc.files)}

\* A list in which files keep their entries, to which a sound one is put.
LEMMA Listing ==
  ASSUME NEW n \in Nodes, NEW list \in Seq(Entry), NEW files \in Seq(Files), Collection(n, list, files),
         NEW new \in Seq(Entry), \A i \in 1 .. Len(new) : Sound(n, new[i]),
         NEW e \in Entry, NEW result, result.file = e.file, EntryAt(new, e.file) # 0, new[EntryAt(new, e.file)] = e,
         \A f \in Files : IsFound(n, list, f) => IsFound(n, new, f)
  PROVE  WithResult(e, result, files) \in Seq(Files) /\ Collection(n, new, WithResult(e, result, files))
<1>1. \A i \in 1 .. Len(files) : files[i] \in Files /\ IsFound(n, new, files[i])
  BY DEF Collection
<1>2. CASE Len(e.map) = ChunkCount[e.file] /\ ~Contains(files, e.file)
  <2> DEFINE more == Append(files, e.file)
  <2>1. WithResult(e, result, files) = more
    BY <1>2 DEF WithResult
  <2>2. e.file \in Files
    BY DEF Entry
  <2>3. /\ more \in Seq(Files) /\ Len(more) = Len(files) + 1 /\ Len(files) \in Nat
        /\ \A i \in 1 .. Len(files) : more[i] = files[i]
        /\ more[Len(files) + 1] = e.file
        /\ DOMAIN more = 1 .. Len(files) + 1 /\ DOMAIN files = 1 .. Len(files)
    BY <2>2
  <2> HIDE DEF more
  <2>4. IsFound(n, new, e.file)
    BY <1>2 DEF IsFound
  <2>5. ASSUME NEW i \in 1 .. Len(more) PROVE IsFound(n, new, more[i])
    <3>1. i \in 1 .. Len(files) \/ i = Len(files) + 1
      BY <2>3
    <3> QED BY <1>1, <2>3, <2>4, <3>1
  <2>6. ASSUME NEW i \in DOMAIN more, NEW j \in DOMAIN more, i # j
        PROVE  more[i] # more[j] \/ Lists(n, more[i])
    <3>1. \A k \in 1 .. Len(files) : files[k] # e.file
      BY <1>2 DEF Contains
    <3>2. i \in 1 .. Len(files) \/ i = Len(files) + 1
      BY <2>3
    <3>3. j \in 1 .. Len(files) \/ j = Len(files) + 1
      BY <2>3
    <3>4. CASE i \in 1 .. Len(files) /\ j \in 1 .. Len(files)
      BY <2>3, <2>6, <3>4 DEF Collection, NoneTwice
    <3>5. CASE i \in 1 .. Len(files) /\ j = Len(files) + 1
      BY <2>3, <3>1, <3>5
    <3>6. CASE i = Len(files) + 1 /\ j \in 1 .. Len(files)
      BY <2>3, <3>1, <3>6
    <3> QED BY <2>6, <3>2, <3>3, <3>4, <3>5, <3>6
  <2> QED BY <2>1, <2>3, <2>5, <2>6 DEF Collection, NoneTwice
<1>3. CASE ~(Len(e.map) = ChunkCount[e.file] /\ ~Contains(files, e.file))
  <2>1. WithResult(e, result, files) = files
    BY <1>3 DEF WithResult
  <2> QED BY <1>1, <2>1 DEF Collection
<1> QED BY <1>2, <1>3

LEMMA CollectType ==
  ASSUME NEW n \in Nodes, NEW from \in Nodes, from # n, NEW h \in Range(Holds[from]),
         NEW acc \in Collections(n)
  PROVE  Collect(from, acc, h) \in Collections(n)
<1> DEFINE list == acc.list
           i == EntryAt(list, h.file)
<1>1. /\ acc \in [list: Seq(Entry), files: Seq(Files), panic: BOOLEAN]
      /\ Collection(n, list, acc.files)
  BY DEF Collections
<1>2. list \in Seq(Entry) /\ acc.files \in Seq(Files)
  BY <1>1
<1>3. /\ i \in 0 .. Len(list) /\ Len(list) \in Nat
      /\ i # 0 => list[i].file = h.file
      /\ \A j \in 1 .. Len(list) : list[j] \in Entry /\ Sound(n, list[j])
  BY <1>1, <1>2, EntryAtType DEF Collection
<1>4. CASE acc.panic \/ (i # 0 /\ OutOfRange(list[i], h))
  <2>1. Collect(from, acc, h) = [acc EXCEPT !.panic = TRUE]
    BY <1>4 DEF Collect
  <2> DEFINE new == [acc EXCEPT !.panic = TRUE]
  <2>2. new \in [list: Seq(Entry), files: Seq(Files), panic: BOOLEAN] /\ new.list = list /\ new.files = acc.files
    BY <1>1
  <2> HIDE DEF new
  <2>3. new \in Collections(n)
    BY <1>1, <2>2 DEF Collections
  <2> QED BY <2>1, <2>3 DEF new
\* What is left to be shown of an entry and the list with it.
<1>5. ASSUME NEW e \in Entry, e.file = h.file,
             NEW new \in Seq(Entry), \A j \in 1 .. Len(new) : Sound(n, new[j]),
             EntryAt(new, h.file) # 0, new[EntryAt(new, h.file)] = e,
             \A f \in Files : IsFound(n, list, f) => IsFound(n, new, f)
      PROVE  [list |-> new, files |-> WithResult(e, h, acc.files), panic |-> FALSE] \in Collections(n)
  <2> DEFINE files == WithResult(e, h, acc.files)
             all == [list |-> new, files |-> files, panic |-> FALSE]
  <2>1. files \in Seq(Files) /\ Collection(n, new, files)
    BY <1>1, <1>2, <1>5, Listing
  <2> HIDE DEF files
  <2>2. all \in [list: Seq(Entry), files: Seq(Files), panic: BOOLEAN] /\ all.list = new /\ all.files = files
    BY <2>1
  <2> HIDE DEF all
  <2>3. all \in Collections(n)
    BY <2>1, <2>2 DEF Collections
  <2> QED BY <2>3 DEF all, files
<1>6. CASE ~acc.panic /\ i = 0
  <2> DEFINE e == resultToNewMetadata(from, h)
             new == Append(list, e)
  <2>1. e \in Entry /\ e.file = h.file /\ Sound(n, e)
    BY NewEntry
  <2>2. Collect(from, acc, h) = [list |-> new, files |-> WithResult(e, h, acc.files), panic |-> FALSE]
    BY <1>6 DEF Collect
  <2> HIDE DEF e
  <2>3. /\ new \in Seq(Entry) /\ Len(new) = Len(list) + 1 /\ new[Len(list) + 1] = e
        /\ \A j \in 1 .. Len(list) : new[j] = list[j]
    BY <1>2, <2>1, AppendType
  <2>4. EntryAt(new, h.file) = Len(list) + 1
    BY <1>2, <1>6, <2>1, EntryAtAppend
  <2>5. ASSUME NEW f \in Files, IsFound(n, list, f) PROVE IsFound(n, new, f)
    <3>1. EntryAt(list, f) # 0 /\ EntryAt(list, f) \in 1 .. Len(list)
      BY <1>2, <2>5, EntryAtType DEF IsFound
    <3>2. EntryAt(new, f) = EntryAt(list, f)
      BY <1>2, <2>1, <3>1, EntryAtAppend
    <3> QED BY <2>3, <2>5, <3>1, <3>2 DEF IsFound
  <2> HIDE DEF new
  <2>6. ASSUME NEW j \in 1 .. Len(new) PROVE Sound(n, new[j])
    <3>1. j \in 1 .. Len(list) \/ j = Len(list) + 1
      BY <1>3, <2>3
    <3> QED BY <1>3, <2>1, <2>3, <3>1
  <2>7. EntryAt(new, h.file) # 0 /\ new[EntryAt(new, h.file)] = e
    BY <1>3, <2>3, <2>4
  <2> QED BY <1>5, <2>1, <2>2, <2>3, <2>5, <2>6, <2>7
<1>7. CASE ~acc.panic /\ i # 0 /\ ~OutOfRange(list[i], h)
  <2> DEFINE e == mergeOrigins(from, h, list[i])
             new == [list EXCEPT ![i] = e]
  <2>1. i \in 1 .. Len(list) /\ list[i] \in Entry /\ Sound(n, list[i]) /\ list[i].file = h.file
    BY <1>3, <1>7
  <2>2. /\ e \in Entry /\ e.file = h.file /\ Sound(n, e)
        /\ ~Lists(n, h.file) /\ Len(list[i].map) = ChunkCount[h.file] => Len(e.map) = ChunkCount[h.file]
    BY <1>7, <2>1, MergedEntry
  <2>3. Collect(from, acc, h) = [list |-> new, files |-> WithResult(e, h, acc.files), panic |-> FALSE]
    BY <1>7 DEF Collect
  <2> HIDE DEF e, i
  <2>4. /\ new \in Seq(Entry) /\ Len(new) = Len(list) /\ new[i] = e
        /\ \A j \in 1 .. Len(list) : j # i => new[j] = list[j]
    BY <1>2, <2>1, <2>2
  <2>5. \A f : EntryAt(new, f) = EntryAt(list, f)
    BY <1>2, <2>1, <2>2, EntryAtExcept
  <2> HIDE DEF new
  <2>6. EntryAt(new, h.file) # 0 /\ new[EntryAt(new, h.file)] = e
    BY <1>7, <2>4, <2>5 DEF i
  <2>7. ASSUME NEW f \in Files, IsFound(n, list, f) PROVE IsFound(n, new, f)
    <3>1. EntryAt(list, f) # 0 /\ EntryAt(list, f) \in 1 .. Len(list) /\ list[EntryAt(list, f)].file = f
      BY <1>2, <2>7, EntryAtType DEF IsFound
    <3>2. CASE EntryAt(list, f) = i
      BY <2>1, <2>2, <2>4, <2>5, <2>7, <3>1, <3>2 DEF IsFound
    <3>3. CASE EntryAt(list, f) # i
      BY <2>4, <2>5, <2>7, <3>1, <3>3 DEF IsFound
    <3> QED BY <3>2, <3>3
  <2>8. \A j \in 1 .. Len(new) : Sound(n, new[j])
    BY <1>3, <2>1, <2>2, <2>4
  <2> QED BY <1>5, <2>2, <2>3, <2>4, <2>6, <2>7, <2>8
<1> QED BY <1>4, <1>6, <1>7

LEMMA CollectedType ==
  ASSUME NEW n \in Nodes, NEW reply \in Reply, reply.from # n,
         Range(reply.results) \subseteq Range(Holds[reply.from]),
         NEW list \in Seq(Entry), NEW files \in Seq(Files), Collection(n, list, files)
  PROVE  processSearchContent(list, files, reply) \in Collections(n)
<1> DEFINE results == reply.results
           len == Len(results)
           start == [list |-> list, files |-> files, panic |-> FALSE]
           A == Collections(n)
           step(acc, i) == Collect(reply.from, acc, results[i])
           F == [p \in A \X (1 .. len) |-> step(p[1], p[2])]
           Is(g) == g = [i \in 0 .. len |-> IF i = 0 THEN start ELSE step(g[i - 1], i)]
<1>1. reply.from \in Nodes /\ results \in Seq(Held) /\ len \in Nat
  BY DEF Reply
<1>2. start \in A
  <2>1. start \in [list: Seq(Entry), files: Seq(Files), panic: BOOLEAN] /\ start.list = list /\ start.files = files
    OBVIOUS
  <2> HIDE DEF start
  <2> QED BY <2>1 DEF Collections
<1>3. ASSUME NEW acc \in A, NEW i \in 1 .. len PROVE step(acc, i) \in A
  <2>1. results[i] \in Range(results)
    BY <1>1, RangeType
  <2>2. results[i] \in Range(Holds[reply.from])
    BY <2>1
  <2> QED BY <1>1, <2>2, CollectType
<1>4. \A acc \in A, i \in 1 .. len : F[<<acc, i>>] = step(acc, i)
  OBVIOUS
<1> HIDE DEF F, step, A, start, len
<1>5. ASSUME NEW g, g[0] = start, \A i \in 1 .. len : g[i - 1] \in A => g[i] = step(g[i - 1], i)
      PROVE  \A i \in 0 .. len : g[i] \in A
  <2> DEFINE S == {i \in 0 .. len : g[i] \in A}
  <2>1. 0 \in S
    BY <1>1, <1>2, <1>5
  <2>2. ASSUME NEW i \in 1 .. len, i - 1 \in S PROVE i \in S
    BY <1>1, <1>3, <1>5, <2>2
  <2> HIDE DEF S
  <2>3. \A i \in 0 .. len : i \in S
    BY <1>1, <2>1, <2>2, Climbs
  <2> QED BY <2>3 DEF S
<1>6. \E g : Is(g)
  <2>1. PICK g : Unfolds(g, len, start, F)
    BY <1>1, Recursion
  <2>2. g[0] = start /\ \A i \in 1 .. len : g[i] = F[<<g[i - 1], i>>]
    BY <1>1, <2>1 DEF Unfolds
  <2>3. \A i \in 0 .. len : g[i] \in A
    BY <1>4, <1>5, <2>2
  <2>4. ASSUME NEW i \in 0 .. len PROVE g[i] = IF i = 0 THEN start ELSE step(g[i - 1], i)
    <3>1. CASE i = 0
      BY <2>2, <3>1
    <3>2. CASE i # 0
      <4>1. i - 1 \in 0 .. len /\ i \in 1 .. len
        BY <1>1, <3>2
      <4> QED BY <1>4, <2>2, <2>3, <3>2, <4>1
    <3> QED BY <3>1, <3>2
  <2>5. g = [i \in 0 .. len |-> g[i]]
    BY <2>1 DEF Unfolds
  <2>6. Is(g)
    BY <2>4, <2>5
  <2> HIDE DEF Is
  <2> QED BY <2>6
<1> DEFINE f == CHOOSE g : Is(g)
<1>7. Is(f)
  <2> HIDE DEF Is
  <2> QED BY <1>6
<1>8. processSearchContent(list, files, reply) = f[len]
  BY DEF processSearchContent, step, start, len
<1> HIDE DEF f
<1>9. f[0] = start /\ \A i \in 1 .. len : f[i] = step(f[i - 1], i)
  <2>1. 0 \in 0 .. len /\ \A i \in 1 .. len : i \in 0 .. len /\ i # 0
    BY <1>1
  <2> QED BY <1>7, <2>1
<1>10. f[len] \in A
  BY <1>1, <1>5, <1>9
<1> QED BY <1>8, <1>10 DEF A

-----------------------------------------------------------------------------

LEMMA ConcatType ==
  ASSUME NEW S, NEW q \in Seq(S), NEW r \in Seq(S)
  PROVE  /\ q \o r \in Seq(S) /\ Len(q \o r) = Len(q) + Len(r)
         /\ \A i \in 1 .. Len(q) : (q \o r)[i] = q[i]
         /\ \A i \in 1 .. Len(q \o r) : i > Len(q) => (q \o r)[i] = r[i - Len(q)] /\ i - Len(q) \in 1 .. Len(r)
OBVIOUS

LEMMA ExpandedType ==
  ASSUME NEW held \in Seq(Held)
  PROVE  /\ Expanded(held) \in Seq(Entry) /\ Len(Expanded(held)) = Len(held)
         /\ \A i \in 1 .. Len(held) :
              /\ Expanded(held)[i].file = held[i].file /\ Expanded(held)[i].map = held[i].map
              /\ Len(Expanded(held)[i].origins) = ChunkCount[held[i].file]
              /\ Expanded(held)[i].origins[1] = held[i].origins[1]
<1> DEFINE all == Expanded(held)
           len == Len(held)
<1>1. len \in Nat /\ DOMAIN held = 1 .. len /\ \A i \in 1 .. len : held[i] \in Held
  OBVIOUS
<1>2. ASSUME NEW i \in 1 .. len
      PROVE  /\ all[i] \in Entry /\ all[i].file = held[i].file /\ all[i].map = held[i].map
             /\ Len(all[i].origins) = ChunkCount[held[i].file] /\ all[i].origins[1] = held[i].origins[1]
  <2> DEFINE h == held[i]
             count == ChunkCount[h.file]
             width == Len(h.origins)
             origins == [c \in 1 .. count |-> h.origins[((c - 1) % width) + 1]]
  <2>1. /\ h.file \in Files /\ h.map \in Seq(Nat) /\ h.origins \in Seq(Nodes \cup {Nobody}) /\ h.origins # <<>>
        /\ count \in Nat \ {0}
    BY <1>1, FilesAssumption DEF Held
  <2>2. all[i] = [file |-> h.file, map |-> h.map, origins |-> origins]
    BY <1>1 DEF Expanded
  <2>3. width \in Nat \ {0} /\ \A k \in 1 .. width : h.origins[k] \in Nodes \cup {Nobody}
    <3> DEFINE os == h.origins
    <3>1. os \in Seq(Nodes \cup {Nobody}) /\ os # <<>>
      BY <2>1
    <3> HIDE DEF os
    <3>2. Len(os) \in Nat \ {0} /\ \A k \in 1 .. Len(os) : os[k] \in Nodes \cup {Nobody}
      BY <3>1
    <3> QED BY <3>2 DEF os
  <2> HIDE DEF width, count
  <2>4. ASSUME NEW c \in 1 .. count PROVE h.origins[((c - 1) % width) + 1] \in Nodes \cup {Nobody}
    <3>1. c - 1 \in Nat
      BY <2>1
    <3>2. ((c - 1) % width) + 1 \in 1 .. width
      BY <2>3, <3>1, Around
    <3> QED BY <2>3, <3>2
  <2>5. origins \in [1 .. count -> Nodes \cup {Nobody}]
    BY <2>4
  <2>6. origins[1] = h.origins[1]
    <3>1. 1 \in 1 .. count /\ ((1 - 1) % width) + 1 = 1
      BY <2>1, <2>3
    <3> QED BY <3>1
  <2> HIDE DEF origins
  <2>7. origins \in Seq(Nodes \cup {Nobody}) /\ Len(origins) = count
    BY <2>1, <2>5
  <2> QED BY <2>1, <2>2, <2>6, <2>7 DEF Entry, count
<1>3. all = [i \in 1 .. len |-> all[i]]
  BY <1>1 DEF Expanded
<1> HIDE DEF all, len
<1>4. all \in [1 .. len -> Entry]
  BY <1>2, <1>3
<1>5. all \in Seq(Entry) /\ Len(all) = len
  BY <1>1, <1>4
<1> QED BY <1>2, <1>5 DEF all, len

\* What a round starts with: the files of the node, and those it downloads.
LEMMA RoundType ==
  ASSUME NEW n \in Nodes, NEW k \in Keywords
  PROVE  LET local == Found(Holds[n], k)
             list == Expanded(local \o Found(Fetching[n], k))
         IN  /\ list \in Seq(Entry) /\ FilesOf(local) \in Seq(Files)
             /\ Collection(n, list, FilesOf(local))
<1> DEFINE local == Found(Holds[n], k)
           more == Found(Fetching[n], k)
           held == local \o more
           list == Expanded(held)
           files == FilesOf(local)
<1>1. /\ local \in Seq(Held) /\ local \in Seq(Range(Holds[n]))
      /\ more \in Seq(Held) /\ more \in Seq(Range(Fetching[n]))
  BY FilesAssumption, FoundType, InRange
<1> HIDE DEF local, more
<1>2. /\ \A i \in 1 .. Len(local) : local[i] \in Held /\ local[i] \in Range(Holds[n])
      /\ \A i \in 1 .. Len(more) : more[i] \in Held /\ more[i] \in Range(Fetching[n])
      /\ Len(local) \in Nat /\ Len(more) \in Nat /\ DOMAIN local = 1 .. Len(local)
  BY <1>1
<1>3. /\ held \in Seq(Held) /\ Len(held) = Len(local) + Len(more)
      /\ \A i \in 1 .. Len(local) : held[i] = local[i]
      /\ \A i \in 1 .. Len(held) : i > Len(local) => held[i] = more[i - Len(local)] /\ i - Len(local) \in 1 .. Len(more)
  BY <1>1, ConcatType
<1> HIDE DEF held
<1>4. /\ list \in Seq(Entry) /\ Len(list) = Len(held)
      /\ \A i \in 1 .. Len(held) :
           /\ list[i].file = held[i].file /\ list[i].map = held[i].map
           /\ Len(list[i].origins) = ChunkCount[held[i].file]
           /\ list[i].origins[1] = held[i].origins[1]
  BY <1>3, ExpandedType
<1> HIDE DEF list
<1>5. /\ files \in Seq(Files) /\ Len(files) = Len(local) /\ DOMAIN files = 1 .. Len(local)
      /\ \A i \in 1 .. Len(local) : files[i] = local[i].file /\ Lists(n, files[i])
  <2>1. files = [i \in 1 .. Len(local) |-> local[i].file]
    BY <1>2 DEF FilesOf
  <2>2. \A i \in 1 .. Len(local) : local[i].file \in Files /\ Lists(n, local[i].file)
    BY <1>2 DEF Held, Lists
  <2> HIDE DEF files
  <2>3. files \in [1 .. Len(local) -> Files]
    BY <2>1, <2>2
  <2> QED BY <1>2, <2>1, <2>2, <2>3
<1> HIDE DEF files
<1>6. ASSUME NEW i \in 1 .. Len(list) PROVE Sound(n, list[i])
  <2>1. SUFFICES ASSUME ~Lists(n, list[i].file) PROVE Sound(n, list[i])
    BY DEF Sound
  <2>2. i > Len(local)
    <3>1. SUFFICES ASSUME i \in 1 .. Len(local) PROVE FALSE
      BY <1>2
    <3>2. list[i].file = local[i].file
      BY <1>3, <1>4, <3>1
    <3> QED BY <1>5, <2>1, <3>1, <3>2
  <2> DEFINE h == more[i - Len(local)]
  <2>3. h \in Held /\ h \in Range(Fetching[n]) /\ held[i] = h
    BY <1>2, <1>3, <1>4, <2>2
  <2> HIDE DEF h
  <2>4. /\ list[i].file = h.file /\ list[i].map = h.map /\ Len(list[i].origins) = ChunkCount[h.file]
        /\ list[i].origins[1] = h.origins[1]
    BY <1>4, <2>3
  <2>5. h.file \in Files /\ ChunkCount[h.file] \in Nat
    BY <2>3, FilesAssumption DEF Held
  <2>6. /\ h.map = [c \in 1 .. ChunkCount[h.file] |-> c] \/ Len(h.map) > ChunkCount[h.file]
        /\ \A c \in 1 .. ChunkCount[h.file] : \E m \in Nodes \ {n} : HasChunk(m, h.file, c)
    BY <2>1, <2>3, <2>4, MapsAssumption
  <2>7. FirstChunksFirst => FirstLeads(list[i])
    BY <2>1, <2>3, <2>4 DEF FirstChunksFirst, FirstLeads
  <2>8. CASE h.map = [c \in 1 .. ChunkCount[h.file] |-> c]
    <3>1. Range(h.map) = 1 .. ChunkCount[h.file] /\ Ascending(h.map)
      BY <2>5, <2>8 DEF Range, Ascending
    <3> QED BY <2>4, <2>6, <2>7, <3>1 DEF Sound, ChunksOf
  <2>9. CASE Len(h.map) > ChunkCount[h.file]
    BY <2>4, <2>7, <2>9 DEF Sound
  <2> QED BY <2>6, <2>8, <2>9
<1>7. ASSUME NEW i \in 1 .. Len(files) PROVE IsFound(n, list, files[i])
  <2>1. i \in 1 .. Len(local) /\ i \in 1 .. Len(list) /\ list[i].file = files[i]
    <3>1. i \in 1 .. Len(local)
      BY <1>5
    <3>2. i \in 1 .. Len(held)
      BY <1>2, <1>3, <3>1
    <3>3. list[i].file = local[i].file
      BY <1>3, <1>4, <3>1, <3>2
    <3> QED BY <1>4, <1>5, <3>1, <3>2, <3>3
  <2>2. EntryAt(list, files[i]) # 0
    BY <1>4, <2>1, EntryAtType
  <2> QED BY <1>5, <2>1, <2>2 DEF IsFound
<1>8. NoneTwice(n, files)
  BY <1>5 DEF NoneTwice
<1>9. Collection(n, list, files)
  BY <1>6, <1>7, <1>8 DEF Collection
<1> QED BY <1>4, <1>5, <1>9 DEF list, files, held, local, more

-----------------------------------------------------------------------------
(* The inductive invariant: what the lists of a search say is sound.       *)
SearchInv == TypeOK /\ \A s \in Searches : Collection(Searcher[s], aux[s], valid[s])

\* Its part that is not about budgets.
FoundInv ==
  /\ \A m \in replies :
       /\ m \in Reply
       /\ m.to # m.from /\ m.results # <<>> /\ Range(m.results) \subseteq Range(Holds[m.from])
  /\ recent \in [Nodes -> SUBSET Keywords]
  /\ handing \in [Nodes -> replies \cup {Nobody}]
  /\ \A n \in Nodes : handing[n] # Nobody => handing[n].to = n
  /\ searchList \in [Nodes -> SUBSET Entry]
  /\ crashed \subseteq Nodes
  /\ aux \in [Searches -> Seq(Entry)]
  /\ valid \in [Searches -> Seq(Files)]
  /\ \A s \in Searches : Collection(Searcher[s], aux[s], valid[s])
  /\ nextFetch \in [Searches -> Nat \ {0}]

LEMMA SearchParts == SearchInv <=> BudgetInv /\ FoundInv
BY DEF SearchInv, TypeOK, BudgetInv, FoundInv, Budget, Collection

LEMMA FoundInit == Init => FoundInv
<1> SUFFICES ASSUME Init PROVE FoundInv
  OBVIOUS
<1>1. /\ Len(<<>>) = 0 /\ 1 .. 0 = {} /\ DOMAIN <<>> = 1 .. 0 /\ 1 \in Nat \ {0}
      /\ <<>> \in Seq(Entry) /\ <<>> \in Seq(Files)
  OBVIOUS
<1>2. \A n : Collection(n, <<>>, <<>>)
  BY <1>1 DEF Collection, NoneTwice
<1> QED BY <1>1, <1>2 DEF Init, FoundInv

LEMMA EntryOfType ==
  ASSUME FoundInv, NEW s \in Searches, NEW f \in Range(valid[s])
  PROVE  /\ EntryOf(s, f) \in Entry /\ EntryOf(s, f).file = f /\ f \in Files
         /\ Sound(Searcher[s], EntryOf(s, f)) /\ IsFound(Searcher[s], aux[s], f)
<1>1. aux[s] \in Seq(Entry) /\ valid[s] \in Seq(Files) /\ Collection(Searcher[s], aux[s], valid[s])
  BY DEF FoundInv
<1>2. PICK i \in 1 .. Len(valid[s]) : f = valid[s][i]
  BY <1>1, RangeType
<1>3. f \in Files /\ IsFound(Searcher[s], aux[s], f)
  BY <1>1, <1>2 DEF Collection
<1>4. EntryAt(aux[s], f) \in 1 .. Len(aux[s]) /\ aux[s][EntryAt(aux[s], f)].file = f
  BY <1>1, <1>3, EntryAtType DEF IsFound
<1>5. aux[s][EntryAt(aux[s], f)] \in Entry /\ Sound(Searcher[s], aux[s][EntryAt(aux[s], f)])
  BY <1>1, <1>4 DEF Collection
<1> QED BY <1>3, <1>4, <1>5 DEF EntryOf

\* What the steps that collect results leave to be shown.
LEMMA Collecting ==
  ASSUME FoundInv, NEW s \in Searches, NEW list \in Seq(Entry), NEW files \in Seq(Files),
         Collection(Searcher[s], list, files),
         aux' = [aux EXCEPT ![s] = list], valid' = [valid EXCEPT ![s] = files],
         UNCHANGED <<replies, recent, searchList, crashed, nextFetch>>,
         handing' = handing \/ \E n \in Nodes : handing' = [handing EXCEPT ![n] = Nobody]
  PROVE  FoundInv'
<1>1. aux' \in [Searches -> Seq(Entry)] /\ valid' \in [Searches -> Seq(Files)]
  BY DEF FoundInv
<1>2. ASSUME NEW t \in Searches PROVE Collection(Searcher[t], aux'[t], valid'[t])
  <2>1. CASE t = s
    <3>1. aux'[t] = list /\ valid'[t] = files
      BY <2>1 DEF FoundInv
    <3> QED BY <2>1, <3>1
  <2>2. CASE t # s
    <3>1. aux'[t] = aux[t] /\ valid'[t] = valid[t]
      BY <2>2 DEF FoundInv
    <3> QED BY <3>1 DEF FoundInv
  <2> QED BY <2>1, <2>2
<1>3. handing' \in [Nodes -> replies \cup {Nobody}] /\ \A n \in Nodes : handing'[n] # Nobody => handing'[n].to = n
  BY DEF FoundInv
<1> QED BY <1>1, <1>2, <1>3 DEF FoundInv

LEMMA FoundNext == BudgetInv /\ FoundInv /\ [Next]_vars => FoundInv'
<1> SUFFICES ASSUME BudgetInv, FoundInv, [Next]_vars PROVE FoundInv'
  OBVIOUS
<1>1. CASE UNCHANGED <<replies, recent, handing, searchList, crashed, aux, valid, nextFetch>>
  BY <1>1 DEF FoundInv
<1>2. ASSUME NEW s \in Searches, NEW b \in StartBudgets[s], StartSearch(s, b) PROVE FoundInv'
  BY <1>1, <1>2 DEF StartSearch
<1>3. ASSUME NEW s \in Searches, StartRound(s) PROVE FoundInv'
  <2> DEFINE n == Searcher[s]
             local == Found(Holds[n], Wanted[s])
             list == Expanded(local \o Found(Fetching[n], Wanted[s]))
  <2>1. n \in Nodes /\ Wanted[s] \in Keywords
    BY SearchesAssumption
  <2>2. list \in Seq(Entry) /\ FilesOf(local) \in Seq(Files) /\ Collection(n, list, FilesOf(local))
    BY <2>1, RoundType
  <2>3. /\ aux' = [aux EXCEPT ![s] = list] /\ valid' = [valid EXCEPT ![s] = FilesOf(local)]
        /\ UNCHANGED <<replies, recent, handing, searchList, crashed, nextFetch>>
    BY <1>3 DEF StartRound
  <2> QED BY <2>2, <2>3, Collecting
<1>4. ASSUME NEW s \in Searches, TimerExpires(s) \/ EndRound(s) \/ FetchMetaFile(s) PROVE FoundInv'
  BY <1>1, <1>4 DEF TimerExpires, EndRound, FetchMetaFile
<1>5. ASSUME NEW s \in Searches, FinishSearch(s) PROVE FoundInv'
  <2>1. {EntryOf(s, f) : f \in Range(valid[s])} \subseteq Entry
    BY EntryOfType
  <2>2. searchList' \in [Nodes -> SUBSET Entry]
    BY <1>5, <2>1 DEF FinishSearch, FoundInv
  <2> QED BY <1>5, <2>2 DEF FinishSearch, FoundInv
<1>6. ASSUME NEW s \in Searches, TakeReply(s) PROVE FoundInv'
  <2> DEFINE n == Searcher[s]
             reply == handing[n]
             collected == processSearchContent(aux[s], valid[s], reply)
  <2>1. n \in Nodes
    BY SearchesAssumption
  <2>2. handing' = [handing EXCEPT ![n] = Nobody] /\ UNCHANGED <<replies, recent, searchList, nextFetch>>
    BY <1>6 DEF TakeReply
  <2>3. CASE crashed' \subseteq Nodes /\ UNCHANGED <<aux, valid>>
    BY <2>1, <2>2, <2>3 DEF FoundInv
  <2>4. CASE /\ UNCHANGED crashed
             /\ aux' = [aux EXCEPT ![s] = collected.list] /\ valid' = [valid EXCEPT ![s] = collected.files]
    <3>1. reply # Nobody
      BY <1>6 DEF TakeReply
    <3>2. reply \in replies /\ reply.to = n
      BY <2>1, <3>1 DEF FoundInv
    <3>3. /\ reply \in Reply /\ reply.from # n
          /\ Range(reply.results) \subseteq Range(Holds[reply.from])
      BY <3>2 DEF FoundInv
    <3>4. aux[s] \in Seq(Entry) /\ valid[s] \in Seq(Files) /\ Collection(n, aux[s], valid[s])
      BY DEF FoundInv
    <3>5. collected \in Collections(n)
      BY <2>1, <3>3, <3>4, CollectedType
    <3> HIDE DEF collected
    <3>6. collected.list \in Seq(Entry) /\ collected.files \in Seq(Files) /\ Collection(n, collected.list, collected.files)
      BY <3>5 DEF Collections
    <3> QED BY <2>1, <2>2, <2>4, <3>6, Collecting
  <2>5. crashed' \subseteq Nodes
    BY <1>6, <2>1 DEF TakeReply, FoundInv
  <2> QED BY <1>6, <2>3, <2>4, <2>5 DEF TakeReply
<1>7. ASSUME NEW s \in Searches, ReceiveMetaFile(s) PROVE FoundInv'
  <2>1. nextFetch[s] + 1 \in Nat \ {0}
    <3>1. \A k \in Nat \ {0} : k + 1 \in Nat \ {0}
      OBVIOUS
    <3> QED BY <3>1 DEF FoundInv
  <2>2. nextFetch' \in [Searches -> Nat \ {0}]
    BY <1>7, <2>1 DEF ReceiveMetaFile, FoundInv
  <2>3. UNCHANGED <<replies, recent, handing, searchList, crashed, aux, valid>>
    BY <1>7 DEF ReceiveMetaFile
  <2> QED BY <2>2, <2>3 DEF FoundInv
<1>8. ASSUME NEW m \in requests, ReceiveRequest(m) PROVE FoundInv'
  <2> DEFINE local == Found(Holds[m.to], m.keywords)
             reply == [to |-> m.origin, from |-> m.to, results |-> local]
  <2>1. m.to \in Nodes /\ m.origin \in Nodes /\ m.keywords \in Keywords
    BY DEF BudgetInv, Request
  <2>2. /\ UNCHANGED <<handing, searchList, crashed, aux, valid, nextFetch>>
        /\ recent' = [recent EXCEPT ![m.to] = @ \cup {m.keywords}]
        /\ replies' = replies \cup (IF local # <<>> /\ m.origin \in Routed[m.to] THEN {reply} ELSE {})
    BY <1>8 DEF ReceiveRequest, search
  <2>3. local \in Seq(Held) /\ Range(local) \subseteq Range(Holds[m.to])
    BY <2>1, FilesAssumption, FoundType, InRange, RangeType
  <2> HIDE DEF local
  <2>4. /\ reply \in Reply /\ reply.to = m.origin /\ reply.from = m.to /\ reply.results = local
        /\ m.origin \in Routed[m.to] => m.origin # m.to
    BY <2>1, <2>3, NodesAssumption DEF Reply
  <2> HIDE DEF reply
  <2>5. \A r \in replies' :
          /\ r \in Reply
          /\ r.to # r.from /\ r.results # <<>> /\ Range(r.results) \subseteq Range(Holds[r.from])
    BY <2>2, <2>3, <2>4 DEF FoundInv
  <2>6. recent' \in [Nodes -> SUBSET Keywords]
    BY <2>1, <2>2 DEF FoundInv
  <2>7. handing' \in [Nodes -> replies' \cup {Nobody}]
    BY <2>2 DEF FoundInv
  <2> QED BY <2>2, <2>5, <2>6, <2>7 DEF FoundInv
<1>9. ASSUME NEW n \in Nodes, NEW k \in Keywords, Forget(n, k) PROVE FoundInv'
  BY <1>9 DEF Forget, search, FoundInv
<1>10. ASSUME NEW m \in replies, ReceiveReply(m) PROVE FoundInv'
  BY <1>10 DEF ReceiveReply, search, FoundInv
<1>11. CASE UNCHANGED vars
  BY <1>1, <1>11 DEF vars, search
<1> QED BY <1>2, <1>3, <1>4, <1>5, <1>6, <1>7, <1>8, <1>9, <1>10, <1>11 DEF Next, Step

LEMMA SearchInvariant == Spec => []SearchInv
<1>1. Init => SearchInv
  BY InvInit, FoundInit, SearchParts
<1>2. SearchInv /\ [Next]_vars => SearchInv'
  <2>1. SearchInv /\ [Next]_vars => BudgetInv' /\ FoundInv'
    BY InvNext, FoundNext, SearchParts
  <2>2. BudgetInv' /\ FoundInv' => SearchInv'
    BY DEF SearchInv, TypeOK, BudgetInv, FoundInv, Budget, Collection
  <2> QED BY <2>1, <2>2
<1> QED BY <1>1, <1>2, PTL DEF Spec

(* The types of TypeOK; a reply comes from a node that has what it says,   *)
(* and only a file that metaDataList has twice is found twice              *)
(* (searchFileLocally, processSearchContent).                              *)
THEOREM TypeCorrect == Spec => []TypeOK
<1>1. SearchInv => TypeOK
  BY DEF SearchInv
<1> QED BY <1>1, SearchInvariant, PTL

LEMMA CompleteEntry ==
  ASSUME SearchInv, NEW s \in Searches, NEW f \in Range(valid[s]), ~Lists(Searcher[s], f)
  PROVE  /\ EntryOf(s, f).file = f /\ ChunkCount[f] \in Nat \ {0}
         /\ EntryOf(s, f).map = [c \in 1 .. ChunkCount[f] |-> c]
         /\ Len(EntryOf(s, f).map) = ChunkCount[f]
         /\ \A c \in 1 .. ChunkCount[f] : \E n \in Nodes \ {Searcher[s]} : HasChunk(n, f, c)
         /\ FirstChunksFirst => FirstLeads(EntryOf(s, f))
<1> DEFINE e == EntryOf(s, f)
           count == ChunkCount[f]
<1>1. e \in Entry /\ e.file = f /\ f \in Files /\ Sound(Searcher[s], e) /\ IsFound(Searcher[s], aux[s], f)
  BY EntryOfType, SearchParts
<1>2. Len(e.map) = count
  BY <1>1 DEF IsFound, EntryOf
<1> HIDE DEF e
<1>3. count \in Nat \ {0} /\ e.map \in Seq(Nat)
  BY <1>1, FilesAssumption DEF Entry
<1>4. /\ ChunksOf(e) /\ \A c \in Range(e.map) : \E n \in Nodes \ {Searcher[s]} : HasChunk(n, f, c)
      /\ FirstChunksFirst => FirstLeads(e)
  <2>1. ~(Len(e.map) > count)
    BY <1>2, <1>3
  <2> QED BY <1>1, <2>1 DEF Sound
<1>5. e.map = [c \in 1 .. count |-> c]
  BY <1>1, <1>2, <1>3, <1>4, Full DEF ChunksOf
<1>6. Range(e.map) = 1 .. count
  BY <1>5 DEF Range
<1> QED BY <1>1, <1>2, <1>3, <1>4, <1>5, <1>6 DEF e

(* Whatever replies of whichever nodes it is put together from, in any     *)
(* order and as often as they arrive, a file that is found by the number   *)
(* of its chunks has each of them once, in order, and every chunk is with  *)
(* another node (processSearchContent, mergeOrigins, MergeUint64Slices).   *)
THEOREM FoundWhole == Spec => []FoundIsWhole
<1>1. SearchInv => FoundIsWhole
  BY CompleteEntry DEF FoundIsWhole
<1> QED BY <1>1, SearchInvariant, PTL

(* The node that a result's metafile is asked of has its first chunk, if   *)
(* whoever has the last chunk of a file has its first: mergeOrigins stores *)
(* no origin at the first place, and refuses the last chunk.               *)
THEOREM FirstOriginCorrect ==
  ASSUME FirstChunksFirst
  PROVE  Spec => []FirstOriginServes
<1>1. SearchInv => FirstOriginServes
  <2> SUFFICES ASSUME SearchInv, NEW s \in Searches, NEW f \in Range(valid[s]), ~Lists(Searcher[s], f)
               PROVE  EntryOf(s, f).origins[1] # Nobody /\ HasChunk(EntryOf(s, f).origins[1], f, 1)
    BY DEF FirstOriginServes
  <2> DEFINE e == EntryOf(s, f)
  <2>1. /\ e.file = f /\ ChunkCount[f] \in Nat \ {0} /\ e.map = [c \in 1 .. ChunkCount[f] |-> c]
        /\ Len(e.map) = ChunkCount[f] /\ FirstLeads(e)
    BY CompleteEntry
  <2> HIDE DEF e
  <2>2. ChunkCount[f] \in Range(e.map) /\ Len(e.map) <= ChunkCount[f]
    BY <2>1 DEF Range
  <2> QED BY <2>1, <2>2 DEF FirstLeads, e
<1> QED BY <1>1, SearchInvariant, PTL

=============================================================================
