---------------------------- MODULE MCFileSearch ----------------------------
(* Instances of FileSearch for TLC.                                        *)
EXTENDS FileSearch, TLC

CONSTANTS a, b, c, d, f, g, j, s, t

\* a searches, its peers know nobody else.
Star == a :> <<b, c>> @@ b :> <<a>> @@ c :> <<a>>

\* Every node is started with the next one for its only peer.
Ring == a :> <<b>> @@ b :> <<c>> @@ c :> <<d>> @@ d :> <<a>>

Known == a :> {b, c} @@ b :> {a} @@ c :> {a}

Two == f :> 2 @@ g :> 1

Whole(file, n) == [file |-> file, map |-> [i \in 1 .. Two[file] |-> i], origins |-> <<n>>]

Part(n) == [file |-> f, map |-> <<1>>, origins |-> <<n>>]

\* c has both files, b is downloading one of them from c.
Shared == a :> <<>> @@ b :> <<Part(c)>> @@ c :> <<Whole(f, c), Whole(g, c)>>

Nothing == [n \in Nodes |-> <<>>]

\* j is in the names of both files.
Names == {<<j, f>>, <<j, g>>}

Unknown == [n \in Nodes |-> {}]

AtA == [x \in Searches |-> a]

ByJ == [x \in Searches |-> j]

\* Two rounds, or rounds without end, for 8 doubles to 0; and one round that is
\* passed on by a peer.
Budgets == s :> {2, 8} @@ t :> {4}

Three == s :> {3}

\* What FirstOriginServes needs of the files at hand.
ASSUME InstanceFirst == FirstChunksFirst

=============================================================================
