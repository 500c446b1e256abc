------------------------------ MODULE MCGossip ------------------------------
(* Instances of Gossip for TLC.                                            *)
EXTENDS Gossip, TLC

CONSTANTS a, b, c

\* a - b - c: what a says reaches c through b only, unless c is told of a.
Line == [n \in Nodes |-> IF n = b THEN Nodes \ {b} ELSE {b}]

\* c polls b, b polls a, and a is told of nobody.
Chain == [n \in Nodes |-> IF n = c THEN {b} ELSE IF n = b THEN {a} ELSE {}]

\* A user tells c of a, which closes the triangle.
Shortcut == {<<c, a>>}

\* What is said does not matter, only who said it and when.
TextSymmetry == Permutations(Texts)

=============================================================================
