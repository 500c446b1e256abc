----------------------------- MODULE MCDelivery -----------------------------
(* Instances of Delivery for TLC.                                          *)
EXTENDS Delivery, TLC

CONSTANTS a, b, c

\* a - b - c, and a user closes the triangle.
Line == [n \in Nodes |-> IF n = b THEN Nodes \ {b} ELSE {b}]

Shortcut == {<<c, a>>}

=============================================================================
