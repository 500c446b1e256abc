----------------------------- MODULE MCFlooding -----------------------------
(* Instances of Flooding for TLC.                                          *)
EXTENDS Flooding

CONSTANTS a, b, c, d

\* A triangle and a node behind it: c hears of what a sends from b, too.
Kite == a :> {b, c} @@ b :> {a, c} @@ c :> {a, b, d} @@ d :> {c}

=============================================================================
