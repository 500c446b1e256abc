------------------------------ MODULE RumorLog ------------------------------
(***************************************************************************)
(* What rumor gossiping promises, without packets, clocks or peers: every  *)
(* origin keeps an append-only log of what its clients said, and every     *)
(* other node learns that log one entry at a time, in order, without gaps  *)
(* and without alteration.                                                 *)
(***************************************************************************)
EXTENDS Naturals, Sequences

CONSTANTS Nodes, Texts

VARIABLE log    \* log[n][o]: what n knows of the log of o

TypeOK == log \in [Nodes -> [Nodes -> Seq(Texts)]]

Init == log = [n \in Nodes |-> [o \in Nodes |-> <<>>]]

\* A client of o speaks.
Publish(o, t) == log' = [log EXCEPT ![o][o] = Append(@, t)]

\* n learns the next entry of o's log.
Learn(n, o) ==
  LET next == Len(log[n][o]) + 1
  IN  /\ next <= Len(log[o][o])
      /\ log' = [log EXCEPT ![n][o] = Append(@, log[o][o][next])]

Next ==
  \/ \E o \in Nodes, t \in Texts : Publish(o, t)
  \/ \E n, o \in Nodes : Learn(n, o)

Spec == Init /\ [][Next]_log

=============================================================================
