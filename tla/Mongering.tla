------------------------------ MODULE Mongering ------------------------------
(***************************************************************************)
(* The goroutines of RumorMonger at one node (gossiper/gossip.go), for one *)
(* rumor: how they share channelsListening with the listener that signals  *)
(* an acknowledgement.  Gossip takes a whole run of RumorMonger as one     *)
(* step; here every section that holds gsspr.mutex is a step.              *)
(*                                                                         *)
(* With the rumor fixed, the key of channelsListening is the destination.  *)
(* A goroutine stands for the channel it makes.  The mutex itself is not a *)
(* variable: nothing blocks while it is held.                              *)
(***************************************************************************)
EXTENDS Naturals, FiniteSets

CONSTANTS
  Peers,       \* destinations
  Goroutines,  \* bound: the runs of RumorMonger that may be under way
  None         \* a missing key, or no destination

ASSUME NoneAssumption == None \notin Peers /\ None \notin Goroutines

VARIABLES
  channelsListening,  \* channelsListening[p]: whose channel is registered
  closed,             \* the goroutines whose channel is closed
  dest,               \* dest[g]: the destPeer of g
  pc                  \* pc[g]: what g does next

vars == <<channelsListening, closed, dest, pc>>

Labels == {"idle", "look", "register", "wait", "acked", "expired", "flip"}

TypeOK ==
  /\ channelsListening \in [Peers -> Goroutines \cup {None}]
  /\ closed \subseteq Goroutines
  /\ dest \in [Goroutines -> Peers \cup {None}]
  /\ pc \in [Goroutines -> Labels]

Init ==
  /\ channelsListening = [p \in Peers |-> None]
  /\ closed = {}
  /\ dest = [g \in Goroutines |-> None]
  /\ pc = [g \in Goroutines |-> "idle"]

Goto(g, from, to) == pc[g] = from /\ pc' = [pc EXCEPT ![g] = to]

\* The goroutine is over; its name may be used for another.
Return(g, from) == Goto(g, from, "idle") /\ dest' = [dest EXCEPT ![g] = None]

-----------------------------------------------------------------------------
(* RumorMonger.                                                            *)

\* A client, the route rumor timer or a status that lacks the rumor calls
\* RumorMonger, which sends the rumor and makes a channel.
Call(g, p) ==
  /\ Goto(g, "idle", "look")
  /\ dest' = [dest EXCEPT ![g] = p]
  /\ closed' = closed \ {g}
  /\ UNCHANGED channelsListening

\* The first section: is anybody waiting for the same acknowledgement?
Look(g) ==
  /\ pc[g] = "look"
  /\ \/ /\ channelsListening[dest[g]] # None
        /\ Return(g, "look")
        /\ closed' = closed \cup {g}
        /\ UNCHANGED channelsListening
     \/ /\ channelsListening[dest[g]] = None
        /\ Goto(g, "look", "register")
        /\ UNCHANGED <<channelsListening, closed, dest>>

\* The second section, and the goroutine that waits.
Register(g) ==
  /\ Goto(g, "register", "wait")
  /\ channelsListening' = [channelsListening EXCEPT ![dest[g]] = g]
  /\ UNCHANGED <<closed, dest>>

\* Mutant: the timer is not started for a channel that was replaced.
Expire_IfRegistered(g) ==
  /\ pc[g] = "wait" /\ channelsListening[dest[g]] = g
  /\ Goto(g, "wait", "expired")
  /\ UNCHANGED <<channelsListening, closed, dest>>

\* The select takes the timer's case.
Expire(g) ==
  /\ Goto(g, "wait", "expired")
  /\ UNCHANGED <<channelsListening, closed, dest>>

\* Mutants: the key is set to nil but not deleted, or left as it is.
Unregister_Nil(g) ==
  /\ \E from \in {"acked", "expired"} : Goto(g, from, "flip")
  /\ closed' = closed \cup {g}
  /\ channelsListening' = [channelsListening EXCEPT ![dest[g]] = "nil"]
  /\ UNCHANGED dest

Unregister_Leaves(g) ==
  /\ \E from \in {"acked", "expired"} : Goto(g, from, "flip")
  /\ closed' = closed \cup {g}
  /\ UNCHANGED <<channelsListening, dest>>

\* The last section, the same in both cases of the select.
Unregister(g) ==
  /\ \E from \in {"acked", "expired"} : Goto(g, from, "flip")
  /\ closed' = closed \cup {g}
  /\ channelsListening' = [channelsListening EXCEPT ![dest[g]] = None]
  /\ UNCHANGED dest

Tails(g) ==
  /\ Return(g, "flip")
  /\ UNCHANGED <<channelsListening, closed>>

\* Heads: a new goroutine, here under the same name, with another peer.
Heads(g, p) ==
  /\ p # dest[g]
  /\ Goto(g, "flip", "look")
  /\ dest' = [dest EXCEPT ![g] = p]
  /\ closed' = closed \ {g}
  /\ UNCHANGED channelsListening

-----------------------------------------------------------------------------
(* The listener, for a status of p that acknowledges the rumor: the send   *)
(* succeeds only if the goroutine is in its select, else it is dropped.    *)
Acknowledge(p) ==
  LET g == channelsListening[p]
  IN  /\ g # None
      /\ Goto(g, "wait", "acked")
      /\ UNCHANGED <<channelsListening, closed, dest>>

-----------------------------------------------------------------------------
Run(g) ==
  \/ Look(g)
  \/ Register(g)
  \/ Expire(g)
  \/ Unregister(g)
  \/ Tails(g)
  \/ \E p \in Peers : Heads(g, p)

Next ==
  \/ \E g \in Goroutines : Run(g)
  \/ \E g \in Goroutines, p \in Peers : Call(g, p)
  \/ \E p \in Peers : Acknowledge(p)

\* Every goroutine is scheduled, and no coin shows heads for ever.
Fairness == \A g \in Goroutines : WF_vars(Run(g)) /\ SF_vars(Tails(g))

Spec == Init /\ [][Next]_vars

FairSpec == Spec /\ Fairness

-----------------------------------------------------------------------------
Waiting(g) == pc[g] \in {"wait", "acked", "expired"}

(* What channelsListening holds is the open channel of a goroutine that is *)
(* still to unregister: the listener never sends on a closed channel,      *)
(* which would panic, and no key outlives the goroutines that wait.        *)
RegisteredIsOpen ==
  \A p \in Peers :
    LET g == channelsListening[p]
    IN  g # None => g \notin closed /\ Waiting(g) /\ dest[g] = p

(* The strengthening that makes it inductive: nobody has closed a channel  *)
(* that is still to be registered.                                         *)
NewIsOpen == \A g \in Goroutines : pc[g] \in {"look", "register"} => g \notin closed

ChannelInv == TypeOK /\ RegisteredIsOpen /\ NewIsOpen

(* Every run of RumorMonger comes to its end: nobody waits for ever, even  *)
(* if the acknowledgement is lost or goes to another goroutine.            *)
EveryRunEnds == \A g \in Goroutines : pc[g] = "look" ~> pc[g] = "idle"

=============================================================================
