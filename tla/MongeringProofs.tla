--------------------------- MODULE MongeringProofs ---------------------------
(***************************************************************************)
(* Proofs about Mongering, for any number of peers and goroutines.  The *)
(* inductive invariant is ChannelInv: a goroutine has one destination, so  *)
(* that the one key that may hold its channel is the one it deletes.       *)
(***************************************************************************)
EXTENDS Mongering, TLAPS

LEMMA NoneApart == \A p \in Peers, g \in Goroutines : p # None /\ g # None
BY NoneAssumption

LEMMA TypeStep == TypeOK /\ [Next]_vars => TypeOK'
<1> SUFFICES ASSUME TypeOK, [Next]_vars
             PROVE  TypeOK'
  OBVIOUS
<1> USE DEF TypeOK, Labels, Goto
<1>1. ASSUME NEW g \in Goroutines, NEW p \in Peers, Call(g, p)
      PROVE  TypeOK'
  BY <1>1 DEF Call
<1>2. ASSUME NEW g \in Goroutines, Look(g)
      PROVE  TypeOK'
  BY <1>2 DEF Look, Return
<1>3. ASSUME NEW g \in Goroutines, Register(g)
      PROVE  TypeOK'
  BY <1>3 DEF Register
<1>4. ASSUME NEW g \in Goroutines, Expire(g)
      PROVE  TypeOK'
  BY <1>4 DEF Expire
<1>5. ASSUME NEW g \in Goroutines, Unregister(g)
      PROVE  TypeOK'
  BY <1>5 DEF Unregister
<1>6. ASSUME NEW g \in Goroutines, Tails(g)
      PROVE  TypeOK'
  BY <1>6 DEF Tails, Return
<1>7. ASSUME NEW g \in Goroutines, NEW p \in Peers, Heads(g, p)
      PROVE  TypeOK'
  BY <1>7 DEF Heads
<1>8. ASSUME NEW p \in Peers, Acknowledge(p)
      PROVE  TypeOK'
  BY <1>8 DEF Acknowledge
<1>9. CASE UNCHANGED vars
  BY <1>9 DEF vars
<1> QED BY <1>1, <1>2, <1>3, <1>4, <1>5, <1>6, <1>7, <1>8, <1>9 DEF Next, Run

LEMMA NewStep == TypeOK /\ NewIsOpen /\ [Next]_vars => NewIsOpen'
<1> SUFFICES ASSUME TypeOK, NewIsOpen, [Next]_vars,
                    NEW o \in Goroutines, pc'[o] \in {"look", "register"}
             PROVE  o \notin closed'
  BY DEF NewIsOpen
<1> USE DEF TypeOK, NewIsOpen, Goto, Return
<1>1. ASSUME NEW g \in Goroutines, NEW p \in Peers, Call(g, p) \/ Heads(g, p)
      PROVE  o \notin closed'
  BY <1>1 DEF Call, Heads
<1>2. ASSUME NEW g \in Goroutines, Look(g)
      PROVE  o \notin closed'
  BY <1>2 DEF Look
<1>3. ASSUME NEW g \in Goroutines, Register(g) \/ Expire(g) \/ Tails(g)
      PROVE  o \notin closed'
  BY <1>3 DEF Register, Expire, Tails
<1>4. ASSUME NEW g \in Goroutines, Unregister(g)
      PROVE  o \notin closed'
  BY <1>4 DEF Unregister
<1>5. ASSUME NEW p \in Peers, Acknowledge(p)
      PROVE  o \notin closed'
  BY <1>5, NoneApart DEF Acknowledge
<1>6. CASE UNCHANGED vars
  BY <1>6 DEF vars
<1> QED BY <1>1, <1>2, <1>3, <1>4, <1>5, <1>6 DEF Next, Run

Fit(h, q) == h \notin closed /\ Waiting(h) /\ dest[h] = q

LEMMA RegisteredStep == ChannelInv /\ [Next]_vars => RegisteredIsOpen'
<1> SUFFICES ASSUME ChannelInv, [Next]_vars,
                    NEW q \in Peers, NEW new, new = channelsListening'[q], new # None
             PROVE  Fit(new, q)'
  BY DEF RegisteredIsOpen, Fit, Waiting
<1> PICK old : old = channelsListening[q]
  OBVIOUS
<1>0. old # None => old \in Goroutines /\ Fit(old, q)
  BY DEF ChannelInv, TypeOK, RegisteredIsOpen, Fit
<1> USE DEF ChannelInv, TypeOK, Goto, Return, Waiting, Fit
<1>1. ASSUME NEW g \in Goroutines, Look(g) \/ Expire(g) \/ Tails(g)
      PROVE  Fit(new, q)'
  BY <1>0, <1>1 DEF Look, Expire, Tails
<1>2. ASSUME NEW g \in Goroutines, NEW p \in Peers, Call(g, p) \/ Heads(g, p)
      PROVE  Fit(new, q)'
  BY <1>0, <1>2 DEF Call, Heads
\* The new channel is open, for g has made it and not closed it.
<1>3. ASSUME NEW g \in Goroutines, Register(g)
      PROVE  Fit(new, q)'
  BY <1>0, <1>3 DEF Register, NewIsOpen
\* g deletes the key of its destination, whosever channel it holds.
<1>4. ASSUME NEW g \in Goroutines, Unregister(g)
      PROVE  Fit(new, q)'
  <2>1. dest[g] # q /\ new = old
    BY <1>4 DEF Unregister
  <2> QED BY <1>0, <1>4, <2>1 DEF Unregister
<1>5. ASSUME NEW p \in Peers, Acknowledge(p)
      PROVE  Fit(new, q)'
  BY <1>0, <1>5, NoneApart DEF Acknowledge
<1>6. CASE UNCHANGED vars
  BY <1>0, <1>6 DEF vars
<1> QED BY <1>1, <1>2, <1>3, <1>4, <1>5, <1>6 DEF Next, Run

LEMMA Invariant == Spec => []ChannelInv
<1>1. Init => ChannelInv
  BY DEF Init, ChannelInv, TypeOK, Labels, RegisteredIsOpen, NewIsOpen
<1>2. ChannelInv /\ [Next]_vars => ChannelInv'
  BY TypeStep, NewStep, RegisteredStep DEF ChannelInv
<1> QED BY <1>1, <1>2, PTL DEF Spec

(* Every variable keeps its type, whatever the goroutines do.              *)
THEOREM TypeCorrect == Spec => []TypeOK
<1>1. ChannelInv => TypeOK
  BY DEF ChannelInv
<1> QED BY <1>1, Invariant, PTL

(* However many goroutines race for one key, the listener of RumorMonger's *)
(* acknowledgements never finds a closed channel in channelsListening.     *)
THEOREM NoSendOnClosed == Spec => []RegisteredIsOpen
<1>1. ChannelInv => RegisteredIsOpen
  BY DEF ChannelInv
<1> QED BY <1>1, Invariant, PTL

=============================================================================
