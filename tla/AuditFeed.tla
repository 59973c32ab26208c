----------------------------- MODULE AuditFeed ------------------------------
(***************************************************************************)
(* What audit shipping promises a receiver (guide/25-audit-shipping.md):   *)
(* every event, in the order of the chain, none dropped, inserted or       *)
(* reordered, once duplicates are taken out.                               *)
(***************************************************************************)
EXTENDS Naturals, Sequences

CONSTANT Genesis  \* what the first event of the chain names as the one before it

VARIABLES
  chain,    \* the events of the trail
  received  \* what the receiver has, in the order it came

feedVars == <<chain, received>>

\* The hash the receiver's copy ends with.
Tip == IF received = <<>> THEN Genesis ELSE received[Len(received)].hash

Init == chain = {} /\ received = <<>>

\* New events go on from the chain and never fork it.
Publish ==
  /\ chain \subseteq chain'
  /\ \A e, f \in chain' : e.prev = f.prev => e = f
  /\ \A e \in chain' : e.prev = Genesis \/ \E f \in chain' : f.hash = e.prev
  /\ UNCHANGED received

\* The next event of the chain arrives.
Receive ==
  /\ \E e \in chain : e.prev = Tip /\ received' = Append(received, e)
  /\ UNCHANGED chain

Safety == Init /\ [][Publish \/ Receive]_feedVars

Spec == Safety /\ WF_feedVars(Receive)

=============================================================================
