------------------------------ MODULE EventFifo ------------------------------
(* Pushing on a bounded queue of driver events, as every adapter does it.      *)
EXTENDS Naturals, Sequences

CONSTANT Capacity     \* slots of an adapter's event ring, 8 in the code
ASSUME CapacityAssumption == Capacity \in Nat \ {0}

\* The queue q after event e was pushed: e is dropped when q is full.
Offer(q, e) == IF Len(q) < Capacity THEN Append(q, e) ELSE q
=============================================================================
