----------------------------- MODULE LossyQueue -----------------------------
(* What the Wi-Fi manager may rely on when it takes driver events from a       *)
(* platform adapter: a first-in first-out queue of at most Capacity events,    *)
(* which loses the NEWEST event when it is full and never loses, repeats or    *)
(* reorders an event it accepted.  EventRing, the ring buffer both adapters    *)
(* implement, is shown to implement this module.                               *)
EXTENDS EventFifo

CONSTANTS Event,      \* what the driver may report
          NoEvent     \* what poll_event leaves when there is nothing to report

VARIABLES queue,      \* accepted events that were not polled yet
          polled      \* the result of the latest poll
vars == <<queue, polled>>

Init == queue = <<>> /\ polled = NoEvent

Push(e) == queue' = Offer(queue, e) /\ UNCHANGED polled

Poll == \/ queue = <<>> /\ polled' = NoEvent /\ UNCHANGED queue
        \/ queue # <<>> /\ polled' = Head(queue) /\ queue' = Tail(queue)

\* The adapter was created anew: what the one before held is gone.
Renew == queue' = <<>> /\ polled' = NoEvent

Next == Poll \/ Renew \/ \E e \in Event : Push(e)

Spec == Init /\ [][Next]_vars
=============================================================================
