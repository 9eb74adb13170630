--------------------------- MODULE EventRing_proofs ---------------------------
(* The event ring is correct for every capacity and every set of events: its   *)
(* counters agree, it returns only what was pushed, and it implements the      *)
(* bounded queue that loses the newest event.                                  *)
EXTENDS EventRing, TLAPS

USE CapacityAssumption, NoEventAssumption

-----------------------------------------------------------------------------
\* Adding to an index less than once round the ring wraps around at most once.
LEMMA Wrap ==
  ASSUME NEW x \in 0 .. 2 * Capacity - 1
  PROVE  x % Capacity = IF x < Capacity THEN x ELSE x - Capacity
OBVIOUS

\* Wrapping before a step does not change where the step leads.
LEMMA WrapTwice ==
  ASSUME NEW x \in 0 .. 2 * Capacity - 2
  PROVE  ((x % Capacity) + 1) % Capacity = (x + 1) % Capacity
<1>1. x % Capacity = IF x < Capacity THEN x ELSE x - Capacity
  BY Wrap
<1>2. (x + 1) % Capacity = IF x + 1 < Capacity THEN x + 1 ELSE x + 1 - Capacity
  BY Wrap
<1>3. (x % Capacity) + 1 \in 0 .. 2 * Capacity - 1
  BY <1>1
<1>4. ((x % Capacity) + 1) % Capacity = IF (x % Capacity) + 1 < Capacity THEN (x % Capacity) + 1
                                                          ELSE (x % Capacity) + 1 - Capacity
  BY <1>3, Wrap
<1>5. QED BY <1>1, <1>2, <1>4

\* A step of NextSlot and an offset from a slot stay on the ring.
LEMMA OnRing ==
  ASSUME NEW s \in Slot, NEW d \in 0 .. Capacity
  PROVE  (s + d) % Capacity \in Slot
BY Wrap DEF Slot

\* The slots in use are distinct from the slot that is written next.
LEMMA FreeSlot ==
  ASSUME NEW s \in Slot, NEW c \in 0 .. Capacity - 1, NEW d \in 0 .. c - 1
  PROVE  (s + d) % Capacity # (s + c) % Capacity
BY Wrap DEF Slot

\* An offset from the next slot is an offset one larger from the slot.
LEMMA ShiftSlot ==
  ASSUME NEW s \in Slot, NEW d \in 0 .. Capacity - 1
  PROVE  (NextSlot(s) + d) % Capacity = (s + d + 1) % Capacity
<1>1. NextSlot(s) = IF s + 1 < Capacity THEN s + 1 ELSE 0
  BY Wrap DEF Slot, NextSlot
<1>2. CASE s + 1 < Capacity
  <2>1. NextSlot(s) + d = s + d + 1
    BY <1>1, <1>2 DEF Slot
  <2>2. QED BY <2>1
<1>3. CASE s + 1 = Capacity
  <2>1. s + d + 1 = Capacity + d /\ Capacity + d \in 0 .. 2 * Capacity - 1
    BY <1>3 DEF Slot
  <2>2. (s + d + 1) % Capacity = d
    BY <2>1, Wrap
  <2>3. NextSlot(s) + d = d /\ d % Capacity = d
    BY <1>1, <1>3, Wrap
  <2>4. QED BY <2>2, <2>3
<1>4. QED BY <1>2, <1>3 DEF Slot

-----------------------------------------------------------------------------
RingInv == TypeOK /\ CountersAgree /\ WrittenSlots

LEMMA InitInv == Init => RingInv
<1> SUFFICES ASSUME Init PROVE RingInv
  OBVIOUS
<1>1. TypeOK
  BY DEF Init, TypeOK, Slot
<1>2. CountersAgree
  BY Wrap DEF Init, CountersAgree
<1>3. WrittenSlots
  BY DEF Init, WrittenSlots
<1>4. QED BY <1>1, <1>2, <1>3 DEF RingInv

LEMMA PushInv ==
  ASSUME NEW e \in Event, RingInv, push_event(e)
  PROVE  RingInv'
<1> USE DEF RingInv
<1>1. CASE m_event_count >= Capacity
  BY <1>1 DEF push_event, TypeOK, CountersAgree, WrittenSlots
<1>2. CASE m_event_count < Capacity
  <2>1. /\ m_events' = [m_events EXCEPT ![m_event_write] = e]
        /\ m_event_write' = NextSlot(m_event_write)
        /\ m_event_count' = m_event_count + 1
        /\ UNCHANGED <<m_event_read, polled>>
    BY <1>2 DEF push_event, TypeOK
  <2>2. NextSlot(m_event_write) \in Slot
    BY OnRing DEF TypeOK, NextSlot
  <2>3. TypeOK'
    BY <1>2, <2>1, <2>2 DEF TypeOK
  <2>4. CountersAgree'
    <3>1. m_event_read \in Slot /\ m_event_count \in 0 .. Capacity - 1
      BY <1>2 DEF TypeOK
    <3>2. m_event_read + m_event_count \in 0 .. 2 * Capacity - 2
      BY <3>1 DEF Slot
    <3>3. NextSlot(m_event_write) = (m_event_read + m_event_count + 1) % Capacity
      BY <3>2, WrapTwice DEF CountersAgree, NextSlot
    <3>4. m_event_read + (m_event_count + 1) = m_event_read + m_event_count + 1
      BY <3>1 DEF Slot
    <3>5. QED BY <2>1, <3>3, <3>4 DEF CountersAgree
  <2>5. WrittenSlots'
    <3> SUFFICES ASSUME NEW i \in 0 .. m_event_count
                 PROVE  m_events'[(m_event_read + i) % Capacity] \in Event
      BY <2>1 DEF WrittenSlots, TypeOK
    <3>1. CASE i = m_event_count
      BY <2>1, <3>1 DEF TypeOK, CountersAgree
    <3>2. CASE i \in 0 .. m_event_count - 1
      <4>1. (m_event_read + i) % Capacity # m_event_write
        BY <1>2, <3>2, FreeSlot DEF TypeOK, CountersAgree
      <4>2. (m_event_read + i) % Capacity \in Slot
        BY <1>2, <3>2, OnRing DEF TypeOK
      <4>3. QED BY <2>1, <3>2, <4>1, <4>2 DEF TypeOK, WrittenSlots
    <3>3. QED BY <3>1, <3>2 DEF TypeOK
  <2>6. QED BY <2>3, <2>4, <2>5
<1>3. QED BY <1>1, <1>2 DEF TypeOK

LEMMA PollInv ==
  ASSUME RingInv, adapter_poll_event
  PROVE  RingInv'
<1> USE DEF RingInv
<1>1. CASE m_event_count = 0
  BY <1>1 DEF adapter_poll_event, TypeOK, CountersAgree, WrittenSlots
<1>2. CASE m_event_count > 0
  <2>1. /\ polled' = m_events[m_event_read]
        /\ m_event_read' = NextSlot(m_event_read)
        /\ m_event_count' = m_event_count - 1
        /\ UNCHANGED <<m_events, m_event_write>>
    BY <1>2 DEF adapter_poll_event
  <2>2. NextSlot(m_event_read) \in Slot
    BY OnRing DEF TypeOK, NextSlot
  <2>3. TypeOK'
    BY <1>2, <2>1, <2>2 DEF TypeOK
  <2>4. ASSUME NEW i \in 0 .. m_event_count - 1
        PROVE  (m_event_read' + i) % Capacity = (m_event_read + i + 1) % Capacity
    BY <1>2, <2>1, ShiftSlot DEF TypeOK
  <2>5. CountersAgree'
    BY <1>2, <2>1, <2>4 DEF TypeOK, CountersAgree
  <2>6. WrittenSlots'
    <3> SUFFICES ASSUME NEW i \in 0 .. m_event_count - 2
                 PROVE  m_events[(m_event_read' + i) % Capacity] \in Event
      BY <2>1 DEF WrittenSlots, TypeOK
    <3>1. (m_event_read' + i) % Capacity = (m_event_read + (i + 1)) % Capacity
      <4>1. i \in 0 .. m_event_count - 1 /\ m_event_read + i + 1 = m_event_read + (i + 1)
        BY DEF TypeOK, Slot
      <4>2. QED BY <2>4, <4>1
    <3>2. i + 1 \in 0 .. m_event_count - 1
      BY DEF TypeOK
    <3>3. QED BY <3>1, <3>2 DEF WrittenSlots
  <2>7. QED BY <2>3, <2>5, <2>6
<1>3. QED BY <1>1, <1>2 DEF TypeOK

LEMMA NextInv == RingInv /\ [Next]_vars => RingInv'
<1> SUFFICES ASSUME RingInv, [Next]_vars PROVE RingInv'
  OBVIOUS
<1>1. CASE adapter_poll_event
  BY <1>1, PollInv
<1>2. ASSUME NEW e \in Event, push_event(e) PROVE RingInv'
  BY <1>2, PushInv
<1>3. CASE UNCHANGED vars
  BY <1>3 DEF vars, RingInv, TypeOK, CountersAgree, WrittenSlots
<1>4. QED BY <1>1, <1>2, <1>3 DEF Next

\* For every capacity: the counters stay in range and agree, and a poll returns
\* only events that were pushed.
THEOREM RingCorrect == Spec => [](TypeOK /\ CountersAgree /\ WrittenSlots)
<1>1. RingInv => TypeOK /\ CountersAgree /\ WrittenSlots
  BY DEF RingInv
<1>2. QED BY <1>1, InitInv, NextInv, PTL DEF Spec

-----------------------------------------------------------------------------
\* The pending events are a sequence of events, one for each counted.
LEMMA PendingSeq == RingInv => Pending \in Seq(Event) /\ Len(Pending) = m_event_count
<1> SUFFICES ASSUME RingInv PROVE Pending \in Seq(Event) /\ Len(Pending) = m_event_count
  OBVIOUS
<1>1. ASSUME NEW i \in 1 .. m_event_count
      PROVE  m_events[(m_event_read + i - 1) % Capacity] \in Event
  <2>1. i - 1 \in 0 .. m_event_count - 1
    BY DEF RingInv, TypeOK
  <2>2. m_event_read + i - 1 = m_event_read + (i - 1)
    BY DEF RingInv, TypeOK, Slot
  <2>3. QED BY <2>1, <2>2 DEF RingInv, WrittenSlots
<1>2. m_event_count \in Nat
  BY DEF RingInv, TypeOK
<1>3. QED BY <1>1, <1>2 DEF Pending

LEMMA PendingAt ==
  RingInv => \A i \in 1 .. m_event_count :
               Pending[i] = m_events[(m_event_read + i - 1) % Capacity]
BY DEF Pending

\* A push appends its event to the pending ones, unless the ring is full.
LEMMA PushRefines ==
  ASSUME NEW e \in Event, RingInv, RingInv', push_event(e)
  PROVE  Pending' = Queue!Offer(Pending, e)
<1>1. Pending \in Seq(Event) /\ Len(Pending) = m_event_count
  BY PendingSeq
<1>2. (Pending \in Seq(Event) /\ Len(Pending) = m_event_count)'
  BY PendingSeq, PTL
<1>3. (\A i \in 1 .. m_event_count :
         Pending[i] = m_events[(m_event_read + i - 1) % Capacity])'
  BY PendingAt, PTL
<1>4. CASE m_event_count >= Capacity
  <2>1. UNCHANGED <<m_events, m_event_read, m_event_count>>
    BY <1>4 DEF push_event, RingInv, TypeOK
  <2>2. Pending' = Pending
    BY <2>1 DEF Pending
  <2>3. QED BY <1>1, <1>4, <2>2 DEF Queue!Offer
<1>5. CASE m_event_count < Capacity
  <2>1. /\ m_events' = [m_events EXCEPT ![m_event_write] = e]
        /\ m_event_count' = m_event_count + 1
        /\ m_event_read' = m_event_read
    BY <1>5 DEF push_event, RingInv, TypeOK
  <2>2. Queue!Offer(Pending, e) = Append(Pending, e)
    BY <1>1, <1>5 DEF Queue!Offer
  <2>3. m_event_count \in Nat /\ m_event_read \in Slot
    BY DEF RingInv, TypeOK
  <2>4. ASSUME NEW i \in 1 .. m_event_count
        PROVE  Pending'[i] = Pending[i]
    <3>1. i - 1 \in 0 .. m_event_count - 1 /\ m_event_count \in 0 .. Capacity - 1
      BY <1>5, <2>3
    <3>2. (m_event_read + (i - 1)) % Capacity # m_event_write
      BY <2>3, <3>1, FreeSlot DEF RingInv, CountersAgree
    <3>3. m_event_read + i - 1 = m_event_read + (i - 1)
      BY <2>3 DEF Slot
    <3>4. (m_event_read + (i - 1)) % Capacity \in Slot
      BY <2>3, <3>1, OnRing
    <3>5. QED BY <1>3, <2>1, <2>3, <3>2, <3>3, <3>4, PendingAt DEF RingInv, TypeOK
  <2>5. Pending'[m_event_count + 1] = e
    <3>1. m_event_read + (m_event_count + 1) - 1 = m_event_read + m_event_count
      BY <2>3 DEF Slot
    <3>2. QED BY <1>3, <2>1, <2>3, <3>1 DEF RingInv, TypeOK, CountersAgree
  <2>6. Pending' = Append(Pending, e)
    BY <1>1, <1>2, <2>1, <2>3, <2>4, <2>5
  <2>7. QED BY <2>2, <2>6
<1>6. QED BY <1>4, <1>5 DEF RingInv, TypeOK

\* A poll takes the oldest pending event.
LEMMA PollRefines ==
  ASSUME RingInv, RingInv', adapter_poll_event
  PROVE  Queue!Poll
<1>1. Pending \in Seq(Event) /\ Len(Pending) = m_event_count
  BY PendingSeq
<1>2. (Pending \in Seq(Event) /\ Len(Pending) = m_event_count)'
  BY PendingSeq, PTL
<1>3. (\A i \in 1 .. m_event_count :
         Pending[i] = m_events[(m_event_read + i - 1) % Capacity])'
  BY PendingAt, PTL
<1>4. m_event_count \in Nat /\ m_event_read \in Slot
  BY DEF RingInv, TypeOK
<1>5. CASE m_event_count = 0
  <2>1. polled' = NoEvent /\ UNCHANGED <<m_events, m_event_read, m_event_count>>
    BY <1>5 DEF adapter_poll_event
  <2>2. Pending' = Pending
    BY <2>1 DEF Pending
  <2>3. Pending = <<>>
    BY <1>1, <1>5
  <2>4. QED BY <2>1, <2>2, <2>3 DEF Queue!Poll
<1>6. CASE m_event_count > 0
  <2>1. /\ polled' = m_events[m_event_read]
        /\ m_event_read' = NextSlot(m_event_read)
        /\ m_event_count' = m_event_count - 1
        /\ m_events' = m_events
    BY <1>6 DEF adapter_poll_event
  <2>2. Pending # <<>>
    BY <1>1, <1>6
  <2>3. polled' = Head(Pending)
    <3>1. m_event_read + 1 - 1 = m_event_read /\ m_event_read % Capacity = m_event_read
      BY <1>4, Wrap DEF Slot
    <3>2. Pending[1] = m_events[m_event_read]
      BY <1>4, <1>6, <3>1, PendingAt
    <3>3. QED BY <1>1, <2>1, <2>2, <3>2
  <2>4. ASSUME NEW i \in 1 .. m_event_count - 1
        PROVE  Pending'[i] = Pending[i + 1]
    <3>1. i - 1 \in 0 .. Capacity - 1 /\ i + 1 \in 1 .. m_event_count
      BY <1>4 DEF RingInv, TypeOK
    <3>2. (NextSlot(m_event_read) + (i - 1)) % Capacity = (m_event_read + (i - 1) + 1) % Capacity
      BY <1>4, <3>1, ShiftSlot
    <3>3. NextSlot(m_event_read) \in Slot
      BY <1>4, OnRing DEF NextSlot
    <3>4. /\ NextSlot(m_event_read) + i - 1 = NextSlot(m_event_read) + (i - 1)
          /\ m_event_read + (i + 1) - 1 = m_event_read + (i - 1) + 1
      BY <1>4, <3>3 DEF Slot
    <3>5. Pending'[i] = m_events[(NextSlot(m_event_read) + (i - 1)) % Capacity]
      BY <1>3, <2>1, <3>4
    <3>6. Pending[i + 1] = m_events[(m_event_read + (i - 1) + 1) % Capacity]
      BY <3>1, <3>4, PendingAt
    <3>7. QED BY <3>2, <3>5, <3>6
  <2>5. Pending' = Tail(Pending)
    BY <1>1, <1>2, <1>4, <1>6, <2>1, <2>2, <2>4
  <2>6. QED BY <2>2, <2>3, <2>5 DEF Queue!Poll
<1>7. QED BY <1>4, <1>5, <1>6

\* The ring starts as an empty queue.
LEMMA InitQueue == Init => Queue!Init
<1> SUFFICES ASSUME Init PROVE Queue!Init
  OBVIOUS
<1>1. Pending = <<>>
  BY InitInv, PendingSeq DEF Init
<1>2. QED BY <1>1 DEF Init, Queue!Init

\* Each step of the ring is one of the queue.
LEMMA StepRefines ==
  ASSUME RingInv, RingInv', [Next]_vars
  PROVE  [Queue!Next]_(Queue!vars)
<1>1. CASE adapter_poll_event
  BY <1>1, PollRefines DEF Queue!Next
<1>2. ASSUME NEW e \in Event, push_event(e)
      PROVE  Queue!Push(e)
  <2>1. polled' = polled
    BY <1>2 DEF push_event
  <2>2. QED BY <1>2, <2>1, PushRefines DEF Queue!Push
<1>3. CASE UNCHANGED vars
  BY <1>3 DEF vars, Queue!vars, Pending
<1>4. QED BY <1>1, <1>2, <1>3 DEF Next, Queue!Next

\* For every capacity and every set of events, the ring implements the lossy
\* queue: nothing accepted is lost, repeated or reordered.
THEOREM RingImplementsQueue == Spec => ImplementsLossyQueue
<1>1. RingInv /\ RingInv' /\ [Next]_vars => [Queue!Next]_(Queue!vars)
  BY StepRefines
<1>2. QED
  BY <1>1, InitQueue, InitInv, NextInv, PTL DEF Spec, ImplementsLossyQueue, Queue!Spec
=============================================================================
