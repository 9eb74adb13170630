------------------------------ MODULE EventRing ------------------------------
(* The event ring of the platform adapters (wifi_esp32_adapter_t and           *)
(* wifi_esp8266_adapter_t): a fixed array with a read index, a write index and *)
(* a count.  On the ESP32 push_event runs in the event-loop task and           *)
(* adapter_poll_event in the application task; each body is one critical       *)
(* section of m_event_lock, so each is one step here.  The ESP8266 runs both   *)
(* in one thread.                                                              *)
EXTENDS EventFifo

CONSTANTS Event, NoEvent
ASSUME NoEventAssumption  == NoEvent \notin Event

VARIABLES m_events,        \* the slots; a slot never written holds NoEvent
          m_event_read,
          m_event_write,
          m_event_count,
          polled           \* *event of the latest poll, NoEvent if it returned false
vars == <<m_events, m_event_read, m_event_write, m_event_count, polled>>

Slot == 0 .. Capacity - 1

TypeOK == /\ m_events \in [Slot -> Event \cup {NoEvent}]
          /\ m_event_read \in Slot
          /\ m_event_write \in Slot
          /\ m_event_count \in 0 .. Capacity
          /\ polled \in Event \cup {NoEvent}

Init == /\ m_events = [s \in Slot |-> NoEvent]
        /\ m_event_read = 0
        /\ m_event_write = 0
        /\ m_event_count = 0
        /\ polled = NoEvent

\* The successor of a slot: (i + 1) % 8 in the code.
NextSlot(s) == (s + 1) % Capacity

\* Mutant: a push on a full ring overwrites the oldest event.
OverwriteOldest(e) ==
  /\ m_events' = [m_events EXCEPT ![m_event_write] = e]
  /\ m_event_write' = NextSlot(m_event_write)
  /\ m_event_count' = IF m_event_count < Capacity THEN m_event_count + 1 ELSE m_event_count
  /\ UNCHANGED <<m_event_read, polled>>

\* Mutant: one event too many is accepted.
AcceptOneMore(e) ==
  /\ \/ /\ m_event_count <= Capacity
        /\ m_events' = [m_events EXCEPT ![m_event_write] = e]
        /\ m_event_write' = NextSlot(m_event_write)
        /\ m_event_count' = m_event_count + 1
     \/ /\ m_event_count > Capacity
        /\ UNCHANGED <<m_events, m_event_write, m_event_count>>
  /\ UNCHANGED <<m_event_read, polled>>

push_event(e) ==
  /\ \/ /\ m_event_count < Capacity
        /\ m_events' = [m_events EXCEPT ![m_event_write] = e]
        /\ m_event_write' = NextSlot(m_event_write)
        /\ m_event_count' = m_event_count + 1
     \/ /\ m_event_count >= Capacity
        /\ UNCHANGED <<m_events, m_event_write, m_event_count>>
  /\ UNCHANGED <<m_event_read, polled>>

\* Mutant: the counters move although the ring is empty.
PollEmpty ==
  /\ polled' = m_events[m_event_read]
  /\ m_event_read' = NextSlot(m_event_read)
  /\ m_event_count' = IF m_event_count = 0 THEN 0 ELSE m_event_count - 1
  /\ UNCHANGED <<m_events, m_event_write>>

adapter_poll_event ==
  /\ \/ /\ m_event_count = 0
        /\ polled' = NoEvent
        /\ UNCHANGED <<m_event_read, m_event_count>>
     \/ /\ m_event_count > 0
        /\ polled' = m_events[m_event_read]
        /\ m_event_read' = NextSlot(m_event_read)
        /\ m_event_count' = m_event_count - 1
  /\ UNCHANGED <<m_events, m_event_write>>

Next == adapter_poll_event \/ \E e \in Event : push_event(e)

Spec == Init /\ [][Next]_vars

-----------------------------------------------------------------------------
\* The three counters agree: the slot to write next is the one m_event_count
\* slots after the slot to read next, whatever pushes were dropped and polls
\* came back empty.
CountersAgree ==
  m_event_write = (m_event_read + m_event_count) % Capacity

\* A poll that finds an event returns one the driver pushed: it never hands the
\* manager a slot that was not written.
WrittenSlots ==
  \A i \in 0 .. m_event_count - 1 :
    m_events[(m_event_read + i) % Capacity] \in Event

\* The accepted events that were not polled yet, oldest first.
Pending == [i \in 1 .. m_event_count |->
              m_events[(m_event_read + i - 1) % Capacity]]

Queue == INSTANCE LossyQueue WITH queue <- Pending

\* The ring implements the lossy queue: events come out once, in the order they
\* were accepted, and only a push on a full ring is lost.
ImplementsLossyQueue == Queue!Spec
=============================================================================
