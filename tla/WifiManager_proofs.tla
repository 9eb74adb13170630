-------------------------- MODULE WifiManager_proofs --------------------------
(* What the Wi-Fi manager guarantees for every configuration of its back-off,  *)
(* its time-outs, the ring and the caches.                                     *)
(*                                                                             *)
(* The invariant is built in three layers, each inductive given the ones       *)
(* before it: the ranges of the variables and the waits (RangeInv), the link   *)
(* as the driver and the manager see it (LinkInv), the cache (CacheIsCurrent). *)
EXTENDS WifiManager, TLAPS

USE CapacityAssumption, BackoffAssumption, TimeoutAssumption, GenerationAssumption,
    CacheAssumption

-----------------------------------------------------------------------------
(* Back-off and queue *)

\* The next back-off is a number of milliseconds up to MaxBackoff.
LEMMA NextBackoffRange ==
  ASSUME m_backoff_ms \in Nat
  PROVE  NextBackoff \in 0 .. MaxBackoff
<1>1. m_backoff_ms * MultiplierPct \in Nat
  OBVIOUS
<1>2. ASSUME NEW p \in Nat PROVE Least(p \div 100, MaxBackoff) \in 0 .. MaxBackoff
  BY DEF Least
<1>3. QED BY <1>1, <1>2 DEF NextBackoff

\* Whatever the jitter, a wait lies between the configured bounds.
LEMMA WaitsRange ==
  ASSUME NEW b \in Nat, NEW w \in Waits(b)
  PROVE  w \in InitBackoff .. MaxBackoff
<1>1. b * JitterPct \in Nat
  OBVIOUS
<1>2. (b * JitterPct) \div 100 \in Nat
  BY <1>1
<1>3. PICK j \in Int : w = Least(Greatest(b + j, InitBackoff), MaxBackoff)
  BY <1>2 DEF Waits
<1>4. QED BY <1>3 DEF Least, Greatest

\* What the state and the variables of the retry may be.
RetryRange ==
  /\ m_state \in States
  /\ m_use_fast_connect \in BOOLEAN
  /\ m_backoff_ms \in 0 .. MaxBackoff
  /\ m_current_wait_ms \in 0 .. MaxBackoff
  /\ m_age \in 0 .. MaxAge
  /\ WaitInBounds

\* A back-off keeps to those ranges.
LEMMA BackoffRange ==
  ASSUME m_backoff_ms \in Nat, m_use_fast_connect' \in BOOLEAN, schedule_backoff
  PROVE  RetryRange'
<1>1. m_backoff_ms' \in 0 .. MaxBackoff
  BY NextBackoffRange DEF schedule_backoff
<1>2. m_current_wait_ms' \in InitBackoff .. MaxBackoff
  <2>1. NextBackoff \in Nat
    BY NextBackoffRange
  <2>2. QED BY <2>1, WaitsRange DEF schedule_backoff
<1>3. m_current_wait_ms' \in 0 .. MaxBackoff
  BY <1>2
<1>4. QED BY <1>1, <1>2, <1>3 DEF schedule_backoff, RetryRange, WaitInBounds, States

\* What a report leaves in the queue.
LEMMA Offered ==
  ASSUME NEW q \in Seq(Event), Len(q) <= Capacity, NEW e \in Event
  PROVE  /\ Offer(q, e) \in Seq(Event)
         /\ Len(Offer(q, e)) <= Capacity
         /\ Offer(q, e) # <<>>
         /\ Len(q) # Capacity => /\ Len(Offer(q, e)) = Len(q) + 1
                                 /\ Offer(q, e)[Len(q) + 1] = e
                                 /\ \A i \in 1 .. Len(q) : Offer(q, e)[i] = q[i]
         /\ Len(q) = Capacity => Offer(q, e) = q
BY DEF Offer

\* The queue starts empty.
LEMMA EmptyQueue == <<>> \in Seq(Event) /\ Len(<<>>) <= Capacity
OBVIOUS

\* What a poll leaves in the queue.
LEMMA Polled ==
  ASSUME NEW q \in Seq(Event), q # <<>>
  PROVE  /\ Head(q) \in Event /\ Head(q) = q[1]
         /\ Tail(q) \in Seq(Event)
         /\ Len(Tail(q)) = Len(q) - 1
         /\ \A i \in 1 .. Len(q) - 1 : Tail(q)[i] = q[i + 1]
         /\ Tail(q) = <<>> <=> Len(q) = 1
<1>1. Len(q) \in Nat \ {0}
  OBVIOUS
<1>2. /\ Head(q) \in Event /\ Head(q) = q[1]
      /\ Tail(q) \in Seq(Event) /\ Len(Tail(q)) = Len(q) - 1
      /\ \A i \in 1 .. Len(q) - 1 : Tail(q)[i] = q[i + 1]
  BY <1>1
<1>3. ASSUME NEW t \in Seq(Event) PROVE t = <<>> <=> Len(t) = 0
  OBVIOUS
<1>4. Tail(q) = <<>> <=> Len(q) = 1
  BY <1>1, <1>2, <1>3
<1>5. QED BY <1>2, <1>4

-----------------------------------------------------------------------------
(* The ranges *)

\* What the other variables may be.
OtherRange ==
  /\ m_connect_requested \in BOOLEAN
  /\ m_connection_generation \in 0 .. GenerationMod - 1
  /\ m_cache \in Stored
  /\ pc \in {"idle", "events", "switch"}
  /\ events \in Seq(Event) /\ Len(events) <= Capacity
  /\ linkInfo \in Caches \cup {Blank}
  /\ filling \in BOOLEAN
  /\ radio \in {"off", "idle", "joining", "up"}
  /\ notice \in BOOLEAN
  /\ eeprom \in Stored
  /\ stale \in BOOLEAN
  /\ missedIp \in BOOLEAN

RangeInv == RetryRange /\ OtherRange

LEMMA RangeImplies == RangeInv => TypeOK /\ WaitInBounds
BY DEF RangeInv, RetryRange, OtherRange, TypeOK

LEMMA RangeInit == Init => RangeInv
<1> SUFFICES ASSUME Init PROVE RangeInv
  OBVIOUS
<1>1. RetryRange
  BY DEF Init, is_cache_valid, RetryRange, WaitInBounds, States
<1>2. OtherRange
  <2>1. events \in Seq(Event) /\ Len(events) <= Capacity
    BY EmptyQueue DEF Init
  <2>2. m_cache \in Stored /\ eeprom \in Stored
    BY DEF Init, Stored
  <2>3. m_connection_generation \in 0 .. GenerationMod - 1
    BY DEF Init
  <2>4. QED BY <2>1, <2>2, <2>3 DEF Init, is_cache_valid, OtherRange
<1>3. QED BY <1>1, <1>2 DEF RangeInv

\* A step that leaves the state and the retry alone keeps their ranges.
LEMMA RetryKept ==
  ASSUME RetryRange, UNCHANGED <<m_state, retry>>
  PROVE  RetryRange'
BY DEF RetryRange, WaitInBounds, retry

\* A step that moves to another state and at most gives up the fast connect, or
\* sets the back-off to its first value, keeps them too.
LEMMA RetryMoved ==
  ASSUME RetryRange, m_state' \in States, m_use_fast_connect' \in BOOLEAN,
         m_backoff_ms' \in {m_backoff_ms, InitBackoff}, m_age' \in {m_age, 0},
         UNCHANGED m_current_wait_ms
  PROVE  RetryRange'
BY DEF RetryRange, WaitInBounds

\* The driver's steps touch the queue, the radio and the link info only.
LEMMA RangeDriver ==
  ASSUME RangeInv, Driver
  PROVE  RangeInv'
<1> USE DEF RangeInv, link, retry, queue, driver
<1>1. ASSUME NEW e \in Event, Report(e)
      PROVE  /\ events' \in Seq(Event) /\ Len(events') <= Capacity
             /\ stale' \in BOOLEAN /\ missedIp' \in BOOLEAN
  BY <1>1, Offered DEF Report, OtherRange
<1>2. RetryRange'
  BY RetryKept DEF Driver, DriverObtainsIp, DriverReportsIp, DriverLosesLink,
                   DriverReportsClose
<1>3. CASE DriverObtainsIp
  BY <1>2, <1>3 DEF DriverObtainsIp, OtherRange
<1>4. CASE DriverReportsIp
  BY <1>1, <1>2, <1>4 DEF DriverReportsIp, OtherRange, Event
<1>5. CASE DriverLosesLink
  BY <1>1, <1>2, <1>5 DEF DriverLosesLink, OtherRange, Event
<1>6. CASE DriverReportsClose
  BY <1>1, <1>2, <1>6 DEF DriverReportsClose, OtherRange, Event
<1>7. QED BY <1>3, <1>4, <1>5, <1>6 DEF Driver

\* An event changes the state, the back-off, the generation and the cache.
LEMMA RangePoll ==
  ASSUME RangeInv, PollEvent
  PROVE  RangeInv'
<1> USE DEF RangeInv, link, retry, queue, driver
<1>1. events' \in Seq(Event) /\ Len(events') <= Capacity
  BY Polled DEF PollEvent, OtherRange
<1>2. CASE GotIp
  <2>1. m_cache' \in Stored /\ eeprom' \in Stored
    BY <1>2 DEF GotIp, update_link_info, save_cache, LinkInfoReads, OtherRange, Stored
  <2>2. m_connection_generation' \in 0 .. GenerationMod - 1
    BY <1>2 DEF GotIp, NextGeneration, OtherRange
  <2>3. RetryRange'
    BY <1>2, RetryMoved DEF GotIp, RetryRange, States
  <2>4. QED BY <1>1, <2>1, <2>2, <2>3 DEF PollEvent, OtherRange
<1>3. CASE Disconnected
  <2>1. m_backoff_ms \in Nat /\ m_use_fast_connect \in BOOLEAN
    BY DEF RetryRange
  <2>2. RetryRange'
    <3>1. CASE UNCHANGED <<m_state, retry>>
      BY <3>1, RetryKept
    <3>2. CASE /\ m_use_fast_connect' = FALSE /\ m_state' = "DISCONNECTED"
               /\ UNCHANGED <<m_backoff_ms, m_current_wait_ms, m_age>>
      BY <3>2, RetryMoved DEF States
    <3>3. CASE schedule_backoff /\ UNCHANGED m_use_fast_connect
      BY <2>1, <3>3, BackoffRange
    <3>4. QED BY <1>3, <3>1, <3>2, <3>3 DEF Disconnected
  <2>3. QED BY <1>1, <1>3, <2>2 DEF Disconnected, PollEvent, OtherRange
<1>4. QED BY <1>2, <1>3 DEF PollEvent, process_event

LEMMA RangeNext == RangeInv /\ [Next]_vars => RangeInv'
<1> SUFFICES ASSUME RangeInv, [Next]_vars PROVE RangeInv'
  OBVIOUS
<1> USE DEF RangeInv, link, retry, queue, driver
<1>0. m_backoff_ms \in Nat /\ m_use_fast_connect \in BOOLEAN
  BY DEF RetryRange
<1>1. CASE Activate
  <2>1. RetryRange'
    <3>1. CASE m_state' = "DISCONNECTED" /\ UNCHANGED retry
      BY <3>1, RetryMoved DEF RetryRange, States
    <3>2. CASE schedule_backoff /\ UNCHANGED m_use_fast_connect
      BY <1>0, <3>2, BackoffRange
    <3>3. QED BY <1>1, <3>1, <3>2 DEF Activate
  <2>2. QED BY <1>1, <2>1 DEF Activate, OtherRange
<1>2. CASE Deactivate
  <2>1. RetryRange'
    BY <1>2, RetryMoved DEF Deactivate, RetryRange, States
  <2>2. QED BY <1>2, <2>1 DEF Deactivate, OtherRange
<1>3. CASE TickStart \/ EventsDrained \/ TickConnected
  BY <1>3, RetryKept DEF TickStart, EventsDrained, TickConnected, OtherRange
<1>4. CASE PollEvent
  BY <1>4, RangePoll
<1>5. CASE TickConnect
  <2>1. CASE TickConnectAccepted
    <3>1. RetryRange'
      BY <2>1, RetryMoved DEF TickConnectAccepted, RetryRange, States
    <3>2. QED
      BY <1>5, <2>1, <3>1 DEF TickConnect, TickConnectAccepted, RadioAccepts, OtherRange
  <2>2. CASE TickConnectRefused
    <3>1. RetryRange'
      BY <1>0, <2>2, BackoffRange DEF TickConnectRefused
    <3>2. QED BY <1>5, <2>2, <3>1 DEF TickConnect, TickConnectRefused, OtherRange
  <2>3. QED BY <1>5, <2>1, <2>2 DEF TickConnect
<1>6. CASE TickConnecting \/ TickBackoff
  <2>1. RetryRange'
    <3>1. CASE UNCHANGED <<m_state, retry>>
      BY <3>1, RetryKept
    <3>2. CASE /\ m_use_fast_connect' = FALSE /\ m_state' = "DISCONNECTED"
               /\ UNCHANGED <<m_backoff_ms, m_current_wait_ms, m_age>>
      BY <3>2, RetryMoved DEF States
    <3>3. CASE schedule_backoff /\ UNCHANGED m_use_fast_connect
      BY <1>0, <3>3, BackoffRange
    <3>4. QED BY <1>6, <3>1, <3>2, <3>3 DEF TickConnecting, TickBackoff
  <2>2. QED BY <1>6, <2>1 DEF TickConnecting, TickBackoff, OtherRange
<1>7. CASE Elapse
  BY <1>7 DEF Elapse, RetryRange, WaitInBounds, OtherRange
<1>8. CASE Driver
  BY <1>8, RangeDriver
<1>9. CASE PowerCycle
  <2>1. RetryRange'
    BY <1>9 DEF PowerCycle, is_cache_valid, RetryRange, WaitInBounds, States
  <2>2. OtherRange'
    <3>1. events' \in Seq(Event) /\ Len(events') <= Capacity
      BY <1>9, EmptyQueue DEF PowerCycle
    <3>2. m_cache' \in Stored /\ eeprom' \in Stored
      BY <1>9 DEF PowerCycle, OtherRange, Stored
    <3>3. m_connection_generation' \in 0 .. GenerationMod - 1
      BY <1>9 DEF PowerCycle
    <3>4. QED BY <1>9, <3>1, <3>2, <3>3 DEF PowerCycle, is_cache_valid, OtherRange
  <2>3. QED BY <2>1, <2>2
<1>10. CASE UNCHANGED vars
  BY <1>10, RetryKept DEF vars, OtherRange
<1>11. QED
  BY <1>1, <1>2, <1>3, <1>4, <1>5, <1>6, <1>7, <1>8, <1>9, <1>10 DEF Next, Tick

LEMMA RangeHolds == Spec => []RangeInv
BY RangeInit, RangeNext, PTL DEF Spec

\* Every variable stays in its range, for every configuration.
THEOREM TypeCorrect == Spec => []TypeOK
BY RangeHolds, RangeImplies, PTL

\* Every wait schedule_backoff draws respects the configured bounds, for every
\* growth and every jitter.
THEOREM WaitsCorrect == Spec => []WaitInBounds
BY RangeHolds, RangeImplies, PTL

-----------------------------------------------------------------------------
(* The link *)

\* Who is active, and what the driver owes.
Wiring ==
  /\ m_connect_requested <=> m_state # "INACTIVE"
  /\ ~m_connect_requested => radio = "off"
  /\ pc # "idle" => m_connect_requested
  /\ notice => radio # "up"
  /\ filling /\ ~notice => radio = "up"

LinkInv == Wiring /\ LinkAgreement

LEMMA LinkInit == Init => LinkInv
BY DEF Init, LinkInv, Wiring, LinkAgreement, NothingInFlight

\* The last event of the queue after a report, and after a poll that leaves some.
LEMMA LastAfterReport ==
  ASSUME OtherRange, NEW e \in Event, Report(e), ~stale'
  PROVE  events' # <<>> /\ LastEvent' = e
<1>1. Len(events) # Capacity /\ events' = Offer(events, e)
  BY DEF Report, OtherRange
<1>2. /\ events \in Seq(Event) /\ Len(events) <= Capacity
  BY DEF OtherRange
<1>3. /\ Offer(events, e) # <<>>
      /\ Len(Offer(events, e)) = Len(events) + 1
      /\ Offer(events, e)[Len(events) + 1] = e
  BY <1>1, <1>2, Offered
<1>4. QED BY <1>1, <1>3 DEF LastEvent

LEMMA LastAfterPoll ==
  ASSUME OtherRange, events # <<>>, events' = Tail(events)
  PROVE  /\ events' = <<>> => LastEvent = Head(events)
         /\ events' # <<>> => LastEvent' = LastEvent
<1>1. Len(events) \in Nat \ {0}
  BY DEF OtherRange
<1>2. QED BY <1>1, Polled DEF OtherRange, LastEvent

\* The driver's steps: the report that ends the silence is the last event.
LEMMA LinkDriver ==
  ASSUME RangeInv, LinkInv, Driver
  PROVE  LinkInv'
<1> USE DEF RangeInv, LinkInv, link, retry
<1>1. Event = {"GOT_IP", "DISCONNECTED"}
  BY DEF Event
<1>2. CASE DriverObtainsIp
  BY <1>2 DEF DriverObtainsIp, Wiring, LinkAgreement, NothingInFlight
<1>3. CASE DriverReportsIp
  <2>1. Wiring'
    BY <1>3 DEF DriverReportsIp, Wiring
  <2>2. ~stale' => events' # <<>> /\ LastEvent' = "GOT_IP"
    BY <1>1, <1>3, LastAfterReport DEF DriverReportsIp
  <2>3. LinkAgreement'
    BY <1>3, <2>2 DEF DriverReportsIp, Wiring, LinkAgreement, NothingInFlight
  <2>4. QED BY <2>1, <2>3
<1>4. CASE DriverLosesLink
  <2>1. Wiring'
    BY <1>4 DEF DriverLosesLink, Wiring
  <2>2. ~stale' => events' # <<>> /\ LastEvent' = "DISCONNECTED"
    BY <1>1, <1>4, LastAfterReport DEF DriverLosesLink
  <2>3. LinkAgreement'
    BY <1>4, <2>2 DEF DriverLosesLink, LinkAgreement, NothingInFlight
  <2>4. QED BY <2>1, <2>3
<1>5. CASE DriverReportsClose
  <2>1. Wiring'
    BY <1>5 DEF DriverReportsClose, Wiring
  <2>2. ~stale' => events' # <<>> /\ LastEvent' = "DISCONNECTED"
    BY <1>1, <1>5, LastAfterReport DEF DriverReportsClose
  <2>3. LinkAgreement'
    BY <1>5, <2>2 DEF DriverReportsClose, Wiring, LinkAgreement, NothingInFlight
  <2>4. QED BY <2>1, <2>3
<1>6. QED BY <1>2, <1>3, <1>4, <1>5 DEF Driver

\* A poll: the last event of all decides the state.
LEMMA LinkPoll ==
  ASSUME RangeInv, LinkInv, PollEvent
  PROVE  LinkInv'
<1> USE DEF RangeInv, LinkInv, link, retry, driver
<1>1. m_connect_requested /\ m_state # "INACTIVE" /\ events # <<>>
  BY DEF PollEvent, Wiring
<1>2. m_state' # "INACTIVE" /\ (m_state' = "CONNECTED" <=> Head(events) = "GOT_IP")
  <2>1. CASE Head(events) = "GOT_IP" /\ GotIp
    BY <2>1 DEF GotIp
  <2>2. CASE Head(events) = "DISCONNECTED" /\ Disconnected
    BY <1>1, <2>2 DEF Disconnected, schedule_backoff
  <2>3. QED BY <2>1, <2>2 DEF PollEvent, process_event
<1>3. Wiring'
  BY <1>1, <1>2 DEF PollEvent, Wiring
<1>4. /\ events' = <<>> => LastEvent = Head(events)
      /\ events' # <<>> => LastEvent' = LastEvent
  BY <1>1, LastAfterPoll DEF PollEvent
<1>5. LinkAgreement'
  BY <1>1, <1>2, <1>4 DEF PollEvent, LinkAgreement, NothingInFlight
<1>6. QED BY <1>3, <1>5

LEMMA LinkNext == RangeInv /\ LinkInv /\ [Next]_vars => LinkInv'
<1> SUFFICES ASSUME RangeInv, LinkInv, [Next]_vars PROVE LinkInv'
  OBVIOUS
<1> USE DEF LinkInv, link, retry, queue, driver
\* These steps leave the queue alone.
<1> USE DEF LinkAgreement, NothingInFlight, LastEvent, Wiring
<1>1. CASE Activate
  BY <1>1 DEF Activate, schedule_backoff
<1>2. CASE Deactivate
  BY <1>2 DEF Deactivate
<1>3. CASE TickStart \/ EventsDrained \/ TickConnected
  BY <1>3 DEF TickStart, EventsDrained, TickConnected
<1>4. CASE PollEvent
  BY <1>4, LinkPoll
<1>5. CASE TickConnect
  <2>1. CASE TickConnectAccepted
    BY <1>5, <2>1 DEF TickConnect, TickConnectAccepted, RadioAccepts
  <2>2. CASE TickConnectRefused
    BY <1>5, <2>2 DEF TickConnect, TickConnectRefused, schedule_backoff
  <2>3. QED BY <1>5, <2>1, <2>2 DEF TickConnect
<1>6. CASE TickConnecting
  BY <1>6 DEF TickConnecting, schedule_backoff
<1>7. CASE TickBackoff
  BY <1>7 DEF TickBackoff
<1>8. CASE Elapse
  BY <1>8 DEF Elapse
<1>9. CASE Driver
  BY <1>9, LinkDriver
<1>10. CASE PowerCycle
  BY <1>10 DEF PowerCycle
<1>11. CASE UNCHANGED vars
  BY <1>11 DEF vars
<1>12. QED
  BY <1>1, <1>2, <1>3, <1>4, <1>5, <1>6, <1>7, <1>8, <1>9, <1>10, <1>11 DEF Next, Tick

\* The manager and the station agree once the driver has said its word, whatever
\* the configuration of the ring and of the back-off.
THEOREM LinkAgreed == Spec => []LinkAgreement
<1>1. LinkInv => LinkAgreement
  BY DEF LinkInv
<1>2. QED BY <1>1, LinkInit, LinkNext, RangeHolds, PTL DEF Spec

-----------------------------------------------------------------------------
(* The cache *)

\* What a report leaves in the manager's queue: all of it and the event, unless it is full.
LEMMA Reported ==
  ASSUME OtherRange, NEW e \in Event, Report(e)
  PROVE  /\ Len(events) \in Nat /\ events' = Offer(events, e)
         /\ Len(events) = Capacity => events' = events
         /\ Len(events) # Capacity =>
              /\ Len(events') = Len(events) + 1 /\ events'[Len(events) + 1] = e
              /\ \A i \in 1 .. Len(events) : events'[i] = events[i]
<1> DEFINE q == Offer(events, e)
<1>1. events \in Seq(Event) /\ Len(events) <= Capacity /\ Len(events) \in Nat
  BY DEF OtherRange
<1>2. events' = q
  BY DEF Report
<1>3. /\ Len(events) # Capacity => /\ Len(q) = Len(events) + 1
                                   /\ q[Len(events) + 1] = e
                                   /\ \A i \in 1 .. Len(events) : q[i] = events[i]
      /\ Len(events) = Capacity => q = events
  BY <1>1, Offered
<1> HIDE DEF q
<1>4. QED BY <1>1, <1>2, <1>3 DEF q

\* Which polls and reports leave a GOT_IP in the queue.
LEMMA IpAfterPoll ==
  ASSUME OtherRange, events # <<>>, events' = Tail(events), Head(events) # "GOT_IP"
  PROVE  IpPending => IpPending'
<1> SUFFICES ASSUME NEW i \in 1 .. Len(events), events[i] = "GOT_IP"
             PROVE  IpPending'
  BY DEF IpPending
<1>1. Len(events) \in Nat \ {0}
  BY DEF OtherRange
<1>2. /\ Head(events) = events[1] /\ Len(events') = Len(events) - 1
      /\ \A k \in 1 .. Len(events) - 1 : events'[k] = events[k + 1]
  BY Polled DEF OtherRange
<1>3. i - 1 \in 1 .. Len(events') /\ events'[i - 1] = events[i]
  BY <1>1, <1>2
<1>4. QED BY <1>3 DEF IpPending

LEMMA IpAfterReport ==
  ASSUME OtherRange, NEW e \in Event, Report(e)
  PROVE  /\ IpPending => IpPending'
         /\ e = "GOT_IP" => missedIp' \/ IpPending'
         /\ e # "GOT_IP" => missedIp' = missedIp
<1>1. CASE Len(events) = Capacity
  <2>1. events' = events
    BY <1>1, Reported
  <2>2. QED BY <1>1, <2>1 DEF IpPending, Report
<1>2. CASE Len(events) # Capacity
  <2>1. /\ Len(events') = Len(events) + 1 /\ events'[Len(events) + 1] = e
        /\ \A i \in 1 .. Len(events) : events'[i] = events[i]
        /\ Len(events) \in Nat
    BY <1>2, Reported
  <2>2. 1 .. Len(events) \subseteq 1 .. Len(events') /\ Len(events) + 1 \in 1 .. Len(events')
    BY <2>1
  <2>3. QED BY <2>1, <2>2 DEF IpPending, Report
<1>3. QED BY <1>1, <1>2

LEMMA CacheInit == Init => CacheIsCurrent
BY DEF Init, CacheIsCurrent

LEMMA CacheNext == RangeInv /\ CacheIsCurrent /\ [Next]_vars => CacheIsCurrent'
<1> SUFFICES ASSUME RangeInv, CacheIsCurrent, [Next]_vars PROVE CacheIsCurrent'
  OBVIOUS
<1>1. OtherRange /\ Event = {"GOT_IP", "DISCONNECTED"}
  BY DEF RangeInv, Event
<1> USE DEF queue, driver
<1>2. CASE UNCHANGED <<linkInfo, filling, missedIp, events, m_cache, eeprom>>
  BY <1>2 DEF CacheIsCurrent, IpPending
<1>3. CASE PollEvent
  <2>1. CASE GotIp
    BY <1>3, <2>1
       DEF PollEvent, GotIp, update_link_info, save_cache, LinkInfoReads, CacheIsCurrent
  <2>2. CASE Head(events) # "GOT_IP" /\ Disconnected
    BY <1>1, <1>3, <2>2, IpAfterPoll DEF PollEvent, Disconnected, CacheIsCurrent
  <2>3. QED BY <1>3, <2>1, <2>2 DEF PollEvent, process_event
<1>4. CASE DriverObtainsIp
  BY <1>4 DEF DriverObtainsIp, CacheIsCurrent
<1>5. CASE DriverReportsIp
  BY <1>1, <1>5, IpAfterReport DEF DriverReportsIp, CacheIsCurrent
<1>6. CASE DriverLosesLink
  BY <1>1, <1>6, IpAfterReport DEF DriverLosesLink, CacheIsCurrent
<1>7. CASE DriverReportsClose
  BY <1>1, <1>7, IpAfterReport DEF DriverReportsClose, CacheIsCurrent
<1>8. CASE PowerCycle
  BY <1>8 DEF PowerCycle, CacheIsCurrent
<1>9. CASE Activate \/ Deactivate \/ TickStart \/ EventsDrained \/ TickConnect
  BY <1>2, <1>9 DEF Activate, Deactivate, TickStart, EventsDrained, TickConnect
<1>10. CASE TickConnecting \/ TickBackoff \/ TickConnected \/ Elapse \/ UNCHANGED vars
  BY <1>2, <1>10 DEF TickConnecting, TickBackoff, TickConnected, Elapse, vars
<1>11. QED
  BY <1>3, <1>4, <1>5, <1>6, <1>7, <1>8, <1>9, <1>10 DEF Next, Tick, Driver

\* Once every GOT_IP is processed, the cache and the EEPROM hold the parameters of
\* the latest link, whatever was torn, late or repeated on the way.
THEOREM CacheFollows == Spec => []CacheIsCurrent
BY CacheInit, CacheNext, RangeHolds, PTL DEF Spec

-----------------------------------------------------------------------------
(* The contract with the TCP and UDP clients *)

LEMMA ContractStep ==
  ASSUME RangeInv, [Next]_vars
  PROVE  [Contract!Next]_(Contract!vars)
<1> USE DEF link, Contract!vars, Contract!Next
<1>1. CASE UNCHANGED link
  BY <1>1
<1>2. CASE m_state' # "CONNECTED" /\ UNCHANGED m_connection_generation
  BY <1>2 DEF Contract!Down
<1>3. CASE PollEvent
  <2>1. CASE GotIp
    BY <2>1 DEF GotIp, NextGeneration, Contract!Up
  <2>2. CASE Disconnected
    BY <1>2, <2>2 DEF Disconnected, schedule_backoff
  <2>3. QED BY <1>3, <2>1, <2>2 DEF PollEvent, process_event
<1>4. CASE PowerCycle
  BY <1>4 DEF PowerCycle, Contract!Reset
<1>5. CASE Activate \/ Deactivate
  BY <1>2, <1>5 DEF Activate, Deactivate, schedule_backoff
<1>6. CASE TickConnect \/ TickConnecting \/ TickBackoff
  BY <1>1, <1>2, <1>6 DEF TickConnect, TickConnectAccepted, TickConnectRefused,
                          TickConnecting, TickBackoff, schedule_backoff
<1>7. CASE TickStart \/ EventsDrained \/ TickConnected \/ Elapse \/ UNCHANGED vars
  BY <1>1, <1>7 DEF TickStart, EventsDrained, TickConnected, Elapse, vars
<1>8. CASE Driver
  BY <1>1, <1>8 DEF Driver, DriverObtainsIp, DriverReportsIp, DriverLosesLink,
                    DriverReportsClose
<1>9. QED BY <1>3, <1>4, <1>5, <1>6, <1>7, <1>8 DEF Next, Tick

\* The snapshot the manager hands the clients behaves as LinkState promises them.
THEOREM ManagerKeepsContract == Spec => ImplementsLinkState
<1>1. Init => Contract!Init
  BY DEF Init, Contract!Init
<1>2. QED
  BY <1>1, ContractStep, RangeHolds, PTL DEF Spec, ImplementsLinkState, Contract!Spec

-----------------------------------------------------------------------------
(* A link that works *)

\* The manager is connected, the station is up, and nothing that was reported says
\* otherwise.
Settled ==
  /\ m_connect_requested /\ m_state = "CONNECTED"
  /\ radio = "up" /\ ~notice
  /\ \A i \in 1 .. Len(events) : events[i] = "GOT_IP"

\* A settled manager stays so until the driver loses the link, the application gives it
\* up or the device restarts: no time-out, no renewed address and no event of an earlier
\* attempt takes it down, however long the queue.
SettledKept == [][Settled => Settled' \/ DriverLosesLink \/ Deactivate \/ PowerCycle]_vars

\* What a report and a poll leave of a queue of addresses.
LEMMA SettledReport ==
  ASSUME OtherRange, Report("GOT_IP"), \A i \in 1 .. Len(events) : events[i] = "GOT_IP"
  PROVE  \A i \in 1 .. Len(events') : events'[i] = "GOT_IP"
<1>1. "GOT_IP" \in Event
  BY DEF Event
<1>2. CASE Len(events) = Capacity
  <2>1. events' = events
    BY <1>1, <1>2, Reported
  <2>2. QED BY <2>1
<1>3. CASE Len(events) # Capacity
  <2>1. /\ Len(events') = Len(events) + 1 /\ events'[Len(events) + 1] = "GOT_IP"
        /\ \A i \in 1 .. Len(events) : events'[i] = events[i]
        /\ Len(events) \in Nat
    BY <1>1, <1>3, Reported
  <2>2. QED BY <2>1
<1>4. QED BY <1>2, <1>3

LEMMA SettledPoll ==
  ASSUME OtherRange, Settled, PollEvent
  PROVE  Settled'
<1>1. events \in Seq(Event) /\ events # <<>> /\ events' = Tail(events)
  BY DEF OtherRange, PollEvent
<1>2. /\ Head(events) = events[1] /\ Len(events) \in Nat \ {0}
      /\ Len(events') = Len(events) - 1
      /\ \A i \in 1 .. Len(events) - 1 : events'[i] = events[i + 1]
  BY <1>1, Polled
<1>3. Head(events) = "GOT_IP"
  BY <1>2 DEF Settled
<1>4. m_state' = "CONNECTED"
  BY <1>3 DEF PollEvent, process_event, GotIp
<1>5. \A i \in 1 .. Len(events') : events'[i] = "GOT_IP"
  BY <1>2 DEF Settled
<1>6. QED BY <1>4, <1>5 DEF PollEvent, driver, Settled

\* The part of Recovers that no fairness is needed for.
THEOREM SettledStays == Spec => SettledKept
<1>1. RangeInv /\ [Next]_vars
        => [Settled => Settled' \/ DriverLosesLink \/ Deactivate \/ PowerCycle]_vars
  <2> SUFFICES ASSUME RangeInv, Next, Settled, ~DriverLosesLink, ~Deactivate, ~PowerCycle
               PROVE  Settled'
    OBVIOUS
  <2> USE DEF link, retry, queue, driver
  <2>1. CASE Activate \/ TickConnect \/ TickConnecting \/ TickBackoff \/ DriverReportsClose
    BY <2>1 DEF Settled, Activate, TickConnect, TickConnecting, TickBackoff, DriverReportsClose
  <2>2. CASE TickStart \/ EventsDrained \/ TickConnected \/ Elapse \/ DriverObtainsIp
    <3>1. UNCHANGED <<m_connect_requested, m_state, notice, events>>
      BY <2>2 DEF TickStart, EventsDrained, TickConnected, Elapse, DriverObtainsIp
    <3>2. radio' = "up"
      BY <2>2 DEF Settled, TickStart, EventsDrained, TickConnected, Elapse, DriverObtainsIp
    <3>3. QED BY <3>1, <3>2 DEF Settled
  <2>3. CASE PollEvent
    BY <2>3, SettledPoll DEF RangeInv
  <2>4. CASE DriverReportsIp
    <3>1. \A i \in 1 .. Len(events') : events'[i] = "GOT_IP"
      BY <2>4, SettledReport DEF RangeInv, Settled, DriverReportsIp
    <3>2. QED BY <2>4, <3>1 DEF Settled, DriverReportsIp
  <2>5. QED BY <2>1, <2>2, <2>3, <2>4 DEF Next, Tick, Driver
<1>2. QED BY <1>1, RangeHolds, PTL DEF Spec, SettledKept

\* While an attempt lasts nothing sets its clock back or turns it into one of the other
\* kind, and no tick lets it go on after its time-out.
AttemptTimed ==
  [][m_state = "CONNECTING" /\ m_state' = "CONNECTING" =>
       /\ m_age <= m_age' /\ m_use_fast_connect' = m_use_fast_connect
       /\ TickConnecting => m_age <= ConnectTimeout]_vars

\* The part of ConnectingEnds that no fairness is needed for.
THEOREM AttemptsTimed == Spec => AttemptTimed
<1>1. RangeInv /\ [Next]_vars =>
        [m_state = "CONNECTING" /\ m_state' = "CONNECTING" =>
           /\ m_age <= m_age' /\ m_use_fast_connect' = m_use_fast_connect
           /\ TickConnecting => m_age <= ConnectTimeout]_vars
  <2> SUFFICES ASSUME RangeInv, Next, m_state = "CONNECTING", m_state' = "CONNECTING"
               PROVE  /\ m_age <= m_age' /\ m_use_fast_connect' = m_use_fast_connect
                      /\ TickConnecting => m_age <= ConnectTimeout
    OBVIOUS
  <2> USE DEF link, retry, schedule_backoff
  <2>1. m_age \in Nat /\ m_age <= m_age
    BY DEF RangeInv, RetryRange
  <2>2. TickConnecting => m_age <= ConnectTimeout
    BY DEF TickConnecting
  <2>3. CASE Elapse
    BY <2>1, <2>2, <2>3 DEF Elapse
  <2>4. CASE TickStart \/ EventsDrained \/ TickConnecting \/ TickConnected \/ Driver
    BY <2>1, <2>2, <2>4 DEF TickStart, EventsDrained, TickConnecting, TickConnected, Driver,
       DriverObtainsIp, DriverReportsIp, DriverLosesLink, DriverReportsClose
  <2>5. ~Activate /\ ~Deactivate /\ ~PowerCycle /\ ~TickConnect /\ ~TickBackoff
    BY DEF Activate, Deactivate, PowerCycle, TickConnect, TickBackoff
  <2>6. ~PollEvent
    BY DEF PollEvent, process_event, GotIp, Disconnected
  <2>7. QED BY <2>3, <2>4, <2>5, <2>6 DEF Next, Tick
<1>2. QED BY <1>1, RangeHolds, PTL DEF Spec, AttemptTimed
=============================================================================
