--------------------------- MODULE WifiAdapter_proofs ---------------------------
(* What the adapters guarantee for every capacity of the ring and any number of *)
(* failed inits.  The ring's part follows from the lemmas of EventRing_proofs,  *)
(* which hold for each push and each poll, whoever makes it.  The driver's part *)
(* says, for each call an init or a shutdown is at, which resources are held.   *)
EXTENDS WifiAdapter, EventRing_proofs

USE CapacityAssumption

-----------------------------------------------------------------------------
(* The ring *)

\* The ring of an adapter that was just created.
LEMMA RingOfNew ==
  ASSUME CreateAdapter
  PROVE  RingInv' /\ Pending' = <<>> /\ polled' = NoEvent
<1>1. /\ m_events' = [s \in Slot |-> NoEvent] /\ polled' = NoEvent
      /\ m_event_read' = 0 /\ m_event_write' = 0 /\ m_event_count' = 0
  BY DEF CreateAdapter
<1>2. TypeOK'
  BY <1>1 DEF TypeOK, Slot
<1>3. CountersAgree'
  BY <1>1, Wrap DEF CountersAgree
<1>4. WrittenSlots'
  BY <1>1 DEF WrittenSlots
<1>5. Pending' = <<>>
  BY <1>1 DEF Pending
<1>6. QED BY <1>1, <1>2, <1>3, <1>4, <1>5 DEF RingInv

\* Only creating an adapter, a poll and a report of the driver touch the ring.
LEMMA RingSteps ==
  ASSUME [AdapterNext]_allVars
  PROVE  \/ CreateAdapter
         \/ adapter_poll_event
         \/ \E e \in Event : push_event(e)
         \/ UNCHANGED vars
<1> USE DEF ring, vars
<1>1. CASE CreateAdapter
  BY <1>1
<1>2. CASE CreateCore \/ InitCall \/ InitEnds \/ InitFails
  BY <1>2 DEF CreateCore, InitCall, InitEnds, InitFails
<1>3. CASE DestroyCore \/ DestroyAdapter \/ ShutdownCall \/ ShutdownEnds
  BY <1>3 DEF DestroyCore, DestroyAdapter, ShutdownCall, ShutdownEnds
<1>4. CASE Activate \/ Connect \/ Deactivate
  BY <1>4 DEF Activate, Connect, Deactivate
<1>5. CASE Poll
  BY <1>5 DEF Poll
<1>6. ASSUME NEW e \in Event, Report(e) PROVE push_event(e)
  BY <1>6 DEF Report
<1>7. CASE UNCHANGED allVars
  BY <1>7 DEF allVars
<1>8. QED
  BY <1>1, <1>2, <1>3, <1>4, <1>5, <1>6, <1>7 DEF AdapterNext

LEMMA AdapterRingNext == RingInv /\ [AdapterNext]_allVars => RingInv'
<1> SUFFICES ASSUME RingInv, [AdapterNext]_allVars PROVE RingInv'
  OBVIOUS
<1>1. CASE CreateAdapter
  BY <1>1, RingOfNew
<1>2. CASE adapter_poll_event
  BY <1>2, PollInv
<1>3. ASSUME NEW e \in Event, push_event(e) PROVE RingInv'
  BY <1>3, PushInv
<1>4. CASE UNCHANGED vars
  BY <1>4 DEF vars, RingInv, TypeOK, CountersAgree, WrittenSlots
<1>5. QED BY <1>1, <1>2, <1>3, <1>4, RingSteps

LEMMA RingHolds == AdapterSpec => []RingInv
<1>1. AdapterInit => RingInv
  BY InitInv DEF AdapterInit
<1>2. QED BY <1>1, AdapterRingNext, PTL DEF AdapterSpec

\* The counters of the ring agree through the whole life of an adapter.
THEOREM AdapterCountersAgree == AdapterSpec => []CountersAgree
<1>1. RingInv => CountersAgree
  BY DEF RingInv
<1>2. QED BY <1>1, RingHolds, PTL

\* A core polls only events the driver pushed.
THEOREM AdapterWrittenSlots == AdapterSpec => []WrittenSlots
<1>1. RingInv => WrittenSlots
  BY DEF RingInv
<1>2. QED BY <1>1, RingHolds, PTL

\* The ring implements the lossy queue, which is renewed with the adapter.
THEOREM AdapterImplementsQueue == AdapterSpec => ImplementsLossyQueue
<1>1. AdapterInit => Queue!Init
  BY InitQueue DEF AdapterInit
<1>2. RingInv /\ RingInv' /\ [AdapterNext]_allVars => [Queue!Next]_(Queue!vars)
  <2> SUFFICES ASSUME RingInv, RingInv', [AdapterNext]_allVars
               PROVE  [Queue!Next]_(Queue!vars)
    OBVIOUS
  <2>1. CASE CreateAdapter
    BY <2>1, RingOfNew DEF Queue!Next, Queue!Renew
  <2>2. CASE adapter_poll_event
    BY <2>2, StepRefines DEF Next
  <2>3. ASSUME NEW e \in Event, push_event(e) PROVE [Queue!Next]_(Queue!vars)
    BY <2>3, StepRefines DEF Next
  <2>4. CASE UNCHANGED vars
    BY <2>4, StepRefines
  <2>5. QED BY <2>1, <2>2, <2>3, <2>4, RingSteps
<1>3. QED
  BY <1>1, <1>2, RingHolds, AdapterRingNext, PTL
     DEF AdapterSpec, ImplementsLossyQueue, Queue!Spec

-----------------------------------------------------------------------------
(* The station *)

\* A core is activated only between the functions that create and destroy it, and
\* it has an adapter.
StationInv ==
  /\ station \in BOOLEAN /\ m_connect_requested \in BOOLEAN
  /\ StationOwned
  /\ m_connect_requested => core /\ job = "none"
  /\ core => adapter
  /\ job \in Creates => adapter

LEMMA StationHolds == AdapterSpec => []StationInv
<1>1. AdapterInit => StationInv
  BY DEF AdapterInit, StationInv, StationOwned, Creates
<1>2. StationInv /\ [AdapterNext]_allVars => StationInv'
  <2> SUFFICES ASSUME StationInv, [AdapterNext]_allVars PROVE StationInv'
    OBVIOUS
  <2> USE DEF StationInv, StationOwned, objects, progress
  <2>1. CASE CreateAdapter
    BY <2>1 DEF CreateAdapter, Creates, Destroys
  <2>2. CASE CreateCore
    BY <2>2 DEF CreateCore, Creates, Destroys
  <2>3. CASE InitCall
    BY <2>3 DEF InitCall, Creates, Destroys
  <2>4. CASE InitEnds
    BY <2>4 DEF InitEnds, Creates, Destroys
  <2>5. CASE InitFails
    BY <2>5 DEF InitFails, Creates, Destroys
  <2>6. CASE DestroyCore
    BY <2>6 DEF DestroyCore, Creates, Destroys
  <2>7. CASE DestroyAdapter
    BY <2>7 DEF DestroyAdapter, Creates, Destroys
  <2>8. CASE ShutdownCall
    BY <2>8 DEF ShutdownCall, Creates, Destroys
  <2>9. CASE ShutdownEnds
    BY <2>9 DEF ShutdownEnds, Creates, Destroys
  <2>10. CASE Activate
    BY <2>10 DEF Activate, Creates, Destroys
  <2>11. CASE Connect
    BY <2>11 DEF Connect, Creates, Destroys
  <2>12. CASE Deactivate
    BY <2>12 DEF Deactivate, Creates, Destroys
  <2>13. CASE Poll
    BY <2>13 DEF Poll, Creates, Destroys
  <2>14. ASSUME NEW e \in Event, Report(e) PROVE StationInv'
    BY <2>14 DEF Report
  <2>15. CASE UNCHANGED allVars
    BY <2>15 DEF allVars
  <2>16. QED
    BY <2>1, <2>2, <2>3, <2>4, <2>5, <2>6, <2>7, <2>8, <2>9, <2>10, <2>11, <2>12, <2>13,
       <2>14, <2>15
       DEF AdapterNext
<1>3. QED BY <1>1, <1>2, PTL DEF AdapterSpec

\* The station does not outlive the activation of its core.
THEOREM AdapterStationOwned == AdapterSpec => []StationOwned
<1>1. StationInv => StationOwned
  BY DEF StationInv
<1>2. QED BY <1>1, StationHolds, PTL

-----------------------------------------------------------------------------
(* The driver's resources *)

Call == Resource \cup {"mode", "stop"}

\* c is what is left of the calls s.
LeftOf(c, s) ==
  /\ c \in Seq(Call) /\ Len(c) <= Len(s)
  /\ \A i \in 1 .. Len(c) : c[i] = s[Len(s) - Len(c) + i]

Done(s) == Len(s) - Len(calls)

\* The place of each resource among the calls that take and that release it; the
\* ESP8266 neither takes nor releases the interface and the driver.
TakenAt(r) ==
  IF platform = "ESP32"
  THEN CASE r = "netif" -> 1 [] r = "wifi" -> 2 [] r = "wifi_handler" -> 4 [] OTHER -> 5
  ELSE CASE r = "ip_handler" -> 2 [] r = "wifi_handler" -> 3 [] OTHER -> 4
ReleasedAt(r) ==
  IF platform = "ESP32"
  THEN CASE r = "wifi_handler" -> 1 [] r = "ip_handler" -> 2 [] r = "wifi" -> 4 [] OTHER -> 5
  ELSE CASE r = "ip_handler" -> 1 [] r = "wifi_handler" -> 2 [] OTHER -> 0

\* Whether the adapter has r, also in the midst of an init or a shutdown.
Has(r) ==
  \/ job = "none" /\ Needed(r) = 1
  \/ job \in Creates /\ TakenAt(r) <= Done(InitCalls)
  \/ job = "destroy_core" /\ ReleasedAt(r) > Done(Unregisters)

\* What failed inits may have left behind.
Left(r) == IF r \in leaked THEN failures ELSE 0

DriverTypes ==
  /\ platform \in {"ESP32", "ESP8266"}
  /\ adapter \in BOOLEAN /\ core \in BOOLEAN /\ m_initialized \in BOOLEAN
  /\ live \in [Resource -> Nat]
  /\ job \in Creates \cup Destroys \cup {"none"}
  /\ failures \in 0 .. MaxFailures /\ leaked \subseteq Resource

\* Where each function of the application stands.
Stages ==
  /\ core => adapter
  /\ job = "none" => calls = <<>> /\ (m_initialized <=> core)
  /\ job \in Creates => LeftOf(calls, InitCalls) /\ adapter /\ ~core /\ ~m_initialized
  /\ job = "destroy_core" => LeftOf(calls, Unregisters) /\ core /\ m_initialized
  /\ job = "destroy_adapter" =>
       /\ LeftOf(calls, Unregisters) /\ adapter /\ ~core /\ ~m_initialized
       /\ platform = "ESP32" => calls = <<>>

\* The handler that asks for the address is registered last and is never left behind.
Counts ==
  /\ "ip_handler" \notin leaked
  /\ \A r \in Resource : LET has == IF Has(r) THEN 1 ELSE 0
                         IN  has <= live[r] /\ live[r] <= has + Left(r)

DriverInv == DriverTypes /\ Stages /\ Counts

\* The calls are what they are.
LEMMA CallSequences ==
  ASSUME DriverTypes
  PROVE  /\ InitCalls \in Seq(Call) /\ Unregisters \in Seq(Call)
         /\ Len(InitCalls) = IF platform = "ESP32" THEN 5 ELSE 3
         /\ Len(Unregisters) = IF platform = "ESP32" THEN 5 ELSE 2
<1>1. CASE platform = "ESP32"
  BY <1>1 DEF InitCalls, Unregisters, Call, Resource
<1>2. CASE platform = "ESP8266"
  BY <1>2 DEF InitCalls, Unregisters, Call, Resource
<1>3. QED BY <1>1, <1>2 DEF DriverTypes

LEMMA TakenCall ==
  ASSUME DriverTypes, NEW r \in Resource, NEW n \in Nat, n < Len(InitCalls)
  PROVE  /\ InitCalls[n + 1] = r <=> TakenAt(r) = n + 1
         /\ platform = "ESP8266" /\ InitCalls[n + 1] = "mode" => n = 0
<1>1. CASE platform = "ESP32"
  <2>1. n < 5
    BY <1>1, CallSequences
  <2>2. n \in {0, 1, 2, 3, 4}
    BY <2>1
  <2>3. QED BY <1>1, <2>2 DEF InitCalls, TakenAt, Resource
<1>2. CASE platform = "ESP8266"
  <2>1. n < 3
    BY <1>2, CallSequences
  <2>2. n \in {0, 1, 2}
    BY <2>1
  <2>3. QED BY <1>2, <2>2 DEF InitCalls, TakenAt, Resource
<1>3. QED BY <1>1, <1>2 DEF DriverTypes

LEMMA ReleasedCall ==
  ASSUME DriverTypes, NEW r \in Resource, NEW n \in Nat, n < Len(Unregisters)
  PROVE  Unregisters[n + 1] = r <=> ReleasedAt(r) = n + 1
<1>1. CASE platform = "ESP32"
  <2>0. n < 5
    BY <1>1, CallSequences
  <2>1. n \in {0, 1, 2, 3, 4}
    BY <2>0
  <2>2. QED BY <1>1, <2>1 DEF Unregisters, ReleasedAt, Resource
<1>2. CASE platform = "ESP8266"
  <2>1. n \in {0, 1}
    BY <1>2, CallSequences
  <2>2. QED BY <1>2, <2>1 DEF Unregisters, ReleasedAt, Resource
<1>3. QED BY <1>1, <1>2 DEF DriverTypes

\* Nothing and everything are left of a sequence of calls.
LEMMA LeftEnds ==
  ASSUME NEW s \in Seq(Call)
  PROVE  LeftOf(<<>>, s) /\ LeftOf(s, s)
BY DEF LeftOf

\* The next call is the one after those that were made.
LEMMA NextCall ==
  ASSUME NEW c, NEW s \in Seq(Call), LeftOf(c, s), c # <<>>
  PROVE  /\ Len(c) \in Nat \ {0} /\ Len(s) - Len(c) \in Nat /\ Len(s) - Len(c) < Len(s)
         /\ Head(c) = s[Len(s) - Len(c) + 1]
         /\ Len(Tail(c)) = Len(c) - 1
         /\ LeftOf(Tail(c), s)
<1>1. c \in Seq(Call) /\ Len(c) \in Nat \ {0} /\ Len(s) \in Nat /\ Len(c) <= Len(s)
  BY DEF LeftOf
<1>2. Head(c) = c[1] /\ Tail(c) \in Seq(Call) /\ Len(Tail(c)) = Len(c) - 1
  BY <1>1
<1>3. \A i \in 1 .. Len(c) - 1 : Tail(c)[i] = c[i + 1]
  BY <1>1
<1>4. LeftOf(Tail(c), s)
  <2>1. ASSUME NEW i \in 1 .. Len(c) - 1
        PROVE  c[i + 1] = s[Len(s) - (Len(c) - 1) + i]
    <3>1. i + 1 \in 1 .. Len(c) /\ Len(s) - Len(c) + (i + 1) = Len(s) - (Len(c) - 1) + i
      BY <1>1
    <3>2. QED BY <3>1 DEF LeftOf
  <2>2. QED BY <1>1, <1>2, <1>3, <2>1 DEF LeftOf
<1>5. Head(c) = s[Len(s) - Len(c) + 1]
  BY <1>1, <1>2 DEF LeftOf
<1>6. QED BY <1>1, <1>2, <1>4, <1>5

\* What is counted at each end of a sequence of calls: all before an init and after a
\* shutdown, and what the core needs after an init and before a shutdown.
LEMMA CallEnds ==
  ASSUME DriverTypes, NEW r \in Resource
  PROVE  /\ ~(TakenAt(r) <= 0)
         /\ ~(ReleasedAt(r) > Len(Unregisters))
         /\ TakenAt(r) <= Len(InitCalls) <=>
              platform = "ESP32" \/ r \in {"wifi_handler", "ip_handler"}
         /\ ReleasedAt(r) > 0 <=> platform = "ESP32" \/ r \in {"wifi_handler", "ip_handler"}
<1>1. CASE platform = "ESP32"
  <2>1. Len(InitCalls) = 5 /\ Len(Unregisters) = 5
    BY <1>1, CallSequences
  <2>2. /\ TakenAt(r) \in Nat \ {0} /\ ReleasedAt(r) \in Nat
        /\ ReleasedAt(r) <= 5
    BY <1>1 DEF TakenAt, ReleasedAt, Resource
  <2>3. TakenAt(r) <= 5 <=> platform = "ESP32" \/ r \in {"wifi_handler", "ip_handler"}
    BY <1>1 DEF TakenAt, Resource
  <2>4. ReleasedAt(r) > 0 <=> platform = "ESP32" \/ r \in {"wifi_handler", "ip_handler"}
    BY <1>1 DEF ReleasedAt, Resource
  <2>5. QED BY <2>1, <2>2, <2>3, <2>4
<1>2. CASE platform = "ESP8266"
  <2>1. Len(InitCalls) = 3 /\ Len(Unregisters) = 2
    BY <1>2, CallSequences
  <2>2. /\ TakenAt(r) \in Nat \ {0} /\ ReleasedAt(r) \in Nat
        /\ ReleasedAt(r) <= 2
    BY <1>2 DEF TakenAt, ReleasedAt, Resource
  <2>3. TakenAt(r) <= 3 <=> platform = "ESP32" \/ r \in {"wifi_handler", "ip_handler"}
    BY <1>2 DEF TakenAt, Resource
  <2>4. ReleasedAt(r) > 0 <=> platform = "ESP32" \/ r \in {"wifi_handler", "ip_handler"}
    BY <1>2 DEF ReleasedAt, Resource
  <2>5. QED BY <2>1, <2>2, <2>3, <2>4
<1>3. QED BY <1>1, <1>2 DEF DriverTypes

\* What failed inits left behind is a number, and it does not shrink.
LEMMA LeftRange ==
  ASSUME DriverTypes, NEW r \in Resource PROVE Left(r) \in 0 .. MaxFailures
BY EventAssumption DEF DriverTypes, Left

\* A step that moves neither the resources nor what the adapter has of them.
LEMMA CountsKept ==
  ASSUME Counts, UNCHANGED <<live, faults>>, \A r \in Resource : Has(r)' <=> Has(r)
  PROVE  Counts'
BY DEF Counts, Left, faults

LEMMA DriverInvInit == AdapterInit => DriverInv
<1> SUFFICES ASSUME AdapterInit PROVE DriverInv
  OBVIOUS
<1>1. DriverTypes
  <2>1. failures \in 0 .. MaxFailures /\ leaked \subseteq Resource
    BY EventAssumption DEF AdapterInit
  <2>2. live \in [Resource -> Nat]
    BY DEF AdapterInit
  <2>3. QED BY <2>1, <2>2 DEF AdapterInit, DriverTypes
<1>2. Stages
  BY DEF AdapterInit, Stages, Creates
<1>3. \A r \in Resource : ~Has(r)
  BY DEF AdapterInit, Has, Needed, Creates
<1>4. Counts
  BY <1>3 DEF AdapterInit, Counts, Left
<1>5. QED BY <1>1, <1>2, <1>4 DEF DriverInv

\* A new adapter has nothing of the driver yet.
LEMMA DriverCreateAdapter == ASSUME DriverInv, CreateAdapter PROVE DriverInv'
<1>0. DriverTypes /\ Stages /\ Counts
  BY DEF DriverInv
<1>1. /\ job = "none" /\ calls = <<>> /\ ~core /\ ~m_initialized
      /\ adapter' = TRUE /\ UNCHANGED <<platform, core, m_initialized, live, faults>>
      /\ job' \in {"none", "create_mgr"}
      /\ job' = "none" => calls' = calls
      /\ job' = "create_mgr" => calls' = InitCalls
  BY <1>0 DEF CreateAdapter, Stages, progress
<1>2. DriverTypes'
  BY <1>0, <1>1 DEF DriverTypes, Creates, faults
<1>3. InitCalls \in Seq(Call) /\ InitCalls' = InitCalls
  BY <1>0, <1>1, CallSequences DEF InitCalls
<1>4. Stages'
  BY <1>0, <1>1, <1>3, LeftEnds DEF Stages, Creates
<1>5. ASSUME NEW r \in Resource PROVE ~Has(r) /\ ~Has(r)'
  <2>1. Needed(r) = 0 /\ Needed(r)' = 0
    BY <1>1 DEF Needed
  <2>2. job' = "create_mgr" => Done(InitCalls)' = 0
    BY <1>1, <1>3 DEF Done
  <2>3. TakenAt(r)' = TakenAt(r) /\ ~(TakenAt(r) <= 0)
    BY <1>0, <1>1, CallEnds DEF TakenAt
  <2>4. QED BY <1>1, <2>1, <2>2, <2>3 DEF Has, Creates
<1>6. Counts'
  BY <1>0, <1>1, <1>5, CountsKept
<1>7. QED BY <1>2, <1>4, <1>6 DEF DriverInv

LEMMA DriverCreateCore == ASSUME DriverInv, CreateCore PROVE DriverInv'
<1>0. DriverTypes /\ Stages /\ Counts
  BY DEF DriverInv
<1>1. /\ job = "none" /\ adapter /\ ~core /\ ~m_initialized
      /\ job' = "create_core" /\ calls' = InitCalls
      /\ UNCHANGED <<platform, adapter, core, m_initialized, live, faults>>
  BY <1>0 DEF CreateCore, Stages, objects
<1>2. DriverTypes'
  BY <1>0, <1>1 DEF DriverTypes, Creates, faults
<1>3. InitCalls \in Seq(Call) /\ InitCalls' = InitCalls
  BY <1>0, <1>1, CallSequences DEF InitCalls
<1>4. Stages'
  BY <1>0, <1>1, <1>3, LeftEnds DEF Stages, Creates
<1>5. ASSUME NEW r \in Resource PROVE ~Has(r) /\ ~Has(r)'
  <2>1. Needed(r) = 0
    BY <1>1 DEF Needed
  <2>2. Done(InitCalls)' = 0
    BY <1>1, <1>3 DEF Done
  <2>3. TakenAt(r)' = TakenAt(r) /\ ~(TakenAt(r) <= 0)
    BY <1>0, <1>1, CallEnds DEF TakenAt
  <2>4. QED BY <1>1, <2>1, <2>2, <2>3 DEF Has, Creates
<1>6. Counts'
  BY <1>0, <1>1, <1>5, CountsKept
<1>7. QED BY <1>2, <1>4, <1>6 DEF DriverInv

LEMMA DriverInitCall == ASSUME DriverInv, InitCall PROVE DriverInv'
<1>0. DriverTypes /\ Stages /\ Counts
  BY DEF DriverInv
<1>1. /\ job \in Creates /\ calls # <<>> /\ LeftOf(calls, InitCalls)
      /\ live' = [r \in Resource |-> IF r = Head(calls) THEN live[r] + 1 ELSE live[r]]
      /\ calls' = Tail(calls)
      /\ UNCHANGED <<platform, adapter, core, m_initialized, job, faults>>
  BY <1>0 DEF InitCall, Stages, objects
<1>2. DriverTypes'
  BY <1>0, <1>1 DEF DriverTypes, faults
<1>3. InitCalls \in Seq(Call) /\ InitCalls' = InitCalls
  BY <1>0, <1>1, CallSequences DEF InitCalls
<1>4. /\ Done(InitCalls) \in Nat /\ Done(InitCalls) < Len(InitCalls)
      /\ Head(calls) = InitCalls[Done(InitCalls) + 1]
      /\ Done(InitCalls)' = Done(InitCalls) + 1
      /\ LeftOf(calls', InitCalls)
  BY <1>1, <1>3, NextCall DEF Done
<1>5. Stages'
  BY <1>0, <1>1, <1>3, <1>4 DEF Stages, Creates
<1>6. ASSUME NEW r \in Resource
      PROVE  LET has == IF Has(r)' THEN 1 ELSE 0
             IN  has <= live'[r] /\ live'[r] <= has + Left(r)'
  <2>1. r = Head(calls) <=> TakenAt(r) = Done(InitCalls) + 1
    BY <1>0, <1>4, TakenCall
  <2>2. /\ Has(r) <=> TakenAt(r) <= Done(InitCalls)
        /\ Has(r)' <=> TakenAt(r) <= Done(InitCalls) + 1
    BY <1>1, <1>4 DEF Has, Creates, TakenAt
  <2>3. /\ live[r] \in Nat /\ Left(r) \in Nat /\ Left(r)' = Left(r)
        /\ live'[r] = IF r = Head(calls) THEN live[r] + 1 ELSE live[r]
    BY <1>0, <1>1, LeftRange DEF DriverTypes, Left, faults
  <2>4. (IF Has(r) THEN 1 ELSE 0) <= live[r] /\ live[r] <= (IF Has(r) THEN 1 ELSE 0) + Left(r)
    BY <1>0 DEF Counts
  <2>5. TakenAt(r) \in Nat
    BY DEF TakenAt
  <2>6. QED BY <1>4, <2>1, <2>2, <2>3, <2>4, <2>5
<1>7. Counts'
  BY <1>0, <1>1, <1>6 DEF Counts, faults
<1>8. QED BY <1>2, <1>5, <1>7 DEF DriverInv

LEMMA DriverInitEnds == ASSUME DriverInv, InitEnds PROVE DriverInv'
<1>0. DriverTypes /\ Stages /\ Counts
  BY DEF DriverInv
<1>1. /\ job \in Creates /\ calls = <<>> /\ adapter
      /\ m_initialized' = TRUE /\ core' = TRUE /\ job' = "none"
      /\ UNCHANGED <<platform, adapter, live, calls, faults>>
  BY <1>0 DEF InitEnds, Stages
<1>2. DriverTypes'
  BY <1>0, <1>1 DEF DriverTypes, faults
<1>3. Stages'
  BY <1>1 DEF Stages, Creates
<1>4. ASSUME NEW r \in Resource PROVE Has(r)' <=> Has(r)
  <2>1. Done(InitCalls) = Len(InitCalls)
    BY <1>0, <1>1, CallSequences DEF Done
  <2>2. Has(r) <=> platform = "ESP32" \/ r \in {"wifi_handler", "ip_handler"}
    BY <1>0, <1>1, <2>1, CallEnds DEF Has, Creates
  <2>3. Has(r)' <=> platform = "ESP32" \/ r \in {"wifi_handler", "ip_handler"}
    BY <1>1 DEF Has, Needed, Creates
  <2>4. QED BY <2>2, <2>3
<1>5. Counts'
  BY <1>0, <1>1, <1>4, CountsKept
<1>6. QED BY <1>2, <1>3, <1>5 DEF DriverInv

\* What the init had taken is counted as left behind; the handler that asks for the
\* address it had not.
LEMMA DriverInitFails == ASSUME DriverInv, InitFails PROVE DriverInv'
<1>0. DriverTypes /\ Stages /\ Counts
  BY DEF DriverInv
<1>1. /\ job \in Creates /\ calls # <<>> /\ failures < MaxFailures
      /\ platform = "ESP32" \/ Head(calls) = "mode"
      /\ failures' = failures + 1
      /\ leaked' = leaked \cup {r \in Resource : live[r] > 0}
      /\ LeftOf(calls, InitCalls) /\ adapter /\ ~core /\ ~m_initialized
      /\ job' \in {"none", "destroy_adapter"}
      /\ job' = "none" => calls' = <<>>
      /\ job' = "destroy_adapter" => calls' = ShutdownCalls
      /\ UNCHANGED <<platform, adapter, core, m_initialized, live>>
  BY <1>0 DEF InitFails, Stages, objects
<1>2. DriverTypes'
  BY <1>0, <1>1, EventAssumption DEF DriverTypes, Destroys
<1>3. Unregisters \in Seq(Call) /\ InitCalls \in Seq(Call) /\ Unregisters' = Unregisters
  BY <1>0, <1>1, CallSequences DEF Unregisters
<1>4. Stages'
  <2>1. job' = "destroy_adapter" => LeftOf(calls', Unregisters)
    BY <1>1, <1>3, LeftEnds DEF ShutdownCalls
  <2>2. job' = "destroy_adapter" /\ platform = "ESP32" => calls' = <<>>
    BY <1>1 DEF ShutdownCalls
  <2>3. QED BY <1>1, <1>3, <2>1, <2>2 DEF Stages, Creates
<1>5. ASSUME NEW r \in Resource PROVE ~Has(r)'
  BY <1>1 DEF Has, Needed, Creates
<1>6. ASSUME NEW r \in Resource PROVE 0 <= live[r] /\ live[r] <= Left(r)'
  <2>1. /\ live[r] \in Nat /\ live[r] <= 1 + Left(r)
        /\ failures \in Nat /\ Left(r) \in Nat /\ Left(r) <= failures
    BY <1>0, LeftRange DEF Counts, DriverTypes, Left
  <2>2. live[r] > 0 => Left(r)' = failures + 1
    BY <1>1 DEF Left
  <2>3. Left(r)' \in {0, failures + 1}
    BY <1>1 DEF Left
  <2>4. QED BY <2>1, <2>2, <2>3
<1>7. "ip_handler" \notin leaked'
  <2>1. /\ Done(InitCalls) \in Nat /\ Done(InitCalls) < Len(InitCalls)
        /\ Head(calls) = InitCalls[Done(InitCalls) + 1]
    BY <1>1, <1>3, NextCall DEF Done
  <2>2. "ip_handler" \in Resource
    BY DEF Resource
  <2>3. ~(TakenAt("ip_handler") <= Done(InitCalls))
    <3>1. CASE platform = "ESP32"
      <4>1. Done(InitCalls) < 5
        BY <1>0, <2>1, <3>1, CallSequences
      <4>2. QED BY <2>1, <3>1, <4>1 DEF TakenAt
    <3>2. CASE platform = "ESP8266"
      <4>1. Done(InitCalls) = 0
        BY <1>0, <1>1, <2>1, <2>2, <3>2, TakenCall
      <4>2. QED BY <3>2, <4>1 DEF TakenAt
    <3>3. QED BY <1>0, <3>1, <3>2 DEF DriverTypes
  <2>4. ~Has("ip_handler")
    BY <1>1, <2>3 DEF Has, Creates
  <2>5. Left("ip_handler") = 0
    BY <1>0 DEF Counts, Left
  <2>6. live["ip_handler"] = 0
    BY <1>0, <2>2, <2>4, <2>5 DEF Counts, DriverTypes
  <2>7. QED BY <1>0, <1>1, <2>6 DEF Counts
<1>8. Counts'
  <2>1. ASSUME NEW r \in Resource
        PROVE  LET has == IF Has(r)' THEN 1 ELSE 0
               IN  has <= live'[r] /\ live'[r] <= has + Left(r)'
    <3>1. live'[r] = live[r] /\ ~Has(r)'
      BY <1>1, <1>5
    <3>2. Left(r)' \in Nat
      BY <1>0, <1>1 DEF DriverTypes, Left
    <3>3. QED BY <1>6, <3>1, <3>2
  <2>2. QED BY <1>7, <2>1 DEF Counts
<1>9. QED BY <1>2, <1>4, <1>8 DEF DriverInv

LEMMA DriverDestroyCore == ASSUME DriverInv, DestroyCore PROVE DriverInv'
<1>0. DriverTypes /\ Stages /\ Counts
  BY DEF DriverInv
<1>1. /\ job = "none" /\ core /\ adapter /\ m_initialized
      /\ job' = "destroy_core" /\ calls' = Unregisters
      /\ UNCHANGED <<platform, adapter, core, m_initialized, live, faults>>
  BY <1>0 DEF DestroyCore, ShutdownCalls, Stages
<1>2. DriverTypes'
  BY <1>0, <1>1 DEF DriverTypes, Destroys, faults
<1>3. Unregisters \in Seq(Call) /\ Unregisters' = Unregisters
  BY <1>0, <1>1, CallSequences DEF Unregisters
<1>4. Stages'
  BY <1>0, <1>1, <1>3, LeftEnds DEF Stages, Creates
<1>5. ASSUME NEW r \in Resource PROVE Has(r)' <=> Has(r)
  <2>1. Done(Unregisters)' = 0
    BY <1>1, <1>3 DEF Done
  <2>2. ReleasedAt(r)' = ReleasedAt(r)
    BY <1>1 DEF ReleasedAt
  <2>3. Has(r)' <=> platform = "ESP32" \/ r \in {"wifi_handler", "ip_handler"}
    BY <1>0, <1>1, <2>1, <2>2, CallEnds DEF Has, Creates
  <2>4. Has(r) <=> platform = "ESP32" \/ r \in {"wifi_handler", "ip_handler"}
    BY <1>1 DEF Has, Needed, Creates
  <2>5. QED BY <2>3, <2>4
<1>6. Counts'
  BY <1>0, <1>1, <1>5, CountsKept
<1>7. QED BY <1>2, <1>4, <1>6 DEF DriverInv

LEMMA DriverDestroyAdapter == ASSUME DriverInv, DestroyAdapter PROVE DriverInv'
<1>0. DriverTypes /\ Stages /\ Counts
  BY DEF DriverInv
<1>1. /\ job = "none" /\ ~core /\ adapter /\ ~m_initialized
      /\ job' = "destroy_adapter" /\ calls' = ShutdownCalls
      /\ UNCHANGED <<platform, adapter, core, m_initialized, live, faults>>
  BY <1>0 DEF DestroyAdapter, Stages, objects
<1>2. DriverTypes'
  BY <1>0, <1>1 DEF DriverTypes, Destroys, faults
<1>3. Unregisters \in Seq(Call) /\ Unregisters' = Unregisters
  BY <1>0, <1>1, CallSequences DEF Unregisters
<1>4. Stages'
  <2>1. LeftOf(calls', Unregisters) /\ (platform = "ESP32" => calls' = <<>>)
    BY <1>1, <1>3, LeftEnds DEF ShutdownCalls
  <2>2. QED BY <1>1, <1>3, <2>1 DEF Stages, Creates
<1>5. ASSUME NEW r \in Resource PROVE ~Has(r) /\ ~Has(r)'
  BY <1>1 DEF Has, Needed, Creates
<1>6. Counts'
  BY <1>0, <1>1, <1>5, CountsKept
<1>7. QED BY <1>2, <1>4, <1>6 DEF DriverInv

LEMMA DriverShutdownCall == ASSUME DriverInv, ShutdownCall PROVE DriverInv'
<1>0. DriverTypes /\ Stages /\ Counts
  BY DEF DriverInv
<1>1. /\ job \in Destroys /\ calls # <<>> /\ LeftOf(calls, Unregisters)
      /\ live' = [r \in Resource |-> IF r = Head(calls) THEN Released(r) ELSE live[r]]
      /\ calls' = Tail(calls)
      /\ UNCHANGED <<platform, adapter, core, m_initialized, job, faults>>
  BY <1>0 DEF ShutdownCall, Stages, Destroys
<1>2. Unregisters \in Seq(Call) /\ Unregisters' = Unregisters
  BY <1>0, <1>1, CallSequences DEF Unregisters
<1>3. /\ Done(Unregisters) \in Nat /\ Done(Unregisters) < Len(Unregisters)
      /\ Head(calls) = Unregisters[Done(Unregisters) + 1]
      /\ Done(Unregisters)' = Done(Unregisters) + 1
      /\ LeftOf(calls', Unregisters)
  BY <1>1, <1>2, NextCall DEF Done
<1>4. Stages'
  BY <1>0, <1>1, <1>2, <1>3 DEF Stages, Creates, Destroys
<1>5. ASSUME NEW r \in Resource
      PROVE  /\ live'[r] \in Nat
             /\ LET has == IF Has(r)' THEN 1 ELSE 0
                IN  has <= live'[r] /\ live'[r] <= has + Left(r)'
  <2>1. r = Head(calls) <=> ReleasedAt(r) = Done(Unregisters) + 1
    BY <1>0, <1>3, ReleasedCall
  <2>2. /\ live[r] \in Nat /\ Left(r) \in Nat /\ Left(r)' = Left(r)
        /\ live'[r] = IF r = Head(calls) THEN Released(r) ELSE live[r]
    BY <1>0, <1>1, LeftRange DEF DriverTypes, Left, faults
  <2>3. (IF Has(r) THEN 1 ELSE 0) <= live[r] /\ live[r] <= (IF Has(r) THEN 1 ELSE 0) + Left(r)
    BY <1>0 DEF Counts
  <2>4. ReleasedAt(r) \in Nat
    BY DEF ReleasedAt
  <2>5. CASE job = "destroy_core"
    <3>1. /\ Has(r) <=> ReleasedAt(r) > Done(Unregisters)
          /\ Has(r)' <=> ReleasedAt(r) > Done(Unregisters) + 1
      BY <1>1, <1>3, <2>5 DEF Has, Creates, ReleasedAt
    <3>2. r = Head(calls) => live'[r] \in {live[r] - 1, 0}
      BY <2>2 DEF Released
    <3>3. CASE r = Head(calls)
      BY <1>3, <2>1, <2>2, <2>3, <2>4, <3>1, <3>2, <3>3
    <3>4. CASE r # Head(calls)
      BY <1>3, <2>1, <2>2, <2>3, <2>4, <3>1, <3>4
    <3>5. QED BY <3>3, <3>4
  <2>6. CASE job = "destroy_adapter"
    <3>1. platform # "ESP32"
      BY <1>0, <1>1, <2>6 DEF Stages
    <3>2. ~Has(r) /\ ~Has(r)'
      BY <1>1, <2>6 DEF Has, Creates
    <3>3. live'[r] \in {live[r], 0}
      BY <2>2, <3>1 DEF Released
    <3>4. QED BY <2>2, <2>3, <3>2, <3>3
  <2>7. QED BY <1>1, <2>5, <2>6 DEF Destroys
<1>6. DriverTypes'
  <2>1. live' \in [Resource -> Nat]
    BY <1>1, <1>5
  <2>2. QED BY <1>0, <1>1, <2>1 DEF DriverTypes, faults
<1>7. Counts'
  BY <1>0, <1>1, <1>5 DEF Counts, faults
<1>8. QED BY <1>4, <1>6, <1>7 DEF DriverInv

LEMMA DriverShutdownEnds == ASSUME DriverInv, ShutdownEnds PROVE DriverInv'
<1>0. DriverTypes /\ Stages /\ Counts
  BY DEF DriverInv
<1>1. /\ job \in Destroys /\ calls = <<>>
      /\ m_initialized' = FALSE /\ core' = FALSE /\ job' = "none"
      /\ adapter' = (job = "destroy_core")
      /\ UNCHANGED <<platform, live, calls, faults>>
  BY <1>0 DEF ShutdownEnds
<1>2. adapter' \in BOOLEAN
  BY <1>1
<1>3. DriverTypes'
  BY <1>0, <1>1, <1>2 DEF DriverTypes, faults
<1>4. Stages'
  BY <1>1 DEF Stages, Creates
<1>5. ASSUME NEW r \in Resource PROVE ~Has(r) /\ ~Has(r)'
  <2>1. Done(Unregisters) = Len(Unregisters)
    BY <1>0, <1>1, CallSequences DEF Done
  <2>2. ~(ReleasedAt(r) > Done(Unregisters))
    BY <1>0, <2>1, CallEnds
  <2>3. ~Has(r)
    BY <1>1, <2>2 DEF Has, Creates, Destroys
  <2>4. QED BY <1>1, <2>3 DEF Has, Needed, Creates
<1>6. Counts'
  BY <1>0, <1>1, <1>5, CountsKept
<1>7. QED BY <1>3, <1>4, <1>6 DEF DriverInv

\* Everything else leaves the resources, and what is needed of them, alone.
LEMMA DriverKept ==
  ASSUME DriverInv,
         UNCHANGED <<platform, adapter, core, m_initialized, live, progress, faults>>
  PROVE  DriverInv'
<1>0. DriverTypes /\ Stages /\ Counts
  BY DEF DriverInv
<1>1. DriverTypes'
  BY <1>0 DEF DriverTypes, progress, faults
<1>2. InitCalls' = InitCalls /\ Unregisters' = Unregisters
  BY DEF InitCalls, Unregisters
<1>3. Stages'
  BY <1>0, <1>2 DEF Stages, progress
<1>4. ASSUME NEW r \in Resource PROVE Has(r)' <=> Has(r)
  BY <1>2 DEF Has, Done, TakenAt, ReleasedAt, Needed, progress
<1>5. Counts'
  BY <1>0, <1>4, CountsKept
<1>6. QED BY <1>1, <1>3, <1>5 DEF DriverInv

LEMMA DriverInvNext == DriverInv /\ [AdapterNext]_allVars => DriverInv'
<1> SUFFICES ASSUME DriverInv, [AdapterNext]_allVars PROVE DriverInv'
  OBVIOUS
<1>1. CASE CreateAdapter
  BY <1>1, DriverCreateAdapter
<1>2. CASE CreateCore
  BY <1>2, DriverCreateCore
<1>3. CASE InitCall
  BY <1>3, DriverInitCall
<1>4. CASE InitEnds
  BY <1>4, DriverInitEnds
<1>5. CASE InitFails
  BY <1>5, DriverInitFails
<1>6. CASE DestroyCore
  BY <1>6, DriverDestroyCore
<1>7. CASE DestroyAdapter
  BY <1>7, DriverDestroyAdapter
<1>8. CASE ShutdownCall
  BY <1>8, DriverShutdownCall
<1>9. CASE ShutdownEnds
  BY <1>9, DriverShutdownEnds
<1>10. CASE Activate
  BY <1>10, DriverKept DEF Activate
<1>11. CASE Connect \/ Deactivate
  BY <1>11, DriverKept DEF Connect, Deactivate
<1>12. CASE Poll
  BY <1>12, DriverKept DEF Poll, objects
<1>13. ASSUME NEW e \in Event, Report(e) PROVE DriverInv'
  BY <1>13, DriverKept DEF Report, objects
<1>14. CASE UNCHANGED allVars
  BY <1>14, DriverKept DEF allVars, objects
<1>15. QED
  BY <1>1, <1>2, <1>3, <1>4, <1>5, <1>6, <1>7, <1>8, <1>9, <1>10, <1>11, <1>12, <1>13,
     <1>14 DEF AdapterNext

LEMMA DriverHolds == AdapterSpec => []DriverInv
BY DriverInvInit, DriverInvNext, PTL DEF AdapterSpec

\* However many inits fail and at whichever call, an adapter has what its core needs of
\* the driver and no more than what those inits left behind.
THEOREM AdapterBalanced == AdapterSpec => []Balanced
<1>1. DriverInv => Balanced
  <2> SUFFICES ASSUME DriverInv PROVE Balanced
    OBVIOUS
  <2>1. DriverTypes /\ Stages /\ Counts
    BY DEF DriverInv
  <2>2. m_initialized => adapter
    BY <2>1 DEF DriverTypes, Stages, Destroys
  <2>3. ASSUME job = "none", NEW r \in Resource
        PROVE  Needed(r) <= live[r] /\ live[r] <= Needed(r) + Left(r)
    <3>1. Needed(r) = IF Has(r) THEN 1 ELSE 0
      BY <2>3 DEF Has, Needed, Creates
    <3>2. QED BY <2>1, <3>1 DEF Counts
  <2>4. QED BY <2>1, <2>2, <2>3 DEF Balanced, Stages, Left
<1>2. QED BY <1>1, DriverHolds, PTL

\* Also between the calls of an init or a shutdown the event task finds what its
\* handlers use.
THEOREM AdapterHandlersServed == AdapterSpec => []HandlersServed
<1>1. DriverInv => HandlersServed
  <2> SUFFICES ASSUME DriverInv PROVE HandlersServed
    OBVIOUS
  <2>1. DriverTypes /\ Stages /\ Counts
    BY DEF DriverInv
  <2>2. ASSUME NEW r \in Resource, r \notin leaked, live[r] > 0 PROVE Has(r)
    BY <2>1, <2>2 DEF Counts, DriverTypes, Left
  <2>3. ASSUME NEW r \in Resource, Has(r) PROVE adapter
    BY <2>1, <2>3 DEF Has, Needed, Stages
  <2>4. "ip_handler" \in Resource /\ "wifi_handler" \in Resource /\ "netif" \in Resource
    BY DEF Resource
  <2>5. ASSUME Has("ip_handler"), platform = "ESP32" PROVE live["netif"] > 0
    <3>1. Has("netif")
      <4>1. TakenAt("netif") = 1 /\ TakenAt("ip_handler") = 5
        BY <2>5 DEF TakenAt
      <4>2. ReleasedAt("netif") = 5 /\ ReleasedAt("ip_handler") = 2
        BY <2>5 DEF ReleasedAt
      <4>3. /\ job \in Creates => Done(InitCalls) \in Nat
            /\ job = "destroy_core" => Done(Unregisters) \in Nat
        BY <2>1, CallSequences DEF Done, Stages, LeftOf
      <4>4. Needed("netif") = Needed("ip_handler")
        BY <2>5 DEF Needed
      <4>5. QED BY <2>5, <4>1, <4>2, <4>3, <4>4 DEF Has
    <3>2. QED BY <2>1, <2>4, <3>1 DEF Counts, DriverTypes
  <2>6. live["ip_handler"] > 0 => adapter /\ (platform = "ESP32" => live["netif"] > 0)
    BY <2>1, <2>2, <2>3, <2>4, <2>5 DEF Counts
  <2>7. live["wifi_handler"] > 0 => adapter \/ "wifi_handler" \in leaked
    BY <2>2, <2>3, <2>4
  <2>8. QED BY <2>6, <2>7 DEF HandlersServed
<1>2. QED BY <1>1, DriverHolds, PTL

\* Every variable stays in its range; in particular no resource is taken more often
\* than there are inits that failed, and one.
THEOREM AdapterTypeCorrect == AdapterSpec => []AdapterTypeOK
<1>1. RingInv /\ StationInv /\ DriverInv => AdapterTypeOK
  <2> SUFFICES ASSUME RingInv, StationInv, DriverInv PROVE AdapterTypeOK
    OBVIOUS
  <2>1. DriverTypes /\ Stages /\ Counts
    BY DEF DriverInv
  <2>2. {adapter, core, m_initialized, m_connect_requested, station} \subseteq BOOLEAN
    BY <2>1 DEF StationInv, DriverTypes
  <2>3. ASSUME NEW r \in Resource PROVE live[r] \in 0 .. MaxFailures + 1
    BY <2>1, LeftRange, EventAssumption DEF Counts, DriverTypes
  <2>4. live \in [Resource -> 0 .. MaxFailures + 1]
    BY <2>1, <2>3 DEF DriverTypes
  <2>5. calls \in Seq(Resource \cup {"mode", "stop"})
    <3>1. <<>> \in Seq(Call)
      OBVIOUS
    <3>2. calls \in Seq(Call)
      BY <2>1, <3>1 DEF Stages, DriverTypes, LeftOf, Destroys
    <3>3. QED BY <3>2 DEF Call
  <2>6. QED BY <2>1, <2>2, <2>4, <2>5 DEF AdapterTypeOK, DriverTypes, RingInv
<1>2. QED BY <1>1, RingHolds, StationHolds, DriverHolds, PTL
================================================================================
