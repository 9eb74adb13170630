-------------------------- MODULE WifiRetries_proofs --------------------------
(* How the Wi-Fi manager paces its requests and counts the addresses, for every  *)
(* back-off, jitter, time-out, modulus and length of the queue.                  *)
(*                                                                               *)
(* The history of WifiRetries is tied to the manager's state: what is known when *)
(* the manager is about to ask again follows from how it left the last request.  *)
EXTENDS WifiRetries, WifiManager_proofs, FiniteSetTheorems

USE BackoffAssumption, CacheAssumption, GenerationAssumption

\* What the latest request says of the state the manager has got to since.
\*  - Parameters for a fast connect are there whenever one is wanted, so that a normal
\*    request means that none is wanted any more.
\*  - Whoever comes back to DISCONNECTED has given up the fast connect or, in BACKOFF,
\*    has waited: there pace is at least the age of the back-off.
Paced ==
  /\ request \in {"none", "fast", "normal"} /\ pace \in 0 .. InitBackoff
  /\ m_use_fast_connect => m_cache # Blank
  /\ request = "normal" => ~m_use_fast_connect
  /\ m_state = "DISCONNECTED" /\ m_use_fast_connect => request = "none"
  /\ m_state = "DISCONNECTED" /\ request = "normal" => pace >= InitBackoff
  /\ m_state = "BACKOFF" /\ request = "normal" => pace >= Least(m_age, InitBackoff)

PacedInv == RangeInv /\ Paced

\* The history adds nothing to the steps of the manager.
LEMMA StepOfManager == ASSUME [HNext]_hvars PROVE [Next]_vars
<1>1. CASE HActivate \/ HTickConnect \/ HElapse
  BY <1>1 DEF HActivate, HTickConnect, HElapse, Next, Tick
<1>2. CASE HDriverReportsIp \/ HPowerCycle
  BY <1>2 DEF HDriverReportsIp, HPowerCycle, Next, Driver
<1>3. CASE HOther
  BY <1>3 DEF HOther, Next, Tick, Driver
<1>4. CASE UNCHANGED hvars
  BY <1>4 DEF hvars
<1>5. QED BY <1>1, <1>2, <1>3, <1>4 DEF HNext

LEMMA PacedInit == HInit => PacedInv
<1> SUFFICES ASSUME HInit PROVE PacedInv
  OBVIOUS
<1>1. RangeInv
  BY RangeInit DEF HInit
<1>2. Paced
  <2>1. m_use_fast_connect => m_cache # Blank
    BY DEF HInit, Init, is_cache_valid
  <2>2. request = "none" /\ pace \in 0 .. InitBackoff
    BY DEF HInit
  <2>3. QED BY <2>1, <2>2 DEF Paced
<1>3. QED BY <1>1, <1>2 DEF PacedInv

\* A back-off is entered at age 0, which asks nothing of the pace.
LEMMA PacedBackoff ==
  ASSUME PacedInv, schedule_backoff, m_use_fast_connect' = m_use_fast_connect,
         m_cache' = m_cache, UNCHANGED history
  PROVE  Paced'
<1>1. m_state' = "BACKOFF" /\ m_age' = 0
  BY DEF schedule_backoff
<1>2. Least(0, InitBackoff) = 0
  BY DEF Least
<1>3. QED BY <1>1, <1>2 DEF PacedInv, Paced, history

\* The fast connect is given up, which the manager does before any normal request.
LEMMA PacedFallback ==
  ASSUME PacedInv, m_use_fast_connect, m_use_fast_connect' = FALSE,
         m_state' = "DISCONNECTED", m_cache' = m_cache, UNCHANGED history
  PROVE  Paced'
BY DEF PacedInv, Paced, history

\* Neither DISCONNECTED nor BACKOFF is entered, and both are left alone.
LEMMA PacedKept ==
  ASSUME PacedInv, UNCHANGED <<m_state, retry>>, m_cache' = m_cache, UNCHANGED history
  PROVE  Paced'
BY DEF PacedInv, Paced, history, retry

\* An event leads to CONNECTED, to a back-off or to the full connect, or is ignored.
LEMMA PacedPoll ==
  ASSUME PacedInv, PollEvent, UNCHANGED history
  PROVE  Paced'
<1>1. CASE GotIp
  <2>1. m_cache' = m_cache \/ m_cache' # Blank
    BY <1>1 DEF GotIp, update_link_info
  <2>2. QED BY <1>1, <2>1 DEF GotIp, PacedInv, Paced, history
<1>2. CASE Disconnected
  <2>1. m_cache' = m_cache
    BY <1>2 DEF Disconnected
  <2>2. CASE UNCHANGED <<m_state, retry>>
    BY <2>1, <2>2, PacedKept
  <2>3. CASE m_use_fast_connect /\ m_use_fast_connect' = FALSE /\ m_state' = "DISCONNECTED"
    BY <2>1, <2>3, PacedFallback
  <2>4. CASE schedule_backoff /\ UNCHANGED m_use_fast_connect
    BY <2>1, <2>4, PacedBackoff
  <2>5. QED BY <1>2, <2>2, <2>3, <2>4 DEF Disconnected
<1>3. QED BY <1>1, <1>2 DEF PollEvent, process_event

LEMMA PacedNext == PacedInv /\ [HNext]_hvars => PacedInv'
<1> SUFFICES ASSUME PacedInv, [HNext]_hvars PROVE PacedInv'
  OBVIOUS
<1>0. RangeInv'
  BY StepOfManager, RangeNext DEF PacedInv
<1> SUFFICES Paced'
  BY <1>0 DEF PacedInv
<1>1. CASE HActivate
  BY <1>1 DEF HActivate, Activate, schedule_backoff, retry, PacedInv, Paced
<1>2. CASE HTickConnect
  <2>1. /\ TickConnect /\ request' = (IF FastRequest THEN "fast" ELSE "normal") /\ pace' = 0
        /\ UNCHANGED <<m_use_fast_connect, m_cache>>
    BY <1>2 DEF HTickConnect, TickConnect, TickConnectAccepted, TickConnectRefused
  <2>2. m_state' \in {"CONNECTING", "BACKOFF"} /\ m_age' = 0
    BY <2>1 DEF TickConnect, TickConnectAccepted, TickConnectRefused, schedule_backoff
  <2>3. request' = "normal" => ~m_use_fast_connect
    BY <2>1 DEF FastRequest, PacedInv, Paced
  <2>4. Least(0, InitBackoff) = 0
    BY DEF Least
  <2>5. request' \in {"none", "fast", "normal"} /\ pace' \in 0 .. InitBackoff
    BY <2>1
  <2>6. QED BY <2>1, <2>2, <2>3, <2>4, <2>5 DEF PacedInv, Paced
<1>3. CASE HElapse
  <2>1. /\ UNCHANGED <<m_state, m_use_fast_connect, m_cache, request>>
        /\ m_age' = m_age + 1 /\ pace' = Least(pace + 1, InitBackoff)
    BY <1>3 DEF HElapse, Elapse, link
  <2>2. m_age \in Nat /\ pace \in 0 .. InitBackoff
    BY DEF PacedInv, RangeInv, RetryRange, Paced
  <2>3. /\ pace' \in 0 .. InitBackoff /\ pace' >= pace
        /\ pace >= Least(m_age, InitBackoff) => pace' >= Least(m_age', InitBackoff)
    BY <2>1, <2>2 DEF Least
  <2>4. QED BY <2>1, <2>2, <2>3 DEF PacedInv, Paced
<1>4. CASE HDriverReportsIp
  <2>1. UNCHANGED <<m_state, retry, m_cache, request, pace>>
    BY <1>4 DEF HDriverReportsIp, DriverReportsIp, link
  <2>2. QED BY <2>1 DEF PacedInv, Paced, retry
<1>5. CASE HPowerCycle
  <2>1. m_use_fast_connect' => m_cache' # Blank
    BY <1>5 DEF HPowerCycle, PowerCycle, is_cache_valid
  <2>2. request' = "none" /\ pace' \in 0 .. InitBackoff
    BY <1>5 DEF HPowerCycle
  <2>3. QED BY <2>1, <2>2 DEF Paced
<1>6. CASE HOther
  <2>1. UNCHANGED history
    BY <1>6 DEF HOther
  <2>2. CASE Deactivate
    BY <2>1, <2>2 DEF Deactivate, retry, history, PacedInv, Paced
  <2>3. CASE PollEvent
    BY <2>1, <2>3, PacedPoll
  <2>4. CASE TickStart \/ EventsDrained \/ TickConnected
    BY <2>1, <2>4, PacedKept DEF TickStart, EventsDrained, TickConnected, link
  <2>5. CASE TickConnecting
    <3>1. m_cache' = m_cache
      BY <2>5 DEF TickConnecting
    <3>2. CASE UNCHANGED <<m_state, retry>>
      BY <2>1, <3>1, <3>2, PacedKept
    <3>3. CASE m_use_fast_connect /\ m_use_fast_connect' = FALSE /\ m_state' = "DISCONNECTED"
      BY <2>1, <3>1, <3>3, PacedFallback
    <3>4. CASE schedule_backoff /\ UNCHANGED m_use_fast_connect
      BY <2>1, <3>1, <3>4, PacedBackoff
    <3>5. QED BY <2>5, <3>2, <3>3, <3>4 DEF TickConnecting
  <2>6. CASE TickBackoff
    <3>1. m_cache' = m_cache
      BY <2>6 DEF TickBackoff
    <3>2. CASE UNCHANGED <<m_state, retry>>
      BY <2>1, <3>1, <3>2, PacedKept
    <3>3. CASE m_age >= m_current_wait_ms /\ m_use_fast_connect' = FALSE
               /\ m_state' = "DISCONNECTED"
      <4>1. m_age \in Nat /\ m_current_wait_ms \in Nat /\ InitBackoff <= m_current_wait_ms
        BY DEF PacedInv, RangeInv, RetryRange, WaitInBounds
      <4>2. Least(m_age, InitBackoff) = InitBackoff
        BY <3>3, <4>1 DEF Least
      <4>3. m_state = "BACKOFF"
        BY <2>6 DEF TickBackoff
      <4>4. QED BY <2>1, <3>3, <4>2, <4>3 DEF PacedInv, Paced, history
    <3>4. QED BY <2>6, <3>2, <3>3 DEF TickBackoff
  <2>7. CASE DriverObtainsIp \/ DriverLosesLink \/ DriverReportsClose
    BY <2>1, <2>7, PacedKept DEF DriverObtainsIp, DriverLosesLink, DriverReportsClose, link
  <2>8. QED BY <1>6, <2>2, <2>3, <2>4, <2>5, <2>6, <2>7 DEF HOther
<1>7. CASE UNCHANGED hvars
  <2>1. UNCHANGED <<m_state, retry, m_cache, history>>
    BY <1>7 DEF hvars, vars, link
  <2>2. QED BY <2>1, PacedKept
<1>8. QED BY <1>1, <1>2, <1>3, <1>4, <1>5, <1>6, <1>7 DEF HNext

LEMMA PacedHolds == HSpec => []PacedInv
BY PacedInit, PacedNext, PTL DEF HSpec

-----------------------------------------------------------------------------
\* Between two requests of one activation lies the initial back-off at least, unless
\* the first was the fast one.
THEOREM RequestsPaced == HSpec => RetryPaced
<1>1. PacedInv /\ [HNext]_hvars
        => [TickConnect /\ request = "normal" => pace >= InitBackoff]_hvars
  BY DEF PacedInv, Paced, TickConnect
<1>2. QED BY <1>1, PacedHolds, PTL DEF HSpec, RetryPaced

\* A fast request is the first of its activation.
THEOREM FastIsFirst == HSpec => FastOnlyFirst
<1>1. PacedInv /\ [HNext]_hvars => [TickConnect /\ FastRequest => request = "none"]_hvars
  BY DEF PacedInv, Paced, TickConnect, FastRequest
<1>2. QED BY <1>1, PacedHolds, PTL DEF HSpec, FastOnlyFirst

-----------------------------------------------------------------------------
(* The generation counts the addresses *)

\* A number is a multiple of GenerationMod and its remainder.
LEMMA Quotient ==
  ASSUME NEW x \in Nat
  PROVE  \E q \in Int : x = q * GenerationMod + (x % GenerationMod)
<1>1. x \div GenerationMod \in Int
      /\ x = (x \div GenerationMod) * GenerationMod + (x % GenerationMod)
  BY Z3
<1>2. QED BY <1>1

\* The remainder is the only one.
LEMMA RemainderUnique ==
  ASSUME NEW p \in Int, NEW q \in Int,
         NEW r \in 0 .. GenerationMod - 1, NEW s \in 0 .. GenerationMod - 1,
         p * GenerationMod + r = q * GenerationMod + s
  PROVE  r = s
<1>1. (p - q) * GenerationMod = s - r
  OBVIOUS
<1>2. CASE p - q >= 1
  <2>1. (p - q) * GenerationMod >= GenerationMod
    BY <1>2
  <2>2. QED BY <1>1, <2>1
<1>3. CASE p - q <= -1
  <2>1. (p - q) * GenerationMod <= -GenerationMod
    BY <1>3
  <2>2. QED BY <1>1, <2>1
<1>4. CASE p = q
  BY <1>1, <1>4
<1>5. QED BY <1>2, <1>3, <1>4

LEMMA Remainder ==
  ASSUME NEW x \in Nat, NEW q \in Int, NEW r \in 0 .. GenerationMod - 1,
         x = q * GenerationMod + r
  PROVE  x % GenerationMod = r
<1>1. x % GenerationMod \in 0 .. GenerationMod - 1
  OBVIOUS
<1>2. PICK p \in Int : x = p * GenerationMod + (x % GenerationMod)
  BY Quotient
<1>3. QED BY <1>1, <1>2, RemainderUnique

\* It makes no difference whether a sum is reduced before something is added to it.
LEMMA ReducedFirst ==
  ASSUME NEW x \in Nat, NEW n \in Nat
  PROVE  ((x % GenerationMod) + n) % GenerationMod = (x + n) % GenerationMod
<1> DEFINE y == (x % GenerationMod) + n
<1>1. PICK q \in Int : x = q * GenerationMod + (x % GenerationMod)
  BY Quotient
<1>2. x % GenerationMod \in Nat
  OBVIOUS
<1>3. y \in Nat
  BY <1>2
<1>4. PICK p \in Int : y = p * GenerationMod + (y % GenerationMod)
  BY <1>3, Quotient
<1>5. x + n = q * GenerationMod + y
  BY <1>1, <1>2
<1>6. x + n = (q + p) * GenerationMod + (y % GenerationMod)
  <2> HIDE DEF y
  <2>1. y % GenerationMod \in Int
    BY <1>3
  <2>2. QED BY <1>4, <1>5, <2>1
<1>7. y % GenerationMod \in 0 .. GenerationMod - 1
  BY <1>3
<1>8. x + n \in Nat /\ q + p \in Int
  OBVIOUS
<1>9. (x + n) % GenerationMod = y % GenerationMod
  BY ONLY <1>6, <1>7, <1>8, Remainder, GenerationAssumption
<1>10. QED BY <1>9

\* The addresses in a queue are finitely many.
LEMMA IpsFinite ==
  ASSUME NEW q \in Seq(Event)
  PROVE  IsFiniteSet(IpsIn(q)) /\ Cardinality(IpsIn(q)) \in Nat
<1>1. IsFiniteSet(1 .. Len(q))
  BY FS_Interval
<1>2. IpsIn(q) \in SUBSET (1 .. Len(q))
  BY DEF IpsIn
<1>3. IsFiniteSet(IpsIn(q))
  BY <1>1, <1>2, FS_Subset
<1>4. QED BY <1>3, FS_CardinalityType

\* A report adds one when it is of an address and finds room.
LEMMA IpsOffered ==
  ASSUME NEW q \in Seq(Event), Len(q) <= Capacity, NEW e \in Event
  PROVE  /\ e # "GOT_IP" => IpsIn(Offer(q, e)) = IpsIn(q)
         /\ e = "GOT_IP" /\ Len(q) # Capacity
              => Cardinality(IpsIn(Offer(q, e))) = Cardinality(IpsIn(q)) + 1
         /\ Len(q) = Capacity => Offer(q, e) = q
<1>1. CASE Len(q) = Capacity
  BY <1>1, Offered
<1>2. CASE Len(q) # Capacity
  <2> DEFINE o == Offer(q, e)
  <2>0. Len(q) \in Nat
    OBVIOUS
  <2>1. /\ Len(o) = Len(q) + 1 /\ o[Len(q) + 1] = e
        /\ \A i \in 1 .. Len(q) : o[i] = q[i]
    BY ONLY <1>2, q \in Seq(Event), Len(q) <= Capacity, e \in Event, Offered
  <2>2. e # "GOT_IP" => IpsIn(o) = IpsIn(q)
    BY <2>0, <2>1 DEF IpsIn
  <2>3. CASE e = "GOT_IP"
    <3>1. IpsIn(o) = IpsIn(q) \cup {Len(q) + 1}
      BY <2>0, <2>1, <2>3 DEF IpsIn
    <3>2. Len(q) + 1 \notin IpsIn(q)
      BY <2>0, <2>1 DEF IpsIn
    <3>3. QED BY <1>2, <2>3, <3>1, <3>2, IpsFinite, FS_AddElement
  <2>4. QED BY <1>2, <2>2, <2>3
<1>3. QED BY <1>1, <1>2

\* A poll takes one away when it takes an address.
LEMMA IpsPolled ==
  ASSUME NEW q \in Seq(Event), q # <<>>
  PROVE  Cardinality(IpsIn(q))
           = Cardinality(IpsIn(Tail(q))) + (IF Head(q) = "GOT_IP" THEN 1 ELSE 0)
<1> DEFINE rest == IpsIn(q) \ {1}
           t    == Tail(q)
           f    == [i \in IpsIn(t) |-> i + 1]
<1>1. /\ Len(q) \in Nat \ {0} /\ Head(q) = q[1] /\ t \in Seq(Event) /\ Len(t) = Len(q) - 1
      /\ \A i \in 1 .. Len(q) - 1 : t[i] = q[i + 1]
  BY Polled
<1>2. \A i \in IpsIn(t) : i \in Nat /\ i + 1 \in rest
  BY <1>1 DEF IpsIn
<1>3. \A k \in rest : k - 1 \in IpsIn(t) /\ k = (k - 1) + 1
  BY <1>1 DEF IpsIn
<1>4. f \in Bijection(IpsIn(t), rest)
  <2>1. f \in Injection(IpsIn(t), rest)
    BY <1>2 DEF Injection, IsInjective
  <2>2. f \in Surjection(IpsIn(t), rest)
    BY <1>2, <1>3 DEF Surjection
  <2>3. QED BY <2>1, <2>2 DEF Bijection
<1>5. Cardinality(rest) = Cardinality(IpsIn(t))
  <2>1. ExistsBijection(IpsIn(t), rest)
    BY <1>4 DEF ExistsBijection
  <2>2. IsFiniteSet(IpsIn(t))
    BY <1>1, IpsFinite
  <2> HIDE DEF rest, t, f
  <2>3. QED BY <2>1, <2>2, FS_Bijection
<1>6. 1 \in IpsIn(q) <=> Head(q) = "GOT_IP"
  BY <1>1 DEF IpsIn
<1>7. Cardinality(rest)
        = IF 1 \in IpsIn(q) THEN Cardinality(IpsIn(q)) - 1 ELSE Cardinality(IpsIn(q))
  BY IpsFinite, FS_RemoveElement
<1>8. Cardinality(IpsIn(q)) \in Nat /\ Cardinality(IpsIn(t)) \in Nat
  BY <1>1, IpsFinite
<1>9. QED BY <1>5, <1>6, <1>7, <1>8

\* EveryIpCounted is inductive, given the ranges.
CountInv == lost \in BOOLEAN /\ EveryIpCounted

\* Neither the queue nor the generation moves.
LEMMA CountKept ==
  ASSUME CountInv, UNCHANGED <<m_connection_generation, events, obtained, lost>>
  PROVE  CountInv'
BY DEF CountInv, EveryIpCounted

\* Nothing is queued and nothing was counted.
LEMMA CountEmpty ==
  ASSUME NEW g, g = 0
  PROVE  (g + Cardinality(IpsIn(<<>>))) % GenerationMod = 0
<1>1. IpsIn(<<>>) = {}
  BY DEF IpsIn
<1>2. Cardinality(IpsIn(<<>>)) = 0
  BY <1>1, FS_EmptySet
<1>3. QED BY <1>2

LEMMA CountInit == HInit => CountInv
BY CountEmpty DEF HInit, Init, CountInv, EveryIpCounted

LEMMA CountPoll ==
  ASSUME RangeInv, CountInv, PollEvent, UNCHANGED <<obtained, lost>>
  PROVE  CountInv'
<1> DEFINE n == Cardinality(IpsIn(events))
           m == Cardinality(IpsIn(Tail(events)))
<1>1. /\ events \in Seq(Event) /\ events # <<>> /\ events' = Tail(events)
      /\ m_connection_generation \in Nat
  BY DEF RangeInv, OtherRange, PollEvent
<1>2. n \in Nat /\ m \in Nat
  BY <1>1, Polled, IpsFinite
<1>3. CASE Head(events) = "GOT_IP" /\ GotIp
  <2>1. n = m + 1
    BY <1>1, <1>2, <1>3, IpsPolled
  <2>2. m_connection_generation' = (m_connection_generation + 1) % GenerationMod
    BY <1>3 DEF GotIp, NextGeneration
  <2>3. (((m_connection_generation + 1) % GenerationMod) + m) % GenerationMod
          = ((m_connection_generation + 1) + m) % GenerationMod
    BY <1>1, <1>2, m_connection_generation + 1 \in Nat, ReducedFirst
  <2>4. (m_connection_generation + 1) + m = m_connection_generation + n
    BY <1>1, <1>2, <2>1
  <2>5. (m_connection_generation' + m) % GenerationMod
          = (m_connection_generation + n) % GenerationMod
    BY <2>2, <2>3, <2>4
  <2>6. QED BY <1>1, <2>5 DEF CountInv, EveryIpCounted
<1>4. CASE Head(events) = "DISCONNECTED" /\ Disconnected
  <2>1. m = n
    BY <1>1, <1>2, <1>4, IpsPolled
  <2>2. m_connection_generation' = m_connection_generation
    BY <1>4 DEF Disconnected
  <2>3. QED BY <1>1, <2>1, <2>2 DEF CountInv, EveryIpCounted
<1>5. QED BY <1>3, <1>4 DEF PollEvent, process_event

LEMMA CountReport ==
  ASSUME RangeInv, CountInv, HDriverReportsIp
  PROVE  CountInv'
<1> DEFINE n == Cardinality(IpsIn(events))
<1>1. /\ events \in Seq(Event) /\ Len(events) <= Capacity /\ "GOT_IP" \in Event
      /\ m_connection_generation \in Nat
  BY DEF RangeInv, OtherRange, Event
<1>2. /\ m_connection_generation' = m_connection_generation
      /\ events' = Offer(events, "GOT_IP")
      /\ obtained' = (obtained + 1) % GenerationMod
      /\ lost' = (lost \/ Len(events) = Capacity)
  BY DEF HDriverReportsIp, DriverReportsIp, Report, link
<1>3. CASE lost'
  BY <1>2, <1>3 DEF CountInv, EveryIpCounted
<1>4. CASE ~lost'
  <2>1. n \in Nat /\ Cardinality(IpsIn(events')) = n + 1
    BY <1>1, <1>2, <1>4, IpsFinite, IpsOffered
  <2>2. obtained = (m_connection_generation + n) % GenerationMod
    BY <1>2, <1>4 DEF CountInv, EveryIpCounted
  <2>3. (((m_connection_generation + n) % GenerationMod) + 1) % GenerationMod
          = ((m_connection_generation + n) + 1) % GenerationMod
    BY <1>1, <2>1, m_connection_generation + n \in Nat, ReducedFirst
  <2>4. (m_connection_generation + n) + 1 = m_connection_generation + (n + 1)
    BY <1>1, <2>1
  <2>5. QED BY <1>2, <1>4, <2>1, <2>2, <2>3, <2>4 DEF CountInv, EveryIpCounted
<1>5. QED BY <1>3, <1>4

\* The other reports are of no address.
LEMMA CountOther ==
  ASSUME RangeInv, CountInv, Report("DISCONNECTED"),
         UNCHANGED <<m_connection_generation, obtained, lost>>
  PROVE  CountInv'
<1>1. /\ events \in Seq(Event) /\ Len(events) <= Capacity /\ "DISCONNECTED" \in Event
      /\ events' = Offer(events, "DISCONNECTED")
  BY DEF RangeInv, OtherRange, Report, Event
<1>2. IpsIn(events') = IpsIn(events)
  BY <1>1, IpsOffered
<1>3. QED BY <1>2 DEF CountInv, EveryIpCounted

LEMMA CountNext == RangeInv /\ CountInv /\ [HNext]_hvars => CountInv'
<1> SUFFICES ASSUME RangeInv, CountInv, [HNext]_hvars PROVE CountInv'
  OBVIOUS
<1>1. CASE HActivate
  BY <1>1, CountKept DEF HActivate, Activate, queue
<1>2. CASE HTickConnect
  BY <1>2, CountKept DEF HTickConnect, TickConnect, queue
<1>3. CASE HElapse
  BY <1>3, CountKept DEF HElapse, Elapse, link, queue
<1>4. CASE HDriverReportsIp
  BY <1>4, CountReport
<1>5. CASE HPowerCycle
  <2>1. m_connection_generation' = 0 /\ events' = <<>> /\ obtained' = 0 /\ lost' = FALSE
    BY <1>5 DEF HPowerCycle, PowerCycle
  <2>2. QED BY <2>1, CountEmpty DEF CountInv, EveryIpCounted
<1>6. CASE HOther
  <2>1. UNCHANGED <<obtained, lost>>
    BY <1>6 DEF HOther, history
  <2>2. CASE Deactivate \/ TickConnecting \/ TickBackoff
    BY <2>1, <2>2, CountKept DEF Deactivate, TickConnecting, TickBackoff, queue
  <2>3. CASE TickStart \/ EventsDrained \/ TickConnected \/ DriverObtainsIp
    BY <2>1, <2>3, CountKept DEF TickStart, EventsDrained, TickConnected,
                                 DriverObtainsIp, link, queue
  <2>4. CASE PollEvent
    BY <2>1, <2>4, CountPoll
  <2>5. CASE DriverLosesLink \/ DriverReportsClose
    BY <2>1, <2>5, CountOther DEF DriverLosesLink, DriverReportsClose, link
  <2>6. QED BY <1>6, <2>2, <2>3, <2>4, <2>5 DEF HOther
<1>7. CASE UNCHANGED hvars
  BY <1>7, CountKept DEF hvars, vars, link, queue, history
<1>8. QED BY <1>1, <1>2, <1>3, <1>4, <1>5, <1>6, <1>7 DEF HNext

\* As long as no report of an address was dropped, the generation and what is queued
\* account for every address obtained, for every modulus and length of the queue.
THEOREM IpsCounted == HSpec => []EveryIpCounted
<1>1. PacedInv => RangeInv
  BY DEF PacedInv
<1>2. CountInv => EveryIpCounted
  BY DEF CountInv
<1>3. QED BY CountInit, CountNext, PacedHolds, <1>1, <1>2, PTL DEF HSpec
=============================================================================
