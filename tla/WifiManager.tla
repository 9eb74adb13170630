----------------------------- MODULE WifiManager -----------------------------
(* The connection state machine of the Wi-Fi manager (c_wifi_mgr_core.cpp)     *)
(* together with the driver it drives through wifi_platform_ops_t.             *)
(*                                                                             *)
(* tick_wifi_manager_core is not one step: it polls the event queue once per   *)
(* iteration and then enters its switch, and on the ESP32 the event-loop task  *)
(* may report an event between any two of these.  pc says where the tick is.   *)
(* The tick reads the clock once, before the loop, so time passes only between *)
(* ticks here: whatever a tick takes is added to m_age after it.               *)
(*                                                                             *)
(* External: the driver and its event task, the EEPROM, power.                 *)
EXTENDS EventFifo, Integers

CONSTANTS
  InitBackoff, MaxBackoff,    \* m_config.init_backoff_ms, max_backoff_ms
  MultiplierPct, JitterPct,   \* backoff_multiplier and jitter_percentage, in percent
  FastTimeout, NormalTimeout, \* 4000 and 30000
  MaxAge,                     \* where the age of the last attempt saturates
  GenerationMod,              \* 2^32: m_connection_generation is a u32
  Caches,                     \* the link parameters an access point may hand out
  Blank, Torn                 \* no parameters; parameters copied while being written

ASSUME BackoffAssumption ==
  /\ InitBackoff \in Nat \ {0} /\ MaxBackoff \in Nat /\ InitBackoff <= MaxBackoff
  /\ MultiplierPct \in Nat /\ JitterPct \in Nat
ASSUME TimeoutAssumption ==
  /\ FastTimeout \in Nat /\ NormalTimeout \in Nat /\ MaxAge \in Nat
  /\ FastTimeout < MaxAge /\ NormalTimeout < MaxAge /\ MaxBackoff <= MaxAge
ASSUME GenerationAssumption == GenerationMod \in Nat \ {0, 1}
ASSUME CacheAssumption == Blank \notin Caches /\ Torn \notin Caches /\ Blank # Torn

VARIABLES
  m_state, m_connect_requested, m_use_fast_connect,
  m_backoff_ms, m_current_wait_ms,
  m_age,                      \* now_ms - m_last_attempt_ms, at most MaxAge
  m_connection_generation,
  m_cache,                    \* Blank: zeroed
  pc,                         \* "idle", or inside a tick: "events", "switch"
  events,                     \* the adapter's ring, oldest event first
  linkInfo,                   \* the adapter's m_link_info
  filling,                    \* the event task is inside the GOT_IP handler
  radio,                      \* the station: "off", "idle", "joining", "up"
  notice,                     \* it will report the link the application closed
  eeprom,                     \* Blank: empty, or fails the load or the CRC
  stale,                      \* ghost: the driver's latest event was dropped
  missedIp                    \* ghost: its latest GOT_IP was dropped

link    == <<m_state, m_connection_generation>>
retry   == <<m_use_fast_connect, m_backoff_ms, m_current_wait_ms, m_age>>
queue   == <<events, stale, missedIp>>
driver  == <<linkInfo, filling, radio, notice>>
vars    == <<link, retry, m_connect_requested, m_cache, pc, queue, driver, eeprom>>

States == {"INACTIVE", "DISCONNECTED", "CONNECTING", "BACKOFF", "CONNECTED"}
Event  == {"GOT_IP", "DISCONNECTED"}
Stored == Caches \cup {Blank, Torn}

TypeOK ==
  /\ m_state \in States
  /\ m_connect_requested \in BOOLEAN
  /\ m_use_fast_connect \in BOOLEAN
  /\ m_backoff_ms \in 0 .. MaxBackoff
  /\ m_current_wait_ms \in 0 .. MaxBackoff
  /\ m_age \in 0 .. MaxAge
  /\ m_connection_generation \in 0 .. GenerationMod - 1
  /\ m_cache \in Stored
  /\ pc \in {"idle", "events", "switch"}
  /\ events \in Seq(Event) /\ Len(events) <= Capacity
  /\ linkInfo \in Caches \cup {Blank}
  /\ filling \in BOOLEAN
  /\ radio \in {"off", "idle", "joining", "up"}
  /\ notice \in BOOLEAN
  /\ eeprom \in Stored
  /\ stale \in BOOLEAN
  /\ missedIp \in BOOLEAN

-----------------------------------------------------------------------------
(* Back-off *)

Least(a, b)    == IF a <= b THEN a ELSE b
Greatest(a, b) == IF a >= b THEN a ELSE b

\* m_backoff_ms of the next attempt; the product is truncated to a u32.
NextBackoff == Least((m_backoff_ms * MultiplierPct) \div 100, MaxBackoff)

\* Mutant: the wait is not lowered to MaxBackoff.
WaitsUncapped(b) ==
  LET jitter == (b * JitterPct) \div 100
  IN  {Greatest(b + j, InitBackoff) : j \in -jitter .. jitter}

\* Mutant: the wait is not raised to InitBackoff.
WaitsUnraised(b) ==
  LET jitter == (b * JitterPct) \div 100
  IN  {Least(b + j, MaxBackoff) : j \in -jitter .. jitter}

\* How long BACKOFF may last after a back-off of b: b with a jitter of up to
\* JitterPct percent either way, first raised to InitBackoff, then lowered to
\* MaxBackoff.
Waits(b) ==
  LET jitter == (b * JitterPct) \div 100
  IN  {Least(Greatest(b + j, InitBackoff), MaxBackoff) : j \in -jitter .. jitter}

schedule_backoff ==
  /\ m_backoff_ms' = NextBackoff
  /\ m_current_wait_ms' \in Waits(NextBackoff)
  /\ m_age' = 0
  /\ m_state' = "BACKOFF"

-----------------------------------------------------------------------------
(* The application's calls *)

\* What the EEPROM holds passes the load, is_cache_valid and has an address.
is_cache_valid(stored) == stored # Blank

\* create_wifi_manager_core
Init ==
  /\ eeprom \in Caches \cup {Blank}
  /\ m_cache = eeprom
  /\ m_use_fast_connect = is_cache_valid(eeprom)
  /\ m_state = "INACTIVE"
  /\ m_connect_requested = FALSE
  /\ m_backoff_ms = InitBackoff
  /\ m_current_wait_ms = InitBackoff
  /\ m_age = MaxAge
  /\ m_connection_generation = 0
  /\ pc = "idle"
  /\ events = <<>> /\ stale = FALSE /\ missedIp = FALSE
  /\ linkInfo = Blank /\ filling = FALSE /\ radio = "off" /\ notice = FALSE

\* The device restarts, or the manager is destroyed and created anew: RAM, the
\* adapter and the driver start over, and the EEPROM keeps the last save or, when
\* the power failed during a save, nothing usable.
PowerCycle ==
  /\ eeprom' \in {eeprom, Blank}
  /\ m_cache' = eeprom'
  /\ m_use_fast_connect' = is_cache_valid(eeprom')
  /\ m_state' = "INACTIVE"
  /\ m_connect_requested' = FALSE
  /\ m_backoff_ms' = InitBackoff
  /\ m_current_wait_ms' = InitBackoff
  /\ m_age' = MaxAge
  /\ m_connection_generation' = 0
  /\ pc' = "idle"
  /\ events' = <<>> /\ stale' = FALSE /\ missedIp' = FALSE
  /\ linkInfo' = Blank /\ filling' = FALSE /\ radio' = "off" /\ notice' = FALSE

\* activate_wifi_manager_core.  A station that was stopped while its last event
\* is still queued keeps that event.
Activate ==
  /\ pc = "idle" /\ m_state = "INACTIVE"
  /\ m_connect_requested' = TRUE
  /\ \/ /\ m_state' = "DISCONNECTED"
        /\ radio' = "idle"
        /\ UNCHANGED retry
     \/ /\ schedule_backoff              \* m_start failed
        /\ UNCHANGED <<radio, m_use_fast_connect>>
  /\ UNCHANGED <<m_connection_generation, m_cache, pc, queue, linkInfo, filling,
                 notice, eeprom>>

\* deactivate_wifi_manager_core, in any state: m_disconnect, then m_stop.  The
\* driver reports a link or a join it gave up later (notice); a join may also
\* end silently.  Neither the queue nor the back-off is reset.
Deactivate ==
  /\ pc = "idle"
  /\ m_connect_requested' = FALSE
  /\ m_state' = "INACTIVE"
  /\ radio' = "off"
  /\ \/ radio \in {"joining", "up"} /\ notice' = TRUE
     \/ radio # "up" /\ UNCHANGED notice
  /\ UNCHANGED <<retry, m_connection_generation, m_cache, pc, queue, linkInfo,
                 filling, eeprom>>

-----------------------------------------------------------------------------
(* tick_wifi_manager_core: the event loop *)

TickStart ==
  /\ pc = "idle" /\ m_connect_requested
  /\ pc' = "events"
  /\ UNCHANGED <<link, retry, m_connect_requested, m_cache, queue, driver, eeprom>>

\* What adapter_get_link_info may copy: on the ESP32 it takes no lock, so while
\* the event task refills m_link_info it may copy the zeroes, a mix, or all.
LinkInfoReads == IF filling THEN {Blank, Torn, linkInfo} ELSE {linkInfo}

\* Mutant: the parameters are saved only when nothing was saved before.
SavedOnlyOnce(cache) == eeprom' = IF eeprom = Blank THEN cache ELSE eeprom

save_cache(cache) == eeprom' = cache

\* A failing m_get_link_info leaves the cache and the EEPROM alone; otherwise the
\* parameters are adopted and saved.
update_link_info ==
  \E info \in LinkInfoReads :
    IF info = Blank THEN UNCHANGED <<m_cache, eeprom>>
                    ELSE m_cache' = info /\ save_cache(info)

\* Mutant: an address renewed on a link that is up does not count, nor one that
\* comes after the attempt was given up.
GenerationOfAttempts ==
  IF m_state = "CONNECTING" THEN (m_connection_generation + 1) % GenerationMod
                            ELSE m_connection_generation

NextGeneration == (m_connection_generation + 1) % GenerationMod

\* WIFI_EVENT_GOT_IP, in whatever state it finds the manager.
GotIp ==
  /\ update_link_info
  /\ m_backoff_ms' = InitBackoff
  /\ m_state' = "CONNECTED"
  /\ m_connection_generation' = NextGeneration
  /\ UNCHANGED <<m_use_fast_connect, m_current_wait_ms, m_age>>

\* Mutant: a lost link is retried at once.
RetriedAtOnce ==
  /\ m_state' = IF m_state \in {"CONNECTED", "CONNECTING"} THEN "DISCONNECTED" ELSE m_state
  /\ m_use_fast_connect' = (m_use_fast_connect /\ m_state # "CONNECTING")
  /\ UNCHANGED <<m_backoff_ms, m_current_wait_ms, m_age, m_connection_generation, m_cache, eeprom>>

\* WIFI_EVENT_DISCONNECTED: a fast attempt falls back to a full one, any other
\* attempt and a lost link are retried after a back-off.
Disconnected ==
  /\ \/ /\ m_state \in {"INACTIVE", "BACKOFF", "DISCONNECTED"}
        /\ UNCHANGED <<m_state, retry>>
     \/ /\ m_state = "CONNECTING" /\ m_use_fast_connect
        /\ m_use_fast_connect' = FALSE
        /\ m_state' = "DISCONNECTED"
        /\ UNCHANGED <<m_backoff_ms, m_current_wait_ms, m_age>>
     \/ /\ \/ m_state = "CONNECTING" /\ ~m_use_fast_connect
           \/ m_state = "CONNECTED"
        /\ schedule_backoff
        /\ UNCHANGED m_use_fast_connect
  /\ UNCHANGED <<m_connection_generation, m_cache, eeprom>>

\* Mutant: an address that comes after the attempt was given up is ignored.
LateIpIgnored(event) ==
  \/ event = "GOT_IP" /\ m_state # "BACKOFF" /\ GotIp
  \/ event = "DISCONNECTED" /\ Disconnected
  \/ event = "GOT_IP" /\ m_state = "BACKOFF" /\ UNCHANGED <<link, retry, m_cache, eeprom>>

process_event(event) == \/ event = "GOT_IP" /\ GotIp
                        \/ event = "DISCONNECTED" /\ Disconnected

PollEvent ==
  /\ pc = "events" /\ events # <<>>
  /\ process_event(Head(events))
  /\ events' = Tail(events)
  /\ UNCHANGED <<m_connect_requested, pc, stale, missedIp, driver>>

EventsDrained ==
  /\ pc = "events" /\ events = <<>>
  /\ pc' = "switch"
  /\ UNCHANGED <<link, retry, m_connect_requested, m_cache, queue, driver, eeprom>>

-----------------------------------------------------------------------------
(* tick_wifi_manager_core: the switch *)

\* request.m_fast_connect
FastRequest == m_use_fast_connect /\ m_cache # Blank

\* The driver takes a request.  A station that is still joining, or that came up
\* since the last poll, either carries on or drops its link (and will report it)
\* to start over.
RadioAccepts ==
  \/ radio = "idle" /\ radio' = "joining" /\ UNCHANGED notice
  \/ radio \in {"joining", "up"} /\ UNCHANGED <<radio, notice>>
  \/ radio \in {"joining", "up"} /\ radio' = "joining" /\ notice' = TRUE

TickConnectAccepted ==
  /\ m_state' = "CONNECTING"
  /\ m_age' = 0
  /\ RadioAccepts
  /\ UNCHANGED <<m_use_fast_connect, m_backoff_ms, m_current_wait_ms>>

TickConnectRefused ==
  /\ schedule_backoff
  /\ UNCHANGED <<m_use_fast_connect, radio, notice>>

TickConnect ==
  /\ pc = "switch" /\ m_state = "DISCONNECTED"
  /\ pc' = "idle"
  /\ TickConnectAccepted \/ TickConnectRefused
  /\ UNCHANGED <<m_connection_generation, m_connect_requested, m_cache, queue,
                 linkInfo, filling, eeprom>>

\* Mutant: only a fast attempt times out.
FastTimeoutOnly == IF m_use_fast_connect THEN FastTimeout ELSE MaxAge

ConnectTimeout == IF m_use_fast_connect THEN FastTimeout ELSE NormalTimeout

TickConnecting ==
  /\ pc = "switch" /\ m_state = "CONNECTING"
  /\ pc' = "idle"
  /\ \/ /\ m_age <= ConnectTimeout
        /\ UNCHANGED <<m_state, retry>>
     \/ /\ m_age > ConnectTimeout /\ m_use_fast_connect
        /\ m_use_fast_connect' = FALSE
        /\ m_state' = "DISCONNECTED"
        /\ UNCHANGED <<m_backoff_ms, m_current_wait_ms, m_age>>
     \/ /\ m_age > ConnectTimeout /\ ~m_use_fast_connect
        /\ schedule_backoff
        /\ UNCHANGED m_use_fast_connect
  /\ UNCHANGED <<m_connection_generation, m_connect_requested, m_cache, queue,
                 driver, eeprom>>

\* Mutant: the fast connect is tried again after a back-off.
FastAfterBackoff ==
  /\ pc = "switch" /\ m_state = "BACKOFF"
  /\ pc' = "idle"
  /\ m_state' = IF m_age < m_current_wait_ms THEN "BACKOFF" ELSE "DISCONNECTED"
  /\ UNCHANGED <<retry, m_connection_generation, m_connect_requested, m_cache, queue,
                 driver, eeprom>>

TickBackoff ==
  /\ pc = "switch" /\ m_state = "BACKOFF"
  /\ pc' = "idle"
  /\ \/ /\ m_age < m_current_wait_ms
        /\ UNCHANGED <<m_state, retry>>
     \/ /\ m_age >= m_current_wait_ms
        /\ m_use_fast_connect' = FALSE
        /\ m_state' = "DISCONNECTED"
        /\ UNCHANGED <<m_backoff_ms, m_current_wait_ms, m_age>>
  /\ UNCHANGED <<m_connection_generation, m_connect_requested, m_cache, queue,
                 driver, eeprom>>

\* Nothing to do in CONNECTED.
TickConnected ==
  /\ pc = "switch" /\ m_state = "CONNECTED"
  /\ pc' = "idle"
  /\ UNCHANGED <<link, retry, m_connect_requested, m_cache, queue, driver, eeprom>>

Tick == \/ TickStart \/ PollEvent \/ EventsDrained
        \/ TickConnect \/ TickConnecting \/ TickBackoff \/ TickConnected

-----------------------------------------------------------------------------
(* Time and the driver *)

Elapse ==
  /\ pc = "idle" /\ m_age < MaxAge
  /\ m_age' = m_age + 1
  /\ UNCHANGED <<link, m_use_fast_connect, m_backoff_ms, m_current_wait_ms,
                 m_connect_requested, m_cache, pc, queue, driver, eeprom>>

\* The event task pushes an event.
Report(e) ==
  /\ events' = Offer(events, e)
  /\ stale' = (Len(events) = Capacity)
  /\ missedIp' = IF e = "GOT_IP" THEN Len(events) = Capacity ELSE missedIp

\* The station obtains an address, or renews it: the GOT_IP handler starts to
\* fill m_link_info, which stays zeroed when the interface does not tell.  A report
\* of the previous link comes first.
DriverObtainsIp ==
  /\ radio \in {"joining", "up"} /\ ~notice /\ ~filling
  /\ radio' = "up"
  /\ filling' = TRUE
  /\ linkInfo' \in Caches \cup {Blank}
  /\ UNCHANGED <<link, retry, m_connect_requested, m_cache, pc, queue, notice, eeprom>>

\* The handler ends by pushing GOT_IP.
DriverReportsIp ==
  /\ filling
  /\ filling' = FALSE
  /\ Report("GOT_IP")
  /\ UNCHANGED <<link, retry, m_connect_requested, m_cache, pc, linkInfo, radio,
                 notice, eeprom>>

\* The link is lost, or an attempt to join fails (and is or is not continued).
DriverLosesLink ==
  /\ radio \in {"joining", "up"} /\ ~notice /\ ~filling
  /\ radio' \in {"idle"} \cup ({radio} \cap {"joining"})
  /\ Report("DISCONNECTED")
  /\ UNCHANGED <<link, retry, m_connect_requested, m_cache, pc, linkInfo, filling,
                 notice, eeprom>>

\* The driver reports a link that the application closed.
DriverReportsClose ==
  /\ notice /\ ~filling
  /\ notice' = FALSE
  /\ Report("DISCONNECTED")
  /\ UNCHANGED <<link, retry, m_connect_requested, m_cache, pc, linkInfo, filling,
                 radio, eeprom>>

Driver == DriverObtainsIp \/ DriverReportsIp \/ DriverLosesLink \/ DriverReportsClose

Next == Activate \/ Deactivate \/ Tick \/ Elapse \/ Driver \/ PowerCycle

Spec == Init /\ [][Next]_vars

-----------------------------------------------------------------------------
(* What the manager guarantees *)

\* Every wait schedule_backoff draws lies between the configured bounds, for
\* every back-off the growth and the reset can lead to and every jitter.
WaitInBounds == InitBackoff <= m_current_wait_ms /\ m_current_wait_ms <= MaxBackoff

\* The driver's word is complete: nothing was dropped after the latest event, no
\* handler runs and no report of a closed link is outstanding.
NothingInFlight == ~stale /\ ~notice /\ ~filling

LastEvent == events[Len(events)]

\* Whatever the application, the driver and the clock did, in whatever order:
\* once the driver has said its word and the queue is drained, an active manager
\* is CONNECTED exactly when the station is up; and while the queue is not
\* drained, its last event is the one that will make it so.
LinkAgreement ==
  NothingInFlight =>
    IF events = <<>> THEN m_connect_requested => (m_state = "CONNECTED" <=> radio = "up")
                     ELSE LastEvent = "GOT_IP" <=> radio = "up"

IpPending == \E i \in 1 .. Len(events) : events[i] = "GOT_IP"

\* Once every GOT_IP was processed, the cache in RAM and the one in the EEPROM
\* hold the parameters of the latest link.  On the way there both may be older,
\* or torn: process_event reads m_link_info when it polls, not when the event
\* was pushed, and without a lock.
CacheIsCurrent ==
  linkInfo # Blank /\ ~filling /\ ~missedIp /\ ~IpPending =>
    m_cache = linkInfo /\ eeprom = linkInfo

Contract == INSTANCE LinkState WITH connected  <- m_state = "CONNECTED",
                                    generation <- m_connection_generation

\* The snapshot get_wifi_manager_core_link_state returns behaves as LinkState
\* promises its clients.
ImplementsLinkState == Contract!Spec

-----------------------------------------------------------------------------
(* Progress.  The application keeps calling tick, and time passes between the  *)
(* calls; the driver ends the handlers it started and reports what it owes, but*)
(* it may leave a request unanswered for ever; one that is asked again and     *)
(* again accepts in the end.                                                   *)
Fairness ==
  /\ WF_vars(Tick)
  /\ SF_vars(Elapse)
  /\ WF_vars(DriverReportsIp)
  /\ WF_vars(DriverReportsClose)
  /\ SF_vars(TickConnect /\ TickConnectAccepted)

FairSpec == Spec /\ Fairness

\* No attempt to connect lasts for ever: it succeeds, fails or, when the driver
\* says nothing, times out.
ConnectingEnds == m_state = "CONNECTING" ~> m_state # "CONNECTING"

\* The station is started and wanted, and the driver's word reaches the manager.
Undisturbed == m_connect_requested /\ radio # "off" /\ ~stale /\ ~notice

\* Joins do not fail, and one that is tried again and again obtains an address.
JoinsSucceed == <>[][~DriverLosesLink]_vars /\ SF_vars(DriverObtainsIp)

\* From any state, however many attempts failed before: if from some time on the
\* application leaves the manager active and joins succeed, the manager ends up
\* CONNECTED, and stays so, with the station up.
Recovers ==
  <>[]Undisturbed /\ JoinsSucceed => <>[](m_state = "CONNECTED" /\ radio = "up")
=============================================================================
