------------------------------ MODULE WifiAdapter ------------------------------
(* The life of a platform adapter, of its event ring and of the manager core    *)
(* that runs on it: create_wifi_mgr of the legacy facades, and the core's and   *)
(* the adapters' own create and destroy functions, which an application may     *)
(* use directly.  On the ESP32 the event task may run the adapter's handler     *)
(* between any two driver calls of adapter_init and adapter_shutdown, so each   *)
(* of these calls is a step; the ESP8266 has one thread.                        *)
(*                                                                              *)
(* External: the driver, whose calls may fail, and the application, which calls *)
(* from one thread and destroys a core before its adapter.                      *)
EXTENDS EventRing, FiniteSets

CONSTANTS GotIp, Disconnected,   \* the two events
          MaxFailures            \* bounds the inits that fail

ASSUME EventAssumption == Event = {GotIp, Disconnected} /\ MaxFailures \in Nat

VARIABLES
  platform,                 \* what the code is built for: "ESP32", "ESP8266"
  adapter, core,            \* whether they exist
  m_initialized,
  m_connect_requested,      \* of the core: it is activated
  station,                  \* the driver was told to start, or to join, and not to stop
  live,                     \* how many of each resource of the driver there are
  job,                      \* the function the application is in, or "none"
  calls,                    \* the driver calls it has left
  failures,                 \* the inits that failed
  leaked                    \* ghost: the resources a failed init had taken already

ring     == <<m_events, m_event_read, m_event_write, m_event_count, polled>>
objects  == <<adapter, core, m_initialized, m_connect_requested, station>>
progress == <<job, calls>>
faults   == <<failures, leaked>>
allVars  == <<ring, platform, objects, live, progress, faults>>

Resource == {"netif", "wifi", "wifi_handler", "ip_handler"}
Creates  == {"create_mgr", "create_core"}
Destroys == {"destroy_core", "destroy_adapter"}

AdapterTypeOK ==
  /\ TypeOK
  /\ platform \in {"ESP32", "ESP8266"}
  /\ {adapter, core, m_initialized, m_connect_requested, station} \subseteq BOOLEAN
  /\ live \in [Resource -> 0 .. MaxFailures + 1]
  /\ job \in Creates \cup Destroys \cup {"none"}
  /\ calls \in Seq(Resource \cup {"mode", "stop"})
  /\ failures \in 0 .. MaxFailures /\ leaked \subseteq Resource

AdapterInit ==
  /\ Init
  /\ platform \in {"ESP32", "ESP8266"}
  /\ adapter = FALSE /\ core = FALSE
  /\ m_initialized = FALSE /\ m_connect_requested = FALSE /\ station = FALSE
  /\ live = [r \in Resource |-> 0]
  /\ job = "none" /\ calls = <<>>
  /\ failures = 0 /\ leaked = {}

-----------------------------------------------------------------------------
(* The driver calls of adapter_init and adapter_shutdown, in their order *)

InitCalls ==
  IF platform = "ESP32" THEN <<"netif", "wifi", "mode", "wifi_handler", "ip_handler">>
                        ELSE <<"mode", "ip_handler", "wifi_handler">>

\* Mutant: the network interface goes before the handlers.
NetifFirst == <<"stop", "wifi", "netif", "wifi_handler", "ip_handler">>

Unregisters == IF platform = "ESP32"
               THEN <<"wifi_handler", "ip_handler", "stop", "wifi", "netif">>
               ELSE <<"ip_handler", "wifi_handler">>

\* Mutant: an adapter that was not initialized is shut down too.
ShutsDownAlways == Unregisters

\* The ESP32 returns early from an adapter that was not initialized.
ShutdownCalls == IF platform = "ESP32" /\ ~m_initialized THEN <<>> ELSE Unregisters

\* The ESP8266 holds its handlers in shared pointers.
Released(r) == IF platform = "ESP32" THEN live[r] - 1 ELSE 0

-----------------------------------------------------------------------------
(* Creating *)

\* A new adapter starts with an empty ring, and the facade goes on with the core.
CreateAdapter ==
  /\ job = "none" /\ ~adapter
  /\ adapter' = TRUE
  /\ m_events' = [s \in Slot |-> NoEvent] /\ polled' = NoEvent
  /\ m_event_read' = 0 /\ m_event_write' = 0 /\ m_event_count' = 0
  /\ \/ UNCHANGED progress                            \* create_wifi_esp32_adapter
     \/ job' = "create_mgr" /\ calls' = InitCalls     \* create_wifi_mgr
  /\ UNCHANGED <<platform, core, m_initialized, m_connect_requested, station, live, faults>>

\* create_wifi_manager_core on an adapter that serves no core, perhaps not its first.
CreateCore ==
  /\ job = "none" /\ adapter /\ ~core
  /\ job' = "create_core"
  /\ calls' = IF m_initialized THEN <<>> ELSE InitCalls
  /\ UNCHANGED <<ring, platform, objects, live, faults>>

InitCall ==
  /\ job \in Creates /\ calls # <<>>
  /\ live' = [r \in Resource |-> IF r = Head(calls) THEN live[r] + 1 ELSE live[r]]
  /\ calls' = Tail(calls)
  /\ UNCHANGED <<ring, platform, objects, job, faults>>

InitEnds ==
  /\ job \in Creates /\ calls = <<>>
  /\ m_initialized' = TRUE /\ core' = TRUE
  /\ job' = "none"
  /\ UNCHANGED <<ring, platform, adapter, m_connect_requested, station, live, calls, faults>>

\* Nothing is undone, and the facade destroys the adapter.  On the ESP8266 only
\* WiFi.mode may fail.
InitFails ==
  /\ job \in Creates /\ calls # <<>> /\ failures < MaxFailures
  /\ platform = "ESP32" \/ Head(calls) = "mode"
  /\ failures' = failures + 1
  /\ leaked' = leaked \cup {r \in Resource : live[r] > 0}
  /\ \/ job = "create_core" /\ job' = "none" /\ calls' = <<>>
     \/ job = "create_mgr" /\ job' = "destroy_adapter" /\ calls' = ShutdownCalls
  /\ UNCHANGED <<ring, platform, objects, live>>

-----------------------------------------------------------------------------
(* Destroying *)

\* Mutant: the core is destroyed without being deactivated.
DestroyActive ==
  /\ job = "none" /\ core
  /\ job' = "destroy_core" /\ calls' = ShutdownCalls
  /\ UNCHANGED <<ring, platform, objects, live, faults>>

\* destroy_wifi_manager_core: it is deactivated, and then its platform shut down.
DestroyCore ==
  /\ job = "none" /\ core
  /\ m_connect_requested' = FALSE /\ station' = FALSE
  /\ job' = "destroy_core" /\ calls' = ShutdownCalls
  /\ UNCHANGED <<ring, platform, adapter, core, m_initialized, live, faults>>

DestroyAdapter ==
  /\ job = "none" /\ adapter /\ ~core
  /\ job' = "destroy_adapter" /\ calls' = ShutdownCalls
  /\ UNCHANGED <<ring, platform, objects, live, faults>>

ShutdownCall ==
  /\ job \in Destroys /\ calls # <<>>
  /\ live' = [r \in Resource |-> IF r = Head(calls) THEN Released(r) ELSE live[r]]
  /\ station' = IF Head(calls) = "stop" THEN FALSE ELSE station
  /\ calls' = Tail(calls)
  /\ UNCHANGED <<ring, platform, adapter, core, m_initialized, m_connect_requested,
                 job, faults>>

\* Mutant: the adapter stays marked as initialized.
ShutdownEndsMarked ==
  /\ job \in Destroys /\ calls = <<>>
  /\ core' = FALSE
  /\ adapter' = (job = "destroy_core")
  /\ job' = "none"
  /\ UNCHANGED <<ring, platform, m_initialized, m_connect_requested, station, live,
                 calls, faults>>

ShutdownEnds ==
  /\ job \in Destroys /\ calls = <<>>
  /\ m_initialized' = FALSE
  /\ core' = FALSE
  /\ adapter' = (job = "destroy_core")
  /\ job' = "none"
  /\ UNCHANGED <<ring, platform, m_connect_requested, station, live, calls, faults>>

-----------------------------------------------------------------------------
(* Running *)

\* m_start may fail on the ESP32 and does nothing on the ESP8266.
Activate ==
  /\ job = "none" /\ core /\ ~m_connect_requested
  /\ m_connect_requested' = TRUE
  /\ station' \in IF platform = "ESP32" THEN BOOLEAN ELSE {station}
  /\ UNCHANGED <<ring, platform, adapter, core, m_initialized, live, progress, faults>>

\* m_connect of the ESP8266 starts the station.
Connect ==
  /\ job = "none" /\ core /\ m_connect_requested /\ platform = "ESP8266"
  /\ station' = TRUE
  /\ UNCHANGED <<ring, platform, adapter, core, m_initialized, m_connect_requested, live,
                 progress, faults>>

Deactivate ==
  /\ job = "none" /\ core
  /\ m_connect_requested' = FALSE /\ station' = FALSE
  /\ UNCHANGED <<ring, platform, adapter, core, m_initialized, live, progress, faults>>

Poll ==
  /\ job = "none" /\ core /\ m_connect_requested
  /\ adapter_poll_event
  /\ UNCHANGED <<platform, objects, live, progress, faults>>

Handler(e) == IF e = GotIp THEN "ip_handler" ELSE "wifi_handler"

\* The driver reports to a handler that is registered for the adapter.
Report(e) ==
  /\ adapter /\ live[Handler(e)] > 0
  /\ platform = "ESP32" \/ job = "none"
  /\ push_event(e)
  /\ UNCHANGED <<platform, objects, live, progress, faults>>

AdapterNext ==
  \/ CreateAdapter \/ CreateCore \/ InitCall \/ InitEnds \/ InitFails
  \/ DestroyCore \/ DestroyAdapter \/ ShutdownCall \/ ShutdownEnds
  \/ Activate \/ Connect \/ Deactivate \/ Poll
  \/ \E e \in Event : Report(e)

AdapterSpec == AdapterInit /\ [][AdapterNext]_allVars

-----------------------------------------------------------------------------
\* What the adapter of a core holds of the driver.
Needed(r) ==
  IF core /\ (platform = "ESP32" \/ r \in {"wifi_handler", "ip_handler"}) THEN 1 ELSE 0

\* Nothing of the driver is taken twice, released twice or kept: between two calls
\* of the application an adapter has all it needs while it serves a core and nothing
\* otherwise.  Only what an init had taken when it failed stays taken, at most once
\* for each init that failed.
Balanced ==
  /\ m_initialized => adapter
  /\ job = "none" =>
       /\ m_initialized <=> core
       /\ \A r \in Resource :
            /\ Needed(r) <= live[r]
            /\ live[r] <= Needed(r) + (IF r \in leaked THEN failures ELSE 0)

\* The handler, which the event task may run at any time, finds the interface it
\* asks for the address (update_link_info), also in the midst of an init or a
\* shutdown, and the adapter it was registered for, unless an init failed after it
\* was registered.
HandlersServed ==
  /\ live["ip_handler"] > 0 => adapter /\ (platform = "ESP32" => live["netif"] > 0)
  /\ live["wifi_handler"] > 0 => adapter \/ "wifi_handler" \in leaked

\* The station runs for a core that was activated and not deactivated since; in
\* particular it does not outlive the core.
StationOwned == station => core /\ m_connect_requested
=============================================================================
