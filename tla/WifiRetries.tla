----------------------------- MODULE WifiRetries -----------------------------
(* The Wi-Fi manager's requests and generations over time.  WifiManager does   *)
(* not remember what was asked or obtained before, so this module adds the     *)
(* history the questions need, and changes nothing else.                       *)
EXTENDS WifiManager, FiniteSets

VARIABLES request,    \* the latest connect request since Activate: "none", "fast", "normal"
          pace,       \* time since that request, at most InitBackoff
          obtained,   \* addresses the driver reported since the restart
          lost        \* the queue was full for one of those reports
history == <<request, pace, obtained, lost>>
hvars   == <<vars, history>>

HInit == Init /\ request = "none" /\ pace = InitBackoff /\ obtained = 0 /\ lost = FALSE

HActivate == Activate /\ request' = "none" /\ UNCHANGED <<pace, obtained, lost>>

HTickConnect ==
  /\ TickConnect
  /\ request' = IF FastRequest THEN "fast" ELSE "normal"
  /\ pace' = 0
  /\ UNCHANGED <<obtained, lost>>

HElapse ==
  /\ Elapse
  /\ pace' = Least(pace + 1, InitBackoff)
  /\ UNCHANGED <<request, obtained, lost>>

HDriverReportsIp ==
  /\ DriverReportsIp
  /\ obtained' = (obtained + 1) % GenerationMod
  /\ lost' = (lost \/ Len(events) = Capacity)
  /\ UNCHANGED <<request, pace>>

HPowerCycle ==
  /\ PowerCycle
  /\ request' = "none" /\ pace' = InitBackoff /\ obtained' = 0 /\ lost' = FALSE

HOther ==
  /\ \/ Deactivate
     \/ TickStart \/ PollEvent \/ EventsDrained
     \/ TickConnecting \/ TickBackoff \/ TickConnected
     \/ DriverObtainsIp \/ DriverLosesLink \/ DriverReportsClose
  /\ UNCHANGED history

HNext == HActivate \/ HTickConnect \/ HElapse \/ HDriverReportsIp \/ HPowerCycle \/ HOther

HSpec == HInit /\ [][HNext]_hvars

-----------------------------------------------------------------------------
\* Between two requests of one activation at least InitBackoff passes, whatever
\* ended the first one (a refusal, a report, a time-out, a lost link), unless the
\* first was the one fast attempt.
RetryPaced == [][TickConnect /\ request = "normal" => pace >= InitBackoff]_hvars

\* A fast attempt, which skips the scan and DHCP, is only ever the first request of
\* an activation: after any failure the manager falls back to a full connect.
FastOnlyFirst == [][TickConnect /\ FastRequest => request = "none"]_hvars

\* The places of a queue where an address waits to be processed.
IpsIn(q) == {i \in 1 .. Len(q) : q[i] = "GOT_IP"}

\* As long as the queue was never full, each address obtained advances the
\* generation exactly once, in whatever state its event finds the manager.
EveryIpCounted ==
  ~lost => (m_connection_generation + Cardinality(IpsIn(events))) % GenerationMod = obtained
=============================================================================
