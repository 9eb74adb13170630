------------------------------ MODULE TcpClient ------------------------------
(* The connection state machine of the TCP client (c_tcp_client.cpp): its      *)
(* back-off, its time-out and how it follows the Wi-Fi link snapshot each tick *)
(* is handed.  What a tick receives is abstracted to whether a message is left *)
(* half received (holding); TcpReceive models it.                              *)
(*                                                                             *)
(* The client runs in one thread and nothing it calls re-enters it, so each of *)
(* its calls is one step.  External: the socket, which opens, fails and dies   *)
(* on its own, the clock, and the Wi-Fi manager, which behaves as LinkState.   *)
EXTENDS Integers

CONSTANTS
  ConnectTimeout,       \* m_connect_timeout_ms
  InitialBackoff,       \* m_backoff_initial_ms
  BackoffJitter,        \* m_backoff_jitter_ms
  BackoffMax,           \* m_backoff_max_ms
  ClockMod,             \* 2^32: m_millis() and the times kept are u32
  GenerationMod         \* 2^32: m_connection_generation is a u32

ASSUME TimingAssumption ==
  /\ ConnectTimeout \in Nat /\ InitialBackoff \in Nat \ {0}
  /\ BackoffJitter \in Nat /\ BackoffMax \in Nat
  /\ BackoffJitter \div 2 <= InitialBackoff
  /\ InitialBackoff + BackoffJitter \div 2 <= BackoffMax
ASSUME ClockAssumption ==
  /\ ClockMod \in Nat /\ ConnectTimeout < ClockMod
  /\ 2 * (BackoffMax + BackoffJitter) < ClockMod
ASSUME GenerationAssumption == GenerationMod \in Nat \ {0, 1}

VARIABLES
  m_enabled, m_state, m_wifi_connected, m_wifi_connection_generation,
  m_backoff_ms, m_last_attempt_ms, m_connect_start_ms,
  holding,                  \* m_tcp_recv_buffer and the plugin that acquired it are set
  sock,                     \* the socket: "closed", "connecting", "open"
  current,                  \* ghost: it was last connected on the link that is up
  left,                     \* ghost: disconnect() left it in the middle of an attempt
  ticked,                   \* ghost: since the last tick of the enabled client, neither the
                            \* application called it nor the link moved
  connected, generation,    \* the snapshot the application hands to tick_tcp_client
  now,                      \* m_millis()
  since                     \* ghost: true time since m_last_attempt_ms, saturating

wifi   == <<m_wifi_connected, m_wifi_connection_generation>>
timing == <<m_backoff_ms, m_last_attempt_ms, m_connect_start_ms, since>>
socket == <<sock, current, left>>
env    == <<connected, generation, now>>
vars   == <<m_enabled, m_state, wifi, timing, holding, socket, ticked, env>>

Clock       == 0 .. ClockMod - 1
Generations == 0 .. GenerationMod - 1
BackoffTop  == BackoffMax + BackoffJitter    \* where since saturates

TypeOK ==
  /\ m_enabled \in BOOLEAN
  /\ m_state \in {"INACTIVE", "DISCONNECTED", "CONNECTING", "BACKOFF", "CONNECTED"}
  /\ m_wifi_connected \in BOOLEAN
  /\ m_wifi_connection_generation \in Generations
  /\ m_backoff_ms \in Clock
  /\ m_last_attempt_ms \in Clock
  /\ m_connect_start_ms \in Clock
  /\ holding \in BOOLEAN
  /\ sock \in {"closed", "connecting", "open"}
  /\ current \in BOOLEAN /\ left \in BOOLEAN /\ ticked \in BOOLEAN
  /\ connected \in BOOLEAN
  /\ generation \in Generations
  /\ now \in Clock
  /\ since \in 0 .. BackoffTop

\* setup
Init ==
  /\ m_enabled = FALSE /\ m_state = "INACTIVE"
  /\ m_wifi_connected = FALSE /\ m_wifi_connection_generation = 0
  /\ m_backoff_ms = InitialBackoff
  /\ m_last_attempt_ms = 0 /\ m_connect_start_ms = 0
  /\ holding = FALSE
  /\ sock = "closed" /\ current = FALSE /\ left = FALSE /\ ticked = FALSE
  /\ connected = FALSE /\ generation = 0
  /\ now = 0 /\ since = 0

-----------------------------------------------------------------------------
(* The application's calls *)

activate == m_state' = IF m_state = "INACTIVE" THEN "DISCONNECTED" ELSE m_state

\* Nothing happens on a client that is enabled already.
connect ==
  /\ ~m_enabled
  /\ m_enabled' = TRUE
  /\ activate
  /\ ticked' = FALSE
  /\ UNCHANGED <<wifi, timing, holding, socket, env>>

\* A message that is half received is aborted; the socket is stopped in CONNECTED
\* only.
deactivate ==
  /\ m_state' = "INACTIVE"
  /\ holding' = FALSE
  /\ sock' = IF m_state = "CONNECTED" THEN "closed" ELSE sock

disconnect ==
  /\ m_enabled
  /\ m_enabled' = FALSE
  /\ deactivate
  /\ left' = (sock # "closed" /\ (left \/ m_state = "CONNECTING"))
  /\ ticked' = FALSE
  /\ UNCHANGED <<wifi, timing, current, env>>

-----------------------------------------------------------------------------
(* tick_tcp_client *)

\* Mutant: the deadline is computed first and compared with the clock.
DeadlineReached(t, d) == now >= (t + d) % ClockMod

\* now - t >= d in u32 arithmetic.
Passed(t, d) == (now - t) % ClockMod >= d

\* Mutant: the back-off doubles without a limit.
UncappedBackoffs ==
  {(2 * m_backoff_ms - BackoffJitter \div 2 + r) % ClockMod : r \in 0 .. BackoffJitter}

\* m_backoff_ms after s_enter_backoff: twice the last one, at most BackoffMax, and
\* then a jitter of (r * BackoffJitter) >> 12 for a 12-bit r, less half of it.
Backoffs ==
  LET doubled == (2 * m_backoff_ms) % ClockMod
      next    == IF doubled > BackoffMax THEN BackoffMax ELSE doubled
  IN  IF BackoffJitter = 0
      THEN {next}
      ELSE {(next - BackoffJitter \div 2 + r) % ClockMod : r \in 0 .. BackoffJitter - 1}

s_enter_backoff ==
  /\ m_state' = "BACKOFF"
  /\ m_backoff_ms' \in Backoffs
  /\ m_last_attempt_ms' = now /\ since' = 0
  /\ UNCHANGED m_connect_start_ms

\* The second half of s_attempt_connect: the previous socket is stopped and the
\* next one asked to connect, at once, later or never.
StartAttempt ==
  /\ m_state' = "CONNECTING"
  /\ m_last_attempt_ms' = now /\ since' = 0
  /\ m_connect_start_ms' = now
  /\ sock' \in {"connecting", "open", "closed"}
  /\ current' = TRUE /\ left' = FALSE

\* Mutant: a message that is half received is not aborted.
StoppedWithoutAbort == sock' = "closed" /\ UNCHANGED holding

\* s_stop_for_wifi_change, without the state it sets.
s_stop_for_wifi_change == sock' = "closed" /\ holding' = FALSE

\* Mutant: a lost link stops the socket but leaves the state.
StateKeptOnLinkDown ==
  /\ m_enabled /\ ~connected
  /\ m_wifi_connected' = FALSE
  /\ IF m_wifi_connected THEN s_stop_for_wifi_change ELSE UNCHANGED <<sock, holding>>
  /\ ticked' = TRUE
  /\ UNCHANGED <<m_enabled, m_state, m_wifi_connection_generation, timing, current, left, env>>

\* A snapshot that is down: the first one stops the socket.
TickLinkDown ==
  /\ m_enabled /\ ~connected
  /\ m_wifi_connected' = FALSE
  /\ \/ /\ m_wifi_connected
        /\ s_stop_for_wifi_change
        /\ m_state' = "DISCONNECTED"
     \/ /\ ~m_wifi_connected
        /\ UNCHANGED <<m_state, sock, holding>>
  /\ ticked' = TRUE
  /\ UNCHANGED <<m_enabled, m_wifi_connection_generation, timing, current, left, env>>

\* Mutant: the generation is not looked at.
OnlyConnectedChanged == ~m_wifi_connected

LinkChanged == ~m_wifi_connected \/ m_wifi_connection_generation # generation

\* A link that is new to the client: the socket is stopped, the back-off starts
\* over as already served, so that the same tick makes an attempt.
TickLinkChanged ==
  /\ m_enabled /\ connected /\ LinkChanged
  /\ m_wifi_connected' = TRUE
  /\ m_wifi_connection_generation' = generation
  /\ holding' = FALSE
  /\ m_backoff_ms' = InitialBackoff
  /\ StartAttempt
  /\ ticked' = TRUE
  /\ UNCHANGED <<m_enabled, env>>

\* The link is the one of the previous tick.
LinkSteady == m_enabled /\ connected /\ ~LinkChanged

\* s_attempt_connect
TickDisconnected ==
  /\ LinkSteady /\ m_state = "DISCONNECTED"
  /\ Passed(m_last_attempt_ms, m_backoff_ms)
  /\ StartAttempt
  /\ ticked' = TRUE
  /\ UNCHANGED <<m_enabled, wifi, m_backoff_ms, holding, env>>

\* Mutant: an attempt that the socket refuses is waited for without end.
PolledWithoutTimeout ==
  /\ LinkSteady /\ m_state = "CONNECTING" /\ sock = "open"
  /\ m_state' = "CONNECTED"
  /\ m_backoff_ms' = InitialBackoff
  /\ holding' = FALSE
  /\ ticked' = TRUE
  /\ UNCHANGED <<m_enabled, wifi, m_last_attempt_ms, m_connect_start_ms, since, socket, env>>

\* s_poll_connecting: the socket is open, or the attempt is over.
TickConnecting ==
  /\ LinkSteady /\ m_state = "CONNECTING"
  /\ \/ /\ sock = "open"
        /\ m_state' = "CONNECTED"
        /\ m_backoff_ms' = InitialBackoff
        /\ holding' = FALSE
        /\ UNCHANGED <<m_last_attempt_ms, m_connect_start_ms, since, sock>>
     \/ /\ sock # "open" /\ Passed(m_connect_start_ms, ConnectTimeout + 1)
        /\ sock' = "closed"
        /\ s_enter_backoff
        /\ UNCHANGED holding
  /\ ticked' = TRUE
  /\ UNCHANGED <<m_enabled, wifi, current, left, env>>

\* s_poll_connected: the socket died, or it delivered something or nothing.
TickConnected ==
  /\ LinkSteady /\ m_state = "CONNECTED"
  /\ \/ /\ sock # "open"
        /\ holding' = FALSE
        /\ sock' = "closed"
        /\ s_enter_backoff
     \/ /\ sock = "open"
        /\ holding' \in BOOLEAN
        /\ UNCHANGED <<m_state, timing, sock>>
  /\ ticked' = TRUE
  /\ UNCHANGED <<m_enabled, wifi, current, left, env>>

\* s_poll_backoff
TickBackoff ==
  /\ LinkSteady /\ m_state = "BACKOFF"
  /\ Passed(m_last_attempt_ms, m_backoff_ms)
  /\ m_state' = "DISCONNECTED"
  /\ ticked' = TRUE
  /\ UNCHANGED <<m_enabled, wifi, timing, holding, socket, env>>

\* The back-off or the attempt is not over: the tick changes nothing.
TickTooEarly ==
  /\ LinkSteady
  /\ \/ /\ m_state \in {"DISCONNECTED", "BACKOFF"}
        /\ ~Passed(m_last_attempt_ms, m_backoff_ms)
     \/ /\ m_state = "CONNECTING" /\ sock # "open"
        /\ ~Passed(m_connect_start_ms, ConnectTimeout + 1)
  /\ ticked' = TRUE
  /\ UNCHANGED <<m_enabled, m_state, wifi, timing, holding, socket, env>>

\* send changes nothing; it reports whether it wrote to the socket.
send == m_state = "CONNECTED"

\* Every tick of a client that is enabled; another returns at once.
Tick == \/ TickLinkDown \/ TickLinkChanged
        \/ TickDisconnected \/ TickConnecting \/ TickConnected \/ TickBackoff
        \/ TickTooEarly

-----------------------------------------------------------------------------
(* The environment *)

SockOpens ==
  /\ sock = "connecting" /\ sock' = "open"
  /\ UNCHANGED <<m_enabled, m_state, wifi, timing, holding, current, left, ticked, env>>

\* A refused attempt, a peer that closes, a link that is gone.
SockDies ==
  /\ sock # "closed" /\ sock' = "closed"
  /\ UNCHANGED <<m_enabled, m_state, wifi, timing, holding, current, left, ticked, env>>

\* Mutant: the clock is wider than the times that are kept.
ClockRunsOn ==
  /\ now' = now + 1
  /\ since' = IF since < BackoffTop THEN since + 1 ELSE since
  /\ UNCHANGED <<m_enabled, m_state, wifi, m_backoff_ms, m_last_attempt_ms,
                 m_connect_start_ms, holding, socket, ticked, connected, generation>>

Elapse ==
  /\ now' = (now + 1) % ClockMod
  /\ since' = IF since < BackoffTop THEN since + 1 ELSE since
  /\ UNCHANGED <<m_enabled, m_state, wifi, m_backoff_ms, m_last_attempt_ms,
                 m_connect_start_ms, holding, socket, ticked, connected, generation>>

Link == INSTANCE LinkState

\* The Wi-Fi manager between two ticks.  GenerationMod bounds the addresses
\* obtained: 2^32 of them between two ticks do not happen.  A manager created anew
\* counts from 0; before it comes up it is ticked, and with it the clients that are
\* enabled (the main loop of README.md:34), which find the link down.
LinkMoves ==
  /\ \/ Link!Up /\ generation + 1 < GenerationMod
        /\ (m_enabled /\ generation = 0 => ~m_wifi_connected)
     \/ Link!Down /\ connected
     \/ Link!Reset /\ generation # 0
  /\ current' = FALSE /\ ticked' = FALSE
  /\ UNCHANGED <<m_enabled, m_state, wifi, timing, holding, sock, left, now>>

Next == connect \/ disconnect \/ Tick \/ SockOpens \/ SockDies \/ Elapse \/ LinkMoves

Spec == Init /\ [][Next]_vars

-----------------------------------------------------------------------------
\* The back-off never falls below the initial one, wraps below zero or runs away,
\* however many attempts fail.  With a jitter it may exceed m_backoff_max_ms, by
\* less than half of the jitter (rounded up).
BackoffInBounds ==
  /\ InitialBackoff <= m_backoff_ms
  /\ m_backoff_ms <= BackoffMax + (BackoffJitter - BackoffJitter \div 2)

\* A plugin's buffer is held only while the client is CONNECTED: every way out of
\* that state aborts the message first, so that the reset of the receive state in
\* s_poll_connecting never forgets a buffer its plugin still waits for.
HeldOnlyConnected == holding => m_state = "CONNECTED"

\* Whatever the link did between two ticks: from a tick on, one that is too early to do
\* anything included, until the link moves again, the socket is either stopped or was
\* connected on the link that is up.  A socket of an earlier link is not read or waited
\* for, and not left open but for one case: disconnect() left it in the middle of an
\* attempt, and then a new manager brought a link up under the generation noted, before
\* the client was enabled again.  The tick sees no change of link, and the socket
\* stays, unused, in DISCONNECTED until the next attempt stops it.
NoStaleSocket ==
  ticked /\ sock # "closed" => connected /\ (current \/ (left /\ m_state = "DISCONNECTED"))

\* README.md:42: send() returns FALSE until the client is connected again.  What it
\* accepts goes to the link the client last saw: to the one that is up, unless that
\* came up, or went down, since the last tick.
SendsOnKnownLink ==
  send => m_wifi_connected /\ (connected /\ ~LinkChanged => current)

\* Without a new link, an attempt is made only when m_backoff_ms has really passed
\* since the previous attempt or failure, also when the clock wraps around.
AttemptPaced == [][TickDisconnected => since >= m_backoff_ms]_vars

\* README.md:20: "disconnect() to close the connection".  Not while CONNECTING:
\* the socket is left to open.
DisconnectCloses == ~m_enabled => sock # "open"

-----------------------------------------------------------------------------
(* Progress.  The application keeps calling tick, and often enough not to miss *)
(* every moment at which a wait is over before the clock wraps around; time    *)
(* passes; a socket that is asked again and again opens in the end.            *)
Fairness ==
  /\ WF_vars(Tick)
  /\ SF_vars(TickDisconnected) /\ SF_vars(TickBackoff) /\ SF_vars(TickConnecting)
  /\ WF_vars(Elapse)
  /\ SF_vars(SockOpens)
  /\ SF_vars((TickDisconnected \/ TickLinkChanged) /\ sock' = "connecting")

FairSpec == Spec /\ Fairness

\* If from some time on the client is enabled, the link stays as it is and the
\* socket stops failing, the client ends up CONNECTED and stays so, whatever it
\* was doing before.
StableLinkConnects ==
  (<>[](m_enabled /\ connected) /\ <>[][~SockDies /\ ~LinkMoves]_vars)
    => <>[](m_state = "CONNECTED" /\ sock = "open")
=============================================================================
