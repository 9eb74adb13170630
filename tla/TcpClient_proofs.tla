--------------------------- MODULE TcpClient_proofs ---------------------------
(* What the TCP client guarantees for every time-out, every back-off and jitter *)
(* the assumptions admit, and every width of the clock and the generation.      *)
(*                                                                              *)
(* One invariant says where the socket, the link and the clock stand between    *)
(* two steps; the properties of states and of steps are read off it.            *)
EXTENDS TcpClient, TLAPS

USE TimingAssumption, ClockAssumption, GenerationAssumption

-----------------------------------------------------------------------------
(* u32 arithmetic *)

\* A number that fits is not changed by the truncation.
LEMMA Fits == ASSUME NEW n \in Clock PROVE n % ClockMod = n
BY DEF Clock

\* The clock stays a clock.
LEMMA Truncated == ASSUME NEW n \in Int PROVE n % ClockMod \in Clock
BY DEF Clock

\* One tick of the clock adds one to a distance that does not fill its range.
LEMMA NextDistance ==
  ASSUME NEW a \in Clock, NEW t \in Clock, ((a - t) % ClockMod) + 1 < ClockMod
  PROVE  (((a + 1) % ClockMod) - t) % ClockMod = ((a - t) % ClockMod) + 1
<1>1. CASE a + 1 < ClockMod
  <2>1. (a + 1) % ClockMod = a + 1
    BY <1>1 DEF Clock
  <2>2. CASE a >= t
    BY <1>1, <2>1, <2>2 DEF Clock
  <2>3. CASE a < t
    <3>1. (a - t) % ClockMod = a - t + ClockMod
      BY <2>3 DEF Clock
    <3>2. (a + 1 - t) % ClockMod = a + 1 - t + ClockMod
      BY <2>3, <3>1 DEF Clock
    <3>3. QED BY <2>1, <3>1, <3>2 DEF Clock
  <2>4. QED BY <2>2, <2>3 DEF Clock
<1>2. CASE a + 1 = ClockMod
  <2>1. (a + 1) % ClockMod = 0
    BY <1>2 DEF Clock
  <2>2. (a - t) % ClockMod = a - t
    BY <1>2 DEF Clock
  <2>3. (0 - t) % ClockMod = ClockMod - t
    BY <1>2, <2>2 DEF Clock
  <2>4. QED BY <1>2, <2>1, <2>2, <2>3 DEF Clock
<1>3. QED BY <1>1, <1>2 DEF Clock

\* A back-off that lies between its bounds, doubled and spread by the jitter, lies
\* between them again and never wraps.
LEMMA BackoffsRange ==
  ASSUME m_backoff_ms \in Clock, BackoffInBounds, NEW b \in Backoffs
  PROVE  /\ b \in Clock
         /\ InitialBackoff <= b
         /\ b <= BackoffMax + (BackoffJitter - BackoffJitter \div 2)
<1> DEFINE half == BackoffJitter \div 2
           doubled == 2 * m_backoff_ms
           next == IF doubled > BackoffMax THEN BackoffMax ELSE doubled
<1>1. half \in Nat /\ half <= BackoffJitter /\ half <= InitialBackoff
      /\ InitialBackoff + half <= BackoffMax
  OBVIOUS
<1>2. doubled \in Clock
  BY <1>1 DEF Clock, BackoffInBounds
<1>3. doubled % ClockMod = doubled
  BY <1>2, Fits
<1>4. next \in Nat /\ InitialBackoff + half <= next /\ next <= BackoffMax
  BY <1>1 DEF Clock, BackoffInBounds
<1>5. CASE BackoffJitter = 0
  <2>1. b = next
    BY <1>3, <1>5 DEF Backoffs
  <2>2. QED BY <1>1, <1>4, <2>1 DEF Clock
<1>6. CASE BackoffJitter # 0
  <2>1. PICK r \in 0 .. BackoffJitter - 1 : b = (next - half + r) % ClockMod
    BY <1>3, <1>6 DEF Backoffs
  <2> HIDE DEF next, half, doubled
  <2>2. next - half + r \in Clock
    BY <1>1, <1>4 DEF Clock
  <2>3. b = next - half + r
    BY <2>1, <2>2, Fits
  <2>4. InitialBackoff <= b /\ b <= BackoffMax + (BackoffJitter - half)
    BY <1>1, <1>4, <2>3
  <2>5. QED BY <2>2, <2>3, <2>4 DEF half
<1>7. QED BY <1>5, <1>6

-----------------------------------------------------------------------------
(* The invariant *)

\* A socket that is not closed belongs to a link the client has seen.  While the
\* client tries or uses it, no later link can carry the generation it has noted: the
\* manager counts on from it, or starts over and then waits for the client to see
\* the link down before it comes up.
SocketOnLink ==
  /\ sock # "closed" => m_wifi_connected
  /\ m_state = "BACKOFF" => sock = "closed"
  /\ m_enabled <=> m_state # "INACTIVE"
  /\ m_state \in {"CONNECTING", "CONNECTED"} =>
       /\ m_wifi_connected
       /\ connected /\ ~LinkChanged => current
       /\ generation = 0 \/ m_wifi_connection_generation <= generation
  /\ generation = 0 => ~connected
  /\ m_wifi_connected => m_wifi_connection_generation # 0

\* Up to its saturation, since is what u32 arithmetic makes of the kept time.
ClockIsTrue ==
  \/ since = BackoffTop
  \/ since = (now - m_last_attempt_ms) % ClockMod

Inv == TypeOK /\ BackoffInBounds /\ HeldOnlyConnected /\ SocketOnLink /\ ClockIsTrue

LEMMA InvInit == Init => Inv
<1> SUFFICES ASSUME Init PROVE Inv
  OBVIOUS
<1>1. TypeOK
  <2>1. 0 \in Clock /\ 0 \in Generations /\ 0 \in 0 .. BackoffTop /\ InitialBackoff \in Clock
    BY DEF Clock, Generations, BackoffTop
  <2>2. QED BY <2>1 DEF Init, TypeOK
<1>2. BackoffInBounds /\ HeldOnlyConnected /\ SocketOnLink
  BY DEF Init, BackoffInBounds, HeldOnlyConnected, SocketOnLink
<1>3. ClockIsTrue
  BY DEF Init, ClockIsTrue
<1>4. QED BY <1>1, <1>2, <1>3 DEF Inv

\* What entering the back-off does to the times.
LEMMA EnterBackoff ==
  ASSUME Inv, s_enter_backoff, now' = now
  PROVE  /\ m_state' = "BACKOFF"
         /\ m_backoff_ms' \in Clock /\ m_last_attempt_ms' \in Clock
         /\ m_connect_start_ms' \in Clock /\ since' \in 0 .. BackoffTop
         /\ BackoffInBounds' /\ ClockIsTrue'
<1>1. /\ m_backoff_ms' \in Clock
      /\ InitialBackoff <= m_backoff_ms'
      /\ m_backoff_ms' <= BackoffMax + (BackoffJitter - BackoffJitter \div 2)
  BY BackoffsRange DEF Inv, TypeOK, s_enter_backoff
<1>2. BackoffInBounds'
  BY <1>1 DEF BackoffInBounds
<1>3. since' = 0 /\ m_last_attempt_ms' = now /\ now \in Clock
  BY DEF Inv, TypeOK, s_enter_backoff
<1>4. (now - now) % ClockMod = 0
  BY <1>3 DEF Clock
<1>5. ClockIsTrue'
  BY <1>3, <1>4 DEF ClockIsTrue
<1>6. QED
  BY <1>1, <1>2, <1>3, <1>5 DEF s_enter_backoff, Inv, TypeOK, BackoffTop

\* What an attempt does to the times.
LEMMA Attempted ==
  ASSUME Inv, StartAttempt, now' = now
  PROVE  /\ m_state' = "CONNECTING"
         /\ m_last_attempt_ms' \in Clock /\ m_connect_start_ms' \in Clock
         /\ since' \in 0 .. BackoffTop /\ ClockIsTrue'
<1>1. since' = 0 /\ m_last_attempt_ms' = now /\ now \in Clock
  BY DEF Inv, TypeOK, StartAttempt
<1>2. (now - now) % ClockMod = 0
  BY <1>1 DEF Clock
<1>3. ClockIsTrue'
  BY <1>1, <1>2 DEF ClockIsTrue
<1>4. QED BY <1>1, <1>3 DEF StartAttempt, BackoffTop

LEMMA InvNext == Inv /\ [Next]_vars => Inv'
<1> SUFFICES ASSUME Inv, [Next]_vars PROVE Inv'
  OBVIOUS
<1> USE DEF wifi, timing, socket, env
<1>1. CASE connect
  <2>1. TypeOK'
    BY <1>1 DEF connect, activate, Inv, TypeOK
  <2>2. QED
    BY <1>1, <2>1 DEF connect, activate, Inv, TypeOK, BackoffInBounds,
                      HeldOnlyConnected, SocketOnLink, LinkChanged, ClockIsTrue
<1>2. CASE disconnect
  <2>1. TypeOK'
    BY <1>2 DEF disconnect, deactivate, Inv, TypeOK
  <2>2. QED
    BY <1>2, <2>1 DEF disconnect, deactivate, Inv, BackoffInBounds,
                      HeldOnlyConnected, SocketOnLink, LinkChanged, ClockIsTrue
<1>3. CASE TickLinkDown
  <2>1. TypeOK'
    BY <1>3 DEF TickLinkDown, s_stop_for_wifi_change, Inv, TypeOK
  <2>2. QED
    BY <1>3, <2>1 DEF TickLinkDown, s_stop_for_wifi_change, Inv, BackoffInBounds,
                      HeldOnlyConnected, SocketOnLink, LinkChanged, ClockIsTrue
<1>4. CASE TickLinkChanged
  <2>1. /\ m_state' = "CONNECTING"
        /\ m_last_attempt_ms' \in Clock /\ m_connect_start_ms' \in Clock
        /\ since' \in 0 .. BackoffTop /\ ClockIsTrue'
    BY <1>4, Attempted DEF TickLinkChanged
  <2>2. BackoffInBounds' /\ m_backoff_ms' \in Clock
    BY <1>4 DEF TickLinkChanged, BackoffInBounds, Clock
  <2>3. TypeOK'
    BY <1>4, <2>1, <2>2 DEF TickLinkChanged, StartAttempt, Inv, TypeOK
  <2>4. HeldOnlyConnected'
    BY <1>4 DEF TickLinkChanged, HeldOnlyConnected
  <2>5. SocketOnLink'
    BY <1>4 DEF TickLinkChanged, StartAttempt, Inv, TypeOK, Generations, SocketOnLink
  <2>6. QED BY <2>1, <2>2, <2>3, <2>4, <2>5 DEF Inv
<1>5. CASE TickDisconnected
  <2>1. /\ m_state' = "CONNECTING"
        /\ m_last_attempt_ms' \in Clock /\ m_connect_start_ms' \in Clock
        /\ since' \in 0 .. BackoffTop /\ ClockIsTrue'
    BY <1>5, Attempted DEF TickDisconnected
  <2>2. TypeOK'
    BY <1>5, <2>1 DEF TickDisconnected, StartAttempt, Inv, TypeOK
  <2>3. HeldOnlyConnected' /\ BackoffInBounds'
    BY <1>5 DEF TickDisconnected, StartAttempt, Inv, HeldOnlyConnected, BackoffInBounds
  <2>4. SocketOnLink'
    BY <1>5 DEF TickDisconnected, LinkSteady, LinkChanged, StartAttempt, Inv, TypeOK,
                Generations, SocketOnLink
  <2>5. QED BY <2>1, <2>2, <2>3, <2>4 DEF Inv
<1>6. CASE TickConnecting
  <2>1. CASE sock = "open"
    <3>1. BackoffInBounds' /\ m_backoff_ms' \in Clock
      BY <1>6, <2>1 DEF TickConnecting, BackoffInBounds, Clock
    <3>2. TypeOK'
      BY <1>6, <2>1, <3>1 DEF TickConnecting, Inv, TypeOK
    <3>3. HeldOnlyConnected' /\ SocketOnLink' /\ ClockIsTrue'
      BY <1>6, <2>1 DEF TickConnecting, Inv, HeldOnlyConnected, SocketOnLink, LinkChanged, ClockIsTrue
    <3>4. QED BY <3>1, <3>2, <3>3 DEF Inv
  <2>2. CASE sock # "open"
    <3>1. s_enter_backoff /\ now' = now
      BY <1>6, <2>2 DEF TickConnecting
    <3>2. /\ m_state' = "BACKOFF"
          /\ m_backoff_ms' \in Clock /\ m_last_attempt_ms' \in Clock
          /\ m_connect_start_ms' \in Clock /\ since' \in 0 .. BackoffTop
          /\ BackoffInBounds' /\ ClockIsTrue'
      BY <3>1, EnterBackoff
    <3>3. TypeOK'
      BY <1>6, <2>2, <3>2 DEF TickConnecting, Inv, TypeOK
    <3>4. HeldOnlyConnected' /\ SocketOnLink'
      BY <1>6, <2>2, <3>1 DEF TickConnecting, s_enter_backoff, Inv, HeldOnlyConnected,
                               SocketOnLink
    <3>5. QED BY <3>2, <3>3, <3>4 DEF Inv
  <2>3. QED BY <2>1, <2>2
<1>7. CASE TickConnected
  <2>1. CASE sock # "open"
    <3>1. s_enter_backoff /\ now' = now
      BY <1>7, <2>1 DEF TickConnected
    <3>2. /\ m_state' = "BACKOFF"
          /\ m_backoff_ms' \in Clock /\ m_last_attempt_ms' \in Clock
          /\ m_connect_start_ms' \in Clock /\ since' \in 0 .. BackoffTop
          /\ BackoffInBounds' /\ ClockIsTrue'
      BY <3>1, EnterBackoff
    <3>3. TypeOK'
      BY <1>7, <2>1, <3>2 DEF TickConnected, Inv, TypeOK
    <3>4. HeldOnlyConnected' /\ SocketOnLink'
      BY <1>7, <2>1, <3>1 DEF TickConnected, s_enter_backoff, Inv, HeldOnlyConnected,
                               SocketOnLink
    <3>5. QED BY <3>2, <3>3, <3>4 DEF Inv
  <2>2. CASE sock = "open"
    <3>1. TypeOK'
      BY <1>7, <2>2 DEF TickConnected, Inv, TypeOK
    <3>2. QED
      BY <1>7, <2>2, <3>1 DEF TickConnected, Inv, BackoffInBounds, HeldOnlyConnected,
                              SocketOnLink, LinkChanged, ClockIsTrue
  <2>3. QED BY <2>1, <2>2
<1>8. CASE TickBackoff
  <2>1. TypeOK'
    BY <1>8 DEF TickBackoff, Inv, TypeOK
  <2>2. QED
    BY <1>8, <2>1 DEF TickBackoff, Inv, BackoffInBounds, HeldOnlyConnected,
                      SocketOnLink, LinkChanged, ClockIsTrue
<1>9. CASE SockOpens \/ SockDies
  <2>1. TypeOK'
    BY <1>9 DEF SockOpens, SockDies, Inv, TypeOK
  <2>2. QED
    BY <1>9, <2>1 DEF SockOpens, SockDies, Inv, BackoffInBounds, HeldOnlyConnected,
                      SocketOnLink, LinkChanged, ClockIsTrue
<1>10. CASE Elapse
  <2>1. now \in Clock /\ m_last_attempt_ms \in Clock /\ since \in 0 .. BackoffTop
    BY DEF Inv, TypeOK
  <2>2. now' \in Clock
    BY <1>10, <2>1, Truncated DEF Elapse, Clock
  <2>3. since' \in 0 .. BackoffTop
    BY <1>10, <2>1 DEF Elapse, BackoffTop
  <2>4. TypeOK'
    BY <1>10, <2>2, <2>3 DEF Elapse, Inv, TypeOK
  <2>5. ClockIsTrue'
    <3>1. CASE since = BackoffTop
      BY <1>10, <3>1 DEF Elapse, ClockIsTrue, BackoffTop
    <3>2. CASE since < BackoffTop
      <4>1. since = (now - m_last_attempt_ms) % ClockMod
        BY <2>1, <3>2 DEF Inv, ClockIsTrue, BackoffTop
      <4>2. since + 1 < ClockMod
        BY <2>1, <3>2 DEF BackoffTop
      <4>3. (((now + 1) % ClockMod) - m_last_attempt_ms) % ClockMod = since + 1
        BY <2>1, <4>1, <4>2, NextDistance
      <4>4. QED BY <1>10, <3>2, <4>3 DEF Elapse, ClockIsTrue
    <3>3. QED BY <2>1, <3>1, <3>2 DEF BackoffTop
  <2>6. QED
    BY <1>10, <2>4, <2>5 DEF Elapse, Inv, BackoffInBounds, HeldOnlyConnected,
                             SocketOnLink, LinkChanged
<1>11. CASE LinkMoves
  <2>1. connected' \in BOOLEAN /\ generation' \in Generations
    <3>1. generation \in Generations
      BY DEF Inv, TypeOK
    <3>2. CASE Link!Up /\ generation + 1 < GenerationMod
      BY <3>1, <3>2 DEF Link!Up, Generations
    <3>3. CASE Link!Down
      BY <3>1, <3>3 DEF Link!Down, Generations
    <3>4. CASE Link!Reset
      <4>1. 0 \in Generations
        BY DEF Generations
      <4>2. QED BY <3>4, <4>1 DEF Link!Reset
    <3>5. QED BY <1>11, <3>2, <3>3, <3>4 DEF LinkMoves
  <2>2. TypeOK'
    BY <1>11, <2>1 DEF LinkMoves, Inv, TypeOK
  <2>3. SocketOnLink'
    <3>1. generation \in Nat /\ m_wifi_connection_generation \in Nat
      BY DEF Inv, TypeOK, Generations
    <3>2. CASE Link!Up /\ generation + 1 < GenerationMod
               /\ (m_enabled /\ generation = 0 => ~m_wifi_connected)
      <4>1. connected' /\ generation' = generation + 1
        BY <3>1, <3>2 DEF Link!Up
      <4>2. QED
        BY <1>11, <3>1, <3>2, <4>1 DEF LinkMoves, LinkChanged, Inv, SocketOnLink
    <3>3. CASE Link!Down
      BY <1>11, <3>3 DEF Link!Down, LinkMoves, LinkChanged, Inv, SocketOnLink
    <3>4. CASE Link!Reset
      BY <1>11, <3>4 DEF Link!Reset, LinkMoves, LinkChanged, Inv, SocketOnLink
    <3>5. QED BY <1>11, <3>2, <3>3, <3>4 DEF LinkMoves
  <2>4. QED
    BY <1>11, <2>2, <2>3 DEF LinkMoves, Inv, BackoffInBounds, HeldOnlyConnected,
                             ClockIsTrue
<1>12. CASE TickTooEarly
  <2>1. TypeOK'
    BY <1>12 DEF TickTooEarly, Inv, TypeOK
  <2>2. QED
    BY <1>12, <2>1 DEF TickTooEarly, LinkSteady, Inv, TypeOK, BackoffInBounds,
                       HeldOnlyConnected, SocketOnLink, LinkChanged, ClockIsTrue
<1>13. CASE UNCHANGED vars
  BY <1>13 DEF vars, Inv, TypeOK, BackoffInBounds, HeldOnlyConnected, SocketOnLink,
               LinkChanged, ClockIsTrue
<1>14. QED
  BY <1>1, <1>2, <1>3, <1>4, <1>5, <1>6, <1>7, <1>8, <1>9, <1>10, <1>11, <1>12, <1>13
     DEF Next, Tick

LEMMA InvHolds == Spec => []Inv
BY InvInit, InvNext, PTL DEF Spec

-----------------------------------------------------------------------------
\* Every variable stays in its range; in particular no u32 the client keeps does
\* more than the arithmetic of the code accounts for.
THEOREM TypeCorrect == Spec => []TypeOK
<1>1. Inv => TypeOK
  BY DEF Inv
<1>2. QED BY <1>1, InvHolds, PTL

\* The back-off stays between its bounds however many attempts fail.
THEOREM BackoffBounded == Spec => []BackoffInBounds
<1>1. Inv => BackoffInBounds
  BY DEF Inv
<1>2. QED BY <1>1, InvHolds, PTL

\* A plugin's buffer is held in CONNECTED only.
THEOREM HeldCorrect == Spec => []HeldOnlyConnected
<1>1. Inv => HeldOnlyConnected
  BY DEF Inv
<1>2. QED BY <1>1, InvHolds, PTL

\* Since its last tick an enabled client has seen the link as it is.  A socket that is
\* open to a client that neither tries nor uses it was left there by disconnect().
Noticed ==
  /\ ticked => m_enabled /\ (m_wifi_connected <=> connected) /\ (connected => ~LinkChanged)
  /\ m_state \in {"INACTIVE", "DISCONNECTED"} => sock = "closed" \/ left

LEMMA NoticedNext == Inv /\ Noticed /\ [Next]_vars => Noticed'
<1> SUFFICES ASSUME Inv, Noticed, [Next]_vars PROVE Noticed'
  OBVIOUS
<1> USE DEF Noticed, LinkChanged, LinkSteady, wifi, socket, env
<1>1. CASE connect
  BY <1>1 DEF connect, activate
<1>2. CASE disconnect
  <2>1. m_state = "BACKOFF" => sock = "closed"
    BY DEF Inv, SocketOnLink
  <2>2. QED
    BY <1>2, <2>1 DEF disconnect, deactivate, Inv, TypeOK
<1>3. CASE TickLinkDown
  <2>1. ~m_wifi_connected => sock = "closed"
    BY DEF Inv, SocketOnLink
  <2>2. QED
    BY <1>3, <2>1 DEF TickLinkDown, s_stop_for_wifi_change
<1>4. CASE TickLinkChanged
  BY <1>4 DEF TickLinkChanged, StartAttempt
<1>5. CASE TickDisconnected
  BY <1>5 DEF TickDisconnected, StartAttempt
<1>6. CASE TickConnecting \/ TickConnected
  BY <1>6 DEF TickConnecting, TickConnected, s_enter_backoff
<1>7. CASE TickBackoff
  BY <1>7 DEF TickBackoff, Inv, SocketOnLink
<1>8. CASE TickTooEarly
  BY <1>8 DEF TickTooEarly
<1>9. CASE SockOpens \/ SockDies \/ Elapse \/ LinkMoves
  BY <1>9 DEF SockOpens, SockDies, Elapse, LinkMoves
<1>10. CASE UNCHANGED vars
  BY <1>10 DEF vars
<1>11. QED
  BY <1>1, <1>2, <1>3, <1>4, <1>5, <1>6, <1>7, <1>8, <1>9, <1>10 DEF Next, Tick

\* After every tick, too early or not, the socket is closed or of the link that is up, or
\* it is one that disconnect() left and that waits in DISCONNECTED for the next attempt.
THEOREM SocketFollowsLink == Spec => []NoStaleSocket
<1>1. Init => Noticed
  BY DEF Init, Noticed
<1>2. Inv /\ Noticed => NoStaleSocket
  BY DEF Inv, TypeOK, SocketOnLink, Noticed, NoStaleSocket
<1>3. QED BY <1>1, <1>2, NoticedNext, InvHolds, PTL DEF Spec

\* What send accepts goes to the link that is up, or to one lost since the last tick.
THEOREM SendsCorrect == Spec => []SendsOnKnownLink
<1>1. Inv => SendsOnKnownLink
  BY DEF Inv, SocketOnLink, SendsOnKnownLink, send
<1>2. QED BY <1>1, InvHolds, PTL

\* Without a new link, no attempt comes before its back-off is over, whatever the
\* clock wraps around to.
THEOREM AttemptsPaced == Spec => AttemptPaced
<1>1. Inv /\ [Next]_vars => [TickDisconnected => since >= m_backoff_ms]_vars
  <2> SUFFICES ASSUME Inv, TickDisconnected PROVE since >= m_backoff_ms
    OBVIOUS
  <2>1. (now - m_last_attempt_ms) % ClockMod >= m_backoff_ms
    BY DEF TickDisconnected, Passed
  <2>2. BackoffTop >= m_backoff_ms
    BY DEF Inv, TypeOK, BackoffInBounds, BackoffTop, Clock
  <2>3. QED BY <2>1, <2>2 DEF Inv, ClockIsTrue
<1>2. QED BY <1>1, InvHolds, PTL DEF Spec, AttemptPaced

-----------------------------------------------------------------------------
(* A connection that works *)

\* A socket of the link that is up is one the client knows to be of that link.
CurrentIsKnown == current => connected /\ ~LinkChanged

LEMMA CurrentInit == Init => CurrentIsKnown
BY DEF Init, CurrentIsKnown

LEMMA CurrentNext == CurrentIsKnown /\ [Next]_vars => CurrentIsKnown'
<1> SUFFICES ASSUME CurrentIsKnown, [Next]_vars PROVE CurrentIsKnown'
  OBVIOUS
<1> USE DEF CurrentIsKnown, LinkChanged, wifi, socket, env
<1>1. CASE connect \/ disconnect
  BY <1>1 DEF connect, disconnect
<1>2. CASE TickLinkDown
  BY <1>2 DEF TickLinkDown
<1>3. CASE TickLinkChanged
  BY <1>3 DEF TickLinkChanged
<1>4. CASE TickDisconnected
  BY <1>4 DEF TickDisconnected, LinkSteady
<1>5. CASE TickConnecting \/ TickConnected \/ TickBackoff \/ TickTooEarly
  BY <1>5 DEF TickConnecting, TickConnected, TickBackoff, TickTooEarly
<1>6. CASE SockOpens \/ SockDies \/ Elapse \/ LinkMoves
  BY <1>6 DEF SockOpens, SockDies, Elapse, LinkMoves
<1>7. CASE UNCHANGED vars
  BY <1>7 DEF vars
<1>8. QED BY <1>1, <1>2, <1>3, <1>4, <1>5, <1>6, <1>7 DEF Next, Tick

\* The client itself never gives up a connection on the link that is up: it ends with the
\* socket, with the link, or because the application disconnects.
ConnectionKept ==
  [][m_state = "CONNECTED" /\ sock = "open" /\ current =>
       \/ m_state' = "CONNECTED" /\ sock' = "open" /\ current'
       \/ SockDies \/ LinkMoves \/ disconnect]_vars

\* The part of StableLinkConnects that no fairness is needed for: no tick, time-out or
\* wrap of the clock ends a connection that works.
THEOREM ConnectionsKept == Spec => ConnectionKept
<1>1. CurrentIsKnown /\ [Next]_vars =>
        [m_state = "CONNECTED" /\ sock = "open" /\ current =>
           \/ m_state' = "CONNECTED" /\ sock' = "open" /\ current'
           \/ SockDies \/ LinkMoves \/ disconnect]_vars
  <2> SUFFICES ASSUME CurrentIsKnown, Next,
                      m_state = "CONNECTED", sock = "open", current,
                      ~SockDies, ~LinkMoves, ~disconnect
               PROVE  m_state' = "CONNECTED" /\ sock' = "open" /\ current'
    OBVIOUS
  <2> USE DEF wifi, timing, socket, env
  <2>1. connected /\ ~LinkChanged
    BY DEF CurrentIsKnown
  <2>2. CASE connect
    BY <2>2 DEF connect, activate
  <2>3. CASE Tick
    BY <2>1, <2>3 DEF Tick, TickLinkDown, TickLinkChanged, TickDisconnected, TickConnecting,
                      TickConnected, TickBackoff, TickTooEarly
  <2>4. CASE SockOpens \/ Elapse
    BY <2>4 DEF SockOpens, Elapse
  <2>5. QED BY <2>2, <2>3, <2>4 DEF Next
<1>2. QED BY <1>1, CurrentInit, CurrentNext, PTL DEF Spec, ConnectionKept
=============================================================================
