------------------------------ MODULE UdpClient ------------------------------
(* The UDP client (c_udp_client.cpp): how it binds and follows the Wi-Fi link, *)
(* and how a tick takes datagrams off the socket and hands them to the plugins.*)
(*                                                                             *)
(* A tick is one step up to its loop and then one step per datagram, because   *)
(* datagrams keep arriving meanwhile; nothing else runs inside a tick.  A read *)
(* may return less than was asked for, or fail.  External: the socket, the     *)
(* peers, the plugins' answers and the Wi-Fi manager, which behaves as         *)
(* LinkState.  send_to changes nothing of the client and is left out.          *)
EXTENDS Integers, Sequences, FiniteSets

CONSTANTS
  HeaderSize,      \* sizeof(msg_hdr_t)
  Datagrams,       \* what may arrive: records [size, magic, payload, type]
  Plugins,         \* the ids plugins are registered under, 0 .. 7 in the code
  Offers,          \* Offers[p][t]: the buffer p acquires for type t, or Refuse
  PacketsPerTick,  \* 4
  InboxMax,        \* bounds what waits on the socket
  GenerationMod    \* 2^32: m_connection_generation is a u32

Refuse == -1

ASSUME DatagramAssumption ==
  /\ HeaderSize \in Nat \ {0}
  /\ \A d \in Datagrams : /\ d.size \in Nat \ {0} /\ d.payload \in Nat
                          /\ d.magic \in BOOLEAN
                          /\ \A p \in Plugins : Offers[p][d.type] \in Nat \cup {Refuse}
ASSUME UdpAssumption ==
  /\ Plugins \in SUBSET Nat /\ IsFiniteSet(Plugins)
  /\ PacketsPerTick \in Nat /\ InboxMax \in Nat /\ GenerationMod \in Nat \ {0, 1}

VARIABLES
  m_enabled, m_bound, m_wifi_connected, m_wifi_connection_generation,
  registered,               \* the ids with a plugin
  inTick, packet_index,     \* inside the loop of a tick, after so many datagrams
  sock,                     \* the socket: "closed" or "bound"
  current,                  \* ghost: it was last bound on the link that is up
  inbox,                    \* the datagrams that wait on it
  connected, generation,    \* the snapshot the application hands to the ticks
  last                      \* ghost: what became of the datagram read last

wifi    == <<m_wifi_connected, m_wifi_connection_generation>>
loop    == <<inTick, packet_index>>
socket  == <<sock, current>>
link    == <<connected, generation>>
plugins == <<registered, last>>
vars    == <<m_enabled, m_bound, wifi, loop, socket, inbox, link, plugins>>

Generations == 0 .. GenerationMod - 1
Nothing     == [fate |-> "none", unread |-> 0, failed |-> FALSE]
Fates       == {"none", "dropped", "refused", "aborted", "committed"}

TypeOK ==
  /\ m_enabled \in BOOLEAN /\ m_bound \in BOOLEAN
  /\ m_wifi_connected \in BOOLEAN /\ m_wifi_connection_generation \in Generations
  /\ registered \subseteq Plugins
  /\ inTick \in BOOLEAN /\ packet_index \in 0 .. PacketsPerTick
  /\ sock \in {"closed", "bound"} /\ current \in BOOLEAN
  /\ inbox \in Seq(Datagrams) /\ Len(inbox) <= InboxMax
  /\ connected \in BOOLEAN /\ generation \in Generations
  /\ last \in [fate : Fates, unread : Nat, failed : BOOLEAN]

\* setup
Init ==
  /\ m_enabled = FALSE /\ m_bound = FALSE
  /\ m_wifi_connected = FALSE /\ m_wifi_connection_generation = 0
  /\ registered = {}
  /\ inTick = FALSE /\ packet_index = 0
  /\ sock = "closed" /\ current = FALSE /\ inbox = <<>>
  /\ connected = FALSE /\ generation = 0
  /\ last = Nothing

-----------------------------------------------------------------------------
(* The application's calls *)

\* Nothing happens on a client that is enabled already.
bind ==
  /\ ~inTick /\ ~m_enabled
  /\ m_enabled' = TRUE
  /\ UNCHANGED <<m_bound, wifi, loop, socket, inbox, link, plugins>>

\* m_stop drops what waits on the socket.
StopSocket == sock' = "closed" /\ inbox' = <<>>

unbind ==
  /\ ~inTick /\ m_enabled
  /\ IF m_bound THEN StopSocket ELSE UNCHANGED <<sock, inbox>>
  /\ m_bound' = FALSE /\ m_enabled' = FALSE
  /\ UNCHANGED <<wifi, loop, current, link, plugins>>

register_plugin(p) ==
  /\ ~inTick /\ p \notin registered
  /\ registered' = registered \cup {p}
  /\ UNCHANGED <<m_enabled, m_bound, wifi, loop, socket, inbox, link, last>>

unregister_plugin(p) ==
  /\ ~inTick /\ p \in registered
  /\ registered' = registered \ {p}
  /\ UNCHANGED <<m_enabled, m_bound, wifi, loop, socket, inbox, link, last>>

-----------------------------------------------------------------------------
(* tick_udp_client up to its loop: s_update_wifi_link and the binding *)

\* Mutant: the bound socket of a lost link is forgotten instead of stopped.
ForgottenOnLinkDown ==
  /\ ~inTick /\ m_enabled /\ ~connected
  /\ m_bound' = FALSE /\ m_wifi_connected' = FALSE
  /\ UNCHANGED <<m_enabled, m_wifi_connection_generation, loop, socket, inbox, link, plugins>>

TickLinkDown ==
  /\ ~inTick /\ m_enabled /\ ~connected
  /\ IF m_wifi_connected /\ m_bound THEN StopSocket ELSE UNCHANGED <<sock, inbox>>
  /\ m_bound' = FALSE /\ m_wifi_connected' = FALSE
  /\ UNCHANGED <<m_enabled, m_wifi_connection_generation, loop, current, link, plugins>>

\* Mutant: the generation is not looked at.
OnlyConnectedChanged == ~m_wifi_connected

LinkChanged == ~m_wifi_connected \/ m_wifi_connection_generation # generation

\* The socket is bound on the link that is up: the loop begins.
TickBound ==
  /\ ~inTick /\ m_enabled /\ connected
  /\ m_bound /\ ~LinkChanged
  /\ inTick' = TRUE /\ packet_index' = 0
  /\ UNCHANGED <<m_enabled, m_bound, wifi, socket, inbox, link, plugins>>

\* The socket of an earlier link is stopped, if there is one, and a new one bound,
\* which may fail.
TickBinds ==
  /\ ~inTick /\ m_enabled /\ connected
  /\ ~m_bound \/ LinkChanged
  /\ m_wifi_connected' = TRUE /\ m_wifi_connection_generation' = generation
  /\ inbox' = IF m_bound THEN <<>> ELSE inbox
  /\ \/ /\ m_bound' = TRUE
        /\ sock' = "bound" /\ current' = TRUE
        /\ inTick' = TRUE /\ packet_index' = 0
     \/ /\ m_bound' = FALSE
        /\ sock' = IF m_bound THEN "closed" ELSE sock
        /\ UNCHANGED <<current, loop>>
  /\ UNCHANGED <<m_enabled, link, plugins>>

-----------------------------------------------------------------------------
(* The loop: s_read_packet, one datagram per step *)

\* Mutant: one datagram more.
OneMorePacket == packet_index <= PacketsPerTick

MorePackets == packet_index < PacketsPerTick

\* Enough datagrams for a tick, or m_parse_packet finds none.
LoopEnds ==
  /\ inTick
  /\ ~MorePackets \/ inbox = <<>>
  /\ inTick' = FALSE
  /\ UNCHANGED <<m_enabled, m_bound, wifi, packet_index, socket, inbox, link, plugins>>

NextDatagram == Head(inbox)
Body(d)      == d.size - HeaderSize
WellFormed(d) == d.size >= HeaderSize /\ d.magic /\ d.payload = Body(d)

\* Mutant: only a datagram that is delivered counts.
CountDelivered(fate) == IF fate = "committed" THEN packet_index + 1 ELSE packet_index

Counted(fate) == packet_index + 1

\* What reading and dropping remaining of the unread units may come to.
s_discard(unread, remaining) ==
  {[unread |-> unread - remaining, failed |-> FALSE]}
    \cup {[unread |-> unread - n, failed |-> TRUE] : n \in 0 .. remaining - 1}

\* The datagram m_parse_packet found meets its fate, with one of these outcomes.
Ends(fate, outcomes) ==
  /\ inTick /\ MorePackets /\ inbox # <<>>
  /\ inbox' = Tail(inbox)
  /\ packet_index' = Counted(fate)
  /\ \E o \in outcomes : last' = [fate |-> fate, unread |-> o.unread, failed |-> o.failed]
  /\ UNCHANGED <<m_enabled, m_bound, wifi, inTick, socket, link, registered>>

TooShort ==
  LET d == NextDatagram
  IN  /\ inbox # <<>> /\ d.size < HeaderSize
      /\ Ends("dropped", s_discard(d.size, d.size))

\* The read of the header returns n units of it only.
HeaderCut ==
  LET d == NextDatagram
  IN  /\ inbox # <<>> /\ d.size >= HeaderSize
      /\ \E n \in 0 .. HeaderSize - 1 :
           Ends("dropped", s_discard(d.size - n, d.size - n))

\* Mutant: what the header announces is discarded, not what the datagram holds.
AnnouncedPayload(d) == IF d.payload < Body(d) THEN d.payload ELSE Body(d)

\* What follows the header of a datagram whose header does not fit it.
Misfit(d) == Body(d)

HeaderWrong ==
  LET d == NextDatagram
  IN  /\ inbox # <<>> /\ d.size >= HeaderSize /\ ~WellFormed(d)
      /\ Ends("dropped", s_discard(Body(d), Misfit(d)))

\* The plugins that would acquire a buffer for d, and the one that is asked first.
Takers(d) == {p \in registered : Offers[p][d.type] # Refuse}
Taker(d)  == CHOOSE p \in Takers(d) : \A q \in Takers(d) : p <= q

NoPlugin ==
  LET d == NextDatagram
  IN  /\ inbox # <<>> /\ WellFormed(d) /\ Takers(d) = {}
      /\ Ends("refused", s_discard(Body(d), d.payload))

\* The buffer is too small: the plugin is told to abort.
BufferTooSmall ==
  LET d == NextDatagram
  IN  /\ inbox # <<>> /\ WellFormed(d) /\ Takers(d) # {}
      /\ Offers[Taker(d)][d.type] < d.payload
      /\ Ends("aborted", s_discard(Body(d), d.payload))

\* The read of the payload fails on the way: the plugin is told to abort, and the
\* rest is discarded as far as that works.
PayloadCut ==
  LET d == NextDatagram
  IN  /\ inbox # <<>> /\ WellFormed(d) /\ Takers(d) # {}
      /\ Offers[Taker(d)][d.type] >= d.payload
      /\ \E received \in 0 .. d.payload - 1 :
           Ends("aborted", {[unread |-> o.unread, failed |-> TRUE] :
                              o \in s_discard(d.payload - received, d.payload - received)})

Committed ==
  LET d == NextDatagram
  IN  /\ inbox # <<>> /\ WellFormed(d) /\ Takers(d) # {}
      /\ Offers[Taker(d)][d.type] >= d.payload
      /\ Ends("committed", {[unread |-> 0, failed |-> FALSE]})

ReadPacket == \/ TooShort \/ HeaderCut \/ HeaderWrong
              \/ NoPlugin \/ BufferTooSmall \/ PayloadCut \/ Committed

Tick == TickLinkDown \/ TickBound \/ TickBinds

-----------------------------------------------------------------------------
(* The environment *)

Arrive(d) ==
  /\ sock = "bound" /\ Len(inbox) < InboxMax
  /\ inbox' = Append(inbox, d)
  /\ UNCHANGED <<m_enabled, m_bound, wifi, loop, socket, link, plugins>>

Link == INSTANCE LinkState

\* The Wi-Fi manager between two ticks.  GenerationMod bounds the addresses
\* obtained: 2^32 of them between two ticks do not happen.  A manager created anew
\* counts from 0; before it comes up it is ticked, and with it the clients that are
\* enabled (the main loop of README.md:34), which find the link down.
LinkMoves ==
  /\ ~inTick
  /\ \/ Link!Up /\ generation + 1 < GenerationMod
        /\ (m_enabled /\ generation = 0 => ~m_wifi_connected)
     \/ Link!Down /\ connected
     \/ Link!Reset /\ generation # 0
  /\ current' = FALSE
  /\ UNCHANGED <<m_enabled, m_bound, wifi, loop, sock, inbox, plugins>>

Next == \/ bind \/ unbind \/ Tick \/ LoopEnds \/ ReadPacket \/ LinkMoves
        \/ \E p \in Plugins : register_plugin(p) \/ unregister_plugin(p)
        \/ \E d \in Datagrams : Arrive(d)

Spec == Init /\ [][Next]_vars

-----------------------------------------------------------------------------
\* The socket is bound exactly when the client believes so, and on the link the
\* client knows: no way out of a link or of the client leaves a bound socket behind,
\* which a later m_bind would bind a second time, and send_to does not send on a
\* socket of an earlier link once the client was ticked.
BoundOnLink ==
  /\ m_bound <=> sock = "bound"
  /\ m_bound => m_wifi_connected /\ (connected /\ ~LinkChanged => current)

\* A datagram is only read from a socket that was bound on the link that is up, also
\* when a new manager counts its generations from 0 again.
ReadsCurrentLink == [][ReadPacket => m_enabled /\ connected /\ current]_vars

\* Whatever became of a datagram, nothing of it is left on the socket, unless a
\* read failed: what is discarded adds up to the datagram on every path.
Drained == last.unread = 0 \/ last.failed

-----------------------------------------------------------------------------
(* Progress.  A tick that was entered keeps running; the application keeps      *)
(* calling tick; a socket that is bound again and again binds in the end.       *)
Fairness == /\ WF_vars(LoopEnds \/ ReadPacket)
            /\ WF_vars(Tick)
            /\ SF_vars(TickBinds /\ m_bound')

FairSpec == Spec /\ Fairness

\* A tick returns, also when datagrams, and bad ones, arrive faster than they are
\* read.
TickReturns == inTick ~> ~inTick

\* If from some time on the client is enabled and the link stays as it is, the
\* socket ends up bound on that link and stays so, whatever happened before.
Rebinds ==
  (<>[](m_enabled /\ connected) /\ <>[][~LinkMoves]_vars)
    => <>[](m_bound /\ current)
=============================================================================
