--------------------------- MODULE UdpClient_proofs ---------------------------
(* What the UDP client guarantees for every set of datagrams and plugins, every  *)
(* number of packets a tick, and every width of the generation.                  *)
(*                                                                               *)
(* ReadsCurrentLink is a property of steps.  It follows from where a tick may    *)
(* be in its loop (Wired), which in turn needs BoundOnLink.                      *)
EXTENDS UdpClient, TLAPS

USE DatagramAssumption, UdpAssumption

-----------------------------------------------------------------------------
(* The loop *)

Outcomes == [unread : Nat, failed : BOOLEAN]

\* An outcome that leaves nothing, unless a read failed.
Clean(o) == o.unread = 0 \/ o.failed

LEMMA Recorded ==
  ASSUME NEW n \in Nat, NEW b \in BOOLEAN, n = 0 \/ b
  PROVE  [unread |-> n, failed |-> b] \in Outcomes /\ Clean([unread |-> n, failed |-> b])
<1>1. [unread |-> n, failed |-> b].unread = n /\ [unread |-> n, failed |-> b].failed = b
  OBVIOUS
<1>2. QED BY <1>1 DEF Outcomes, Clean

\* Discarding all that is unread leaves nothing, unless a read fails.
LEMMA DiscardsAll ==
  ASSUME NEW unread \in Nat
  PROVE  \A o \in s_discard(unread, unread) : o \in Outcomes /\ Clean(o)
<1> SUFFICES ASSUME NEW o \in s_discard(unread, unread) PROVE o \in Outcomes /\ Clean(o)
  OBVIOUS
<1>1. CASE o = [unread |-> 0, failed |-> FALSE]
  BY <1>1, Recorded
<1>2. CASE \E n \in 0 .. unread - 1 : o = [unread |-> unread - n, failed |-> TRUE]
  <2>1. PICK n \in 0 .. unread - 1 : o = [unread |-> unread - n, failed |-> TRUE]
    BY <1>2
  <2>2. unread - n \in Nat
    OBVIOUS
  <2>3. QED BY <2>1, <2>2, Recorded
<1>3. QED BY <1>1, <1>2 DEF s_discard

\* What every iteration does, whatever becomes of the datagram.
Iteration ==
  /\ inTick /\ MorePackets
  /\ inbox # <<>> /\ inbox' = Tail(inbox)
  /\ packet_index' = packet_index + 1
  /\ last' \in [fate : Fates, unread : Nat, failed : BOOLEAN] /\ Clean(last')
  /\ UNCHANGED <<m_enabled, m_bound, wifi, inTick, socket, link, registered>>

LEMMA EndsIterates ==
  ASSUME NEW fate \in Fates, NEW outcomes, Ends(fate, outcomes),
         \A o \in outcomes : o \in Outcomes /\ Clean(o)
  PROVE  Iteration
<1>1. PICK o \in outcomes : last' = [fate |-> fate, unread |-> o.unread, failed |-> o.failed]
  BY DEF Ends
<1>2. o.unread \in Nat /\ o.failed \in BOOLEAN /\ (o.unread = 0 \/ o.failed)
  BY DEF Outcomes, Clean
<1>3. last' \in [fate : Fates, unread : Nat, failed : BOOLEAN] /\ Clean(last')
  BY <1>1, <1>2 DEF Clean
<1>4. QED BY <1>3 DEF Ends, Counted, Iteration

LEMMA ReadIterates == ASSUME TypeOK, ReadPacket PROVE Iteration
<1> DEFINE d == NextDatagram
<1>1. inbox # <<>> => d \in Datagrams
  BY DEF TypeOK, NextDatagram
<1>2. inbox # <<>> => d.size \in Nat /\ d.payload \in Nat
  BY <1>1
<1>3. {"dropped", "refused", "aborted", "committed"} \subseteq Fates
  BY DEF Fates
<1> HIDE DEF d
<1>4. CASE TooShort
  <2>1. inbox # <<>> /\ Ends("dropped", s_discard(d.size, d.size))
    BY <1>4 DEF TooShort, d
  <2>2. QED BY <1>2, <1>3, <2>1, DiscardsAll, EndsIterates
<1>5. CASE HeaderCut
  <2>1. inbox # <<>> /\ d.size >= HeaderSize
    BY <1>5 DEF HeaderCut, d
  <2>2. PICK n \in 0 .. HeaderSize - 1 : Ends("dropped", s_discard(d.size - n, d.size - n))
    BY <1>5 DEF HeaderCut, d
  <2>3. d.size - n \in Nat
    BY <1>2, <2>1
  <2>4. QED BY <1>3, <2>2, <2>3, DiscardsAll, EndsIterates
<1>6. CASE HeaderWrong
  <2>1. /\ inbox # <<>> /\ d.size >= HeaderSize
        /\ Ends("dropped", s_discard(Body(d), Body(d)))
    BY <1>6 DEF HeaderWrong, Misfit, d
  <2>2. Body(d) \in Nat
    BY <1>2, <2>1 DEF Body
  <2>3. QED BY <1>3, <2>1, <2>2, DiscardsAll, EndsIterates
<1>7. CASE NoPlugin
  <2>1. inbox # <<>> /\ WellFormed(d) /\ Ends("refused", s_discard(Body(d), d.payload))
    BY <1>7 DEF NoPlugin, d
  <2>2. Body(d) \in Nat /\ d.payload = Body(d)
    BY <1>2, <2>1 DEF WellFormed
  <2>3. QED BY <1>3, <2>1, <2>2, DiscardsAll, EndsIterates
<1>8. CASE BufferTooSmall
  <2>1. inbox # <<>> /\ WellFormed(d) /\ Ends("aborted", s_discard(Body(d), d.payload))
    BY <1>8 DEF BufferTooSmall, d
  <2>2. Body(d) \in Nat /\ d.payload = Body(d)
    BY <1>2, <2>1 DEF WellFormed
  <2>3. QED BY <1>3, <2>1, <2>2, DiscardsAll, EndsIterates
<1>9. CASE PayloadCut
  <2>1. inbox # <<>>
    BY <1>9 DEF PayloadCut
  <2>2. PICK received \in 0 .. d.payload - 1 :
          Ends("aborted", {[unread |-> o.unread, failed |-> TRUE] :
                             o \in s_discard(d.payload - received, d.payload - received)})
    BY <1>9 DEF PayloadCut, d
  <2>3. d.payload - received \in Nat
    BY <1>2, <2>1
  <2>4. \A o \in s_discard(d.payload - received, d.payload - received) : o.unread \in Nat
    BY <2>3, DiscardsAll DEF Outcomes
  <2>5. \A o \in {[unread |-> o.unread, failed |-> TRUE] :
                    o \in s_discard(d.payload - received, d.payload - received)} :
          o \in Outcomes /\ Clean(o)
    BY <2>4, Recorded
  <2>6. QED BY <1>3, <2>2, <2>5, EndsIterates
<1>10. CASE Committed
  <2>1. Ends("committed", {[unread |-> 0, failed |-> FALSE]})
    BY <1>10 DEF Committed
  <2>2. \A o \in {[unread |-> 0, failed |-> FALSE]} : o \in Outcomes /\ Clean(o)
    BY Recorded
  <2>3. QED BY <1>3, <2>1, <2>2, EndsIterates
<1>11. QED BY <1>4, <1>5, <1>6, <1>7, <1>8, <1>9, <1>10 DEF ReadPacket

-----------------------------------------------------------------------------
(* The invariant *)

\* A tick is in its loop on a socket of the link that is up only.  While the client
\* is bound no later link can carry the generation it has noted: the manager counts
\* on from it, or starts over and then waits for the client to see the link down.
Wired ==
  /\ inTick => m_bound /\ connected /\ current
  /\ m_bound => m_enabled
  /\ m_bound => generation = 0 \/ m_wifi_connection_generation <= generation
  /\ generation = 0 => ~connected
  /\ m_wifi_connected => m_wifi_connection_generation # 0

Inv == TypeOK /\ BoundOnLink /\ Drained /\ Wired

LEMMA InvInit == Init => Inv
<1> SUFFICES ASSUME Init PROVE Inv
  OBVIOUS
<1>1. TypeOK
  <2>1. 0 \in Generations
    BY DEF Generations
  <2>2. Nothing \in [fate : Fates, unread : Nat, failed : BOOLEAN]
    BY DEF Nothing, Fates
  <2>3. <<>> \in Seq(Datagrams) /\ Len(<<>>) = 0
    OBVIOUS
  <2>4. packet_index \in 0 .. PacketsPerTick /\ registered \subseteq Plugins
    BY DEF Init
  <2>5. inbox \in Seq(Datagrams) /\ Len(inbox) <= InboxMax
    BY <2>3 DEF Init
  <2>6. QED BY <2>1, <2>2, <2>4, <2>5 DEF Init, TypeOK
<1>2. BoundOnLink /\ Wired
  BY DEF Init, BoundOnLink, Wired
<1>3. Drained
  BY DEF Init, Drained, Nothing
<1>4. QED BY <1>1, <1>2, <1>3 DEF Inv

\* The parts of the invariant that tell about the socket.
SocketInv == BoundOnLink /\ Wired

LEMMA InvNext == Inv /\ [Next]_vars => Inv'
<1> SUFFICES ASSUME Inv, [Next]_vars PROVE Inv'
  OBVIOUS
<1> USE DEF wifi, loop, socket, link, plugins
<1>0. TypeOK /\ SocketInv /\ Drained
  BY DEF Inv, SocketInv
<1>13. <<>> \in Seq(Datagrams) /\ Len(<<>>) <= InboxMax
  OBVIOUS
<1>1. CASE bind
  <2>1. TypeOK'
    BY <1>0, <1>1 DEF bind, TypeOK
  <2>2. SocketInv'
    BY <1>0, <1>1 DEF bind, SocketInv, BoundOnLink, Wired, LinkChanged
  <2>3. QED BY <1>0, <1>1, <2>1, <2>2 DEF bind, Inv, SocketInv, Drained
<1>2. CASE unbind
  <2>1. TypeOK'
    BY <1>0, <1>13, <1>2 DEF unbind, StopSocket, TypeOK
  <2>2. SocketInv'
    BY <1>0, <1>2 DEF unbind, StopSocket, TypeOK, SocketInv, BoundOnLink, Wired, LinkChanged
  <2>3. QED BY <1>0, <1>2, <2>1, <2>2 DEF unbind, Inv, SocketInv, Drained
<1>3. CASE \E p \in Plugins : register_plugin(p) \/ unregister_plugin(p)
  <2>1. TypeOK'
    BY <1>0, <1>3 DEF register_plugin, unregister_plugin, TypeOK
  <2>2. SocketInv'
    BY <1>0, <1>3 DEF register_plugin, unregister_plugin, SocketInv, BoundOnLink, Wired,
                      LinkChanged
  <2>3. QED
    BY <1>0, <1>3, <2>1, <2>2 DEF register_plugin, unregister_plugin, Inv, SocketInv, Drained
<1>4. CASE TickLinkDown
  <2>1. TypeOK'
    BY <1>0, <1>13, <1>4 DEF TickLinkDown, StopSocket, TypeOK
  <2>2. SocketInv'
    BY <1>0, <1>4 DEF TickLinkDown, StopSocket, TypeOK, SocketInv, BoundOnLink, Wired,
                      LinkChanged
  <2>3. QED BY <1>0, <1>4, <2>1, <2>2 DEF TickLinkDown, Inv, SocketInv, Drained
<1>5. CASE TickBound
  <2>1. TypeOK'
    BY <1>0, <1>5 DEF TickBound, TypeOK
  <2>2. SocketInv'
    BY <1>0, <1>5 DEF TickBound, SocketInv, BoundOnLink, Wired, LinkChanged
  <2>3. QED BY <1>0, <1>5, <2>1, <2>2 DEF TickBound, Inv, SocketInv, Drained
<1>6. CASE TickBinds
  <2>1. inbox' \in Seq(Datagrams) /\ Len(inbox') <= InboxMax
    <3>1. inbox' = <<>> \/ inbox' = inbox
      BY <1>6 DEF TickBinds
    <3>2. QED BY <1>0, <1>13, <3>1 DEF TypeOK
  <2>2. /\ packet_index' \in 0 .. PacketsPerTick
        /\ sock' \in {"closed", "bound"} /\ current' \in BOOLEAN
        /\ m_bound' \in BOOLEAN /\ inTick' \in BOOLEAN
    <3>1. CASE inTick' = TRUE /\ packet_index' = 0 /\ sock' = "bound" /\ current' = TRUE
               /\ m_bound' = TRUE
      BY <3>1
    <3>2. CASE UNCHANGED <<current, loop>> /\ m_bound' = FALSE
               /\ sock' = IF m_bound THEN "closed" ELSE sock
      BY <1>0, <3>2 DEF TypeOK
    <3>3. QED BY <1>6, <3>1, <3>2 DEF TickBinds
  <2>3. TypeOK'
    BY <1>0, <1>6, <2>1, <2>2 DEF TickBinds, TypeOK
  <2>4. SocketInv'
    BY <1>0, <1>6 DEF TickBinds, TypeOK, Generations, SocketInv, BoundOnLink, Wired,
                      LinkChanged
  <2>5. QED BY <1>0, <1>6, <2>3, <2>4 DEF TickBinds, Inv, SocketInv, Drained
<1>7. CASE LoopEnds
  <2>1. TypeOK'
    BY <1>0, <1>7 DEF LoopEnds, TypeOK
  <2>2. SocketInv'
    BY <1>0, <1>7 DEF LoopEnds, SocketInv, BoundOnLink, Wired, LinkChanged
  <2>3. QED BY <1>0, <1>7, <2>1, <2>2 DEF LoopEnds, Inv, SocketInv, Drained
<1>8. CASE ReadPacket
  <2>1. Iteration
    BY <1>0, <1>8, ReadIterates
  <2>2. inbox' \in Seq(Datagrams) /\ Len(inbox') <= InboxMax
    BY <1>0, <2>1 DEF Iteration, TypeOK
  <2>3. packet_index' \in 0 .. PacketsPerTick
    BY <1>0, <2>1 DEF Iteration, MorePackets, TypeOK
  <2>4. TypeOK'
    BY <1>0, <2>1, <2>2, <2>3 DEF Iteration, TypeOK
  <2>5. SocketInv'
    BY <1>0, <2>1 DEF Iteration, SocketInv, BoundOnLink, Wired, LinkChanged
  <2>6. QED BY <2>1, <2>4, <2>5 DEF Iteration, Inv, SocketInv, Drained, Clean
<1>9. CASE \E d \in Datagrams : Arrive(d)
  <2>1. PICK d \in Datagrams : Arrive(d)
    BY <1>9
  <2>2. inbox' \in Seq(Datagrams) /\ Len(inbox') <= InboxMax
    BY <1>0, <2>1 DEF Arrive, TypeOK
  <2>3. TypeOK'
    BY <1>0, <2>1, <2>2 DEF Arrive, TypeOK
  <2>4. SocketInv'
    BY <1>0, <2>1 DEF Arrive, SocketInv, BoundOnLink, Wired, LinkChanged
  <2>5. QED BY <1>0, <2>1, <2>3, <2>4 DEF Arrive, Inv, SocketInv, Drained
<1>10. CASE LinkMoves
  <2>1. generation \in Generations /\ m_wifi_connection_generation \in Generations
    BY <1>0 DEF TypeOK
  <2>2. CASE Link!Up /\ generation + 1 < GenerationMod
             /\ (m_enabled /\ generation = 0 => ~m_wifi_connected)
    <3>1. connected' = TRUE /\ generation' = generation + 1 /\ generation' \in Generations
      BY <2>1, <2>2 DEF Link!Up, Generations
    <3>2. TypeOK'
      BY <1>0, <1>10, <3>1 DEF LinkMoves, TypeOK
    <3>3. SocketInv'
      BY <1>0, <1>10, <2>1, <2>2, <3>1 DEF LinkMoves, Generations, SocketInv, BoundOnLink,
                                         Wired, LinkChanged
    <3>4. QED BY <1>0, <1>10, <3>2, <3>3 DEF LinkMoves, Inv, SocketInv, Drained
  <2>3. CASE Link!Down \/ Link!Reset
    <3>1. connected' = FALSE /\ generation' \in {generation, 0} /\ generation' \in Generations
      BY <2>1, <2>3 DEF Link!Down, Link!Reset, Generations
    <3>2. TypeOK'
      BY <1>0, <1>10, <3>1 DEF LinkMoves, TypeOK
    <3>3. SocketInv'
      BY <1>0, <1>10, <3>1 DEF LinkMoves, SocketInv, BoundOnLink, Wired, LinkChanged
    <3>4. QED BY <1>0, <1>10, <3>2, <3>3 DEF LinkMoves, Inv, SocketInv, Drained
  <2>4. QED BY <1>10, <2>2, <2>3 DEF LinkMoves
<1>11. CASE UNCHANGED vars
  <2>1. TypeOK'
    BY <1>0, <1>11 DEF vars, TypeOK
  <2>2. SocketInv'
    BY <1>0, <1>11 DEF vars, SocketInv, BoundOnLink, Wired, LinkChanged
  <2>3. QED BY <1>0, <1>11, <2>1, <2>2 DEF vars, Inv, SocketInv, Drained
<1>12. QED
  BY <1>1, <1>2, <1>3, <1>4, <1>5, <1>6, <1>7, <1>8, <1>9, <1>10, <1>11 DEF Next, Tick

LEMMA InvHolds == Spec => []Inv
BY InvInit, InvNext, PTL DEF Spec

-----------------------------------------------------------------------------
\* Every variable stays in its range: in particular a tick reads no more datagrams
\* than it may.
THEOREM TypeCorrect == Spec => []TypeOK
<1>1. Inv => TypeOK
  BY DEF Inv
<1>2. QED BY <1>1, InvHolds, PTL

\* Bind, unbind, a lost link, a new one and a failed bind, in any order, leave a
\* bound socket exactly where the client knows of one.
THEOREM BoundCorrect == Spec => []BoundOnLink
<1>1. Inv => BoundOnLink
  BY DEF Inv
<1>2. QED BY <1>1, InvHolds, PTL

\* Whatever datagram comes and whichever plugin takes it, none of it is left on the
\* socket to be read as the next one.
THEOREM DrainsAll == Spec => []Drained
<1>1. Inv => Drained
  BY DEF Inv
<1>2. QED BY <1>1, InvHolds, PTL

\* No datagram is read from a socket of an earlier link.
THEOREM ReadsFollowLink == Spec => ReadsCurrentLink
<1>1. Inv /\ [Next]_vars => [ReadPacket => m_enabled /\ connected /\ current]_vars
  <2> SUFFICES ASSUME Inv, ReadPacket PROVE m_enabled /\ connected /\ current
    OBVIOUS
  <2>1. inTick
    BY ReadIterates DEF Inv, Iteration
  <2>2. QED BY <2>1 DEF Inv, Wired
<1>2. QED BY <1>1, InvHolds, PTL DEF Spec, ReadsCurrentLink

-----------------------------------------------------------------------------
(* A binding that works *)

\* A socket bound on the link that is up is one the client knows to be of that link.
CurrentIsKnown == m_bound /\ current => connected /\ ~LinkChanged

LEMMA CurrentInit == Init => CurrentIsKnown
BY DEF Init, CurrentIsKnown

LEMMA CurrentNext == Inv /\ CurrentIsKnown /\ [Next]_vars => CurrentIsKnown'
<1> SUFFICES ASSUME Inv, CurrentIsKnown, [Next]_vars PROVE CurrentIsKnown'
  OBVIOUS
<1> USE DEF CurrentIsKnown, LinkChanged, wifi, socket, link
<1>1. CASE bind \/ unbind
  BY <1>1 DEF bind, unbind
<1>2. CASE TickLinkDown \/ TickBound
  BY <1>2 DEF TickLinkDown, TickBound
<1>3. CASE TickBinds
  BY <1>3 DEF TickBinds
<1>4. CASE LoopEnds
  BY <1>4 DEF LoopEnds
<1>5. CASE ReadPacket
  BY <1>5, ReadIterates DEF Inv, Iteration
<1>6. CASE LinkMoves
  BY <1>6 DEF LinkMoves
<1>7. CASE \/ \E p \in Plugins : register_plugin(p) \/ unregister_plugin(p)
           \/ \E d \in Datagrams : Arrive(d)
  BY <1>7 DEF register_plugin, unregister_plugin, Arrive
<1>8. CASE UNCHANGED vars
  BY <1>8 DEF vars
<1>9. QED BY <1>1, <1>2, <1>3, <1>4, <1>5, <1>6, <1>7, <1>8 DEF Next, Tick

\* The client itself never gives up a socket that is bound on the link that is up: it is
\* stopped because the link moved or the application unbinds.
BindingKept ==
  [][m_bound /\ current =>
       \/ m_bound' /\ sock' = "bound" /\ current'
       \/ LinkMoves \/ unbind]_vars

\* The part of Rebinds that no fairness is needed for: no tick and no datagram ends a
\* binding that works.
THEOREM BindingsKept == Spec => BindingKept
<1>1. Inv /\ CurrentIsKnown /\ [Next]_vars =>
        [m_bound /\ current =>
           \/ m_bound' /\ sock' = "bound" /\ current'
           \/ LinkMoves \/ unbind]_vars
  <2> SUFFICES ASSUME Inv, CurrentIsKnown, Next, m_bound, current, ~LinkMoves, ~unbind
               PROVE  m_bound' /\ sock' = "bound" /\ current'
    OBVIOUS
  <2> USE DEF wifi, socket, link
  <2>1. connected /\ ~LinkChanged
    BY DEF CurrentIsKnown
  <2>2. sock = "bound"
    BY DEF Inv, BoundOnLink
  <2>3. CASE bind
    BY <2>2, <2>3 DEF bind
  <2>4. CASE Tick
    BY <2>1, <2>2, <2>4 DEF Tick, TickLinkDown, TickBound, TickBinds
  <2>5. CASE LoopEnds
    BY <2>2, <2>5 DEF LoopEnds
  <2>6. CASE ReadPacket
    BY <2>2, <2>6, ReadIterates DEF Inv, Iteration
  <2>7. CASE \/ \E p \in Plugins : register_plugin(p) \/ unregister_plugin(p)
             \/ \E d \in Datagrams : Arrive(d)
    BY <2>2, <2>7 DEF register_plugin, unregister_plugin, Arrive
  <2>8. QED BY <2>3, <2>4, <2>5, <2>6, <2>7 DEF Next
<1>2. QED BY <1>1, InvHolds, CurrentInit, CurrentNext, PTL DEF Spec, BindingKept

\* Once a tick has begun, every step but the arrival of a datagram ends it or counts one of
\* the datagrams it may read.
TickIsBounded ==
  [][inTick => \/ ~inTick'
               \/ packet_index < packet_index' /\ packet_index' <= PacketsPerTick
               \/ \E d \in Datagrams : Arrive(d)]_vars

\* The part of TickReturns that no fairness is needed for: whatever arrives, and however bad
\* it is, a tick ends after at most PacketsPerTick datagrams.
THEOREM TicksBounded == Spec => TickIsBounded
<1>1. Inv /\ [Next]_vars =>
        [inTick => \/ ~inTick'
                   \/ packet_index < packet_index' /\ packet_index' <= PacketsPerTick
                   \/ \E d \in Datagrams : Arrive(d)]_vars
  <2> SUFFICES ASSUME Inv, Next, inTick, inTick', ~ \E d \in Datagrams : Arrive(d)
               PROVE  packet_index < packet_index' /\ packet_index' <= PacketsPerTick
    OBVIOUS
  <2>1. ReadPacket
    BY DEF Next, bind, unbind, Tick, TickLinkDown, TickBound, TickBinds, LoopEnds, LinkMoves,
           register_plugin, unregister_plugin
  <2>2. packet_index' = packet_index + 1 /\ packet_index < PacketsPerTick
    BY <2>1, ReadIterates DEF Inv, Iteration, MorePackets
  <2>3. packet_index \in Nat
    BY DEF Inv, TypeOK
  <2>4. QED BY <2>2, <2>3
<1>2. QED BY <1>1, InvHolds, PTL DEF Spec, TickIsBounded
=============================================================================
