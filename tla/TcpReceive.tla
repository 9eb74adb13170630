----------------------------- MODULE TcpReceive ------------------------------
(* How the connected TCP client takes messages off its socket:                 *)
(* s_poll_connected in c_tcp_client.cpp, one step per iteration of its while   *)
(* loop, while bytes keep arriving.                                            *)
(*                                                                             *)
(* The peer sends Len(Sizes) messages, a header and Sizes[k] units of payload  *)
(* each.  A position in the stream stands for the bytes there: taken units     *)
(* were read by the client, arrived units have reached its socket.  A header   *)
(* read where a message starts is that message's header; read anywhere else it *)
(* is garbage, which a plugin may accept with any length or refuse.            *)
(*                                                                             *)
(* External: the peer, the plugins' answers, and the socket.  The client never *)
(* reads more than the socket says it has; then a read of a header takes all   *)
(* of it or fails and takes nothing, and one of a payload may also fall short. *)
EXTENDS Integers, Sequences, FiniteSets

CONSTANTS
  HeaderSize,      \* sizeof(msg_hdr_t)
  Sizes,           \* the payloads of the messages sent on a connection
  Plugins,         \* the ids plugins are registered under, 0 .. 7 in the code
  Accepts,         \* Accepts[k]: the plugins whose acquire returns true for message k
  GarbageMax,      \* bounds the length a plugin takes from a garbage header
  MinRegistered    \* the application keeps at least so many plugins registered

ASSUME StreamAssumption ==
  /\ HeaderSize \in Nat \ {0} /\ Sizes \in Seq(Nat)
  /\ Plugins \in SUBSET Nat /\ IsFiniteSet(Plugins)
  /\ Accepts \in [1 .. Len(Sizes) -> SUBSET Plugins]
  /\ GarbageMax \in Nat /\ MinRegistered \in Nat

Messages  == 1 .. Len(Sizes)
NoMessage == -1
Garbage   == 0
Refuse    == -1

\* Where message k starts; Start[Len(Sizes) + 1] is the end of the stream.
Start[k \in 1 .. Len(Sizes) + 1] ==
  IF k = 1 THEN 0 ELSE Start[k - 1] + HeaderSize + Sizes[k - 1]
End == Start[Len(Sizes) + 1]

VARIABLES
  paced,                    \* the peer sends whole messages, each after the last was taken
  taken, arrived,
  inTick,                   \* inside the while loop
  read_state,               \* local to the call: every tick starts in "IDLE"
  held,                     \* the message m_tcp_recv_buffer was acquired for
  m_tcp_recv_payload_size, m_tcp_recv_offset,
  registered,               \* the ids with a plugin
  lap,                      \* flips in an iteration that changes nothing else
  delivered,                \* ghost: the messages committed, in order
  refused, aborted,         \* ghost: the messages refused or skipped; aborted
  cut,                      \* ghost: the messages of which a read failed or fell short
  forgotten,                \* ghost: a held buffer was overwritten
  framed                    \* ghost: every header was read where a message starts

stream  == <<taken, arrived>>
receive == <<held, m_tcp_recv_payload_size, m_tcp_recv_offset>>
fates   == <<delivered, refused, aborted, cut, forgotten, framed>>
vars    == <<paced, stream, inTick, read_state, receive, registered, lap, fates>>

TypeOK ==
  /\ paced \in BOOLEAN
  /\ taken \in 0 .. arrived /\ arrived \in 0 .. End
  /\ inTick \in BOOLEAN
  /\ read_state \in {"IDLE", "PAYLOAD"}
  /\ held \in Messages \cup {NoMessage, Garbage}
  /\ m_tcp_recv_payload_size \in Nat /\ m_tcp_recv_offset \in 0 .. m_tcp_recv_payload_size
  /\ registered \subseteq Plugins
  /\ lap \in {0, 1}
  /\ delivered \in Seq(Messages \cup {Garbage})
  /\ refused \subseteq Messages /\ aborted \subseteq Messages /\ cut \subseteq Messages
  /\ forgotten \in BOOLEAN /\ framed \in BOOLEAN

\* s_poll_connecting: the receive state of a connection that was just made.
Connected ==
  /\ taken = 0 /\ arrived = 0
  /\ held = NoMessage /\ m_tcp_recv_payload_size = 0 /\ m_tcp_recv_offset = 0
  /\ delivered = <<>> /\ refused = {} /\ aborted = {} /\ cut = {}
  /\ forgotten = FALSE /\ framed = TRUE

Init == /\ Connected
        /\ inTick = FALSE /\ read_state = "IDLE" /\ lap = 0
        /\ registered = Plugins /\ paced \in BOOLEAN

-----------------------------------------------------------------------------
(* Outside a tick *)

\* The next unit reaches the socket or, from a paced peer, the next message.
Arrive ==
  /\ arrived < End
  /\ \/ ~paced /\ arrived' = arrived + 1
     \/ /\ paced /\ ~inTick /\ taken = arrived
        /\ \E k \in Messages : Start[k] = arrived /\ arrived' = Start[k + 1]
  /\ UNCHANGED <<paced, taken, inTick, read_state, receive, registered, lap, fates>>

register_plugin(p) ==
  /\ ~inTick /\ p \notin registered
  /\ registered' = registered \cup {p}
  /\ UNCHANGED <<paced, stream, inTick, read_state, receive, lap, fates>>

unregister_plugin(p) ==
  /\ ~inTick /\ p \in registered /\ Cardinality(registered) > MinRegistered
  /\ registered' = registered \ {p}
  /\ UNCHANGED <<paced, stream, inTick, read_state, receive, lap, fates>>

\* s_abort: the plugin that holds a buffer gives it up.  A buffer that was acquired is
\* taken to be there: the code does not abort a null one, which only a block of a
\* download whose user refused can have (DownloadPlugin).
s_abort ==
  /\ aborted' = aborted \cup ({held} \cap Messages)
  /\ held' = NoMessage
  /\ m_tcp_recv_payload_size' = 0 /\ m_tcp_recv_offset' = 0

\* Mutant: the buffer of a lost connection is neither aborted nor released.
ReconnectHolding ==
  /\ ~inTick
  /\ taken' = 0 /\ arrived' = 0
  /\ delivered' = <<>> /\ refused' = {} /\ aborted' = {} /\ cut' = {}
  /\ forgotten' = FALSE /\ framed' = TRUE
  /\ UNCHANGED <<paced, inTick, read_state, receive, registered, lap>>

\* The socket is found dead by a tick, stopped for a new link or by disconnect,
\* which all abort first, and later a new connection is made.
Reconnect ==
  /\ ~inTick
  /\ held' = NoMessage
  /\ m_tcp_recv_payload_size' = 0 /\ m_tcp_recv_offset' = 0
  /\ taken' = 0 /\ arrived' = 0
  /\ delivered' = <<>> /\ refused' = {} /\ aborted' = {} /\ cut' = {}
  /\ forgotten' = FALSE /\ framed' = TRUE
  /\ UNCHANGED <<paced, inTick, read_state, registered, lap>>

-----------------------------------------------------------------------------
(* s_poll_connected *)

Available == arrived - taken

TickEnter ==
  /\ ~inTick
  /\ inTick' = TRUE /\ read_state' = "IDLE"
  /\ UNCHANGED <<paced, stream, receive, registered, lap, fates>>

\* m_available is 0, or less than a header while one is expected.
LoopEnds ==
  /\ inTick
  /\ \/ Available = 0
     \/ read_state = "IDLE" /\ Available < HeaderSize
  /\ inTick' = FALSE
  /\ UNCHANGED <<paced, stream, read_state, receive, registered, lap, fates>>

HeaderReady == inTick /\ read_state = "IDLE" /\ Available >= HeaderSize

\* Mutant: a read that fails has consumed the header.
HeaderConsumedByFailure ==
  /\ HeaderReady
  /\ s_abort
  /\ taken' = taken + HeaderSize
  /\ inTick' = FALSE
  /\ UNCHANGED <<paced, arrived, read_state, registered, lap, delivered, refused, cut,
                 forgotten, framed>>

\* The code tests for a negative result; that a header falls short although the
\* socket has all of it is left to the socket not to do.
HeaderReadFails ==
  /\ HeaderReady
  /\ s_abort
  /\ inTick' = FALSE
  /\ UNCHANGED <<paced, stream, read_state, registered, lap, delivered, refused, cut,
                 forgotten, framed>>

\* The message whose header is read next.
NextMessage ==
  IF \E k \in Messages : Start[k] = taken THEN CHOOSE k \in Messages : Start[k] = taken
                                          ELSE Garbage

FirstPlugin == CHOOSE p \in registered : \A q \in registered : p <= q

\* What the scan of the plugins makes of the header of k: the length of the buffer
\* acquired, or Refuse.  The scan ends at the first plugin, whatever it answers.
Answers(k) ==
  IF k = Garbage THEN {Refuse} \cup 0 .. GarbageMax
  ELSE IF FirstPlugin \in Accepts[k] THEN {Sizes[k]} ELSE {Refuse}

\* No plugin is registered: the header is gone and the loop goes on.
HeaderIgnored ==
  /\ HeaderReady /\ registered = {}
  /\ taken' = taken + HeaderSize
  /\ refused' = refused \cup ({NextMessage} \cap Messages)
  /\ framed' = (framed /\ NextMessage # Garbage)
  /\ UNCHANGED <<paced, arrived, inTick, read_state, receive, registered, lap,
                 delivered, aborted, cut, forgotten>>

\* The first plugin refuses: the tick is over, and the payload stays on the socket.
HeaderRefused ==
  /\ HeaderReady /\ registered # {}
  /\ Refuse \in Answers(NextMessage)
  /\ taken' = taken + HeaderSize
  /\ s_abort
  /\ refused' = refused \cup ({NextMessage} \cap Messages)
  /\ framed' = (framed /\ NextMessage # Garbage)
  /\ inTick' = FALSE
  /\ UNCHANGED <<paced, arrived, read_state, registered, lap, delivered, cut, forgotten>>

\* Mutant: the size of the socket's content is taken before the header is read.
ReadBeyondArrived(size) == IF size < Available THEN size ELSE Available

\* Mutant: the last unit of a payload is left unread.
ReadTooLittle(size) ==
  IF size > 0 /\ size <= Available - HeaderSize THEN size - 1 ELSE Available - HeaderSize

\* How much of the payload is there, once the header was read.
ReadSize(size) ==
  IF size < Available - HeaderSize THEN size ELSE Available - HeaderSize

\* Mutant: a message is committed with what has arrived of it.
CommitPartial(size) == TRUE

\* The payload is there to its end.
Whole(size) == ReadSize(size) = size

\* The first plugin accepts, and the payload is read as far as it has arrived.
\* Whether that read fails or falls short is not looked at: it counts as done.
HeaderAccepted ==
  /\ HeaderReady /\ registered # {}
  /\ \E size \in Answers(NextMessage) \ {Refuse} :
       /\ \E got \in 0 .. ReadSize(size) :
            /\ taken' = taken + HeaderSize + got
            /\ cut' = IF got = ReadSize(size) THEN cut
                      ELSE cut \cup ({NextMessage} \cap Messages)
       /\ \/ /\ Whole(size)
             /\ delivered' = Append(delivered, NextMessage)
             /\ held' = NoMessage
             /\ m_tcp_recv_payload_size' = 0 /\ m_tcp_recv_offset' = 0
          \/ /\ ~Whole(size)
             /\ held' = NextMessage
             /\ m_tcp_recv_payload_size' = size /\ m_tcp_recv_offset' = ReadSize(size)
             /\ UNCHANGED delivered
  /\ forgotten' = (forgotten \/ held # NoMessage)
  /\ framed' = (framed /\ NextMessage # Garbage)
  /\ read_state' = "PAYLOAD"
  /\ UNCHANGED <<paced, arrived, inTick, registered, lap, refused, aborted>>

\* Nothing in the loop handles, or leaves, READ_STATE_PAYLOAD.
LoopSpins ==
  /\ inTick /\ read_state = "PAYLOAD" /\ Available > 0
  /\ lap' = 1 - lap
  /\ UNCHANGED <<paced, stream, inTick, read_state, receive, registered, fates>>

Loop == \/ LoopEnds \/ HeaderReadFails \/ HeaderIgnored \/ HeaderRefused
        \/ HeaderAccepted \/ LoopSpins

Next == \/ Arrive \/ Reconnect \/ TickEnter \/ Loop
        \/ \E p \in Plugins : register_plugin(p) \/ unregister_plugin(p)

Spec == Init /\ [][Next]_vars

\* The processor keeps executing the loop it is in.
FairSpec == Spec /\ WF_vars(Loop)

-----------------------------------------------------------------------------
\* As long as every header was read where a message starts, each message whose
\* header was read is delivered whole and in order, or was refused, or aborted, or
\* is the one whose payload is awaited: none is lost, repeated or cut short, unless
\* the read of its payload failed.
EveryMessageAccounted ==
  framed =>
    /\ {delivered[i] : i \in DOMAIN delivered}
         = {k \in Messages : Start[k] < taken} \ (refused \cup aborted \cup {held})
    /\ \A i, j \in DOMAIN delivered : i < j => delivered[i] < delivered[j]
    /\ \A i \in DOMAIN delivered :
         delivered[i] \in cut \/ Start[delivered[i] + 1] <= taken

\* As long as every header was read where a message starts, no buffer a plugin
\* acquired is overwritten before the plugin was told (commit or abort), also
\* not by the first message of the next connection.
BufferNeverForgotten == framed => ~forgotten

\* What it takes for the stream to stay in step: a peer that waits until a message
\* was taken, no failing read of a payload, and no refusal of a message that has
\* one.  A header that cannot be read, a new connection and plugins that come and
\* go do no harm then.
PacedFramed ==
  paced /\ cut = {} /\ (\A k \in refused : Sizes[k] = 0) => framed

\* To such a peer's messages, and while it is in step, the loop comes to an end.
PacedReturns == paced /\ inTick ~> ~inTick \/ ~framed \/ cut # {}

\* c_tcp_client.cpp:147: the message body "follows the header and may be received
\* in multiple parts".  A body received in two parts, with no read that fails,
\* makes the client take the second part for a header.
NeverMisframed == cut = {} => framed

\* README.md:3: the client "is designed to be non-blocking": a tick returns.  It
\* does not when anything follows a message on the socket.
TickReturns == inTick ~> ~inTick \/ cut # {}

\* README.md:12: acquire is called because the loop "wants to know which plugin will
\* handle the message".  A message is refused although a registered plugin, asked
\* after the first, would handle it.
AllPluginsConsulted ==
  [][HeaderRefused /\ NextMessage \in Messages
       => Accepts[NextMessage] \cap registered = {}]_vars
=============================================================================
