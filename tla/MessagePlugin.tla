----------------------------- MODULE MessagePlugin -----------------------------
(* The messages plugin (c_tcp_client_plugins.cpp), registered with a TCP client *)
(* and, as README.md:52 allows, with a UDP client too.  It keeps one target     *)
(* buffer, while the TCP client keeps the buffer of a message of which only a   *)
(* part has arrived (m_tcp_recv_buffer) until it aborts it.                     *)
(*                                                                              *)
(* Both clients are ticked by one thread.  Between acquire and commit neither   *)
(* lets go of it, so a message that is there whole is one step.  External: what *)
(* arrives, and the user, who hands out a buffer or refuses.                    *)

CONSTANTS
  Buffers,         \* the buffers the user may hand out
  NoBuffer         \* nullptr

VARIABLES
  m_target_buffer,
  held,                     \* the buffer of a message the TCP client has a part of
  owed,                     \* ghost: the buffers the user waits for
  lost                      \* ghost: those held when the plugin was asked again

vars == <<m_target_buffer, held, owed, lost>>

\* new_messages_plugin.  Its m_target_buffer has any value until the first acquire,
\* which is before anything uses it.
Init == m_target_buffer = NoBuffer /\ held = NoBuffer /\ owed = {} /\ lost = {}

\* message_acquire_fn forgets the target buffer, whoever asks.
AskedAgain == lost' = lost \cup ({held} \ {NoBuffer})

\* Mutant: the buffer is handed to the user and kept.
HandsBackKept ==
  /\ owed' = owed \ {m_target_buffer} /\ lost' = lost \ {m_target_buffer}
  /\ UNCHANGED m_target_buffer

\* message_abort_fn
HandsBack ==
  /\ owed' = owed \ {m_target_buffer} /\ lost' = lost \ {m_target_buffer}
  /\ m_target_buffer' = NoBuffer

-----------------------------------------------------------------------------
(* Over TCP *)

\* The message is there whole: message_commit_fn hands b to m_on_user_complete.
TcpWhole(b) ==
  /\ b \notin owed
  /\ m_target_buffer' = NoBuffer /\ held' = NoBuffer
  /\ AskedAgain
  /\ UNCHANGED owed

\* A part of it is there: the client waits for the rest.
TcpPart(b) ==
  /\ b \notin owed
  /\ m_target_buffer' = b /\ held' = b
  /\ owed' = owed \cup {b}
  /\ AskedAgain

\* The user refuses, and the client aborts what it holds (s_abort), although the
\* target buffer of that is forgotten.
TcpRefused ==
  /\ m_target_buffer' = NoBuffer /\ held' = NoBuffer
  /\ AskedAgain
  /\ UNCHANGED owed

\* Mutant: the client aborts and keeps its buffer.
EndsHolding == held # NoBuffer /\ HandsBack /\ UNCHANGED held

\* s_abort, when the connection is lost or a header cannot be read.
TcpEnds == held # NoBuffer /\ HandsBack /\ held' = NoBuffer

-----------------------------------------------------------------------------
(* Over UDP: a whole datagram, one whose payload cannot be read (m_on_user_abort *)
(* gets b back), and a refused one.                                              *)

UdpTaken(b) ==
  /\ b \notin owed
  /\ m_target_buffer' = NoBuffer
  /\ AskedAgain
  /\ UNCHANGED <<held, owed>>

UdpRefused ==
  /\ m_target_buffer' = NoBuffer
  /\ AskedAgain
  /\ UNCHANGED <<held, owed>>

Takes(b) == TcpWhole(b) \/ TcpPart(b) \/ UdpTaken(b)

Next == (\E b \in Buffers : Takes(b)) \/ TcpRefused \/ TcpEnds \/ UdpRefused

Spec == Init /\ [][Next]_vars

-----------------------------------------------------------------------------
\* The user gets each buffer back and the plugin and the client keep none they gave
\* back, unless the plugin is asked for another message, over TCP or UDP, while the
\* TCP client holds the buffer: that one is lost to the user.
BuffersReturned ==
  /\ owed \subseteq {held} \cup lost
  /\ {held, m_target_buffer} \subseteq owed \cup {NoBuffer}
  /\ held \in lost \/ m_target_buffer = held
=============================================================================
