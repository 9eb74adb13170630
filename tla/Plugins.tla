-------------------------------- MODULE Plugins --------------------------------
(* A download plugin and a messages plugin, each with a TCP client of its own   *)
(* (a client asks its first plugin only), and the messages plugin with a UDP    *)
(* client too.  One user serves both from one pool of buffers: a buffer a       *)
(* plugin hands back may be the next the other gets.                            *)
EXTENDS DownloadPlugin

VARIABLES msg_target, msg_held, msg_owed, msg_lost
msg == <<msg_target, msg_held, msg_owed, msg_lost>>

Message == INSTANCE MessagePlugin
  WITH m_target_buffer <- msg_target, held <- msg_held, owed <- msg_owed, lost <- msg_lost

PluginsInit == Init /\ Message!Init

\* The user does not hand out a buffer the messages plugin has.
DownloadStep ==
  /\ Next
  /\ m_target_buffer' # m_target_buffer => m_target_buffer' \notin msg_owed
  /\ UNCHANGED msg

\* What a message brings overwrites the buffer.
MessageTaken ==
  /\ \E b \in Buffers \ owed :
       /\ Message!Takes(b)
       /\ written' = IF b = m_target_buffer THEN {} ELSE written
  /\ UNCHANGED <<plugin, held, peer, owed, cut, gaps>>

MessageRefusedOrEnds ==
  /\ Message!TcpRefused \/ Message!TcpEnds \/ Message!UdpRefused
  /\ UNCHANGED vars

PluginsNext == DownloadStep \/ MessageTaken \/ MessageRefusedOrEnds

PluginsSpec == PluginsInit /\ [][PluginsNext]_<<vars, msg>>

-----------------------------------------------------------------------------
\* What the messages plugin owes its user.
MessageBuffersReturned == Message!BuffersReturned

\* README.md:15 and README.md:54: the abort callback lets a plugin "clean up any
\* resources it has allocated for the message", and "plugins that process independent
\* messages can be used directly" with a UDP client.  After a datagram that comes
\* while the TCP client holds a message, an abort would hand the user nothing.
AbortHandsBack == msg_held # NoBuffer => msg_target = msg_held
=============================================================================
