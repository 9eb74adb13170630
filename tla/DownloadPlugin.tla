---------------------------- MODULE DownloadPlugin ----------------------------
(* The download plugin (c_tcp_client_plugins.cpp), which assembles a download  *)
(* from the messages of a TCP connection: one INFO, then for each block a      *)
(* BLOCK_INFO and a BLOCK_DATA.                                                *)
(*                                                                             *)
(* External:                                                                   *)
(*  - the TCP client, which acquires a message and then commits it, whether its *)
(*    payload could be read or not, or aborts it, when the connection ends and  *)
(*    also on a connection that goes on; when a connection ends between two     *)
(*    messages it tells the plugin nothing;                                     *)
(*  - what is on the socket after an abort or a failed read, when payloads are  *)
(*    taken for headers (TcpReceive): messages of the download may be missed,   *)
(*    and nothing but a header of the peer's is taken for one of the download;  *)
(*  - the peer, which sends the messages in that order and starts over with an  *)
(*    INFO on each connection;                                                  *)
(*  - the user, who hands out a buffer or refuses.                              *)
EXTENDS Integers, FiniteSets

CONSTANTS
  MaxBlocks,       \* bounds the blocks of a download
  CountMod,        \* 2^32: m_received_blocks is a u32
  Buffers,         \* the buffers the user may hand out
  NoBuffer         \* nullptr

ASSUME DownloadAssumption ==
  /\ MaxBlocks \in Nat \ {0} /\ CountMod \in Nat /\ MaxBlocks < CountMod
  /\ NoBuffer \notin Buffers

VARIABLES
  m_total_blocks,           \* m_download_info.total_blocks
  m_block_index,            \* m_block_info.block_index
  m_received_blocks,
  m_target_buffer,
  held,                     \* the message acquired and not committed: a type, or "none"
  next,                     \* the type of the message the peer is sending
  blocks, block,            \* the download being sent has so many blocks; the one it is at
  owed,                     \* ghost: the buffers the user waits for
  cut,                      \* ghost: those whose download was cut short untold
  written,                  \* ghost: the blocks of this download in the target buffer
  missed,                   \* ghost: a message of this download was aborted on a connection that
                            \* goes on or missed, or its INFO was not read
  unread                    \* ghost: a message of this download was committed but not read

plugin == <<m_total_blocks, m_block_index, m_received_blocks, m_target_buffer>>
peer   == <<next, blocks, block>>
user   == <<owed, cut, written>>
gaps   == <<missed, unread>>
vars   == <<plugin, held, peer, user, gaps>>

Types == {"INFO", "BLOCK_INFO", "BLOCK_DATA"}
Block == 0 .. MaxBlocks - 1

TypeOK ==
  /\ m_total_blocks \in 0 .. MaxBlocks
  /\ m_block_index \in Block
  /\ m_received_blocks \in 0 .. CountMod - 1
  /\ m_target_buffer \in Buffers \cup {NoBuffer}
  /\ held \in Types \cup {"none"}
  /\ next \in Types
  /\ blocks \in 1 .. MaxBlocks /\ block \in Block
  /\ owed \subseteq Buffers /\ cut \subseteq owed
  /\ written \subseteq Block
  /\ missed \in BOOLEAN /\ unread \in BOOLEAN

\* new_download_plugin
Init ==
  /\ m_total_blocks = 0 /\ m_block_index = 0 /\ m_received_blocks = 0
  /\ m_target_buffer = NoBuffer
  /\ held = "none"
  /\ next = "INFO" /\ blocks \in 1 .. MaxBlocks /\ block = 0
  /\ owed = {} /\ cut = {} /\ written = {}
  /\ missed = FALSE /\ unread = FALSE

-----------------------------------------------------------------------------
(* download_acquire_fn: the payload goes to m_download_info, m_block_info or    *)
(* the place of the block in the target buffer, as it arrives.                  *)

\* Mutant: the count of an earlier download is kept.
KeepsCount == UNCHANGED m_received_blocks

StartsCount == m_received_blocks' = 0

AcquireInfo ==
  /\ held = "none" /\ next = "INFO"
  /\ held' = "INFO"
  /\ StartsCount
  /\ UNCHANGED <<m_total_blocks, m_block_index, m_target_buffer, peer, user, gaps>>

AcquireBlockInfo ==
  /\ held = "none" /\ next = "BLOCK_INFO"
  /\ held' = "BLOCK_INFO"
  /\ UNCHANGED <<plugin, peer, user, gaps>>

\* Into whatever m_target_buffer is.
AcquireBlockData ==
  /\ held = "none" /\ next = "BLOCK_DATA"
  /\ held' = "BLOCK_DATA"
  /\ UNCHANGED <<plugin, peer, user, gaps>>

-----------------------------------------------------------------------------
(* download_commit_fn.  The client ignores whether the payload could be read    *)
(* (c_tcp_client.cpp:209); where it was not, what was there before may stay.     *)

\* The peer moves on to its next message, and after the last block of a download to
\* the next download.
PeerMovesOn ==
  \/ next = "INFO" /\ next' = "BLOCK_INFO" /\ UNCHANGED <<blocks, block>>
  \/ next = "BLOCK_INFO" /\ next' = "BLOCK_DATA" /\ UNCHANGED <<blocks, block>>
  \/ /\ next = "BLOCK_DATA" /\ block + 1 < blocks
     /\ next' = "BLOCK_INFO" /\ block' = block + 1 /\ UNCHANGED blocks
  \/ /\ next = "BLOCK_DATA" /\ block + 1 = blocks
     /\ next' = "INFO" /\ block' = 0 /\ blocks' \in 1 .. MaxBlocks

\* The user is asked for a buffer; its answer is not looked at, and the buffer of
\* a download that was cut off is forgotten.
CommitInfo(read) ==
  /\ held = "INFO" /\ held' = "none"
  /\ m_total_blocks' \in {blocks} \cup (IF read THEN {} ELSE {m_total_blocks})
  /\ m_target_buffer' \in (Buffers \ owed) \cup {NoBuffer}
  /\ IF m_target_buffer' = NoBuffer
     THEN UNCHANGED <<owed, cut>>
     ELSE /\ owed' = owed \cup {m_target_buffer'}
          /\ cut' = IF read THEN cut ELSE cut \cup {m_target_buffer'}
  /\ written' = {}
  /\ missed' = ~read /\ unread' = ~read
  /\ PeerMovesOn
  /\ UNCHANGED <<m_block_index, m_received_blocks>>

CommitBlockInfo(read) ==
  /\ held = "BLOCK_INFO" /\ held' = "none"
  /\ m_block_index' \in {block} \cup (IF read THEN {} ELSE {m_block_index})
  /\ unread' = (unread \/ ~read)
  /\ PeerMovesOn
  /\ UNCHANGED <<m_total_blocks, m_received_blocks, m_target_buffer, user, missed>>

\* Mutant: the plugin keeps the pointer.
KeepsTarget ==
  /\ owed' = owed \ {m_target_buffer} /\ cut' = cut \ {m_target_buffer}
  /\ UNCHANGED m_target_buffer

\* The user gets the target buffer back, and may hand it out again.
HandsBack ==
  /\ owed' = owed \ {m_target_buffer} /\ cut' = cut \ {m_target_buffer}
  /\ m_target_buffer' = NoBuffer

\* A block that is read goes to the place m_block_info says: to its own, or over
\* the block that belongs there.
Writes(read) ==
  written' = IF ~read \/ m_target_buffer = NoBuffer THEN written
             ELSE IF m_block_index = block THEN written \cup {block}
             ELSE written \ {m_block_index}

\* Mutant: the count is wider than the u32 it is kept in.
CountRunsOn == m_received_blocks + 1

CountAfter == (m_received_blocks + 1) % CountMod

LastBlock == CountAfter = m_total_blocks

\* A block is counted, read or not.  The last one calls m_on_user_complete.
CommitBlockData(read) ==
  /\ held = "BLOCK_DATA" /\ held' = "none"
  /\ m_received_blocks' = CountAfter
  /\ Writes(read)
  /\ IF LastBlock THEN HandsBack ELSE UNCHANGED <<m_target_buffer, owed, cut>>
  /\ unread' = (unread \/ ~read)
  /\ PeerMovesOn
  /\ UNCHANGED <<m_total_blocks, m_block_index, missed>>

-----------------------------------------------------------------------------
(* What cuts a download short *)

\* download_abort_fn calls m_on_user_abort.  What arrived of the message is where
\* acquire pointed to.  A block acquired at nullptr is not aborted (s_abort), which
\* makes no difference here: there is no buffer to hand back.
Abort ==
  /\ held # "none" /\ held' = "none"
  /\ m_total_blocks' \in {m_total_blocks} \cup (IF held = "INFO" THEN {blocks} ELSE {})
  /\ m_block_index' \in {m_block_index} \cup (IF held = "BLOCK_INFO" THEN {block} ELSE {})
  /\ HandsBack /\ written' = {}
  /\ UNCHANGED m_received_blocks

\* The next connection: the peer starts over.
StartsOver ==
  /\ next' = "INFO" /\ blocks' \in 1 .. MaxBlocks /\ block' = 0
  /\ missed' = FALSE /\ unread' = FALSE

\* The connection ended with the message half received.
AbortAtEnd == Abort /\ StartsOver

\* The connection goes on, and the peer with its download: reading a header failed
\* (c_tcp_client.cpp:178) or what was read for one was refused (:198).
AbortAndGoOn == Abort /\ PeerMovesOn /\ missed' = TRUE /\ UNCHANGED unread

\* After a message was aborted or not read, its bytes are taken for headers, and
\* those of messages that follow may be, too.
MissMessage ==
  /\ held = "none" /\ (missed \/ unread)
  /\ missed' = TRUE
  /\ cut' = cut \cup ({m_target_buffer} \ {NoBuffer})
  /\ PeerMovesOn
  /\ UNCHANGED <<plugin, held, owed, written, unread>>

\* Between two messages nobody tells the plugin that the connection ended.
ConnectionEnds ==
  /\ held = "none"
  /\ cut' = cut \cup ({m_target_buffer} \ {NoBuffer})
  /\ StartsOver
  /\ UNCHANGED <<plugin, held, owed, written>>

Next == \/ AcquireInfo \/ AcquireBlockInfo \/ AcquireBlockData
        \/ \E read \in BOOLEAN :
             CommitInfo(read) \/ CommitBlockInfo(read) \/ CommitBlockData(read)
        \/ AbortAtEnd \/ AbortAndGoOn \/ MissMessage \/ ConnectionEnds

Spec == Init /\ [][Next]_vars

-----------------------------------------------------------------------------
\* A download that completes is whole, whatever was cut off, aborted or started over
\* before: the buffer handed to the user holds every block of the download that is
\* being sent, each in its place, and was filled by no other.  But for one case: the
\* client commits a message although reading its payload failed
\* (c_tcp_client.cpp:209), and then the buffer may have a hole (unread).
CompletesWhole ==
  [][\A read \in BOOLEAN :
       CommitBlockData(read) /\ LastBlock /\ m_target_buffer # NoBuffer /\ ~unread'
         => written' = 0 .. blocks - 1]_vars

\* And it completes: with the last block the peer sends, and with no other, though
\* blocks may not have been read.  But for a download of which a message did not get
\* through (missed): when one is aborted on a connection that goes on
\* (c_tcp_client.cpp:178, :198), the peer sends the rest of the download, which
\* completes with another block or never.  It then hands the user no buffer, unless a
\* message was not read either (unread).
CompletesInTime ==
  [][\A read \in BOOLEAN :
       CommitBlockData(read) =>
         \/ LastBlock <=> block + 1 = blocks
         \/ missed /\ (m_target_buffer = NoBuffer \/ unread)]_vars

\* The plugin holds no buffer it handed back, and the user gets each buffer back,
\* unless its download was cut short without the plugin being told (cut): the
\* connection ended between two of its messages, one was missed, or the INFO was
\* committed but not read.
BuffersReturned ==
  /\ m_target_buffer # NoBuffer => m_target_buffer \in owed
  /\ owed \subseteq {m_target_buffer} \cup cut
=============================================================================
