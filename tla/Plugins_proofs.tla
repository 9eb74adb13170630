---------------------------- MODULE Plugins_proofs ----------------------------
(* What the download plugin and the messages plugin guarantee side by side, for  *)
(* every number of blocks and every set of buffers.                              *)
EXTENDS Plugins, TLAPS

USE DownloadAssumption

-----------------------------------------------------------------------------
(* The download plugin *)

\* Where the plugin stands in the download that is being sent.  Its count is that of the
\* peer from the INFO on, unless a message was missed; the blocks before the current one
\* are written, unless one was not read either.  Between two downloads, and once a message
\* was missed, it has no buffer but one that was left to it.
Assembly ==
  /\ held # "none" => held = next
  /\ block < blocks
  /\ next = "INFO" => block = 0
  /\ next = "INFO" \/ missed => m_target_buffer \in cut \cup {NoBuffer}
  /\ missed /\ ~unread => m_target_buffer = NoBuffer
  /\ held = "INFO" => m_received_blocks = 0
  /\ next # "INFO" /\ ~missed => m_total_blocks = blocks /\ m_received_blocks = block
  /\ next # "INFO" /\ ~missed /\ ~unread /\ m_target_buffer # NoBuffer =>
       written = 0 .. block - 1
  /\ next = "BLOCK_DATA" /\ ~missed /\ ~unread => m_block_index = block

DownloadInv == TypeOK /\ BuffersReturned /\ Assembly

LEMMA DownloadInvInit == Init => DownloadInv
<1> SUFFICES ASSUME Init PROVE DownloadInv
  OBVIOUS
<1>1. 0 \in Block /\ 0 \in 0 .. CountMod - 1 /\ 0 \in 0 .. MaxBlocks
  BY DEF Block
<1>2. TypeOK
  BY <1>1 DEF Init, TypeOK, Types
<1>3. BuffersReturned /\ Assembly
  BY DEF Init, BuffersReturned, Assembly
<1>4. QED BY <1>2, <1>3 DEF DownloadInv

\* The buffer goes back to the user: what is owed besides it was left by downloads cut
\* short.
LEMMA HandedBack ==
  ASSUME DownloadInv, HandsBack
  PROVE  /\ m_target_buffer' = NoBuffer
         /\ owed' \subseteq Buffers /\ cut' \subseteq owed'
         /\ BuffersReturned'
BY DEF DownloadInv, TypeOK, HandsBack, BuffersReturned

\* The peer moves on to a message of the download it is at, or to the next download.
LEMMA MovesOn ==
  ASSUME TypeOK, block < blocks, next = "INFO" => block = 0, PeerMovesOn
  PROVE  /\ next' \in Types /\ blocks' \in 1 .. MaxBlocks /\ block' \in Block
         /\ block' < blocks' /\ (next' = "INFO" => block' = 0)
<1>1. next \in Types /\ blocks \in 1 .. MaxBlocks /\ block \in Block /\ 0 \in Block
  BY DEF TypeOK, Block
<1>2. CASE next = "BLOCK_DATA" /\ block + 1 < blocks
  <2>1. next' = "BLOCK_INFO" /\ block' = block + 1 /\ blocks' = blocks
    BY <1>1, <1>2 DEF PeerMovesOn, Block
  <2>2. QED BY <1>1, <1>2, <2>1 DEF Types, Block
<1>3. CASE next = "BLOCK_DATA" /\ block + 1 = blocks
  <2>1. next' = "INFO" /\ block' = 0 /\ blocks' \in 1 .. MaxBlocks
    BY <1>1, <1>3 DEF PeerMovesOn, Block
  <2>2. QED BY <1>1, <2>1 DEF Types
<1>4. CASE next \in {"INFO", "BLOCK_INFO"}
  BY <1>1, <1>4 DEF PeerMovesOn, Types
<1>5. QED BY <1>1, <1>2, <1>3, <1>4 DEF Types, Block, PeerMovesOn

\* With every message through, the count after a block is the number of blocks sent.
LEMMA Counted ==
  ASSUME DownloadInv, held = "BLOCK_DATA", ~missed
  PROVE  /\ m_total_blocks = blocks /\ CountAfter = block + 1
         /\ block \in Nat /\ blocks \in 1 .. MaxBlocks /\ block + 1 <= blocks
<1>1. /\ m_total_blocks = blocks /\ m_received_blocks = block
      /\ block \in Nat /\ blocks \in 1 .. MaxBlocks /\ block < blocks
  BY DEF DownloadInv, Assembly, TypeOK, Block
<1>2. (block + 1) % CountMod = block + 1
  BY <1>1
<1>3. QED BY <1>1, <1>2 DEF CountAfter

\* With every message through and read, the block goes to its place.
LEMMA Written ==
  ASSUME DownloadInv, NEW read \in BOOLEAN, CommitBlockData(read),
         ~missed, ~unread, read, m_target_buffer # NoBuffer
  PROVE  written' = 0 .. block
<1>1. /\ m_block_index = block /\ written = 0 .. block - 1 /\ block \in Nat
  BY DEF CommitBlockData, DownloadInv, Assembly, TypeOK, Block
<1>2. written' = (0 .. block - 1) \cup {block}
  BY <1>1 DEF CommitBlockData, Writes
<1>3. QED BY <1>1, <1>2

\* What every abort does.
LEMMA Aborted ==
  ASSUME DownloadInv, Abort
  PROVE  /\ m_target_buffer' = NoBuffer /\ BuffersReturned'
         /\ owed' \subseteq Buffers /\ cut' \subseteq owed'
         /\ held' = "none" /\ written' = {}
         /\ m_total_blocks' \in 0 .. MaxBlocks /\ m_block_index' \in Block
         /\ m_received_blocks' \in 0 .. CountMod - 1
<1>1. /\ m_target_buffer' = NoBuffer /\ BuffersReturned'
      /\ owed' \subseteq Buffers /\ cut' \subseteq owed'
  BY HandedBack DEF Abort
<1>2. QED BY <1>1 DEF Abort, DownloadInv, TypeOK

LEMMA DownloadInvNext == DownloadInv /\ Next => DownloadInv'
<1> SUFFICES ASSUME DownloadInv, Next PROVE DownloadInv'
  OBVIOUS
<1> USE DEF plugin, peer, user, gaps
<1>0. /\ TypeOK /\ BuffersReturned /\ Assembly
      /\ block < blocks /\ (next = "INFO" => block = 0)
  BY DEF DownloadInv, Assembly
<1>1. CASE AcquireInfo
  <2>1. 0 \in 0 .. CountMod - 1
    OBVIOUS
  <2>2. TypeOK'
    BY <1>0, <1>1, <2>1 DEF AcquireInfo, StartsCount, TypeOK, Types
  <2>3. BuffersReturned' /\ Assembly'
    BY <1>0, <1>1 DEF AcquireInfo, StartsCount, BuffersReturned, Assembly
  <2>4. QED BY <2>2, <2>3 DEF DownloadInv
<1>2. CASE AcquireBlockInfo
  <2>1. TypeOK'
    BY <1>0, <1>2 DEF AcquireBlockInfo, TypeOK, Types
  <2>2. BuffersReturned' /\ Assembly'
    BY <1>0, <1>2 DEF AcquireBlockInfo, BuffersReturned, Assembly
  <2>3. QED BY <2>1, <2>2 DEF DownloadInv
<1>3. CASE AcquireBlockData
  <2>1. TypeOK'
    BY <1>0, <1>3 DEF AcquireBlockData, TypeOK, Types
  <2>2. BuffersReturned' /\ Assembly'
    BY <1>0, <1>3 DEF AcquireBlockData, BuffersReturned, Assembly
  <2>3. QED BY <2>1, <2>2 DEF DownloadInv
<1>4. ASSUME NEW read \in BOOLEAN, CommitInfo(read) PROVE DownloadInv'
  <2>1. /\ next = "INFO" /\ m_received_blocks = 0 /\ block = 0
        /\ m_target_buffer \in cut \cup {NoBuffer}
    BY <1>0, <1>4 DEF CommitInfo, Assembly
  <2>2. next' = "BLOCK_INFO" /\ UNCHANGED <<blocks, block>>
    BY <1>4, <2>1 DEF CommitInfo, PeerMovesOn
  <2>3. m_total_blocks' \in {blocks, m_total_blocks} /\ (read => m_total_blocks' = blocks)
    BY <1>4 DEF CommitInfo
  <2>4. m_total_blocks' \in 0 .. MaxBlocks
    BY <1>0, <2>3 DEF TypeOK
  <2>5. /\ m_target_buffer' \in Buffers \cup {NoBuffer}
        /\ owed' \subseteq Buffers /\ cut' \subseteq owed'
        /\ BuffersReturned'
        /\ ~read => m_target_buffer' \in cut' \cup {NoBuffer}
    <3>1. CASE m_target_buffer' = NoBuffer
      BY <1>0, <1>4, <2>1, <3>1 DEF CommitInfo, TypeOK, BuffersReturned
    <3>2. CASE m_target_buffer' # NoBuffer
      <4>1. /\ m_target_buffer' \in Buffers \ owed
            /\ owed' = owed \cup {m_target_buffer'}
            /\ cut' = IF read THEN cut ELSE cut \cup {m_target_buffer'}
        BY <1>4, <3>2 DEF CommitInfo
      <4>2. QED BY <1>0, <2>1, <4>1 DEF TypeOK, BuffersReturned
    <3>3. QED BY <3>1, <3>2
  <2>6. written' = {} /\ missed' = ~read /\ unread' = ~read /\ held' = "none"
    BY <1>4 DEF CommitInfo
  <2>7. TypeOK'
    BY <1>0, <1>4, <2>2, <2>4, <2>5, <2>6 DEF CommitInfo, TypeOK, Types
  <2>8. Assembly'
    <3>1. m_received_blocks' = 0 /\ 0 .. 0 - 1 = {}
      BY <1>4, <2>1 DEF CommitInfo
    <3>2. QED BY <1>0, <2>1, <2>2, <2>3, <2>5, <2>6, <3>1 DEF Assembly
  <2>9. QED BY <2>5, <2>7, <2>8 DEF DownloadInv
<1>5. ASSUME NEW read \in BOOLEAN, CommitBlockInfo(read) PROVE DownloadInv'
  <2>1. next = "BLOCK_INFO" /\ next' = "BLOCK_DATA" /\ UNCHANGED <<blocks, block>>
    BY <1>0, <1>5 DEF CommitBlockInfo, PeerMovesOn, Assembly
  <2>2. /\ m_block_index' \in {block, m_block_index} /\ (read => m_block_index' = block)
        /\ unread' = (unread \/ ~read) /\ held' = "none"
        /\ UNCHANGED <<m_total_blocks, m_received_blocks, m_target_buffer, user, missed>>
    BY <1>5 DEF CommitBlockInfo
  <2>3. TypeOK'
    BY <1>0, <2>1, <2>2 DEF TypeOK, Types
  <2>4. BuffersReturned' /\ Assembly'
    BY <1>0, <2>1, <2>2 DEF BuffersReturned, Assembly
  <2>5. QED BY <2>3, <2>4 DEF DownloadInv
<1>6. ASSUME NEW read \in BOOLEAN, CommitBlockData(read) PROVE DownloadInv'
  <2>1. next = "BLOCK_DATA" /\ held = "BLOCK_DATA" /\ held' = "none"
    BY <1>0, <1>6 DEF CommitBlockData, Assembly
  <2>2. /\ next' \in Types /\ blocks' \in 1 .. MaxBlocks /\ block' \in Block
        /\ block' < blocks' /\ (next' = "INFO" => block' = 0)
    BY <1>0, <1>6, MovesOn DEF CommitBlockData
  <2>3. written' \subseteq Block
    BY <1>0, <1>6 DEF CommitBlockData, Writes, TypeOK
  <2>4. m_received_blocks' = CountAfter /\ CountAfter \in 0 .. CountMod - 1
    BY <1>0, <1>6 DEF CommitBlockData, CountAfter, TypeOK
  <2>5. /\ unread' = (unread \/ ~read)
        /\ UNCHANGED <<m_total_blocks, m_block_index, missed>>
    BY <1>6 DEF CommitBlockData
  <2>6. /\ m_target_buffer' \in Buffers \cup {NoBuffer}
        /\ owed' \subseteq Buffers /\ cut' \subseteq owed'
        /\ BuffersReturned'
        /\ m_target_buffer' = NoBuffer \/ UNCHANGED <<m_target_buffer, cut>>
    <3>1. CASE LastBlock
      BY <1>6, <3>1, HandedBack DEF CommitBlockData
    <3>2. CASE ~LastBlock
      BY <1>0, <1>6, <3>2 DEF CommitBlockData, TypeOK, BuffersReturned
    <3>3. QED BY <3>1, <3>2
  <2>7. TypeOK'
    BY <1>0, <2>1, <2>2, <2>3, <2>4, <2>5, <2>6 DEF TypeOK
  <2>8. CASE missed
    <3>1. next' \in {"INFO", "BLOCK_INFO"}
      BY <1>6, <2>1 DEF CommitBlockData, PeerMovesOn
    <3>2. Assembly'
      BY <1>0, <2>1, <2>2, <2>5, <2>6, <2>8, <3>1 DEF Assembly
    <3>3. QED BY <2>6, <2>7, <3>2 DEF DownloadInv
  <2>9. CASE ~missed
    <3>1. /\ m_total_blocks = blocks /\ CountAfter = block + 1
          /\ block \in Nat /\ blocks \in 1 .. MaxBlocks
      BY <2>1, <2>9, Counted
    <3>2. CASE block + 1 = blocks
      <4>1. m_target_buffer' = NoBuffer
        BY <1>6, <3>1, <3>2, HandedBack DEF CommitBlockData, LastBlock
      <4>2. next' = "INFO"
        BY <1>6, <2>1, <3>1, <3>2 DEF CommitBlockData, PeerMovesOn
      <4>3. Assembly'
        BY <2>1, <2>2, <2>5, <2>9, <4>1, <4>2 DEF Assembly
      <4>4. QED BY <2>6, <2>7, <4>3 DEF DownloadInv
    <3>3. CASE block + 1 # blocks
      <4>1. next' = "BLOCK_INFO" /\ block' = block + 1 /\ blocks' = blocks
        BY <1>6, <2>1, <3>1, <3>3 DEF CommitBlockData, PeerMovesOn
      <4>2. UNCHANGED m_target_buffer
        BY <1>6, <3>1, <3>3 DEF CommitBlockData, LastBlock
      <4>3. ~unread' /\ m_target_buffer' # NoBuffer => written' = 0 .. block' - 1
        <5>1. SUFFICES ASSUME ~unread', m_target_buffer' # NoBuffer
                       PROVE  written' = 0 .. block' - 1
          OBVIOUS
        <5>2. written' = 0 .. block
          BY <1>6, <2>5, <2>9, <4>2, <5>1, Written
        <5>3. QED BY <3>1, <4>1, <5>2
      <4>4. Assembly'
        BY <2>1, <2>2, <2>4, <2>5, <2>9, <3>1, <4>1, <4>3 DEF Assembly
      <4>5. QED BY <2>6, <2>7, <4>4 DEF DownloadInv
    <3>4. QED BY <3>2, <3>3
  <2>10. QED BY <2>8, <2>9
<1>7. CASE AbortAtEnd
  <2>1. StartsOver /\ 0 \in Block
    BY <1>7 DEF AbortAtEnd, Block
  <2>2. TypeOK'
    BY <1>7, <2>1, Aborted DEF AbortAtEnd, StartsOver, TypeOK, Types
  <2>3. Assembly'
    BY <1>7, <2>1, Aborted DEF AbortAtEnd, StartsOver, Assembly
  <2>4. QED BY <1>7, <2>2, <2>3, Aborted DEF AbortAtEnd, DownloadInv
<1>8. CASE AbortAndGoOn
  <2>1. /\ next' \in Types /\ blocks' \in 1 .. MaxBlocks /\ block' \in Block
        /\ block' < blocks' /\ (next' = "INFO" => block' = 0)
    BY <1>0, <1>8, MovesOn DEF AbortAndGoOn
  <2>2. missed' = TRUE /\ unread' = unread
    BY <1>8 DEF AbortAndGoOn
  <2>3. TypeOK'
    BY <1>0, <1>8, <2>1, <2>2, Aborted DEF AbortAndGoOn, TypeOK
  <2>4. Assembly'
    BY <1>8, <2>1, <2>2, Aborted DEF AbortAndGoOn, Assembly
  <2>5. QED BY <1>8, <2>3, <2>4, Aborted DEF AbortAndGoOn, DownloadInv
<1>9. CASE MissMessage
  <2>1. /\ next' \in Types /\ blocks' \in 1 .. MaxBlocks /\ block' \in Block
        /\ block' < blocks' /\ (next' = "INFO" => block' = 0)
    BY <1>0, <1>9, MovesOn DEF MissMessage
  <2>2. /\ cut' = cut \cup ({m_target_buffer} \ {NoBuffer}) /\ missed' = TRUE
        /\ UNCHANGED <<plugin, held, owed, written, unread>> /\ held = "none"
    BY <1>9 DEF MissMessage
  <2>3. TypeOK'
    BY <1>0, <2>1, <2>2 DEF TypeOK, BuffersReturned
  <2>4. missed /\ ~unread => m_target_buffer = NoBuffer
    BY <1>0 DEF Assembly
  <2>5. Assembly'
    BY <1>9, <2>1, <2>2, <2>4 DEF MissMessage, Assembly
  <2>6. BuffersReturned'
    BY <1>0, <2>2 DEF BuffersReturned
  <2>7. QED BY <2>3, <2>5, <2>6 DEF DownloadInv
<1>10. CASE ConnectionEnds
  <2>1. 0 \in Block
    BY DEF Block
  <2>2. TypeOK'
    BY <1>0, <1>10, <2>1 DEF ConnectionEnds, StartsOver, BuffersReturned, TypeOK, Types
  <2>3. BuffersReturned' /\ Assembly'
    BY <1>0, <1>10 DEF ConnectionEnds, StartsOver, BuffersReturned, Assembly
  <2>4. QED BY <2>2, <2>3 DEF DownloadInv
<1>11. QED
  BY <1>1, <1>2, <1>3, <1>4, <1>5, <1>6, <1>7, <1>8, <1>9, <1>10 DEF Next

-----------------------------------------------------------------------------
(* The messages plugin *)

\* Neither nullptr nor anything that is not a buffer is ever owed.
MessageInv ==
  /\ Message!BuffersReturned
  /\ msg_owed \subseteq Buffers /\ NoBuffer \notin msg_lost

LEMMA MessageInvInit == Message!Init => MessageInv
BY DEF Message!Init, MessageInv, Message!BuffersReturned

LEMMA MessageInvTaken ==
  ASSUME MessageInv, NEW b \in Buffers, Message!Takes(b)
  PROVE  MessageInv'
<1>1. CASE Message!TcpWhole(b)
  BY <1>1 DEF Message!TcpWhole, Message!AskedAgain, MessageInv, Message!BuffersReturned
<1>2. CASE Message!TcpPart(b)
  BY <1>2 DEF Message!TcpPart, Message!AskedAgain, MessageInv, Message!BuffersReturned
<1>3. CASE Message!UdpTaken(b)
  BY <1>3 DEF Message!UdpTaken, Message!AskedAgain, MessageInv, Message!BuffersReturned
<1>4. QED BY <1>1, <1>2, <1>3 DEF Message!Takes

LEMMA MessageInvOther ==
  ASSUME MessageInv, Message!TcpRefused \/ Message!TcpEnds \/ Message!UdpRefused
  PROVE  MessageInv'
<1>1. CASE Message!TcpRefused
  BY <1>1 DEF Message!TcpRefused, Message!AskedAgain, MessageInv, Message!BuffersReturned
<1>2. CASE Message!TcpEnds
  BY <1>2 DEF Message!TcpEnds, Message!HandsBack, MessageInv, Message!BuffersReturned
<1>3. CASE Message!UdpRefused
  BY <1>3 DEF Message!UdpRefused, Message!AskedAgain, MessageInv, Message!BuffersReturned
<1>4. QED BY <1>1, <1>2, <1>3

-----------------------------------------------------------------------------
(* Both *)

Inv == DownloadInv /\ MessageInv

LEMMA InvNext == Inv /\ [PluginsNext]_<<vars, msg>> => Inv'
<1> SUFFICES ASSUME Inv, [PluginsNext]_<<vars, msg>> PROVE Inv'
  OBVIOUS
<1>1. CASE DownloadStep
  <2>1. DownloadInv'
    BY <1>1, DownloadInvNext DEF Inv, DownloadStep
  <2>2. MessageInv'
    BY <1>1 DEF Inv, DownloadStep, msg, MessageInv, Message!BuffersReturned
  <2>3. QED BY <2>1, <2>2 DEF Inv
<1>2. CASE MessageTaken
  <2>1. PICK b \in Buffers \ owed :
          /\ Message!Takes(b)
          /\ written' = IF b = m_target_buffer THEN {} ELSE written
    BY <1>2 DEF MessageTaken
  <2>2. MessageInv'
    BY <2>1, MessageInvTaken DEF Inv
  <2>3. UNCHANGED <<plugin, held, peer, owed, cut, gaps>>
    BY <1>2 DEF MessageTaken
  <2>4. UNCHANGED written
    BY <2>1 DEF Inv, DownloadInv, TypeOK, BuffersReturned
  <2>5. DownloadInv'
    BY <2>3, <2>4 DEF plugin, peer, gaps, Inv, DownloadInv, TypeOK, BuffersReturned, Assembly
  <2>6. QED BY <2>2, <2>5 DEF Inv
<1>3. CASE MessageRefusedOrEnds
  <2>1. MessageInv'
    BY <1>3, MessageInvOther DEF Inv, MessageRefusedOrEnds
  <2>2. DownloadInv'
    BY <1>3 DEF MessageRefusedOrEnds, vars, plugin, peer, user, gaps, Inv, DownloadInv, TypeOK,
                BuffersReturned, Assembly
  <2>3. QED BY <2>1, <2>2 DEF Inv
<1>4. CASE UNCHANGED <<vars, msg>>
  BY <1>4 DEF vars, plugin, peer, user, gaps, msg, Inv, DownloadInv, TypeOK, BuffersReturned,
              Assembly, MessageInv, Message!BuffersReturned
<1>5. QED BY <1>1, <1>2, <1>3, <1>4 DEF PluginsNext

LEMMA InvHolds == PluginsSpec => []Inv
<1>1. PluginsInit => Inv
  BY DownloadInvInit, MessageInvInit DEF PluginsInit, Inv
<1>2. QED BY <1>1, InvNext, PTL DEF PluginsSpec

-----------------------------------------------------------------------------
\* The counts of the download plugin stay in range, however often it starts over.
THEOREM TypeCorrect == PluginsSpec => []TypeOK
<1>1. Inv => TypeOK
  BY DEF Inv, DownloadInv
<1>2. QED BY <1>1, InvHolds, PTL

\* The user gets back each buffer of a download, but those whose
\* download was cut short untold.
THEOREM DownloadBuffers == PluginsSpec => []BuffersReturned
<1>1. Inv => BuffersReturned
  BY DEF Inv, DownloadInv
<1>2. QED BY <1>1, InvHolds, PTL

\* The user gets back each buffer of a message, but those the plugin was asked over.
THEOREM MessageBuffers == PluginsSpec => []MessageBuffersReturned
<1>1. Inv => MessageBuffersReturned
  BY DEF Inv, MessageInv, MessageBuffersReturned
<1>2. QED BY <1>1, InvHolds, PTL

\* A download that completes is whole unless a message was not read, for every number of
\* blocks and however many were cut off, aborted or missed before.
THEOREM DownloadsWhole == PluginsSpec => CompletesWhole
<1>1. Inv /\ [PluginsNext]_<<vars, msg>>
        => [\A read \in BOOLEAN :
              CommitBlockData(read) /\ LastBlock /\ m_target_buffer # NoBuffer /\ ~unread'
                => written' = 0 .. blocks - 1]_vars
  <2> SUFFICES ASSUME Inv, NEW read \in BOOLEAN, CommitBlockData(read), LastBlock,
                      m_target_buffer # NoBuffer, ~unread'
               PROVE  written' = 0 .. blocks - 1
    OBVIOUS
  <2>1. read /\ ~unread /\ held = "BLOCK_DATA"
    BY DEF CommitBlockData
  <2>2. ~missed
    BY <2>1 DEF Inv, DownloadInv, Assembly
  <2>3. block + 1 = blocks /\ block \in Nat
    BY <2>1, <2>2, Counted DEF Inv, LastBlock
  <2>4. written' = 0 .. block
    BY <2>1, <2>2, Written DEF Inv
  <2>5. QED BY <2>3, <2>4
<1>2. QED BY <1>1, InvHolds, PTL DEF PluginsSpec, CompletesWhole

\* It completes with the last block that is sent and with no other; if a message was
\* missed, what completes at another block hands over no buffer, or a message was not read.
THEOREM DownloadsInTime == PluginsSpec => CompletesInTime
<1>1. Inv /\ [PluginsNext]_<<vars, msg>>
        => [\A read \in BOOLEAN :
              CommitBlockData(read) =>
                \/ LastBlock <=> block + 1 = blocks
                \/ missed /\ (m_target_buffer = NoBuffer \/ unread)]_vars
  <2> SUFFICES ASSUME Inv, NEW read \in BOOLEAN, CommitBlockData(read)
               PROVE  \/ LastBlock <=> block + 1 = blocks
                      \/ missed /\ (m_target_buffer = NoBuffer \/ unread)
    OBVIOUS
  <2>1. CASE missed
    BY <2>1 DEF Inv, DownloadInv, Assembly
  <2>2. CASE ~missed
    <3>1. held = "BLOCK_DATA"
      BY DEF CommitBlockData
    <3>2. m_total_blocks = blocks /\ CountAfter = block + 1
      BY <2>2, <3>1, Counted DEF Inv
    <3>3. QED BY <3>2 DEF LastBlock
  <2>3. QED BY <2>1, <2>2
<1>2. QED BY <1>1, InvHolds, PTL DEF PluginsSpec, CompletesInTime
=============================================================================
