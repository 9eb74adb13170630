--------------------------- MODULE TcpReceive_proofs ---------------------------
(* What the receive loop guarantees for every stream of messages, every size of *)
(* the header, every set of plugins and every answer of theirs.                 *)
(*                                                                              *)
(* Where a message starts is a sum over the messages before it.  What is needed *)
(* of these sums follows by induction, which is stated here as the least number *)
(* principle: a set of positions that fail has a least one.                     *)
EXTENDS TcpReceive, TLAPS, WellFoundedInduction

USE StreamAssumption

-----------------------------------------------------------------------------
(* The positions of the messages *)

\* A set of numbers that is not empty has a least element.
LEMMA LeastElement ==
  ASSUME NEW T \in SUBSET Nat, T # {}
  PROVE  \E x \in T : \A y \in T : x <= y
<1> DEFINE R == {r \in Nat \X Nat : r[1] < r[2]}
<1>1. R = OpToRel(<, Nat)
  BY DEF OpToRel
<1>2. IsWellFoundedOn(R, Nat)
  BY <1>1, NatLessThanWellFounded
<1>3. PICK x \in T : \A y \in T : ~ (<<y, x>> \in R)
  <2> HIDE DEF R
  <2>1. QED BY <1>2, WFMin
<1>4. ASSUME NEW y \in T PROVE x <= y
  <2>1. ~ (<<y, x>> \in R)
    BY <1>3
  <2>2. ~ (y < x)
    BY <2>1
  <2>3. QED BY <2>2
<1>5. QED BY <1>4

\* The number of messages, and their sizes.
LEMMA MessageSizes == Len(Sizes) \in Nat /\ \A k \in Messages : Sizes[k] \in Nat
BY DEF Messages

\* Starts(f, n): f gives the positions of the first n messages.
Starts(f, n) == f = [k \in 1 .. n |-> IF k = 1 THEN 0 ELSE f[k - 1] + HeaderSize + Sizes[k - 1]]

LEMMA StartsExist == \A n \in 1 .. Len(Sizes) + 1 : \E f : Starts(f, n)
<1> DEFINE T == {n \in 1 .. Len(Sizes) + 1 : ~ \E f : Starts(f, n)}
<1>1. SUFFICES ASSUME T # {} PROVE FALSE
  OBVIOUS
<1>2. T \in SUBSET Nat
  BY MessageSizes
<1>3. PICK n \in T : \A m \in T : n <= m
  <2> HIDE DEF T
  <2>1. QED BY <1>1, <1>2, LeastElement
<1>4. n \in 1 .. Len(Sizes) + 1 /\ ~ \E f : Starts(f, n)
  OBVIOUS
<1>5. CASE n = 1
  <2>1. Starts([k \in 1 .. 1 |-> 0], 1)
    BY DEF Starts
  <2>2. QED BY <1>4, <1>5, <2>1
<1>6. CASE n # 1
  <2>1. n - 1 \in 1 .. Len(Sizes) + 1 /\ n - 1 \notin T
    <3>1. n \in Nat /\ n - 1 \in 1 .. Len(Sizes) + 1 /\ ~ (n <= n - 1)
      BY <1>4, <1>6, MessageSizes
    <3>2. n - 1 \notin T
      <4> HIDE DEF T
      <4>1. QED BY <1>3, <3>1
    <3>3. QED BY <3>1, <3>2
  <2>2. PICK f : Starts(f, n - 1)
    BY <2>1
  <2> DEFINE g == [k \in 1 .. n |-> IF k < n THEN f[k] ELSE f[n - 1] + HeaderSize + Sizes[n - 1]]
  <2>3. ASSUME NEW k \in 1 .. n
        PROVE  g[k] = IF k = 1 THEN 0 ELSE g[k - 1] + HeaderSize + Sizes[k - 1]
    <3>1. n \in Nat /\ n > 1
      BY <1>4, <1>6, MessageSizes
    <3>2. CASE k = 1
      <4>1. f[1] = 0
        BY <2>2, <3>1 DEF Starts
      <4>2. QED BY <3>1, <3>2, <4>1
    <3>3. CASE k # 1 /\ k < n
      <4>1. f[k] = f[k - 1] + HeaderSize + Sizes[k - 1]
        BY <2>2, <3>1, <3>3 DEF Starts
      <4>2. g[k] = f[k] /\ g[k - 1] = f[k - 1]
        BY <3>1, <3>3
      <4>3. QED BY <3>3, <4>1, <4>2
    <3>4. CASE k = n
      <4>1. g[n - 1] = f[n - 1] /\ g[n] = f[n - 1] + HeaderSize + Sizes[n - 1]
        BY <3>1
      <4>2. QED BY <3>1, <3>4, <4>1
    <3>5. QED BY <3>2, <3>3, <3>4
  <2>4. Starts(g, n)
    BY <2>3 DEF Starts
  <2>5. QED BY <1>4, <2>4
<1>7. QED BY <1>5, <1>6

\* The definition of Start has the solution it means to have.
LEMMA StartDefined ==
  /\ Start[1] = 0
  /\ \A k \in Messages : Start[k + 1] = Start[k] + HeaderSize + Sizes[k]
<1>1. \E f : Starts(f, Len(Sizes) + 1)
  BY StartsExist, MessageSizes
<1>2. Starts(Start, Len(Sizes) + 1)
  BY <1>1 DEF Starts, Start
<1>3. ASSUME NEW k \in 1 .. Len(Sizes) + 1
      PROVE  Start[k] = IF k = 1 THEN 0 ELSE Start[k - 1] + HeaderSize + Sizes[k - 1]
  BY <1>2 DEF Starts
<1>4. Start[1] = 0
  BY <1>3, MessageSizes
<1>5. ASSUME NEW k \in Messages PROVE Start[k + 1] = Start[k] + HeaderSize + Sizes[k]
  <2>1. k + 1 \in 1 .. Len(Sizes) + 1 /\ k + 1 # 1 /\ (k + 1) - 1 = k
    BY MessageSizes DEF Messages
  <2>2. QED BY <1>3, <2>1
<1>6. QED BY <1>4, <1>5

\* A position is a number.
LEMMA StartNat == \A k \in 1 .. Len(Sizes) + 1 : Start[k] \in Nat
<1> DEFINE T == {n \in 1 .. Len(Sizes) + 1 : Start[n] \notin Nat}
<1>1. SUFFICES ASSUME T # {} PROVE FALSE
  OBVIOUS
<1>2. T \in SUBSET Nat
  BY MessageSizes
<1>3. PICK n \in T : \A m \in T : n <= m
  <2> HIDE DEF T
  <2>1. QED BY <1>1, <1>2, LeastElement
<1>4. n # 1
  BY StartDefined
<1>5. n - 1 \in Messages /\ n - 1 \in 1 .. Len(Sizes) + 1 /\ n - 1 \notin T /\ (n - 1) + 1 = n
  <2>1. n \in 1 .. Len(Sizes) + 1
    OBVIOUS
  <2>2. /\ n - 1 \in Messages /\ n - 1 \in 1 .. Len(Sizes) + 1
        /\ (n - 1) + 1 = n /\ ~ (n <= n - 1)
    BY <1>4, <2>1, MessageSizes DEF Messages
  <2>3. n - 1 \notin T
    <3> HIDE DEF T
    <3>1. QED BY <1>3, <2>2
  <2>4. QED BY <2>2, <2>3
<1>6. Start[n - 1] \in Nat
  BY <1>5
<1>7. Start[n] = Start[n - 1] + HeaderSize + Sizes[n - 1]
  BY <1>5, StartDefined
<1>8. QED BY <1>5, <1>6, <1>7, MessageSizes

\* A message ends before any later one starts.
LEMMA StartsInOrder ==
  ASSUME NEW j \in Messages, NEW k \in 1 .. Len(Sizes) + 1, j < k
  PROVE  /\ Start[j] < Start[j + 1]
         /\ Start[j + 1] <= Start[k]
<1> DEFINE T == {n \in 1 .. Len(Sizes) + 1 : j < n /\ ~(Start[j + 1] <= Start[n])}
<1>1. j \in Nat /\ j + 1 \in 1 .. Len(Sizes) + 1 /\ j \in 1 .. Len(Sizes) + 1
  BY MessageSizes DEF Messages
<1>2. Start[j] < Start[j + 1]
  <2>1. Start[j + 1] = Start[j] + HeaderSize + Sizes[j]
    BY StartDefined
  <2>2. Start[j] \in Nat /\ Sizes[j] \in Nat
    BY <1>1, StartNat, MessageSizes
  <2>3. QED BY <2>1, <2>2
<1>3. T = {}
  <2>1. SUFFICES ASSUME T # {} PROVE FALSE
    OBVIOUS
  <2>2. T \in SUBSET Nat
    BY MessageSizes
  <2>3. PICK n \in T : \A m \in T : n <= m
    <3> HIDE DEF T
    <3>1. QED BY <2>1, <2>2, LeastElement
  <2>4. n \in 1 .. Len(Sizes) + 1 /\ j < n /\ ~(Start[j + 1] <= Start[n])
    OBVIOUS
  <2>5. Start[j + 1] \in Nat
    BY <1>1, StartNat
  <2>6. n # j + 1
    BY <2>4, <2>5
  <2>7. /\ n - 1 \in Messages /\ n - 1 \in 1 .. Len(Sizes) + 1 /\ j < n - 1
        /\ (n - 1) + 1 = n
    BY <1>1, <2>4, <2>6, MessageSizes DEF Messages
  <2>8. n - 1 \notin T
    <3>1. ~ (n <= n - 1)
      BY <2>4, MessageSizes
    <3> HIDE DEF T
    <3>2. QED BY <2>3, <3>1
  <2>9. Start[j + 1] <= Start[n - 1]
    BY <2>7, <2>8
  <2>10. Start[n] = Start[n - 1] + HeaderSize + Sizes[n - 1]
    BY <2>7, StartDefined
  <2>11. Start[n - 1] \in Nat /\ Sizes[n - 1] \in Nat
    BY <2>7, StartNat, MessageSizes
  <2>12. Start[n - 1] <= Start[n] /\ Start[n] \in Nat
    BY <2>10, <2>11
  <2>13. Start[j + 1] <= Start[n]
    BY <2>5, <2>9, <2>11, <2>12
  <2>14. QED BY <2>4, <2>13
<1>4. QED BY <1>2, <1>3

\* A header is that of a message exactly when it is read where that message starts.
LEMMA NextMessageAt ==
  ASSUME taken \in Nat
  PROVE  /\ \A k \in Messages : taken = Start[k] => NextMessage = k
         /\ NextMessage \in Messages \cup {Garbage}
         /\ NextMessage # Garbage => NextMessage \in Messages /\ Start[NextMessage] = taken
<1>1. ASSUME NEW j \in Messages, NEW k \in Messages, Start[j] = taken, Start[k] = taken
      PROVE  j = k
  <2>1. ASSUME NEW a \in Messages, NEW b \in Messages, a < b, Start[a] = taken, Start[b] = taken
        PROVE  FALSE
    <3>1. /\ b \in 1 .. Len(Sizes) + 1 /\ a \in 1 .. Len(Sizes) + 1
          /\ a + 1 \in 1 .. Len(Sizes) + 1
      BY MessageSizes DEF Messages
    <3>2. Start[a] < Start[a + 1] /\ Start[a + 1] <= Start[b]
      BY <2>1, <3>1, StartsInOrder
    <3>3. Start[a] \in Nat /\ Start[a + 1] \in Nat /\ Start[b] \in Nat
      BY <3>1, StartNat
    <3>4. QED BY <2>1, <3>2, <3>3
  <2>2. j \in Int /\ k \in Int
    BY DEF Messages
  <2>3. ~ (j < k) /\ ~ (k < j)
    BY <1>1, <2>1
  <2>4. QED BY <2>2, <2>3
<1>2. ASSUME NEW k \in Messages, taken = Start[k] PROVE NextMessage = k
  <2>1. \E j \in Messages : Start[j] = taken
    BY <1>2
  <2>2. NextMessage = CHOOSE j \in Messages : Start[j] = taken
    BY <2>1 DEF NextMessage
  <2>3. NextMessage \in Messages /\ Start[NextMessage] = taken
    BY <2>1, <2>2
  <2>4. QED BY <1>1, <1>2, <2>3
<1>3. CASE \E j \in Messages : Start[j] = taken
  <2>1. NextMessage \in Messages /\ Start[NextMessage] = taken
    BY <1>2, <1>3
  <2>2. QED BY <1>2, <2>1
<1>4. CASE ~ \E j \in Messages : Start[j] = taken
  <2>1. NextMessage = Garbage
    BY <1>4 DEF NextMessage
  <2>2. QED BY <1>4, <2>1
<1>5. QED BY <1>3, <1>4

\* No message starts inside another one.
LEMMA NoStartInside ==
  ASSUME NEW h \in Messages, NEW j \in Messages
  PROVE  ~ (Start[h] < Start[j] /\ Start[j] < Start[h + 1])
<1>1. SUFFICES ASSUME Start[h] < Start[j], Start[j] < Start[h + 1] PROVE FALSE
  OBVIOUS
<1>2. /\ h \in 1 .. Len(Sizes) + 1 /\ h + 1 \in 1 .. Len(Sizes) + 1 /\ h \in Int
      /\ j \in 1 .. Len(Sizes) + 1 /\ j + 1 \in 1 .. Len(Sizes) + 1 /\ j \in Int
  BY MessageSizes DEF Messages
<1>3. /\ Start[h] \in Nat /\ Start[h + 1] \in Nat
      /\ Start[j] \in Nat /\ Start[j + 1] \in Nat
  BY <1>2, StartNat
<1>4. CASE h < j
  <2>1. Start[h + 1] <= Start[j]
    BY <1>2, <1>4, StartsInOrder
  <2>2. QED BY <1>1, <1>3, <2>1
<1>5. CASE j < h
  <2>1. Start[j] < Start[j + 1] /\ Start[j + 1] <= Start[h]
    BY <1>2, <1>5, StartsInOrder
  <2>2. QED BY <1>1, <1>3, <2>1
<1>6. CASE h = j
  BY <1>1, <1>3, <1>6
<1>7. QED BY <1>2, <1>4, <1>5, <1>6

\* The messages whose header was read when t units were taken.
ReadBefore(t) == {k \in Messages : Start[k] < t}

\* Reading the header of k, and of its payload what there is, adds k and nothing else;
\* what was read before are messages before k.
LEMMA ReadOne ==
  ASSUME NEW k \in Messages, NEW t \in Nat, Start[k] < t, t <= Start[k + 1]
  PROVE  /\ ReadBefore(t) = ReadBefore(Start[k]) \cup {k}
         /\ k \notin ReadBefore(Start[k])
         /\ \A j \in ReadBefore(Start[k]) : j < k /\ Start[j + 1] <= Start[k]
<1>1. /\ k \in Nat /\ k \in 1 .. Len(Sizes) + 1 /\ k + 1 \in 1 .. Len(Sizes) + 1
      /\ \A j \in Messages : j \in Nat /\ j \in 1 .. Len(Sizes) + 1 /\ j + 1 \in 1 .. Len(Sizes) + 1
  BY MessageSizes DEF Messages
<1>2. Start[k] \in Nat /\ Start[k + 1] \in Nat
  BY <1>1, StartNat
<1>3. ASSUME NEW j \in Messages, j < k
      PROVE  Start[j] < Start[k] /\ Start[j] < t /\ Start[j + 1] <= Start[k]
  <2>1. Start[j] < Start[j + 1] /\ Start[j + 1] <= Start[k]
    BY <1>1, <1>3, StartsInOrder
  <2>2. Start[j] \in Nat /\ Start[j + 1] \in Nat
    BY <1>1, StartNat
  <2>3. QED BY <1>2, <2>1, <2>2
<1>4. ASSUME NEW j \in Messages, k < j
      PROVE  ~ (Start[j] < t) /\ ~ (Start[j] < Start[k])
  <2>1. Start[k] < Start[k + 1] /\ Start[k + 1] <= Start[j]
    BY <1>1, <1>4, StartsInOrder
  <2>2. Start[j] \in Nat
    BY <1>1, StartNat
  <2>3. QED BY <1>2, <2>1, <2>2
<1>5. \A j \in Messages : j < k \/ j = k \/ k < j
  BY <1>1
<1>6. ~ (Start[k] < Start[k])
  BY <1>2
<1>7. QED BY <1>3, <1>4, <1>5, <1>6 DEF ReadBefore

\* No message ends beyond the end of the stream.
LEMMA EndIsLast ==
  ASSUME NEW k \in 1 .. Len(Sizes) + 1
  PROVE  Start[k] <= End /\ End \in Nat
<1>1. End \in Nat
  BY StartNat, MessageSizes DEF End
<1>2. CASE k = Len(Sizes) + 1
  BY <1>1, <1>2 DEF End
<1>3. CASE k # Len(Sizes) + 1
  <2>1. /\ k \in Messages /\ Len(Sizes) + 1 \in 1 .. Len(Sizes) + 1 /\ k < Len(Sizes) + 1
        /\ k + 1 \in 1 .. Len(Sizes) + 1
    BY <1>3, MessageSizes DEF Messages
  <2>2. Start[k] < Start[k + 1] /\ Start[k + 1] <= Start[Len(Sizes) + 1]
    BY <2>1, StartsInOrder
  <2>3. Start[k] \in Nat /\ Start[k + 1] \in Nat
    BY <2>1, StartNat
  <2>4. QED BY <1>1, <2>2, <2>3 DEF End
<1>4. QED BY <1>2, <1>3

-----------------------------------------------------------------------------
(* Types *)

\* How much is read of a payload: what there is of it.
LEMMA ReadSizeRange ==
  ASSUME HeaderReady, taken \in 0 .. arrived, arrived \in Nat, NEW size \in Nat
  PROVE  /\ ReadSize(size) \in 0 .. size
         /\ taken + HeaderSize + ReadSize(size) <= arrived
         /\ Whole(size) <=> taken + HeaderSize + size <= arrived
BY DEF HeaderReady, Available, ReadSize, Whole

\* The length a plugin takes.
LEMMA AnswerRange ==
  ASSUME NEW k \in Messages \cup {Garbage}, NEW size \in Answers(k) \ {Refuse}
  PROVE  size \in Nat /\ (k # Garbage => size = Sizes[k])
<1>1. CASE k = Garbage
  BY <1>1 DEF Answers, Refuse
<1>2. CASE k # Garbage
  <2>1. k \in Messages /\ size = Sizes[k]
    BY <1>2 DEF Answers
  <2>2. QED BY <2>1, MessageSizes
<1>3. QED BY <1>1, <1>2

\* Every part of TypeOK but the positions and the message that is held.
Kinds ==
  /\ paced \in BOOLEAN
  /\ inTick \in BOOLEAN
  /\ read_state \in {"IDLE", "PAYLOAD"}
  /\ registered \subseteq Plugins
  /\ lap \in {0, 1}
  /\ delivered \in Seq(Messages \cup {Garbage})
  /\ refused \subseteq Messages /\ aborted \subseteq Messages /\ cut \subseteq Messages
  /\ forgotten \in BOOLEAN /\ framed \in BOOLEAN

Positions == taken \in 0 .. arrived /\ arrived \in 0 .. End

Holding ==
  /\ held \in Messages \cup {NoMessage, Garbage}
  /\ m_tcp_recv_payload_size \in Nat /\ m_tcp_recv_offset \in 0 .. m_tcp_recv_payload_size

LEMMA TypeParts == TypeOK <=> Kinds /\ Positions /\ Holding
BY DEF TypeOK, Kinds, Positions, Holding

LEMMA Numbers ==
  ASSUME TypeOK
  PROVE  taken \in Nat /\ arrived \in Nat /\ taken <= arrived /\ arrived <= End /\ End \in Nat
         /\ HeaderSize \in Nat \ {0}
<1>1. End \in Nat
  BY StartNat, MessageSizes DEF End
<1>2. QED BY <1>1 DEF TypeOK

\* The buffer is given up, by an abort or because the connection is new.
LEMMA NothingHeld ==
  ASSUME held' = NoMessage, m_tcp_recv_payload_size' = 0, m_tcp_recv_offset' = 0
  PROVE  Holding'
BY DEF Holding

LEMMA TypeInit == Init => TypeOK
<1> SUFFICES ASSUME Init PROVE TypeOK
  OBVIOUS
<1>1. End \in Nat
  BY StartNat, MessageSizes DEF End
<1>2. Positions
  BY <1>1 DEF Init, Connected, Positions
<1>3. Holding
  BY DEF Init, Connected, Holding
<1>4. delivered \in Seq(Messages \cup {Garbage})
  BY DEF Init, Connected
<1>5. Kinds
  BY <1>4 DEF Init, Connected, Kinds
<1>6. QED BY <1>2, <1>3, <1>5, TypeParts

LEMMA TypeArrive ==
  ASSUME TypeOK, Arrive
  PROVE  TypeOK'
<1>1. Kinds' /\ Holding'
  BY DEF Arrive, receive, fates, TypeOK, Kinds, Holding
<1>2. taken' = taken
  BY DEF Arrive
<1>3. CASE ~paced /\ arrived' = arrived + 1
  <2>1. Positions'
    BY <1>2, <1>3, Numbers DEF Arrive, Positions
  <2>2. QED BY <1>1, <2>1 DEF TypeOK, Kinds, Positions, Holding
<1>4. CASE \E k \in Messages : Start[k] = arrived /\ arrived' = Start[k + 1]
  <2>1. PICK k \in Messages : Start[k] = arrived /\ arrived' = Start[k + 1]
    BY <1>4
  <2>2. k + 1 \in 1 .. Len(Sizes) + 1 /\ k < k + 1
    BY MessageSizes DEF Messages
  <2>3. Start[k] < Start[k + 1] /\ Start[k + 1] <= End /\ Start[k + 1] \in Nat
    BY <2>2, StartsInOrder, EndIsLast, StartNat
  <2>4. Positions'
    BY <1>2, <2>1, <2>3, Numbers DEF Positions
  <2>5. QED BY <1>1, <2>4 DEF TypeOK, Kinds, Positions, Holding
<1>5. QED BY <1>3, <1>4 DEF Arrive

LEMMA TypeAccepted ==
  ASSUME TypeOK, HeaderAccepted
  PROVE  TypeOK'
<1>1. PICK size \in Answers(NextMessage) \ {Refuse} :
        /\ \E got \in 0 .. ReadSize(size) :
             /\ taken' = taken + HeaderSize + got
             /\ cut' = IF got = ReadSize(size) THEN cut
                       ELSE cut \cup ({NextMessage} \cap Messages)
        /\ \/ /\ Whole(size)
              /\ delivered' = Append(delivered, NextMessage)
              /\ held' = NoMessage
              /\ m_tcp_recv_payload_size' = 0 /\ m_tcp_recv_offset' = 0
           \/ /\ ~Whole(size)
              /\ held' = NextMessage
              /\ m_tcp_recv_payload_size' = size /\ m_tcp_recv_offset' = ReadSize(size)
              /\ UNCHANGED delivered
  BY DEF HeaderAccepted
<1>2. NextMessage \in Messages \cup {Garbage}
  BY Numbers, NextMessageAt
<1>3. size \in Nat
  BY <1>1, <1>2, AnswerRange
<1>4. HeaderReady
  BY DEF HeaderAccepted
<1>5. ReadSize(size) \in 0 .. size /\ taken + HeaderSize + ReadSize(size) <= arrived
  BY <1>3, <1>4, Numbers, ReadSizeRange
<1>6. Positions'
  <2>1. arrived' = arrived
    BY DEF HeaderAccepted
  <2>2. PICK got \in 0 .. ReadSize(size) : taken' = taken + HeaderSize + got
    BY <1>1
  <2>3. got \in Nat /\ got <= ReadSize(size)
    BY <1>5
  <2>4. QED BY <1>5, <2>1, <2>2, <2>3, Numbers DEF Positions
<1>7. Holding'
  <2>1. CASE held' = NoMessage /\ m_tcp_recv_payload_size' = 0 /\ m_tcp_recv_offset' = 0
    BY <2>1, NothingHeld
  <2>2. CASE /\ held' = NextMessage
             /\ m_tcp_recv_payload_size' = size /\ m_tcp_recv_offset' = ReadSize(size)
    BY <1>2, <1>3, <1>5, <2>2 DEF Holding
  <2>3. QED BY <1>1, <2>1, <2>2
<1>8. Kinds'
  <2>1. delivered' \in Seq(Messages \cup {Garbage})
    <3>1. delivered \in Seq(Messages \cup {Garbage})
      BY DEF TypeOK
    <3>2. Append(delivered, NextMessage) \in Seq(Messages \cup {Garbage})
      BY <1>2, <3>1
    <3>3. delivered' = Append(delivered, NextMessage) \/ delivered' = delivered
      BY <1>1
    <3>4. QED BY <3>1, <3>2, <3>3
  <2>2. cut' \subseteq Messages
    BY <1>1 DEF TypeOK
  <2>3. forgotten' \in BOOLEAN /\ framed' \in BOOLEAN /\ read_state' = "PAYLOAD"
        /\ UNCHANGED <<paced, inTick, registered, lap, refused, aborted>>
    BY DEF HeaderAccepted, TypeOK
  <2>4. QED BY <2>1, <2>2, <2>3 DEF TypeOK, Kinds
<1>9. QED BY <1>6, <1>7, <1>8, TypeParts DEF TypeOK, Kinds, Positions, Holding

LEMMA TypeNext == TypeOK /\ [Next]_vars => TypeOK'
<1> SUFFICES ASSUME TypeOK, [Next]_vars PROVE Kinds' /\ Positions' /\ Holding'
  BY DEF TypeOK, Kinds, Positions, Holding
<1> Kinds /\ Positions /\ Holding
  BY TypeParts
<1>1. CASE Arrive
  BY <1>1, TypeArrive DEF TypeOK, Kinds, Positions, Holding
<1>2. CASE Reconnect
  <2>1. Positions'
    BY <1>2, Numbers DEF Reconnect, Positions
  <2>2. Holding'
    BY <1>2, NothingHeld DEF Reconnect
  <2>3. delivered' \in Seq(Messages \cup {Garbage})
    BY <1>2 DEF Reconnect
  <2>4. Kinds'
    BY <1>2, <2>3 DEF Reconnect, Kinds
  <2>5. QED BY <2>1, <2>2, <2>4
<1>3. CASE TickEnter \/ LoopEnds \/ LoopSpins
  <2>1. Positions' /\ Holding'
    BY <1>3 DEF TickEnter, LoopEnds, LoopSpins, stream, receive, Positions, Holding
  <2>2. lap' \in {0, 1}
    BY <1>3 DEF TickEnter, LoopEnds, LoopSpins, Kinds
  <2>3. UNCHANGED <<paced, registered, fates>> /\ inTick' \in BOOLEAN
        /\ read_state' \in {"IDLE", "PAYLOAD"}
    BY <1>3 DEF TickEnter, LoopEnds, LoopSpins, Kinds
  <2>4. Kinds'
    BY <2>2, <2>3 DEF fates, Kinds
  <2>5. QED BY <2>1, <2>4
<1>4. CASE HeaderReadFails
  <2>1. Positions'
    BY <1>4 DEF HeaderReadFails, stream, Positions
  <2>2. Holding'
    BY <1>4, NothingHeld DEF HeaderReadFails, s_abort
  <2>3. Kinds'
    BY <1>4 DEF HeaderReadFails, s_abort, Kinds
  <2>4. QED BY <2>1, <2>2, <2>3
<1>5. CASE HeaderIgnored \/ HeaderRefused
  <2>1. taken' = taken + HeaderSize /\ arrived' = arrived /\ Available >= HeaderSize
    BY <1>5 DEF HeaderIgnored, HeaderRefused, HeaderReady
  <2>2. Positions'
    BY <2>1, Numbers DEF Available, Positions
  <2>3. CASE HeaderIgnored
    <3>1. Holding'
      BY <2>3 DEF HeaderIgnored, receive, Holding
    <3>2. Kinds'
      BY <2>3 DEF HeaderIgnored, Kinds
    <3>3. QED BY <2>2, <3>1, <3>2
  <2>4. CASE HeaderRefused
    <3>1. Holding'
      BY <2>4, NothingHeld DEF HeaderRefused, s_abort
    <3>2. Kinds'
      BY <2>4 DEF HeaderRefused, s_abort, Kinds
    <3>3. QED BY <2>2, <3>1, <3>2
  <2>5. QED BY <1>5, <2>3, <2>4
<1>6. CASE HeaderAccepted
  BY <1>6, TypeAccepted DEF TypeOK, Kinds, Positions, Holding
<1>7. CASE \E p \in Plugins : register_plugin(p) \/ unregister_plugin(p)
  <2>1. Positions' /\ Holding'
    BY <1>7 DEF register_plugin, unregister_plugin, stream, receive, Positions, Holding
  <2>2. Kinds'
    BY <1>7 DEF register_plugin, unregister_plugin, fates, Kinds
  <2>3. QED BY <2>1, <2>2
<1>8. CASE UNCHANGED vars
  BY <1>8 DEF vars, stream, receive, fates, Kinds, Positions, Holding
<1>9. QED BY <1>1, <1>2, <1>3, <1>4, <1>5, <1>6, <1>7, <1>8 DEF Next, Loop

\* Type correctness, for every stream and every answer of the plugins.
THEOREM TypeCorrect == Spec => []TypeOK
BY TypeInit, TypeNext, PTL DEF Spec

-----------------------------------------------------------------------------
(* Every message is accounted for *)

\* While the client is in step, a message is held exactly between the end of its header
\* and the end of its payload, no other was overwritten, and what was refused or
\* aborted was read.  Without it nothing says that a header read where a message starts
\* finds no buffer held.
Framing ==
  framed =>
    /\ ~forgotten
    /\ held # NoMessage => held \in Messages /\ Start[held] < taken /\ taken < Start[held + 1]
    /\ \A k \in refused \cup aborted : Start[k] < taken

Inv == TypeOK /\ EveryMessageAccounted /\ Framing

\* The messages of a sequence of commits.
Committed(d) == {d[i] : i \in DOMAIN d}

LEMMA AppendOne ==
  ASSUME NEW S, NEW d \in Seq(S), NEW e \in S
  PROVE  Committed(Append(d, e)) = Committed(d) \cup {e}
<1>1. /\ DOMAIN d = 1 .. Len(d) /\ Len(d) \in Nat
      /\ DOMAIN Append(d, e) = 1 .. Len(d) + 1
      /\ \A i \in 1 .. Len(d) : Append(d, e)[i] = d[i]
      /\ Append(d, e)[Len(d) + 1] = e
  OBVIOUS
<1>2. \A i \in 1 .. Len(d) + 1 : i \in 1 .. Len(d) \/ i = Len(d) + 1
  BY <1>1
<1>3. 1 .. Len(d) \subseteq 1 .. Len(d) + 1 /\ Len(d) + 1 \in 1 .. Len(d) + 1
  BY <1>1
<1>4. ASSUME NEW x \in Committed(Append(d, e)) PROVE x \in Committed(d) \cup {e}
  <2>1. PICK i \in 1 .. Len(d) + 1 : x = Append(d, e)[i]
    BY <1>1 DEF Committed
  <2>2. QED BY <1>1, <1>2, <2>1 DEF Committed
<1>5. ASSUME NEW x \in Committed(d) PROVE x \in Committed(Append(d, e))
  <2>1. PICK i \in 1 .. Len(d) : x = d[i]
    BY <1>1 DEF Committed
  <2>2. x = Append(d, e)[i] /\ i \in DOMAIN Append(d, e)
    BY <1>1, <1>3, <2>1
  <2>3. QED BY <2>2 DEF Committed
<1>6. e \in Committed(Append(d, e))
  BY <1>1, <1>3 DEF Committed
<1>7. QED BY <1>4, <1>5, <1>6

LEMMA AppendInOrder ==
  ASSUME NEW S, NEW d \in Seq(S), NEW e \in S,
         \A x \in Committed(d) : x < e,
         \A i, j \in DOMAIN d : i < j => d[i] < d[j]
  PROVE  \A i, j \in DOMAIN Append(d, e) : i < j => Append(d, e)[i] < Append(d, e)[j]
<1>1. /\ DOMAIN d = 1 .. Len(d) /\ Len(d) \in Nat
      /\ DOMAIN Append(d, e) = 1 .. Len(d) + 1
      /\ \A i \in 1 .. Len(d) : Append(d, e)[i] = d[i]
      /\ Append(d, e)[Len(d) + 1] = e
  OBVIOUS
<1>2. ASSUME NEW i \in 1 .. Len(d) + 1, NEW j \in 1 .. Len(d) + 1, i < j
      PROVE  Append(d, e)[i] < Append(d, e)[j]
  <2>1. i \in 1 .. Len(d)
    BY <1>1, <1>2
  <2>2. CASE j = Len(d) + 1
    <3>1. d[i] \in Committed(d)
      BY <1>1, <2>1 DEF Committed
    <3>2. QED BY <1>1, <2>1, <2>2, <3>1
  <2>3. CASE j # Len(d) + 1
    <3>1. j \in 1 .. Len(d)
      BY <1>1, <2>3
    <3>2. QED BY <1>1, <1>2, <2>1, <3>1
  <2>4. QED BY <2>2, <2>3
<1>3. QED BY <1>1, <1>2

\* The parts of EveryMessageAccounted, in the terms of the lemmas.
LEMMA AccountedParts ==
  EveryMessageAccounted <=>
    (framed =>
       /\ Committed(delivered) = ReadBefore(taken) \ (refused \cup aborted \cup {held})
       /\ \A i, j \in DOMAIN delivered : i < j => delivered[i] < delivered[j]
       /\ \A k \in Committed(delivered) : k \in cut \/ Start[k + 1] <= taken)
BY DEF EveryMessageAccounted, Committed, ReadBefore

\* A header read in step is that of a message, and no buffer is held then: the message
\* that is held starts before it and ends after it.
LEMMA NothingHeldAtStart ==
  ASSUME Inv, framed, NextMessage # Garbage
  PROVE  /\ NextMessage \in Messages /\ Start[NextMessage] = taken
         /\ held = NoMessage
<1>1. NextMessage \in Messages /\ Start[NextMessage] = taken
  BY Numbers, NextMessageAt DEF Inv
<1>2. SUFFICES ASSUME held # NoMessage PROVE FALSE
  BY <1>1
<1>3. held \in Messages /\ Start[held] < taken /\ taken < Start[held + 1]
  BY <1>2 DEF Inv, Framing
<1>4. QED BY <1>1, <1>3, NoStartInside

\* What the step that reads the header of k makes of the accounts, whatever is read of
\* the payload.
LEMMA ReadAccounts ==
  ASSUME Inv, framed, NextMessage # Garbage, taken' \in Nat,
         taken' > taken, taken' <= Start[NextMessage + 1]
  PROVE  /\ ReadBefore(taken)' = ReadBefore(taken) \cup {NextMessage}
         /\ NextMessage \notin ReadBefore(taken) \cup refused \cup aborted
         /\ Committed(delivered) = ReadBefore(taken) \ (refused \cup aborted)
         /\ \A k \in Committed(delivered) : k < NextMessage
         /\ \A k \in Committed(delivered) : k \in cut \/ Start[k + 1] <= taken'
         /\ \A k \in refused \cup aborted \cup {NextMessage} : Start[k] < taken'
<1> DEFINE k == NextMessage
<1>1. k \in Messages /\ Start[k] = taken /\ held = NoMessage
  BY NothingHeldAtStart
<1>2. taken \in Nat
  BY Numbers DEF Inv
<1>3. /\ ReadBefore(taken') = ReadBefore(taken) \cup {k}
      /\ k \notin ReadBefore(taken)
      /\ \A j \in ReadBefore(taken) : j < k /\ Start[j + 1] <= taken
  <2>1. Start[k] < taken' /\ taken' <= Start[k + 1]
    BY <1>1
  <2> HIDE DEF k
  <2>2. QED BY <1>1, <2>1, ReadOne
<1>4. Committed(delivered) = ReadBefore(taken) \ (refused \cup aborted)
  <2>1. Committed(delivered) = ReadBefore(taken) \ (refused \cup aborted \cup {held})
    BY AccountedParts DEF Inv
  <2>2. NoMessage \notin ReadBefore(taken)
    BY MessageSizes DEF ReadBefore, Messages, NoMessage
  <2>3. QED BY <1>1, <2>1, <2>2
<1>5. \A j \in refused \cup aborted : Start[j] < taken /\ Start[j] \in Nat
  <2>1. refused \cup aborted \subseteq 1 .. Len(Sizes) + 1
    BY MessageSizes DEF Inv, TypeOK, Messages
  <2>2. QED BY <2>1, StartNat DEF Inv, Framing
<1>6. k \notin refused \cup aborted
  BY <1>1, <1>2, <1>5
<1>7. ASSUME NEW j \in Committed(delivered) PROVE j \in cut \/ Start[j + 1] <= taken'
  <2>1. j \in ReadBefore(taken) /\ Start[j + 1] <= taken
    BY <1>3, <1>4
  <2>2. Start[j + 1] \in Nat
    BY <2>1, StartNat, MessageSizes DEF ReadBefore, Messages
  <2>3. QED BY <1>2, <2>1, <2>2
<1>8. \A j \in refused \cup aborted \cup {k} : Start[j] < taken'
  BY <1>1, <1>2, <1>5
<1>9. ReadBefore(taken)' = ReadBefore(taken')
  BY DEF ReadBefore
<1>10. QED BY <1>3, <1>4, <1>6, <1>7, <1>8, <1>9

\* The header of a message, read in step, ends before the message does.
LEMMA HeaderFits ==
  ASSUME Inv, NextMessage \in Messages, Start[NextMessage] = taken
  PROVE  /\ Start[NextMessage + 1] = taken + HeaderSize + Sizes[NextMessage]
         /\ Sizes[NextMessage] \in Nat
BY StartDefined, MessageSizes

\* A step that neither reads nor ends anything leaves the accounts as they are.
LEMMA AccountsUntouched ==
  ASSUME EveryMessageAccounted, Framing, UNCHANGED <<taken, held, fates>>
  PROVE  EveryMessageAccounted' /\ Framing'
BY DEF EveryMessageAccounted, Framing, fates

LEMMA InvInit == Init => Inv
<1> SUFFICES ASSUME Init PROVE EveryMessageAccounted /\ Framing
  BY TypeInit DEF Inv
<1>1. Framing
  BY DEF Init, Connected, Framing
<1>2. Committed(delivered) = {}
  BY DEF Init, Connected, Committed
<1>3. ReadBefore(taken) = {}
  <2>1. \A k \in Messages : Start[k] \in Nat
    BY StartNat, MessageSizes DEF Messages
  <2>2. QED BY <2>1 DEF Init, Connected, ReadBefore
<1>4. DOMAIN delivered = {}
  BY DEF Init, Connected
<1>5. EveryMessageAccounted
  BY <1>2, <1>3, <1>4, AccountedParts
<1>6. QED BY <1>1, <1>5

\* A new connection starts with empty accounts.
LEMMA ReconnectAccounts ==
  ASSUME Inv, Reconnect
  PROVE  EveryMessageAccounted' /\ Framing'
<1>1. Framing'
  BY DEF Reconnect, Framing
<1>2. Committed(delivered)' = {} /\ DOMAIN delivered' = {}
  BY DEF Reconnect, Committed
<1>3. ReadBefore(taken)' = {}
  <2>1. \A k \in Messages : Start[k] \in Nat
    BY StartNat, MessageSizes DEF Messages
  <2>2. QED BY <2>1 DEF Reconnect, ReadBefore
<1>4. EveryMessageAccounted'
  BY <1>2, <1>3 DEF EveryMessageAccounted, Committed, ReadBefore
<1>5. QED BY <1>1, <1>4

\* When a header cannot be read, the message that is held is aborted.
LEMMA FailureAccounts ==
  ASSUME Inv, HeaderReadFails
  PROVE  EveryMessageAccounted' /\ Framing'
<1>1. /\ UNCHANGED <<taken, delivered, refused, cut, forgotten, framed>>
      /\ held' = NoMessage /\ aborted' = aborted \cup ({held} \cap Messages)
  BY DEF HeaderReadFails, s_abort, stream
<1>2. NoMessage \notin Messages
  BY DEF Messages, NoMessage
<1>3. SUFFICES ASSUME framed PROVE EveryMessageAccounted' /\ Framing'
  BY <1>1 DEF EveryMessageAccounted, Framing
<1>4. held # NoMessage => held \in Messages /\ Start[held] < taken
  BY <1>3 DEF Inv, Framing
<1>5. Framing'
  <2>1. \A k \in refused \cup aborted : Start[k] < taken
    BY <1>3 DEF Inv, Framing
  <2>2. \A k \in refused' \cup aborted' : Start[k] < taken
    BY <1>1, <1>2, <1>4, <2>1
  <2>3. ~forgotten
    BY <1>3 DEF Inv, Framing
  <2>4. QED BY <1>1, <2>2, <2>3 DEF Framing
<1>6. {k \in Messages : Start[k] < taken} \ (refused \cup aborted \cup {held})
        = {k \in Messages : Start[k] < taken} \ (refused \cup aborted' \cup {NoMessage})
  BY <1>1, <1>2, <1>4
<1>7. EveryMessageAccounted'
  BY <1>1, <1>3, <1>6 DEF Inv, EveryMessageAccounted
<1>8. QED BY <1>5, <1>7

\* A message whose header is ignored or refused joins the refused ones.
LEMMA RefusalAccounts ==
  ASSUME Inv, HeaderIgnored \/ HeaderRefused
  PROVE  EveryMessageAccounted' /\ Framing'
<1>1. /\ taken' = taken + HeaderSize
      /\ refused' = refused \cup ({NextMessage} \cap Messages)
      /\ framed' = (framed /\ NextMessage # Garbage)
      /\ UNCHANGED <<delivered, cut, forgotten>>
  BY DEF HeaderIgnored, HeaderRefused
<1>2. SUFFICES ASSUME framed, NextMessage # Garbage PROVE EveryMessageAccounted' /\ Framing'
  BY <1>1 DEF EveryMessageAccounted, Framing
<1>3. NextMessage \in Messages /\ Start[NextMessage] = taken /\ held = NoMessage
  BY <1>2, NothingHeldAtStart
<1>4. held' = NoMessage /\ aborted' = aborted
  <2>1. NoMessage \notin Messages
    BY DEF Messages, NoMessage
  <2>2. CASE HeaderIgnored
    BY <1>3, <2>2 DEF HeaderIgnored, receive
  <2>3. CASE HeaderRefused
    BY <1>3, <2>1, <2>3 DEF HeaderRefused, s_abort
  <2>4. QED BY <2>2, <2>3
<1>5. taken' \in Nat /\ taken' > taken /\ taken' <= Start[NextMessage + 1]
  <2>1. taken \in Nat /\ HeaderSize \in Nat \ {0}
    BY Numbers DEF Inv
  <2>2. /\ Start[NextMessage + 1] = taken + HeaderSize + Sizes[NextMessage]
        /\ Sizes[NextMessage] \in Nat
    BY <1>3, HeaderFits
  <2>3. QED BY <1>1, <2>1, <2>2
<1>6. /\ ReadBefore(taken)' = ReadBefore(taken) \cup {NextMessage}
      /\ NextMessage \notin ReadBefore(taken) \cup refused \cup aborted
      /\ Committed(delivered) = ReadBefore(taken) \ (refused \cup aborted)
      /\ \A k \in Committed(delivered) : k \in cut \/ Start[k + 1] <= taken'
      /\ \A k \in refused \cup aborted \cup {NextMessage} : Start[k] < taken'
  BY <1>2, <1>5, ReadAccounts
<1>7. Framing'
  BY <1>1, <1>2, <1>3, <1>4, <1>6 DEF Inv, Framing
<1>8. Committed(delivered)' = ReadBefore(taken)' \ (refused' \cup aborted' \cup {held'})
  <2>1. NoMessage \notin ReadBefore(taken)'
    BY DEF ReadBefore, Messages, NoMessage
  <2>2. Committed(delivered)' = Committed(delivered)
    BY <1>1 DEF Committed
  <2>3. refused' = refused \cup {NextMessage}
    BY <1>1, <1>3
  <2>4. QED BY <1>4, <1>6, <2>1, <2>2, <2>3
<1>9. \A i, j \in DOMAIN delivered : i < j => delivered[i] < delivered[j]
  BY <1>2 DEF Inv, EveryMessageAccounted
<1>10. EveryMessageAccounted'
  BY <1>1, <1>6, <1>8, <1>9 DEF EveryMessageAccounted, Committed, ReadBefore
<1>11. QED BY <1>7, <1>10

\* A message that is accepted is committed whole, or cut, or held until its end.
LEMMA AcceptanceAccounts ==
  ASSUME Inv, HeaderAccepted
  PROVE  EveryMessageAccounted' /\ Framing'
<1> DEFINE k == NextMessage
<1>1. PICK size \in Answers(k) \ {Refuse} :
        /\ \E got \in 0 .. ReadSize(size) :
             /\ taken' = taken + HeaderSize + got
             /\ cut' = IF got = ReadSize(size) THEN cut ELSE cut \cup ({k} \cap Messages)
        /\ \/ /\ Whole(size)
              /\ delivered' = Append(delivered, k)
              /\ held' = NoMessage
           \/ /\ ~Whole(size)
              /\ held' = k
              /\ UNCHANGED delivered
  BY DEF HeaderAccepted
<1>2. /\ forgotten' = (forgotten \/ held # NoMessage)
      /\ framed' = (framed /\ k # Garbage)
      /\ UNCHANGED <<arrived, refused, aborted>>
      /\ HeaderReady
  BY DEF HeaderAccepted
<1>3. SUFFICES ASSUME framed, k # Garbage PROVE EveryMessageAccounted' /\ Framing'
  BY <1>2 DEF EveryMessageAccounted, Framing
<1>4. k \in Messages /\ Start[k] = taken /\ held = NoMessage
  BY <1>3, NothingHeldAtStart
<1>5. /\ taken \in Nat /\ HeaderSize \in Nat \ {0} /\ taken \in 0 .. arrived /\ arrived \in Nat
      /\ Start[k + 1] = taken + HeaderSize + Sizes[k] /\ Sizes[k] \in Nat
  BY <1>4, HeaderFits, Numbers DEF Inv
<1>6. size = Sizes[k] /\ size \in Nat
  BY <1>1, <1>3, <1>4, AnswerRange
<1>7. PICK got \in 0 .. ReadSize(size) :
        /\ taken' = taken + HeaderSize + got
        /\ cut' = IF got = ReadSize(size) THEN cut ELSE cut \cup {k}
  BY <1>1, <1>4
<1>8. /\ ReadSize(size) \in 0 .. size
      /\ Whole(size) => ReadSize(size) = size
      /\ ~Whole(size) => ReadSize(size) < size
  <2>1. ReadSize(size) \in 0 .. size
    BY <1>2, <1>5, <1>6, ReadSizeRange
  <2>2. QED BY <1>6, <2>1 DEF Whole
<1>9. /\ taken' \in Nat /\ taken' > taken /\ taken' <= Start[k + 1]
      /\ ~Whole(size) => taken' < Start[k + 1]
      /\ Whole(size) => k \in cut' \/ Start[k + 1] <= taken'
  BY <1>5, <1>6, <1>7, <1>8
<1>10. /\ ReadBefore(taken)' = ReadBefore(taken) \cup {k}
       /\ k \notin ReadBefore(taken) \cup refused \cup aborted
       /\ Committed(delivered) = ReadBefore(taken) \ (refused \cup aborted)
       /\ \A j \in Committed(delivered) : j < k
       /\ \A j \in Committed(delivered) : j \in cut \/ Start[j + 1] <= taken'
       /\ \A j \in refused \cup aborted \cup {k} : Start[j] < taken'
  BY <1>3, <1>9, ReadAccounts
<1>11. NoMessage \notin ReadBefore(taken)' /\ k # NoMessage
  BY <1>4 DEF ReadBefore, Messages, NoMessage
<1>12. cut \subseteq cut'
  BY <1>7
<1>13. \A i, j \in DOMAIN delivered : i < j => delivered[i] < delivered[j]
  BY <1>3 DEF Inv, EveryMessageAccounted
<1>14. \A j \in Committed(delivered) : j \in cut' \/ Start[j + 1] <= taken'
  BY <1>10, <1>12
<1>15. ~forgotten'
  BY <1>2, <1>3, <1>4 DEF Inv, Framing
<1>16. \A j \in refused' \cup aborted' : Start[j] < taken'
  BY <1>2, <1>10
<1>17. CASE Whole(size) /\ delivered' = Append(delivered, k) /\ held' = NoMessage
  <2>1. Framing'
    BY <1>15, <1>16, <1>17 DEF Framing
  <2>2. delivered \in Seq(Messages \cup {Garbage}) /\ k \in Messages \cup {Garbage}
    BY <1>4 DEF Inv, TypeOK
  <2>3. Committed(delivered') = Committed(delivered) \cup {k}
    <3> HIDE DEF k
    <3>1. QED BY <1>17, <2>2, AppendOne
  <2>4. \A i, j \in DOMAIN delivered' : i < j => delivered'[i] < delivered'[j]
    <3> HIDE DEF k
    <3>1. QED BY <1>10, <1>13, <1>17, <2>2, AppendInOrder
  <2>5. Committed(delivered') = ReadBefore(taken)' \ (refused' \cup aborted' \cup {held'})
    BY <1>2, <1>10, <1>11, <1>17, <2>3
  <2>6. \A j \in Committed(delivered') : j \in cut' \/ Start[j + 1] <= taken'
    BY <1>9, <1>14, <1>17, <2>3
  <2>7. EveryMessageAccounted'
    BY <2>4, <2>5, <2>6 DEF EveryMessageAccounted, Committed, ReadBefore
  <2>8. QED BY <2>1, <2>7
<1>18. CASE ~Whole(size) /\ held' = k /\ UNCHANGED delivered
  <2>1. Framing'
    BY <1>4, <1>9, <1>10, <1>15, <1>16, <1>18 DEF Framing
  <2>2. Committed(delivered') = ReadBefore(taken)' \ (refused' \cup aborted' \cup {held'})
    BY <1>2, <1>10, <1>18
  <2>3. EveryMessageAccounted'
    BY <1>13, <1>14, <1>18, <2>2 DEF EveryMessageAccounted, Committed, ReadBefore
  <2>4. QED BY <2>1, <2>3
<1>19. QED BY <1>1, <1>17, <1>18

LEMMA InvNext == Inv /\ [Next]_vars => Inv'
<1> SUFFICES ASSUME Inv, [Next]_vars PROVE EveryMessageAccounted' /\ Framing'
  BY TypeNext DEF Inv
<1>1. CASE \/ Arrive \/ TickEnter \/ LoopEnds \/ LoopSpins \/ UNCHANGED vars
           \/ \E p \in Plugins : register_plugin(p) \/ unregister_plugin(p)
  <2>1. UNCHANGED <<taken, held, fates>>
    BY <1>1 DEF Arrive, TickEnter, LoopEnds, LoopSpins, register_plugin, unregister_plugin,
                vars, stream, receive
  <2>2. QED BY <2>1, AccountsUntouched DEF Inv
<1>2. CASE Reconnect
  BY <1>2, ReconnectAccounts
<1>3. CASE HeaderReadFails
  BY <1>3, FailureAccounts
<1>4. CASE HeaderIgnored \/ HeaderRefused
  BY <1>4, RefusalAccounts
<1>5. CASE HeaderAccepted
  BY <1>5, AcceptanceAccounts
<1>6. QED BY <1>1, <1>2, <1>3, <1>4, <1>5 DEF Next, Loop

\* While every header was read where a message starts, each message whose header was
\* read is delivered whole and in order, or was refused or aborted, or is awaited.
THEOREM AllAccounted == Spec => []EveryMessageAccounted
<1>1. Inv => EveryMessageAccounted
  BY DEF Inv
<1>2. QED BY InvInit, InvNext, <1>1, PTL DEF Spec

\* While every header was read where a message starts, no buffer that a plugin acquired
\* is overwritten before the plugin was told.
THEOREM NeverForgotten == Spec => []BufferNeverForgotten
<1>1. Inv => BufferNeverForgotten
  BY DEF Inv, Framing, BufferNeverForgotten
<1>2. QED BY InvInit, InvNext, <1>1, PTL DEF Spec

-----------------------------------------------------------------------------
(* A peer that waits for each message to be taken *)

\* Such a peer has sent nothing that was not taken, or exactly one message: nothing of it
\* was taken, or it was refused and its payload lies on the socket.  The loop that read a
\* payload has read all there is.
Pace ==
  paced /\ framed /\ cut = {} =>
    /\ \/ taken = arrived
       \/ \E k \in Messages :
            /\ arrived = Start[k + 1]
            /\ taken = Start[k] \/ (k \in refused /\ Sizes[k] # 0 /\ Start[k] < taken)
    /\ inTick /\ read_state = "PAYLOAD" => taken = arrived

PaceInv == TypeOK /\ PacedFramed /\ Pace

\* The header that such a peer's client reads is that of the one message that was sent,
\* unless the payload of a refused message is taken for one.
LEMMA PacedHeader ==
  ASSUME PaceInv, HeaderReady, paced, framed, cut = {}
  PROVE  \/ /\ NextMessage \in Messages /\ Start[NextMessage] = taken
            /\ arrived = Start[NextMessage + 1]
         \/ NextMessage = Garbage /\ \E k \in refused : Sizes[k] # 0
<1>1. taken \in Nat /\ arrived \in Nat /\ taken < arrived
  BY Numbers DEF PaceInv, HeaderReady, Available
<1>2. PICK k \in Messages :
        /\ arrived = Start[k + 1]
        /\ taken = Start[k] \/ (k \in refused /\ Sizes[k] # 0 /\ Start[k] < taken)
  BY <1>1 DEF PaceInv, Pace
<1>3. CASE taken = Start[k]
  <2>1. NextMessage = k
    BY <1>1, <1>3, NextMessageAt
  <2>2. QED BY <1>2, <1>3, <2>1
<1>4. CASE k \in refused /\ Sizes[k] # 0 /\ Start[k] < taken
  <2>1. SUFFICES ASSUME NextMessage # Garbage PROVE FALSE
    BY <1>4
  <2>2. NextMessage \in Messages /\ Start[NextMessage] = taken
    BY <1>1, <2>1, NextMessageAt
  <2>3. QED BY <1>1, <1>2, <1>4, <2>2, NoStartInside
<1>5. QED BY <1>2, <1>3, <1>4

LEMMA PaceArrive ==
  ASSUME PaceInv, Arrive
  PROVE  PacedFramed' /\ Pace'
<1>1. PacedFramed'
  BY DEF Arrive, fates, PaceInv, PacedFramed
<1>2. ASSUME paced PROVE Pace'
  <2>1. PICK k \in Messages : Start[k] = arrived /\ arrived' = Start[k + 1]
    BY <1>2 DEF Arrive
  <2>2. taken' = Start[k] /\ ~inTick'
    BY <1>2, <2>1 DEF Arrive
  <2>3. QED BY <2>1, <2>2 DEF Pace
<1>3. ASSUME ~paced PROVE Pace'
  BY <1>3 DEF Arrive, Pace
<1>4. QED BY <1>1, <1>2, <1>3

\* A header that is ignored or refused.
LEMMA PaceRefusal ==
  ASSUME PaceInv, HeaderIgnored \/ HeaderRefused
  PROVE  PacedFramed' /\ Pace'
<1>1. /\ taken' = taken + HeaderSize
      /\ refused' = refused \cup ({NextMessage} \cap Messages)
      /\ framed' = (framed /\ NextMessage # Garbage)
      /\ UNCHANGED <<paced, arrived, read_state, cut>>
      /\ HeaderReady
  BY DEF HeaderIgnored, HeaderRefused
<1>2. PacedFramed'
  <2>1. SUFFICES ASSUME paced, cut = {}, \A k \in refused : Sizes[k] = 0
                 PROVE  framed'
    BY <1>1 DEF PacedFramed
  <2>2. framed
    BY <2>1 DEF PaceInv, PacedFramed
  <2>3. NextMessage \in Messages
    BY <1>1, <2>1, <2>2, PacedHeader
  <2>4. NextMessage # Garbage
    BY <2>3 DEF Messages, Garbage
  <2>5. QED BY <1>1, <2>2, <2>4
<1>3. Pace'
  <2>1. SUFFICES ASSUME paced, framed, cut = {}, NextMessage # Garbage
                 PROVE  \E k \in Messages :
                          /\ arrived = Start[k + 1]
                          /\ \/ taken' = arrived
                             \/ k \in refused' /\ Sizes[k] # 0 /\ Start[k] < taken'
    <3>1. read_state' = "IDLE"
      BY <1>1 DEF HeaderReady
    <3>2. QED BY <1>1, <3>1 DEF Pace
  <2>2. NextMessage \in Messages /\ Start[NextMessage] = taken /\ arrived = Start[NextMessage + 1]
    BY <1>1, <2>1, PacedHeader
  <2>3. arrived = taken + HeaderSize + Sizes[NextMessage] /\ Sizes[NextMessage] \in Nat
    BY <2>2, StartDefined, MessageSizes
  <2>4. taken \in Nat /\ HeaderSize \in Nat \ {0}
    BY Numbers DEF PaceInv
  <2>5. NextMessage \in refused'
    BY <1>1, <2>2
  <2>6. CASE Sizes[NextMessage] = 0
    <3>1. taken' = arrived
      BY <1>1, <2>3, <2>4, <2>6
    <3>2. QED BY <2>2, <3>1
  <2>7. CASE Sizes[NextMessage] # 0
    <3>1. Start[NextMessage] < taken'
      BY <1>1, <2>2, <2>4
    <3>2. QED BY <2>2, <2>5, <2>7, <3>1
  <2>8. QED BY <2>6, <2>7
<1>4. QED BY <1>2, <1>3

\* A message that is accepted is there whole, and is read whole unless the read fails.
LEMMA PaceAccepted ==
  ASSUME PaceInv, HeaderAccepted
  PROVE  PacedFramed' /\ Pace'
<1>1. /\ framed' = (framed /\ NextMessage # Garbage)
      /\ UNCHANGED <<paced, arrived, inTick, refused>>
      /\ HeaderReady
  BY DEF HeaderAccepted
<1>2. PICK size \in Answers(NextMessage) \ {Refuse} : \E got \in 0 .. ReadSize(size) :
        /\ taken' = taken + HeaderSize + got
        /\ cut' = IF got = ReadSize(size) THEN cut
                  ELSE cut \cup ({NextMessage} \cap Messages)
  BY DEF HeaderAccepted
<1>3. cut \subseteq cut'
  BY <1>2
<1>4. PacedFramed'
  <2>1. SUFFICES ASSUME paced, cut = {}, \A k \in refused : Sizes[k] = 0
                 PROVE  framed'
    BY <1>1, <1>3 DEF PacedFramed
  <2>2. framed
    BY <2>1 DEF PaceInv, PacedFramed
  <2>3. NextMessage \in Messages
    BY <1>1, <2>1, <2>2, PacedHeader
  <2>4. NextMessage # Garbage
    BY <2>3 DEF Messages, Garbage
  <2>5. QED BY <1>1, <2>2, <2>4
<1>5. Pace'
  <2>1. SUFFICES ASSUME paced, framed, cut' = {}, NextMessage # Garbage
                 PROVE  taken' = arrived
    BY <1>1 DEF Pace
  <2>2. NextMessage \in Messages /\ Start[NextMessage] = taken /\ arrived = Start[NextMessage + 1]
    BY <1>1, <1>3, <2>1, PacedHeader
  <2>3. arrived = taken + HeaderSize + Sizes[NextMessage] /\ Sizes[NextMessage] \in Nat
    BY <2>2, StartDefined, MessageSizes
  <2>4. taken \in Nat /\ HeaderSize \in Nat \ {0}
    BY Numbers DEF PaceInv
  <2>5. size = Sizes[NextMessage]
    BY <1>2, <2>1, <2>2, AnswerRange
  <2>6. ReadSize(size) = size
    BY <2>3, <2>4, <2>5 DEF ReadSize, Available
  <2>7. taken' = taken + HeaderSize + size
    BY <1>2, <2>1, <2>2, <2>6
  <2>8. QED BY <2>3, <2>5, <2>7
<1>6. QED BY <1>4, <1>5

LEMMA PaceNext == PaceInv /\ [Next]_vars => PaceInv'
<1> SUFFICES ASSUME PaceInv, [Next]_vars PROVE PacedFramed' /\ Pace'
  BY TypeNext DEF PaceInv
<1>1. CASE \/ LoopSpins \/ UNCHANGED vars
           \/ \E p \in Plugins : register_plugin(p) \/ unregister_plugin(p)
  <2>1. UNCHANGED <<paced, stream, inTick, read_state, fates>>
    BY <1>1 DEF LoopSpins, register_plugin, unregister_plugin, vars
  <2>2. QED BY <2>1 DEF stream, fates, PaceInv, PacedFramed, Pace
<1>2. CASE TickEnter \/ LoopEnds \/ HeaderReadFails
  <2>1. /\ UNCHANGED <<paced, taken, arrived, refused, cut, framed>>
        /\ ~inTick' \/ read_state' = "IDLE"
    BY <1>2 DEF TickEnter, LoopEnds, HeaderReadFails, stream, fates
  <2>2. QED BY <2>1 DEF PaceInv, PacedFramed, Pace
<1>3. CASE Reconnect
  BY <1>3 DEF Reconnect, PacedFramed, Pace
<1>4. CASE Arrive
  BY <1>4, PaceArrive
<1>5. CASE HeaderIgnored \/ HeaderRefused
  BY <1>5, PaceRefusal
<1>6. CASE HeaderAccepted
  BY <1>6, PaceAccepted
<1>7. QED BY <1>1, <1>2, <1>3, <1>4, <1>5, <1>6 DEF Next, Loop

LEMMA PaceInit == Init => PaceInv
<1> SUFFICES ASSUME Init PROVE PacedFramed /\ Pace
  BY TypeInit DEF PaceInv
<1>1. PacedFramed
  BY DEF Init, Connected, PacedFramed
<1>2. Pace
  BY DEF Init, Connected, Pace
<1>3. QED BY <1>1, <1>2

\* A peer that waits for each message to be taken keeps the client in step, as long as no
\* read of a payload fails and no message that has a payload is refused.
THEOREM PacedStaysFramed == Spec => []PacedFramed
<1>1. PaceInv => PacedFramed
  BY DEF PaceInv
<1>2. QED BY PaceInit, PaceNext, <1>1, PTL DEF Spec

\* With such a peer, and while it is in step, every iteration of the loop ends the tick or
\* takes something off the socket, and nothing else moves during a tick: a tick ends after
\* at most as many iterations as there is on the socket, and one.  What keeps a tick from
\* returning (TickReturns) cannot happen.
PacedTickIsBounded ==
  [][paced /\ framed /\ cut = {} /\ inTick
       => ~inTick' \/ (0 <= Available' /\ Available' < Available)]_vars

\* For every stream, a tick of the client of such a peer is bounded.
THEOREM TicksBounded == Spec => PacedTickIsBounded
<1>1. ASSUME PaceInv, (0 <= Available)', Next, paced, framed, cut = {}, inTick
      PROVE  ~inTick' \/ (0 <= Available' /\ Available' < Available)
  <2>1. 0 <= Available'
    BY <1>1
  <2>2. /\ taken \in Nat /\ arrived \in Nat /\ HeaderSize \in Nat \ {0}
        /\ taken \in 0 .. arrived
    BY <1>1, Numbers DEF PaceInv
  <2>3. CASE HeaderIgnored
    <3>1. taken' = taken + HeaderSize /\ arrived' = arrived
      BY <2>3 DEF HeaderIgnored
    <3>2. QED BY <2>1, <2>2, <3>1 DEF Available
  <2>4. CASE HeaderAccepted
    <3>1. arrived' = arrived /\ HeaderReady
      BY <2>4 DEF HeaderAccepted
    <3>2. PICK size \in Answers(NextMessage) \ {Refuse} : \E got \in 0 .. ReadSize(size) :
            taken' = taken + HeaderSize + got
      BY <2>4 DEF HeaderAccepted
    <3>3. size \in Nat
      BY <2>2, <3>2, NextMessageAt, AnswerRange
    <3>4. PICK got \in 0 .. ReadSize(size) : taken' = taken + HeaderSize + got
      BY <3>2
    <3>5. got \in Nat
      BY <2>2, <3>1, <3>3, <3>4, ReadSizeRange
    <3>6. QED BY <2>1, <2>2, <3>1, <3>4, <3>5 DEF Available
  <2>5. CASE LoopSpins
    <3>1. taken = arrived
      BY <1>1, <2>5 DEF PaceInv, Pace, LoopSpins
    <3>2. QED BY <2>2, <2>5, <3>1 DEF LoopSpins, Available
  <2>6. CASE LoopEnds \/ HeaderReadFails \/ HeaderRefused
    BY <2>6 DEF LoopEnds, HeaderReadFails, HeaderRefused
  <2>7. CASE \/ Arrive \/ Reconnect \/ TickEnter
             \/ \E p \in Plugins : register_plugin(p) \/ unregister_plugin(p)
    BY <1>1, <2>7 DEF Arrive, Reconnect, TickEnter, register_plugin, unregister_plugin
  <2>8. QED BY <1>1, <2>3, <2>4, <2>5, <2>6, <2>7 DEF Next, Loop
<1>2. PaceInv => 0 <= Available
  BY Numbers DEF PaceInv, Available
<1>3. PaceInv /\ (0 <= Available)' /\ [Next]_vars =>
        [paced /\ framed /\ cut = {} /\ inTick =>
           ~inTick' \/ (0 <= Available' /\ Available' < Available)]_vars
  BY <1>1
<1>4. QED BY PaceInit, PaceNext, <1>2, <1>3, PTL DEF Spec, PacedTickIsBounded
================================================================================
