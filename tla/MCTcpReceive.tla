----------------------------- MODULE MCTcpReceive ----------------------------
EXTENDS TcpReceive

\* A message that fits in no single unit, an empty one, and one for each answer the
\* first of two plugins may give.
MCSizes   == <<2, 0, 1, 1>>
MCAccepts == <<{1, 2}, {1, 2}, {2}, {1}>>

\* Any plugin takes any message.
MCTakenSizes   == <<2, 0, 1, 3>>
MCTakenAccepts == [k \in 1 .. 4 |-> Plugins]
=============================================================================
