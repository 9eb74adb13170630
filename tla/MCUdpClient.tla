----------------------------- MODULE MCUdpClient -----------------------------
EXTENDS UdpClient, TLC

\* A header of two units; type 1 is taken by both plugins, but plugin 0 offers too
\* little for a payload of 2; type 2 is taken by plugin 1 only.
Datagram(size, magic, payload, type) ==
  [size |-> size, magic |-> magic, payload |-> payload, type |-> type]
DatagramsDef == {
  Datagram(1, TRUE, 0, 1),     \* shorter than a header
  Datagram(3, FALSE, 1, 1),    \* another protocol
  Datagram(4, TRUE, 1, 1),     \* announces less than it holds
  Datagram(3, TRUE, 2, 1),     \* announces more than it holds
  Datagram(3, TRUE, 1, 1), Datagram(4, TRUE, 2, 1),
  Datagram(2, TRUE, 0, 2)}
OffersDef == (0 :> (1 :> 1 @@ 2 :> Refuse)) @@ (1 :> (1 :> 2 @@ 2 :> 0))
=============================================================================
