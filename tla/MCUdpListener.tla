--------------------------- MODULE MCUdpListener ---------------------------
(***************************************************************************)
(* Instances of UdpListener for TLC.  Queues of two can be read out of     *)
(* order, and three datagrams make every way to drop one happen.           *)
(***************************************************************************)
EXTENDS UdpListener

CONSTANTS a, b, s1, s2

MCClients == {a, b}
MCSessions == {s1, s2}
=============================================================================
