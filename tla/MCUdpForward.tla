---------------------------- MODULE MCUdpForward ---------------------------
(***************************************************************************)
(* Instances of UdpForward for TLC.  Sessions of different clients share   *)
(* only Serve, which handles one datagram at a time, and the mutex; so the *)
(* runs have one client.  Two sessions are one to be closed and one to be  *)
(* made meanwhile; three datagrams are one to make a session, one that     *)
(* finds it closing and one that comes after.                              *)
(***************************************************************************)
EXTENDS UdpForward

CONSTANTS a, s1, s2

MCClients == {a}
MCSessions == {s1, s2}
=============================================================================
