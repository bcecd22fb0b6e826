---------------------------- MODULE MCUdpStream ----------------------------
(***************************************************************************)
(* An instance of UdpStream for TLC.  Three datagrams, of which one may be *)
(* empty and one too long, are enough for a frame to be cut in its header, *)
(* in its body and between two frames, and for two to be in one slice.     *)
(***************************************************************************)
EXTENDS UdpStream
=============================================================================
