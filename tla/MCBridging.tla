----------------------------- MODULE MCBridging ----------------------------
(***************************************************************************)
(* Instances of Bridging for TLC.  Two messages for each direction are     *)
(* enough for one to be read and the next to wait while the bridge closes. *)
(***************************************************************************)
EXTENDS Bridging
=============================================================================
