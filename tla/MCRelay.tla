------------------------------ MODULE MCRelay ------------------------------
(***************************************************************************)
(* An instance of Relay for TLC.  Connections meet at the loop only; one   *)
(* of them is served while the loop goes on, backs off once and is closed. *)
(* Three units are a header, a body and what follows.                      *)
(***************************************************************************)
EXTENDS Relay

CONSTANTS c1

MCConns == {c1}
=============================================================================
