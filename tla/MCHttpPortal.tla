---------------------------- MODULE MCHttpPortal ---------------------------
(***************************************************************************)
(* An instance of HttpPortal for TLC.  Requests meet at the listener only; *)
(* two of them are one that is served and one that is left offering.       *)
(***************************************************************************)
EXTENDS HttpPortal

CONSTANTS r1, r2

MCRequests == {r1, r2}
=============================================================================
