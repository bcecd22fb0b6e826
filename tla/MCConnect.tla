----------------------------- MODULE MCConnect -----------------------------
(***************************************************************************)
(* Instances of Connect for TLC.  Two calls share one dialer, so Close     *)
(* meets them at different places; a third call adds no new pair.          *)
(***************************************************************************)
EXTENDS Connect

CONSTANTS c1, c2

MCCalls == {c1, c2}
=============================================================================
