----------------------------- MODULE MCStartup -----------------------------
(***************************************************************************)
(* An instance of Startup for TLC.  Four items are two dialers and two     *)
(* listeners, or one of each array that listens; two names are one that is *)
(* taken and another one.  Names are interchangeable.                      *)
(***************************************************************************)
EXTENDS Startup, TLC

CONSTANTS n1, n2

MCNames == {n1, n2}
Symmetry == Permutations(MCNames)
=============================================================================
