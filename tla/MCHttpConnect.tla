--------------------------- MODULE MCHttpConnect ---------------------------
(***************************************************************************)
(* Instances of HttpConnect for TLC.  The calls of a dialer meet in Close  *)
(* only, which MCConnect checks for two of them; here one call has more    *)
(* goroutines of its own.                                                  *)
(***************************************************************************)
EXTENDS HttpConnect

CONSTANT c1

MCCalls == {c1}
=============================================================================
