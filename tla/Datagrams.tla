----------------------------- MODULE Datagrams -----------------------------
(***************************************************************************)
(* What a connection promises that carries datagrams over a stream: those  *)
(* taken at one end come out at the other one whole, each once and in the  *)
(* order in which they were taken, and all of them if both ends stay open. *)
(***************************************************************************)
EXTENDS Sequences

CONSTANT Data  \* the datagrams

VARIABLES
  underway,   \* taken and not delivered
  delivered,  \* the datagrams that came out
  open        \* neither end is closed

vars == <<underway, delivered, open>>

Init == underway = <<>> /\ delivered = <<>> /\ open = TRUE

\* The taking end does not know that the other one is closed.
Take(d) ==
  /\ underway' = Append(underway, d)
  /\ UNCHANGED <<delivered, open>>

\* A datagram on its way may still come out after the close.
Deliver ==
  /\ underway # <<>>
  /\ delivered' = Append(delivered, Head(underway))
  /\ underway' = Tail(underway)
  /\ UNCHANGED open

Close ==
  /\ open' = FALSE
  /\ UNCHANGED <<underway, delivered>>

Next == (\E d \in Data : Take(d)) \/ Deliver \/ Close

Spec == Init /\ [][Next]_vars /\ WF_vars(open /\ Deliver)
=============================================================================
