-------------------------- MODULE HttpPortalProofs -------------------------
(***************************************************************************)
(* Proofs about HttpPortal for any set of requests: its types, that no     *)
(* handler returns under a write, that none leaves a connection open which *)
(* nobody has, and that one that waits is woken.                           *)
(***************************************************************************)
EXTENDS HttpPortal, TLAPS

-----------------------------------------------------------------------------
(* The invariant of one request: the connection begins its life when it is *)
(* accepted; the channel w.done is closed with the connection and only     *)
(* then; whoever writes does so to an open connection, whose handler       *)
(* waits, and so the mutex keeps it waiting.                               *)

Fresh(r) == handler[r] \in {"none", "offering"} => ~accepted[r] /\ ~closed[r]

Counted(r) == doneCount[r] = IF kind = "http" /\ closed[r] THEN 1 ELSE 0

Waits(r) ==
  /\ handler[r] = "waiting" => kind = "http"
  /\ handler[r] = "returned" => closed[r] \/ (kind = "websocket" /\ accepted[r])

Writes(r) == writer[r] = "writing" => kind = "http" /\ accepted[r] /\ ~closed[r]

Inv(r) == Fresh(r) /\ Counted(r) /\ Waits(r) /\ Writes(r)

IInv == TypeOK /\ \A r \in Requests : Inv(r)

\* IInv holds for a route that is new.
LEMMA InitIInv == Init => IInv
<1> SUFFICES ASSUME Init PROVE IInv
  OBVIOUS
<1>1. TypeOK
  <2>1. 0 \in 0..1
    OBVIOUS
  <2> QED
    BY <2>1 DEF Init, TypeOK
<1>2. ASSUME NEW r \in Requests PROVE Inv(r)
  <2>1. /\ accepted[r] = FALSE /\ closed[r] = FALSE /\ doneCount[r] = 0
        /\ handler[r] = "none" /\ writer[r] = "idle"
    BY DEF Init
  <2>2. Fresh(r)
    BY <2>1 DEF Fresh
  <2>3. Counted(r)
    BY <2>1 DEF Counted
  <2>4. Waits(r) /\ Writes(r)
    BY <2>1 DEF Waits, Writes
  <2> QED
    BY <2>2, <2>3, <2>4 DEF Inv
<1> QED
  BY <1>1, <1>2 DEF IInv

\* Every step of a handler, of the portal or of a client keeps IInv.
LEMMA NextIInv == IInv /\ [Next]_vars => IInv'
<1> SUFFICES ASSUME IInv, [Next]_vars PROVE IInv'
  OBVIOUS
<1> USE DEF IInv, TypeOK, Inv, Fresh, Counted, Waits, Writes
<1>1. ASSUME NEW r \in Requests, Start(r) PROVE IInv'
  BY <1>1 DEF Start
<1>2. ASSUME NEW r \in Requests, Refuse(r) PROVE IInv'
  BY <1>2 DEF Refuse, Shut
<1>3. ASSUME NEW r \in Requests, Accept(r) PROVE IInv'
  BY <1>3 DEF Accept
<1>4. ASSUME NEW r \in Requests, Return(r) PROVE IInv'
  BY <1>4 DEF Return
<1>5. ASSUME NEW r \in Requests, Leave(r) PROVE IInv'
  BY <1>5 DEF Leave
<1>6. ASSUME NEW r \in Requests, CloseConn(r) PROVE IInv'
  BY <1>6 DEF CloseConn, Shut, MutexFree
<1>7. ASSUME NEW r \in Requests, Write(r) PROVE IInv'
  BY <1>7 DEF Write
<1>8. ASSUME NEW r \in Requests, WriteOk(r) PROVE IInv'
  BY <1>8 DEF WriteOk
<1>9. ASSUME NEW r \in Requests, WriteFails(r) PROVE IInv'
  BY <1>9 DEF WriteFails, Shut
<1>10. ASSUME NEW r \in Requests, Flush(r) PROVE IInv'
  BY <1>10 DEF Flush
<1>11. CASE Close
  BY <1>11 DEF Close
<1>12. CASE ClosePortal
  BY <1>12 DEF ClosePortal
<1>13. CASE UNCHANGED vars
  BY <1>13 DEF vars
<1> QED
  BY <1>1, <1>2, <1>3, <1>4, <1>5, <1>6, <1>7, <1>8, <1>9, <1>10, <1>11, <1>12, <1>13 DEF Next

LEMMA Invariance == Spec => []IInv
BY InitIInv, NextIInv, PTL DEF Spec

-----------------------------------------------------------------------------

\* Every variable keeps its type; no request closes its channel twice.
THEOREM TypeCorrect == Spec => []TypeOK
BY Invariance, PTL DEF IInv

\* Whoever closes the connection, a handler returns only when no Write of
\* http2PortalWriter is under way.
THEOREM PortalResponseAlive == Spec => []ResponseAlive
<1>1. IInv => ResponseAlive
  BY DEF IInv, Inv, Waits, Writes, ResponseAlive
<1> QED
  BY <1>1, Invariance, PTL

\* A handler that has returned leaves nothing open but a websocket that the
\* portal has accepted.
THEOREM PortalNoOrphan == Spec => []NoOrphan
<1>1. IInv => NoOrphan
  BY DEF IInv, Inv, Waits, NoOrphan
<1> QED
  BY <1>1, Invariance, PTL

\* A handler that waits is woken by the close of its connection, whoever closes
\* it (the portal, or a write that fails), and by nothing else.
Woken == \A r \in Requests : handler[r] = "waiting" => (closed[r] <=> doneCount[r] > 0)

\* wc.Wait of a handler returns when its connection is closed and not before.
THEOREM PortalHandlerWoken == Spec => []Woken
<1>1. IInv => Woken
  BY DEF IInv, Inv, Waits, Counted, Woken
<1> QED
  BY <1>1, Invariance, PTL
=============================================================================
