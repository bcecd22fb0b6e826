--------------------------- MODULE ConnectProofs ---------------------------
(***************************************************************************)
(* Proofs about Connect and HttpConnect for any set of calls, any number   *)
(* of retries, with and without deadlines.                                 *)
(*                                                                         *)
(* Connect: its types, that it leaks no connection, that neither of its    *)
(* goroutines waits for one that has gone, and that it implements the      *)
(* safety part of Handoff.  HttpConnect: it takes no step that Connect     *)
(* does not take and so implements Handoff too, the stream of a caller     *)
(* outlives its call, every other request is cancelled, and none is left   *)
(* alone.                                                                  *)
(***************************************************************************)
EXTENDS HttpConnect, TLAPS

-----------------------------------------------------------------------------
(* The goroutines of one call, related to the connection between them.  A  *)
(* connection exists only while the worker offers it or the caller has it. *)

Begun(c) ==
  /\ caller[c] = "idle" <=> worker[c] = "none"
  /\ caller[c] = "returned" <=> result[c] # "none"

Held(c) ==
  /\ conn[c] = "open" <=> (result[c] = "conn" \/ (worker[c] = "offering" /\ conn[c] # "none"))
  /\ conn[c] = "closed" => worker[c] = "exited"
  /\ result[c] = "conn" => worker[c] = "exited"

\* Neither goroutine leaves the other at its select without a ready case, and
\* the worker offers an error early only when one of the channels is ready.
Stopped(c) ==
  /\ worker[c] = "exited" => result[c] # "none" \/ done \/ ctxDone[c]
  /\ caller[c] = "returned" => worker[c] = "exited" \/ done \/ ctxDone[c]
  /\ worker[c] = "offering" /\ conn[c] = "none" => attempt[c] = Retries \/ done \/ ctxDone[c]

\* The loop goes round again only while a retry is left.
Within(c) ==
  /\ attempt[c] <= Retries
  /\ worker[c] \in {"failed", "redialing"} => attempt[c] < Retries

IInv ==
  /\ TypeOK
  /\ \A c \in Calls : Begun(c) /\ Held(c) /\ Stopped(c) /\ Within(c)

\* IInv holds when the dialer is made.
LEMMA InitIInv == Init => IInv
<1> SUFFICES ASSUME Init PROVE IInv
  OBVIOUS
<1>1. TypeOK
  <2>1. 0 \in 0..Retry
    BY RetryAssumption
  <2> QED
    BY <2>1 DEF Init, TypeOK
<1>2. ASSUME NEW c \in Calls PROVE Begun(c) /\ Held(c) /\ Stopped(c) /\ Within(c)
  BY RetryAssumption DEF Init, Begun, Held, Stopped, Within, Retries
<1> QED
  BY <1>1, <1>2 DEF IInv

\* Every step of a goroutine, a deadline or Close keeps IInv.
LEMMA NextIInv == IInv /\ [Next]_vars => IInv'
<1> SUFFICES ASSUME IInv, [Next]_vars PROVE IInv'
  OBVIOUS
<1> USE RetryAssumption DEF optionVars, Retries, IInv, TypeOK, Begun, Held, Stopped, Within
<1>1. ASSUME NEW c \in Calls, Start(c) PROVE IInv'
  BY <1>1 DEF Start
<1>2. ASSUME NEW c \in Calls, CallerClosed(c) PROVE IInv'
  BY <1>2 DEF CallerClosed, Return
<1>3. ASSUME NEW c \in Calls, CallerCtx(c) PROVE IInv'
  BY <1>3 DEF CallerCtx, Return
<1>4. ASSUME NEW c \in Calls, Deliver(c) PROVE IInv'
  BY <1>4 DEF Deliver, Return
<1>5. ASSUME NEW c \in Calls, DialOk(c) PROVE IInv'
  BY <1>5 DEF DialOk
<1>6. ASSUME NEW c \in Calls, DialFail(c) PROVE IInv'
  BY <1>6 DEF DialFail
<1>7. ASSUME NEW c \in Calls, GiveUp(c) PROVE IInv'
  BY <1>7 DEF GiveUp
<1>8. ASSUME NEW c \in Calls, GoOn(c) \/ Redial(c) PROVE IInv'
  BY <1>8 DEF GoOn, Redial
<1>9. ASSUME NEW c \in Calls, Abandon(c) PROVE IInv'
  BY <1>9 DEF Abandon
<1>10. ASSUME NEW c \in Calls, CtxDone(c) PROVE IInv'
  BY <1>10 DEF CtxDone
<1>11. CASE Close
  BY <1>11 DEF Close
<1>12. CASE UNCHANGED vars
  BY <1>12 DEF vars
<1> QED
  BY <1>1, <1>2, <1>3, <1>4, <1>5, <1>6, <1>7, <1>8, <1>9, <1>10, <1>11, <1>12
  DEF Next, CallerStep, WorkerStep, DialEnds

LEMMA Invariance == Spec => []IInv
BY InitIInv, NextIInv, PTL DEF Spec

\* Every variable keeps its type.
THEOREM TypeCorrect == Spec => []TypeOK
BY Invariance, PTL DEF IInv

\* A finished call leaves a connection open exactly when its caller holds it.
THEOREM ConnectNoLeak == Spec => []NoLeak
<1>1. IInv => NoLeak
  BY DEF IInv, TypeOK, Held, NoLeak
<1> QED
  BY <1>1, Invariance, PTL

\* With a worker a dial error is reported only after the last of the configured
\* retries or after a stop.
THEOREM ConnectErrorIsFinal == Spec => ErrorIsFinal
<1>1. ASSUME IInv, [Next]_vars, NEW c \in Calls, ~inline, result[c] = "none", result'[c] = "error"
      PROVE  attempt[c] = Retry \/ done \/ ctxDone[c]
  <2>1. PICK d \in Calls : Deliver(d) \/ CallerClosed(d) \/ CallerCtx(d)
    BY <1>1 DEF IInv, TypeOK, Next, vars, Start, CallerStep, WorkerStep, DialEnds, DialOk,
                DialFail, GiveUp, GoOn, Redial, Abandon, CtxDone, Close
  <2>2. Deliver(c) /\ conn[c] # "open"
    BY <1>1, <2>1 DEF IInv, TypeOK, Deliver, CallerClosed, CallerCtx, Return
  <2>3. Stopped(c) /\ Held(c) /\ conn[c] \in {"none", "open", "closed"}
    BY <1>1 DEF IInv, TypeOK
  <2>4. worker[c] = "offering" /\ conn[c] = "none"
    BY <2>2, <2>3 DEF Deliver, Held
  <2> QED
    BY <1>1, <2>3, <2>4 DEF Stopped, Retries
<1>2. IInv /\ [Next]_vars =>
        [\A c \in Calls : ~inline /\ result[c] = "none" /\ result'[c] = "error" =>
                           attempt[c] = Retry \/ done \/ ctxDone[c]]_vars
  BY <1>1
<1> QED
  BY <1>2, Invariance, PTL DEF Spec, ErrorIsFinal

\* Once the caller of c has returned, with i dials repeated, the worker is at
\* most on its way to one more dial or has begun it, and goes round no more.
Late(c, i) ==
  /\ caller[c] = "returned"
  /\ attempt[c] <= i \/ (attempt[c] = i + 1 /\ worker[c] # "redialing")

\* No step takes it further: the next check finds the dialer closed or the
\* context done, see Stopped.
LEMMA NextLate ==
  ASSUME NEW c \in Calls, NEW i \in 0..Retry, IInv, [Next]_vars, Late(c, i)
  PROVE  Late(c, i)'
<1>0. /\ attempt \in [Calls -> 0..Retry] /\ i \in Nat
      /\ worker \in [Calls -> {"none", "dialing", "failed", "redialing", "offering", "exited"}]
      /\ caller \in [Calls -> {"idle", "waiting", "returned"}]
      /\ caller[c] = "returned" /\ Stopped(c)
  BY RetryAssumption DEF IInv, TypeOK, Late
<1>1. caller'[c] = "returned"
  BY <1>0 DEF Next, vars, CallerStep, WorkerStep, DialEnds, Start, CallerClosed, CallerCtx, Deliver,
              Return, DialOk, DialFail, GiveUp, GoOn, Redial, Abandon, CtxDone, Close
<1>2. ~GoOn(c)
  BY <1>0 DEF Stopped, GoOn
<1>3. ASSUME NEW d \in Calls, Redial(d) PROVE Late(c, i)'
  <2>1. d # c => attempt'[c] = attempt[c] /\ worker'[c] = worker[c]
    BY <1>0, <1>3 DEF Redial
  <2>2. d = c => attempt[c] <= i /\ attempt'[c] = attempt[c] + 1 /\ worker'[c] = "dialing"
    BY <1>0, <1>3 DEF Redial, Late
  <2>3. attempt[c] \in Nat
    BY <1>0, RetryAssumption
  <2> QED
    BY <1>0, <1>1, <2>1, <2>2, <2>3 DEF Late
<1>4. ASSUME \A d \in Calls : ~Redial(d) PROVE Late(c, i)'
  <2>1. attempt' = attempt
    BY <1>4 DEF Next, vars, CallerStep, WorkerStep, DialEnds, Start, CallerClosed, CallerCtx, Deliver,
                Return, DialOk, DialFail, GiveUp, GoOn, Abandon, CtxDone, Close
  <2>2. worker'[c] = "redialing" => worker[c] = "redialing"
    BY <1>0, <1>2, <1>4 DEF Next, vars, CallerStep, WorkerStep, DialEnds, Start, CallerClosed,
       CallerCtx, Deliver, Return, DialOk, DialFail, GiveUp, GoOn, Abandon, CtxDone, Close
  <2> QED
    BY <1>1, <2>1, <2>2 DEF Late
<1> QED
  BY <1>3, <1>4

\* For a caller that has returned at most one more dial is begun.
THEOREM ConnectOneLateDial == Spec => OneLateDial
<1>1. ASSUME NEW c \in Calls, NEW i \in 0..Retry
      PROVE  Spec => [](caller[c] = "returned" /\ attempt[c] = i => [](attempt[c] <= i + 1))
  <2>1. IInv /\ caller[c] = "returned" /\ attempt[c] = i => Late(c, i)
    BY RetryAssumption DEF Late
  <2>2. IInv /\ Late(c, i) => attempt[c] <= i + 1
    BY RetryAssumption DEF IInv, TypeOK, Late
  <2>3. IInv /\ Late(c, i) /\ [Next]_vars => Late(c, i)'
    BY NextLate
  <2> QED
    BY <2>1, <2>2, <2>3, Invariance, PTL DEF Spec
<1> QED
  BY <1>1 DEF OneLateDial

-----------------------------------------------------------------------------
(* The two selects of a call.  The channel of the result has no buffer, so *)
(* each goroutine needs the other, or a channel that is closed.            *)

\* A select of the call has a ready case, whether or not the other side comes.
Stops(c) == ~inline /\ (done \/ ctxDone[c])

\* Who waits for the result has a worker that still brings one, and who brings
\* it somebody who takes it, or else there is another way out.
SelectsMeet ==
  \A c \in Calls :
    /\ caller[c] = "waiting" => worker[c] \in {"dialing", "failed", "redialing", "offering"} \/ Stops(c)
    /\ worker[c] = "offering" => caller[c] = "waiting" \/ Stops(c)

\* A SocksDialer is one goroutine.
OneGoroutine == \A c \in Calls : inline => (worker[c] = "exited" <=> caller[c] = "returned")

\* It waits and dials, and takes no way out but the end of the dial.
LEMMA NextOneGoroutine == IInv /\ OneGoroutine /\ [Next]_vars => OneGoroutine'
<1> SUFFICES ASSUME IInv, OneGoroutine, [Next]_vars PROVE OneGoroutine'
  OBVIOUS
<1> USE DEF IInv, TypeOK, OneGoroutine, optionVars
<1>1. ASSUME NEW c \in Calls, Start(c) PROVE OneGoroutine'
  BY <1>1 DEF Start, Begun
<1>2. ASSUME NEW c \in Calls, CallerClosed(c) \/ CallerCtx(c) \/ Deliver(c) PROVE OneGoroutine'
  BY <1>2 DEF CallerClosed, CallerCtx, Deliver, Return
<1>3. ASSUME NEW c \in Calls, DialOk(c) \/ DialFail(c) \/ GiveUp(c) \/ GoOn(c) \/ Redial(c)
      PROVE  OneGoroutine'
  BY <1>3, ZenonT(60) DEF DialOk, DialFail, GiveUp, GoOn, Redial
<1>4. ASSUME NEW c \in Calls, Abandon(c) \/ CtxDone(c) PROVE OneGoroutine'
  BY <1>4 DEF Abandon, CtxDone
<1>5. CASE Close \/ UNCHANGED vars
  BY <1>5 DEF Close, vars
<1> QED
  BY <1>1, <1>2, <1>3, <1>4, <1>5 DEF Next, CallerStep, WorkerStep, DialEnds

\* Of two goroutines the one that has left has stopped the other, see Stopped.
LEMMA Meeting == IInv /\ OneGoroutine => SelectsMeet
<1> SUFFICES ASSUME IInv, OneGoroutine, NEW c \in Calls
             PROVE  /\ caller[c] = "waiting" =>
                         worker[c] \in {"dialing", "failed", "redialing", "offering"} \/ Stops(c)
                    /\ worker[c] = "offering" => caller[c] = "waiting" \/ Stops(c)
  BY DEF SelectsMeet
<1>1. /\ caller[c] \in {"idle", "waiting", "returned"}
      /\ worker[c] \in {"none", "dialing", "failed", "redialing", "offering", "exited"}
      /\ inline \in BOOLEAN
  BY DEF IInv, TypeOK
<1>2. Begun(c) /\ Stopped(c) /\ (inline => (worker[c] = "exited" <=> caller[c] = "returned"))
  BY DEF IInv, OneGoroutine
<1> QED
  BY <1>1, <1>2 DEF Begun, Stopped, Stops

\* Neither goroutine of a call waits at its select for one that has gone.
THEOREM ConnectSelectsMeet == Spec => []SelectsMeet
<1>1. Init => OneGoroutine
  BY DEF Init, OneGoroutine
<1> QED
  BY <1>1, NextOneGoroutine, Meeting, Invariance, PTL DEF Spec

-----------------------------------------------------------------------------
(* The refinement.  A step of one call changes the abstract state of that  *)
(* call only.                                                              *)

\* The abstract step that each step of Connect is.
LEMMA StepRefines == IInv /\ [Next]_vars => [H!Next]_(H!vars)
<1> SUFFICES ASSUME IInv, [Next]_vars PROVE H!Next \/ UNCHANGED H!vars
  OBVIOUS
<1> USE DEF IInv, TypeOK, Begun, Held, answerOf, streamOf
<1>1. ASSUME NEW c \in Calls, Start(c) PROVE H!Ask(c)
  BY <1>1 DEF Start, H!Ask
<1>2. ASSUME NEW c \in Calls, CallerClosed(c) \/ CallerCtx(c) PROVE H!Refuse(c)
  <2>1. PICK r \in {"ErrClosed", "ctxErr"} :
            /\ caller[c] = "waiting"
            /\ caller' = [caller EXCEPT ![c] = "returned"]
            /\ result' = [result EXCEPT ![c] = r]
            /\ conn' = conn
    BY <1>2 DEF CallerClosed, CallerCtx, Return
  <2>2. result[c] # "conn"
    BY <2>1
  <2> QED
    BY <2>1, <2>2 DEF H!Refuse
<1>3. ASSUME NEW c \in Calls, Deliver(c) PROVE H!Give(c) \/ H!Refuse(c)
  <2>1. CASE conn[c] = "open"
    BY <1>3, <2>1 DEF Deliver, Return, H!Give
  <2>2. CASE conn[c] # "open"
    BY <1>3, <2>2 DEF Deliver, Return, H!Refuse
  <2> QED
    BY <2>1, <2>2
<1>4. ASSUME NEW c \in Calls, DialOk(c) PROVE H!Open(c)
  BY <1>4 DEF DialOk, H!Open
<1>5. ASSUME NEW c \in Calls, Abandon(c) PROVE H!Release(c) \/ UNCHANGED H!vars
  <2>1. CASE conn[c] = "open"
    BY <1>5, <2>1 DEF Abandon, H!Release
  <2>2. CASE conn[c] # "open"
    BY <1>5, <2>2 DEF Abandon, H!vars
  <2> QED
    BY <2>1, <2>2
<1>6. ASSUME NEW c \in Calls, DialFail(c) \/ GiveUp(c) \/ GoOn(c) \/ Redial(c) \/ CtxDone(c)
      PROVE  UNCHANGED H!vars
  BY <1>6 DEF DialFail, GiveUp, GoOn, Redial, CtxDone, H!vars
<1>7. Close \/ UNCHANGED vars => UNCHANGED H!vars
  BY DEF Close, vars, H!vars
<1> QED
  BY <1>1, <1>2, <1>3, <1>4, <1>5, <1>6, <1>7
  DEF Next, CallerStep, WorkerStep, DialEnds, H!Next

\* Connect implements the safety part of Handoff: one answer for each call,
\* and a stream that is given or released.
THEOREM ConnectHandsOff == Spec => HandoffSafe
<1>1. Init => H!Init
  BY DEF Init, H!Init, answerOf, streamOf
<1> QED
  BY <1>1, StepRefines, Invariance, PTL DEF Spec, HandoffSafe, H!Spec

-----------------------------------------------------------------------------
(* HttpConnect and Connect.                                                *)

\* Every step of HttpConnect is one of Connect or leaves its variables alone.
LEMMA HttpStep == [HttpNext]_allVars => [Next]_vars
<1> SUFFICES ASSUME [HttpNext]_allVars PROVE [Next]_vars
  OBVIOUS
<1>1. ASSUME NEW c \in Calls,
             FirstCall(c) \/ NextCall(c) \/ CallReady(c) \/ HttpAbandon(c) \/ Outer(c)
      PROVE  Next
  BY <1>1 DEF FirstCall, NextCall, CallReady, TakeStream, TakeError, CallEnds, HttpAbandon, Outer,
              Next, CallerStep, WorkerStep, DialEnds
<1>2. ASSUME NEW c \in Calls, NEW i \in Attempts, RequestEnds(c, i) \/ RequestAbandons(c, i)
      PROVE  UNCHANGED vars
  BY <1>2 DEF RequestEnds, RequestOk, RequestFails, RequestAbandons
<1>3. HttpClose => Next
  BY DEF HttpClose, Next
<1>4. UNCHANGED allVars => UNCHANGED vars
  BY DEF allVars
<1> QED
  BY <1>1, <1>2, <1>3, <1>4 DEF HttpNext

\* The dialer over http implements the safety part of Connect, and with it what
\* Connect is proved to promise.
THEOREM HttpImplementsConnect == HttpSpec => Init /\ [][Next]_vars
<1>1. HttpInit => Init
  BY DEF HttpInit
<1> QED
  BY <1>1, HttpStep, PTL DEF HttpSpec

\* A call over http hands off its stream and leaks no connection like one of
\* the other dialers.
THEOREM HttpHandsOff == HttpSpec => HandoffSafe /\ []NoLeak
<1>1. HttpInit => Init /\ IInv /\ H!Init
  BY InitIInv DEF HttpInit, Init, H!Init, answerOf, streamOf
<1>2. IInv /\ [HttpNext]_allVars => IInv' /\ [H!Next]_(H!vars)
  BY HttpStep, NextIInv, StepRefines
<1>3. IInv => NoLeak
  BY DEF IInv, TypeOK, Held, NoLeak
<1> QED
  BY <1>1, <1>2, <1>3, PTL DEF HttpSpec, HandoffSafe, H!Spec

-----------------------------------------------------------------------------
(* The invariant of attempt i of call c.                                   *)

HttpTypes ==
  /\ request \in [Calls -> [Attempts -> {"none", "requesting", "offering", "exited"}]]
  /\ cancelled \in [Calls -> [Attempts -> BOOLEAN]]
  /\ stream \in [Calls -> [Attempts -> {"none", "open", "closed"}]]

\* Requests are made one after the other, and each makes its own stream.
Made(c, i) ==
  /\ request[c][i] = "none" <=> worker[c] = "none" \/ i > attempt[c]
  /\ request[c][i] = "none" => ~cancelled[c][i]
  /\ request[c][i] \in {"none", "requesting"} => stream[c][i] = "none"

\* A stream outlives its request goroutine when the worker or its caller has
\* it, and then nobody has cancelled the request.
Kept(c, i) ==
  /\ request[c][i] = "exited" /\ stream[c][i] = "open" => i = attempt[c] /\ conn[c] = "open"
  /\ i = attempt[c] /\ conn[c] = "open" =>
       request[c][i] = "exited" /\ stream[c][i] = "open" /\ ~cancelled[c][i]

\* A request that was made and is not cancelled is the one that the worker
\* waits for or that made the connection.
Watched(c, i) ==
  /\ request[c][i] # "none" /\ ~cancelled[c][i] =>
       i = attempt[c] /\ (worker[c] = "dialing" \/ conn[c] = "open")
  /\ i = attempt[c] /\ worker[c] = "dialing" /\ cancelled[c][i] => request[c][i] = "exited"

HInv ==
  /\ IInv /\ HttpTypes
  /\ \A c \in Calls : worker[c] = "none" => attempt[c] = 0
  /\ \A c \in Calls, i \in Attempts : Made(c, i) /\ Kept(c, i) /\ Watched(c, i)

\* HInv holds when the dialer is made.
LEMMA InitHInv == HttpInit => HInv
<1> SUFFICES ASSUME HttpInit PROVE HInv
  OBVIOUS
<1>1. IInv
  BY InitIInv DEF HttpInit
<1>2. HttpTypes
  BY DEF HttpInit, HttpTypes
<1>3. ASSUME NEW c \in Calls PROVE worker[c] = "none" /\ attempt[c] = 0 /\ conn[c] = "none"
  BY DEF HttpInit, Init
<1>4. ASSUME NEW c \in Calls, NEW i \in Attempts
      PROVE  request[c][i] = "none" /\ ~cancelled[c][i] /\ stream[c][i] = "none"
  BY DEF HttpInit
<1> QED
  BY <1>1, <1>2, <1>3, <1>4 DEF HInv, Made, Kept, Watched

\* Every step keeps the invariant: c is the call that takes it, and of each
\* attempt it is said what changes.
LEMMA NextHInv == HInv /\ [HttpNext]_allVars => HInv'
<1> SUFFICES ASSUME HInv, [HttpNext]_allVars PROVE HInv'
  OBVIOUS
<1>i. IInv'
  BY HttpStep, NextIInv DEF HInv
<1>a. Attempts \subseteq Nat /\ \A c \in Calls : attempt[c] \in Attempts
  BY RetryAssumption DEF HInv, IInv, TypeOK, Attempts
<1>c. \A c \in Calls : conn[c] = "open" => worker[c] \in {"offering", "exited"}
  BY DEF HInv, IInv, Held
<1>1. ASSUME NEW c \in Calls, FirstCall(c) PROVE HInv'
  <2>1. /\ caller[c] = "idle" /\ worker[c] = "none" /\ attempt[c] = 0 /\ 0 \in Attempts
        /\ worker' = [worker EXCEPT ![c] = "dialing"]
        /\ request' = [request EXCEPT ![c][0] = "requesting"]
        /\ UNCHANGED <<attempt, conn, cancelled, stream>>
    BY <1>1, <1>a DEF FirstCall, Start, Call, HInv, IInv, Begun
  <2>2. HttpTypes'
    BY <2>1 DEF HInv, HttpTypes
  <2>3. ASSUME NEW d \in Calls, NEW i \in Attempts PROVE Made(d, i)' /\ Kept(d, i)' /\ Watched(d, i)'
    <3>1. CASE d = c
      <4>1. request'[c][i] = (IF i = 0 THEN "requesting" ELSE request[c][i])
        BY <2>1 DEF HInv, HttpTypes
      <4>2. worker'[c] = "dialing" /\ conn[c] # "open"
        BY <2>1, <1>c DEF HInv, IInv, TypeOK
      <4> QED
        BY <3>1, <4>1, <4>2, <2>1, <1>a DEF HInv, Made, Kept, Watched
    <3>2. CASE d # c
      BY <3>2, <2>1 DEF HInv, HttpTypes, IInv, TypeOK, Made, Kept, Watched
    <3> QED
      BY <3>1, <3>2
  <2> QED
    BY <1>i, <2>1, <2>2, <2>3 DEF HInv, IInv, TypeOK
<1>2. ASSUME NEW c \in Calls, NextCall(c) PROVE HInv'
  <2>1. /\ worker[c] = "redialing" /\ attempt[c] + 1 \in Attempts /\ conn[c] # "open"
        /\ worker' = [worker EXCEPT ![c] = "dialing"]
        /\ attempt' = [attempt EXCEPT ![c] = @ + 1]
        /\ request' = [request EXCEPT ![c][attempt[c] + 1] = "requesting"]
        /\ UNCHANGED <<conn, cancelled, stream>>
    <3>1. /\ worker[c] = "redialing"
          /\ worker' = [worker EXCEPT ![c] = "dialing"]
          /\ attempt' = [attempt EXCEPT ![c] = @ + 1]
          /\ request' = [request EXCEPT ![c][attempt[c] + 1] = "requesting"]
          /\ UNCHANGED <<conn, cancelled, stream>>
      BY <1>2 DEF NextCall, Redial, Call
    <3>2. attempt[c] + 1 \in Attempts
      BY <3>1, <1>a, RetryAssumption DEF HInv, IInv, TypeOK, Within, Retries, Attempts
    <3> QED
      BY <3>1, <3>2, <1>c
  <2>2. HttpTypes'
    BY <2>1 DEF HInv, HttpTypes
  <2>3. ASSUME NEW d \in Calls, NEW i \in Attempts PROVE Made(d, i)' /\ Kept(d, i)' /\ Watched(d, i)'
    <3>1. CASE d = c
      <4>1. request'[c][i] = (IF i = attempt[c] + 1 THEN "requesting" ELSE request[c][i])
        BY <2>1 DEF HInv, HttpTypes
      <4>2. worker'[c] = "dialing" /\ attempt'[c] = attempt[c] + 1
        BY <2>1 DEF HInv, IInv, TypeOK
      <4>3. Made(c, i) /\ Kept(c, i) /\ Watched(c, i)
        BY DEF HInv
      <4>4. Made(c, i)'
        BY <4>1, <4>2, <4>3, <2>1, <1>a DEF Made
      <4>5. Kept(c, i)'
        BY <4>1, <4>2, <4>3, <2>1, <1>a DEF Kept
      <4>6. Watched(c, i)'
        BY <4>1, <4>2, <4>3, <2>1, <1>a DEF Made, Watched
      <4> QED
        BY <3>1, <4>4, <4>5, <4>6
    <3>2. CASE d # c
      BY <3>2, <2>1 DEF HInv, HttpTypes, IInv, TypeOK, Made, Kept, Watched
    <3> QED
      BY <3>1, <3>2
  <2> QED
    BY <1>i, <2>1, <2>2, <2>3 DEF HInv, IInv, TypeOK
<1>3. ASSUME NEW c \in Calls, TakeStream(c) PROVE HInv'
  <2>1. /\ worker[c] = "dialing" /\ request[c][attempt[c]] = "offering" /\ stream[c][attempt[c]] = "open"
        /\ worker' = [worker EXCEPT ![c] = "offering"] /\ conn' = [conn EXCEPT ![c] = "open"]
        /\ request' = [request EXCEPT ![c][attempt[c]] = "exited"]
        /\ UNCHANGED <<attempt, cancelled, stream>>
    BY <1>3, <1>a, <1>c DEF TakeStream, DialOk, HInv, IInv, TypeOK
  <2>2. HttpTypes'
    BY <2>1 DEF HInv, HttpTypes
  <2>3. ASSUME NEW d \in Calls, NEW i \in Attempts PROVE Made(d, i)' /\ Kept(d, i)' /\ Watched(d, i)'
    <3>1. CASE d = c
      <4>1. Made(c, i) /\ Kept(c, i) /\ Watched(c, i)
        BY DEF HInv
      <4>2. /\ request'[c][i] = (IF i = attempt[c] THEN "exited" ELSE request[c][i])
            /\ worker'[c] = "offering" /\ conn'[c] = "open"
        BY <2>1 DEF HInv, HttpTypes, IInv, TypeOK
      <4>3. Made(c, i)'
        BY <4>1, <4>2, <2>1, <1>a DEF Made
      <4>4. Kept(c, i)'
        BY <4>1, <4>2, <2>1, <1>a DEF Made, Kept, Watched
      <4>5. Watched(c, i)'
        BY <4>1, <4>2, <2>1, <1>a DEF Made, Kept, Watched
      <4> QED
        BY <3>1, <4>3, <4>4, <4>5
    <3>2. CASE d # c
      BY <3>2, <2>1 DEF HInv, HttpTypes, IInv, TypeOK, Made, Kept, Watched
    <3> QED
      BY <3>1, <3>2
  <2> QED
    BY <1>i, <2>1, <2>2, <2>3 DEF HInv, IInv, TypeOK
<1>4. ASSUME NEW c \in Calls, TakeError(c) PROVE HInv'
  <2>1. /\ worker[c] = "dialing" /\ conn[c] # "open"
        /\ request[c][attempt[c]] = "offering" /\ stream[c][attempt[c]] = "none"
        /\ worker' \in {[worker EXCEPT ![c] = w] : w \in {"offering", "failed"}}
        /\ request' = [request EXCEPT ![c][attempt[c]] = "exited"]
        /\ cancelled' = [cancelled EXCEPT ![c][attempt[c]] = TRUE]
        /\ UNCHANGED <<attempt, conn, stream>>
    BY <1>4, <1>a, <1>c DEF TakeError, DialFail, HInv, IInv, TypeOK
  <2>2. HttpTypes'
    BY <2>1 DEF HInv, HttpTypes
  <2>3. ASSUME NEW d \in Calls, NEW i \in Attempts PROVE Made(d, i)' /\ Kept(d, i)' /\ Watched(d, i)'
    <3>1. CASE d = c
      <4>1. Made(c, i) /\ Kept(c, i) /\ Watched(c, i)
        BY DEF HInv
      <4>2. /\ request'[c][i] = (IF i = attempt[c] THEN "exited" ELSE request[c][i])
            /\ cancelled'[c][i] = (IF i = attempt[c] THEN TRUE ELSE cancelled[c][i])
            /\ worker'[c] \in {"offering", "failed"}
        BY <2>1, ZenonT(60) DEF HInv, HttpTypes, IInv, TypeOK
      <4>3. Made(c, i)'
        BY <4>1, <4>2, <2>1, <1>a DEF Made
      <4>4. Kept(c, i)'
        BY <4>1, <4>2, <2>1, <1>a DEF Made, Kept, Watched
      <4>5. Watched(c, i)'
        BY <4>1, <4>2, <2>1, <1>a DEF Made, Kept, Watched
      <4> QED
        BY <3>1, <4>3, <4>4, <4>5
    <3>2. CASE d # c
      BY <3>2, <2>1 DEF HInv, HttpTypes, IInv, TypeOK, Made, Kept, Watched
    <3> QED
      BY <3>1, <3>2
  <2> QED
    BY <1>i, <2>1, <2>2, <2>3 DEF HInv, IInv, TypeOK
<1>5. ASSUME NEW c \in Calls, CallEnds(c) PROVE HInv'
  <2>1. /\ worker[c] = "dialing" /\ conn[c] # "open"
        /\ worker' \in {[worker EXCEPT ![c] = w] : w \in {"offering", "failed"}}
        /\ cancelled' = [cancelled EXCEPT ![c][attempt[c]] = TRUE]
        /\ UNCHANGED <<attempt, conn, request, stream>>
    BY <1>5, <1>a, <1>c DEF CallEnds, DialFail, HInv, IInv, TypeOK
  <2>2. HttpTypes'
    BY <2>1 DEF HInv, HttpTypes
  <2>3. ASSUME NEW d \in Calls, NEW i \in Attempts PROVE Made(d, i)' /\ Kept(d, i)' /\ Watched(d, i)'
    <3>1. CASE d = c
      <4>1. Made(c, i) /\ Kept(c, i) /\ Watched(c, i)
        BY DEF HInv
      <4>2. /\ cancelled'[c][i] = (IF i = attempt[c] THEN TRUE ELSE cancelled[c][i])
            /\ worker'[c] \in {"offering", "failed"}
        BY <2>1 DEF HInv, HttpTypes, IInv, TypeOK
      <4>3. Made(c, i)'
        BY <4>1, <4>2, <2>1, <1>a DEF Made
      <4>4. Kept(c, i)'
        BY <4>1, <4>2, <2>1, <1>a DEF Made, Kept, Watched
      <4>5. Watched(c, i)'
        BY <4>1, <4>2, <2>1, <1>a DEF Made, Kept, Watched
      <4> QED
        BY <3>1, <4>3, <4>4, <4>5
    <3>2. CASE d # c
      BY <3>2, <2>1 DEF HInv, HttpTypes, IInv, TypeOK, Made, Kept, Watched
    <3> QED
      BY <3>1, <3>2
  <2> QED
    BY <1>i, <2>1, <2>2, <2>3 DEF HInv, IInv, TypeOK
<1>6. ASSUME NEW c \in Calls, HttpAbandon(c) PROVE HInv'
  <2>1. /\ worker[c] = "offering" /\ worker' = [worker EXCEPT ![c] = "exited"]
        /\ conn' = [conn EXCEPT ![c] = IF @ = "open" THEN "closed" ELSE @]
        /\ UNCHANGED <<attempt, request>>
        /\ IF conn[c] = "open"
           THEN /\ stream' = [stream EXCEPT ![c][attempt[c]] = "closed"]
                /\ cancelled' = [cancelled EXCEPT ![c][attempt[c]] = TRUE]
           ELSE UNCHANGED <<cancelled, stream>>
    BY <1>6 DEF HttpAbandon, Abandon, CloseStream
  <2>t. /\ stream \in [Calls -> [Attempts -> {"none", "open", "closed"}]]
        /\ cancelled \in [Calls -> [Attempts -> BOOLEAN]]
    BY DEF HInv, HttpTypes
  <2>c. ASSUME conn[c] = "open"
        PROVE  /\ stream' \in [Calls -> [Attempts -> {"none", "open", "closed"}]]
               /\ \A d \in Calls, i \in Attempts :
                    stream'[d][i] = IF d = c /\ i = attempt[c] THEN "closed" ELSE stream[d][i]
    <3>1. stream' = [stream EXCEPT ![c][attempt[c]] = "closed"]
      BY <2>1, <2>c
    <3> QED
      BY <3>1, <2>t, <1>a
  <2>d. ASSUME conn[c] = "open"
        PROVE  /\ cancelled' \in [Calls -> [Attempts -> BOOLEAN]]
               /\ \A d \in Calls, i \in Attempts :
                    cancelled'[d][i] = IF d = c /\ i = attempt[c] THEN TRUE ELSE cancelled[d][i]
    <3>1. cancelled' = [cancelled EXCEPT ![c][attempt[c]] = TRUE]
      BY <2>1, <2>d
    <3>2. cancelled \in [Calls -> [Attempts -> BOOLEAN]] /\ attempt[c] \in Attempts
      BY <2>t, <1>a
    <3> QED
      BY <3>1, <3>2
  <2>2. HttpTypes'
    <3>1. CASE conn[c] = "open"
      <4>1. stream' \in [Calls -> [Attempts -> {"none", "open", "closed"}]]
        BY <2>c, <3>1
      <4>2. cancelled' \in [Calls -> [Attempts -> BOOLEAN]]
        BY <2>d, <3>1
      <4> QED
        BY <2>1, <4>1, <4>2 DEF HInv, HttpTypes
    <3>2. CASE ~(conn[c] = "open")
      BY <2>1, <3>2 DEF HInv, HttpTypes
    <3> QED
      BY <3>1, <3>2
  <2>3. ASSUME NEW d \in Calls, NEW i \in Attempts PROVE Made(d, i)' /\ Kept(d, i)' /\ Watched(d, i)'
    <3> DEFINE Here == d = c /\ i = attempt[c] /\ conn[c] = "open"
    <3>1. Made(d, i) /\ Kept(d, i) /\ Watched(d, i)
      BY DEF HInv
    <3>2. /\ stream'[d][i] = (IF Here THEN "closed" ELSE stream[d][i])
          /\ cancelled'[d][i] = (IF Here THEN TRUE ELSE cancelled[d][i])
      <4>1. CASE conn[c] = "open"
        <5>1. stream'[d][i] = (IF Here THEN "closed" ELSE stream[d][i])
          BY <2>c, <4>1
        <5>2. cancelled'[d][i] = (IF Here THEN TRUE ELSE cancelled[d][i])
          BY <2>d, <4>1
        <5> QED
          BY <5>1, <5>2
      <4>2. CASE conn[c] # "open"
        BY <2>1, <4>2 DEF HInv, HttpTypes
      <4> QED
        BY <4>1, <4>2
    <3>3. worker'[d] = (IF d = c THEN "exited" ELSE worker[d])
      BY <2>1 DEF HInv, IInv, TypeOK
    <3>4. conn'[d] = (IF d = c /\ conn[c] = "open" THEN "closed" ELSE conn[d])
      BY <2>1 DEF HInv, IInv, TypeOK
    <3>5. Made(d, i)'
      BY <3>1, <3>2, <3>3, <2>1, <1>a DEF Made, Kept
    <3>6. Kept(d, i)'
      BY <3>1, <3>2, <3>4, <2>1 DEF Kept
    <3>7. Watched(d, i)'
      BY <3>1, <3>2, <3>3, <3>4, <2>1 DEF Kept, Watched
    <3> QED
      BY <3>5, <3>6, <3>7
  <2> QED
    BY <1>i, <2>1, <2>2, <2>3 DEF HInv, IInv, TypeOK
<1>7. ASSUME NEW c \in Calls, Outer(c) PROVE HInv'
  <2>1. /\ worker[c] # "dialing" \/ worker' = worker
        /\ worker' = worker \/ \E w \in {"redialing", "offering", "exited"} :
             worker[c] \in {"failed", "offering"} /\ worker' = [worker EXCEPT ![c] = w]
        /\ UNCHANGED <<attempt, conn, request, cancelled, stream>>
    BY <1>7 DEF Outer, CallerStep, CallerClosed, CallerCtx, Deliver, Return, GiveUp, GoOn,
       CtxDone, httpVars
  <2>2. ASSUME NEW d \in Calls
        PROVE  /\ worker'[d] = "none" <=> worker[d] = "none"
               /\ worker'[d] = "dialing" <=> worker[d] = "dialing"
    BY <2>1 DEF HInv, IInv, TypeOK
  <2>3. ASSUME NEW d \in Calls, NEW i \in Attempts PROVE Made(d, i)' /\ Kept(d, i)' /\ Watched(d, i)'
    BY <2>1, <2>2 DEF HInv, Made, Kept, Watched
  <2> QED
    BY <1>i, <2>1, <2>2, <2>3 DEF HInv, HttpTypes
<1>8. ASSUME NEW c \in Calls, NEW j \in Attempts, RequestEnds(c, j) PROVE HInv'
  <2>1. /\ request[c][j] = "requesting" /\ stream[c][j] = "none"
        /\ request' = [request EXCEPT ![c][j] = "offering"]
        /\ stream' \in {stream, [stream EXCEPT ![c][j] = "open"]}
        /\ UNCHANGED <<worker, attempt, conn, cancelled>>
    BY <1>8 DEF RequestEnds, RequestOk, RequestFails, vars, HInv, Made
  <2>t. /\ request \in [Calls -> [Attempts -> {"none", "requesting", "offering", "exited"}]]
        /\ stream \in [Calls -> [Attempts -> {"none", "open", "closed"}]]
    BY DEF HInv, HttpTypes
  <2>2. HttpTypes'
    <3>1. CASE stream' = stream
      BY <2>1, <3>1 DEF HInv, HttpTypes
    <3>2. CASE stream' = [stream EXCEPT ![c][j] = "open"]
      <4>1. request' \in [Calls -> [Attempts -> {"none", "requesting", "offering", "exited"}]]
        <5>1. request' = [request EXCEPT ![c][j] = "offering"]
          BY <2>1
        <5> QED
          BY <5>1, <2>t
      <4>2. stream' \in [Calls -> [Attempts -> {"none", "open", "closed"}]]
        BY <3>2, <2>t
      <4> QED
        BY <2>1, <4>1, <4>2 DEF HInv, HttpTypes
    <3> QED
      BY <2>1, <3>1, <3>2
  <2>3. ASSUME NEW d \in Calls, NEW i \in Attempts PROVE Made(d, i)' /\ Kept(d, i)' /\ Watched(d, i)'
    <3>1. Made(d, i) /\ Kept(d, i) /\ Watched(d, i)
      BY DEF HInv
    <3>2. /\ request'[d][i] = (IF d = c /\ i = j THEN "offering" ELSE request[d][i])
          /\ d # c \/ i # j => stream'[d][i] = stream[d][i]
      BY <2>1 DEF HInv, HttpTypes
    <3> QED
      BY <3>1, <3>2, <2>1 DEF Made, Kept, Watched
  <2> QED
    BY <1>i, <2>1, <2>2, <2>3 DEF HInv
<1>9. ASSUME NEW c \in Calls, NEW j \in Attempts, RequestAbandons(c, j) PROVE HInv'
  <2>1. /\ request[c][j] = "offering"
        /\ request' = [request EXCEPT ![c][j] = "exited"]
        /\ IF stream[c][j] = "open"
           THEN /\ stream' = [stream EXCEPT ![c][j] = "closed"]
                /\ cancelled' = [cancelled EXCEPT ![c][j] = TRUE]
           ELSE UNCHANGED <<cancelled, stream>>
        /\ UNCHANGED <<worker, attempt, conn>>
    BY <1>9 DEF RequestAbandons, CloseStream, vars
  <2>t. /\ stream \in [Calls -> [Attempts -> {"none", "open", "closed"}]]
        /\ cancelled \in [Calls -> [Attempts -> BOOLEAN]]
    BY DEF HInv, HttpTypes
  <2>c. ASSUME stream[c][j] = "open"
        PROVE  /\ stream' \in [Calls -> [Attempts -> {"none", "open", "closed"}]]
               /\ \A d \in Calls, i \in Attempts :
                    stream'[d][i] = IF d = c /\ i = j THEN "closed" ELSE stream[d][i]
    <3>1. stream' = [stream EXCEPT ![c][j] = "closed"]
      BY <2>1, <2>c
    <3> QED
      BY <3>1, <2>t
  <2>d. ASSUME stream[c][j] = "open"
        PROVE  /\ cancelled' \in [Calls -> [Attempts -> BOOLEAN]]
               /\ \A d \in Calls, i \in Attempts :
                    cancelled'[d][i] = IF d = c /\ i = j THEN TRUE ELSE cancelled[d][i]
    <3>1. cancelled' = [cancelled EXCEPT ![c][j] = TRUE]
      BY <2>1, <2>d
    <3>2. cancelled \in [Calls -> [Attempts -> BOOLEAN]] /\ j \in Attempts
      BY <2>t
    <3> QED
      BY <3>1, <3>2
  <2>2. HttpTypes'
    <3>1. CASE stream[c][j] = "open"
      <4>1. request' \in [Calls -> [Attempts -> {"none", "requesting", "offering", "exited"}]]
        BY <2>1 DEF HInv, HttpTypes
      <4>2. stream' \in [Calls -> [Attempts -> {"none", "open", "closed"}]]
        BY <2>c, <3>1
      <4>3. cancelled' \in [Calls -> [Attempts -> BOOLEAN]]
        BY <2>d, <3>1
      <4> QED
        BY <4>1, <4>2, <4>3 DEF HttpTypes
    <3>2. CASE ~(stream[c][j] = "open")
      BY <2>1, <3>2 DEF HInv, HttpTypes
    <3> QED
      BY <3>1, <3>2
  <2>3. ASSUME NEW d \in Calls, NEW i \in Attempts PROVE Made(d, i)' /\ Kept(d, i)' /\ Watched(d, i)'
    <3> DEFINE Here == d = c /\ i = j
    <3>1. Made(d, i) /\ Kept(d, i) /\ Watched(d, i)
      BY DEF HInv
    <3>2. /\ request'[d][i] = (IF Here THEN "exited" ELSE request[d][i])
          /\ stream'[d][i] = (IF Here /\ stream[c][j] = "open" THEN "closed" ELSE stream[d][i])
          /\ cancelled'[d][i] = (IF Here /\ stream[c][j] = "open" THEN TRUE ELSE cancelled[d][i])
      <4>1. CASE stream[c][j] = "open"
        <5>1. request'[d][i] = (IF Here THEN "exited" ELSE request[d][i])
          BY <2>1 DEF HInv, HttpTypes
        <5>2. stream'[d][i] = (IF Here THEN "closed" ELSE stream[d][i])
          BY <2>c, <4>1
        <5>3. cancelled'[d][i] = (IF Here THEN TRUE ELSE cancelled[d][i])
          BY <2>d, <4>1
        <5> QED
          BY <4>1, <5>1, <5>2, <5>3
      <4>2. CASE stream[c][j] # "open"
        BY <2>1, <4>2 DEF HInv, HttpTypes
      <4> QED
        BY <4>1, <4>2
    <3> QED
      BY <3>1, <3>2, <2>1 DEF Made, Kept, Watched
  <2> QED
    BY <1>i, <2>1, <2>2, <2>3 DEF HInv
<1>10. CASE HttpClose \/ UNCHANGED allVars
  <2>1. UNCHANGED <<worker, attempt, conn, request, cancelled, stream>>
    BY <1>10 DEF HttpClose, Close, allVars, vars, httpVars
  <2> QED
    BY <1>i, <2>1 DEF HInv, HttpTypes, Made, Kept, Watched
<1> QED
  BY <1>1, <1>2, <1>3, <1>4, <1>5, <1>6, <1>7, <1>8, <1>9, <1>10 DEF HttpNext, CallReady

LEMMA HttpInvariance == HttpSpec => []HInv
BY InitHInv, NextHInv, PTL DEF HttpSpec

-----------------------------------------------------------------------------

\* The stream that a caller owns is open and its request not cancelled, after
\* Connect has returned and cancelled its own context.
THEOREM HttpOwnedStreamLives == HttpSpec => []OwnedStreamLives
<1>1. HInv => OwnedStreamLives
  BY DEF HInv, IInv, TypeOK, Held, Kept, OwnedStreamLives, Owned
<1> QED
  BY <1>1, HttpInvariance, PTL

\* When the goroutines of a call are done its requests are cancelled and their
\* streams closed, but for the one that the caller owns.
THEOREM HttpNoRequestLeak == HttpSpec => []NoRequestLeak
<1>1. ASSUME HInv, NEW c \in Calls, caller[c] = "returned", worker[c] = "exited",
             NEW i \in Attempts, request[c][i] = "exited"
      PROVE  (stream[c][i] = "open" <=> Owned(c, i)) /\ (cancelled[c][i] <=> ~Owned(c, i))
  <2>1. conn[c] = "open" <=> result[c] = "conn"
    BY <1>1 DEF HInv, IInv, TypeOK, Held
  <2>2. Kept(c, i) /\ Watched(c, i)
    BY <1>1 DEF HInv
  <2>3. stream[c][i] = "open" <=> Owned(c, i)
    BY <1>1, <2>1, <2>2 DEF Kept, Owned
  <2>4. cancelled[c][i] <=> ~Owned(c, i)
    BY <1>1, <2>1, <2>2 DEF Kept, Watched, Owned
  <2> QED
    BY <2>3, <2>4
<1>2. HInv => NoRequestLeak
  BY <1>1 DEF NoRequestLeak
<1> QED
  BY <1>2, HttpInvariance, PTL

-----------------------------------------------------------------------------
(* The request goroutines.                                                 *)

\* A request goroutine that offers its outcome has somebody who takes it, or
\* the context of its call is done; one whose request is under way is waited
\* for, or its request is cancelled.
RequestsAttended ==
  \A c \in Calls, i \in Attempts :
    /\ request[c][i] = "offering" => ctxDone[c] \/ (i = attempt[c] /\ worker[c] = "dialing")
    /\ request[c][i] = "requesting" => cancelled[c][i] \/ (i = attempt[c] /\ worker[c] = "dialing")

\* Only the end of the call cancels a request whose goroutine is at work.
CancelledByCall ==
  \A c \in Calls, i \in Attempts : cancelled[c][i] /\ request[c][i] # "exited" => ctxDone[c]

\* A step cancels a request that goes on only when the call of it is done.
LEMMA NextCancelled == HInv /\ CancelledByCall /\ [HttpNext]_allVars => CancelledByCall'
<1> SUFFICES ASSUME HInv, CancelledByCall, [HttpNext]_allVars,
                    NEW d \in Calls, NEW i \in Attempts,
                    cancelled'[d][i], request'[d][i] # "exited"
             PROVE  ctxDone'[d]
  BY DEF CancelledByCall
<1> DEFINE Before == cancelled[d][i] /\ request[d][i] # "exited"
<1>0. /\ request \in [Calls -> [Attempts -> {"none", "requesting", "offering", "exited"}]]
      /\ cancelled \in [Calls -> [Attempts -> BOOLEAN]]
      /\ ctxDone \in [Calls -> BOOLEAN]
      /\ Before => ctxDone[d]
      /\ Made(d, i) /\ Kept(d, i)
  BY DEF HInv, IInv, TypeOK, HttpTypes, CancelledByCall
<1>1. Before => ctxDone'[d]
  <2>1. IInv /\ [Next]_vars
    BY HttpStep DEF HInv
  <2> QED
    BY <1>0, <2>1 DEF Next, vars, CallerStep, WorkerStep, DialEnds, Start, CallerClosed, CallerCtx,
       Deliver, Return, DialOk, DialFail, GiveUp, GoOn, Redial, Abandon, CtxDone, Close
<1> HIDE DEF Before
<1>a. Attempts \subseteq Nat /\ \A c \in Calls : attempt[c] \in Attempts
  BY RetryAssumption DEF HInv, IInv, TypeOK, Attempts
<1>2. ASSUME NEW c \in Calls, FirstCall(c) PROVE Before
  <2>1. worker[c] = "none" /\ 0 \in Attempts /\ cancelled' = cancelled
        /\ request' = [request EXCEPT ![c][0] = "requesting"]
    BY <1>2, <1>a, RetryAssumption DEF FirstCall, Start, Call, HInv, IInv, Begun, Attempts
  <2>2. d # c \/ request[d][i] = "none"
    BY <1>0, <2>1 DEF Made
  <2> QED
    BY <1>0, <2>1, <2>2 DEF Made, Before
<1>3. ASSUME NEW c \in Calls, NextCall(c) PROVE Before
  <2>1. cancelled' = cancelled /\ request' = [request EXCEPT ![c][attempt[c] + 1] = "requesting"]
    BY <1>3 DEF NextCall, Call
  <2>2. cancelled[d][i]
    BY <2>1
  <2>3. ASSUME d = c, i = attempt[c] + 1 PROVE FALSE
    <3>1. i > attempt[d]
      BY <1>a, <2>3
    <3>2. request[d][i] = "none"
      BY <1>0, <3>1 DEF Made
    <3> QED
      BY <1>0, <2>2, <3>2 DEF Made
  <2>4. request'[d][i] = request[d][i]
    BY <1>0, <1>a, <2>1, <2>3
  <2> QED
    BY <2>2, <2>4 DEF Before
<1>4. ASSUME NEW c \in Calls, TakeStream(c) PROVE Before
  <2>1. cancelled' = cancelled /\ request' = [request EXCEPT ![c][attempt[c]] = "exited"]
    BY <1>4 DEF TakeStream
  <2> QED
    BY <1>0, <1>a, <2>1 DEF Before
<1>5. ASSUME NEW c \in Calls, TakeError(c) PROVE Before
  <2>1. /\ request' = [request EXCEPT ![c][attempt[c]] = "exited"]
        /\ cancelled' = [cancelled EXCEPT ![c][attempt[c]] = TRUE]
    BY <1>5 DEF TakeError
  <2>2. request'[d][i] = (IF d = c /\ i = attempt[c] THEN "exited" ELSE request[d][i])
    <3>1. request' = [request EXCEPT ![c][attempt[c]] = "exited"]
      BY <2>1
    <3> QED
      BY <1>0, <1>a, <3>1
  <2>3. ~(d = c /\ i = attempt[c])
    BY <2>2
  <2>4. cancelled'[d][i] = cancelled[d][i]
    <3>1. cancelled' = [cancelled EXCEPT ![c][attempt[c]] = TRUE]
      BY <2>1
    <3> QED
      BY <1>0, <1>a, <2>3, <3>1
  <2> QED
    BY <2>2, <2>3, <2>4 DEF Before
<1>6. ASSUME NEW c \in Calls, CallEnds(c) PROVE Before \/ ctxDone'[d]
  <2>1. /\ request' = request /\ ctxDone[c] /\ ctxDone' = ctxDone
        /\ cancelled' = [cancelled EXCEPT ![c][attempt[c]] = TRUE]
    BY <1>6 DEF CallEnds, DialFail
  <2>2. CASE d = c
    BY <2>1, <2>2
  <2>3. CASE d # c
    <3>1. cancelled'[d][i] = cancelled[d][i]
      BY <1>0, <1>a, <2>1, <2>3
    <3> QED
      BY <2>1, <3>1 DEF Before
  <2> QED
    BY <2>2, <2>3
<1>7. ASSUME NEW c \in Calls, HttpAbandon(c) PROVE Before
  <2>1. CASE conn[c] = "open"
    <3>1. request' = request /\ cancelled' = [cancelled EXCEPT ![c][attempt[c]] = TRUE]
      BY <1>7, <2>1 DEF HttpAbandon, CloseStream
    <3>2. d # c \/ i # attempt[c]
      BY <1>0, <2>1, <3>1 DEF Kept
    <3>3. cancelled'[d][i] = cancelled[d][i]
      BY <1>0, <1>a, <3>1, <3>2
    <3> QED
      BY <3>1, <3>3 DEF Before
  <2>2. CASE conn[c] # "open"
    BY <1>7, <2>2 DEF HttpAbandon, Before
  <2> QED
    BY <2>1, <2>2
<1>8. ASSUME NEW c \in Calls, Outer(c) PROVE Before
  BY <1>8 DEF Outer, httpVars, Before
<1>9. ASSUME NEW c \in Calls, NEW j \in Attempts, RequestEnds(c, j) PROVE Before
  <2>1. /\ cancelled' = cancelled /\ request[c][j] = "requesting"
        /\ request' = [request EXCEPT ![c][j] = "offering"]
    BY <1>9 DEF RequestEnds, RequestOk, RequestFails
  <2> QED
    BY <1>0, <2>1 DEF Before
<1>10. ASSUME NEW c \in Calls, NEW j \in Attempts, RequestAbandons(c, j) PROVE Before
  <2>1. /\ request' = [request EXCEPT ![c][j] = "exited"]
        /\ cancelled' \in {cancelled, [cancelled EXCEPT ![c][j] = TRUE]}
    BY <1>10 DEF RequestAbandons, CloseStream
  <2>2. d # c \/ i # j
    BY <1>0, <2>1
  <2>3. cancelled'[d][i] = cancelled[d][i]
    <3>1. CASE cancelled' = cancelled
      BY <3>1
    <3>2. CASE cancelled' = [cancelled EXCEPT ![c][j] = TRUE]
      BY <1>0, <2>2, <3>2
    <3> QED
      BY <2>1, <3>1, <3>2
  <2>4. request'[d][i] = request[d][i]
    BY <1>0, <2>1, <2>2
  <2> QED
    BY <2>3, <2>4 DEF Before
<1>11. ASSUME HttpClose \/ UNCHANGED allVars PROVE Before
  <2>1. cancelled' = cancelled /\ request' = request
    BY <1>11 DEF HttpClose, allVars, httpVars
  <2> QED
    BY <2>1 DEF Before
<1> QED
  BY <1>1, <1>2, <1>3, <1>4, <1>5, <1>6, <1>7, <1>8, <1>9, <1>10, <1>11 DEF HttpNext, CallReady

\* No request goroutine stays at the channel of its outcome, and none whose
\* caller has gone keeps its request.
THEOREM HttpRequestsAttended == HttpSpec => []RequestsAttended
<1>1. HInv /\ CancelledByCall => RequestsAttended
  <2> SUFFICES ASSUME HInv, CancelledByCall, NEW c \in Calls, NEW i \in Attempts,
                      request[c][i] \in {"requesting", "offering"}
               PROVE  \/ i = attempt[c] /\ worker[c] = "dialing"
                      \/ cancelled[c][i] /\ ctxDone[c]
    BY DEF RequestsAttended
  <2>1. Watched(c, i) /\ Kept(c, i) /\ (cancelled[c][i] => ctxDone[c])
    BY DEF HInv, CancelledByCall
  <2> QED
    BY <2>1 DEF Watched, Kept
<1>2. HttpInit => CancelledByCall
  BY DEF HttpInit, CancelledByCall
<1> QED
  BY <1>1, <1>2, NextCancelled, HttpInvariance, PTL DEF HttpSpec
=============================================================================
