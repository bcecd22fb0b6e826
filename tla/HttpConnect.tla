---------------------------- MODULE HttpConnect ----------------------------
(***************************************************************************)
(* Connect of dialer.HttpDialer.  Its callers, its worker and its Close    *)
(* are those of Connect; the dial of the worker is httpmux.ConnectHttp,    *)
(* which sends a request in a goroutine of its own and returns a stream    *)
(* made of the body of the request (a pipe) and of the response.           *)
(*                                                                         *)
(* The request has a context of its own: that of the call ends when        *)
(* Connect returns, and a request ends with its context.  So ConnectHttp   *)
(* has to watch the one and cancel the other, and it does so against the   *)
(* request goroutine, over a channel without buffer.                       *)
(***************************************************************************)
EXTENDS Connect

VARIABLES
  request,    \* the goroutine of each attempt of each call
  cancelled,  \* the context of its request is cancelled
  stream      \* the stream that the request made

httpVars == <<request, cancelled, stream>>
allVars == <<vars, httpVars>>

Attempts == 0..Retry

HttpInit ==
  /\ Init /\ ~inline
  /\ request = [c \in Calls |-> [i \in Attempts |-> "none"]]
  /\ cancelled = [c \in Calls |-> [i \in Attempts |-> FALSE]]
  /\ stream = [c \in Calls |-> [i \in Attempts |-> "none"]]

-----------------------------------------------------------------------------
(* ConnectHttp, in the worker of call c.                                   *)

\* The context is made and the request goroutine started.
Call(c, i) ==
  /\ request' = [request EXCEPT ![c][i] = "requesting"]
  /\ UNCHANGED <<cancelled, stream>>

FirstCall(c) == Start(c) /\ Call(c, 0)
NextCall(c) == Redial(c) /\ Call(c, attempt[c] + 1)

\* result := <-ch: an error cancels the request.
TakeStream(c) ==
  /\ request[c][attempt[c]] = "offering" /\ stream[c][attempt[c]] = "open"
  /\ DialOk(c)
  /\ request' = [request EXCEPT ![c][attempt[c]] = "exited"]
  /\ UNCHANGED <<cancelled, stream>>

TakeError(c) ==
  /\ request[c][attempt[c]] = "offering" /\ stream[c][attempt[c]] = "none"
  /\ DialFail(c)
  /\ request' = [request EXCEPT ![c][attempt[c]] = "exited"]
  /\ cancelled' = [cancelled EXCEPT ![c][attempt[c]] = TRUE]
  /\ UNCHANGED stream

\* Mutant: ConnectHttp returns and leaves the request to itself.
CallEnds_NoCancel(c) ==
  /\ ctxDone[c]
  /\ DialFail(c)
  /\ UNCHANGED httpVars

\* Mutant: ConnectHttp waits for the request only.
CallEnds_Missing(c) ==
  /\ FALSE
  /\ DialFail(c)
  /\ UNCHANGED httpVars

\* <-ctx.Done()
CallEnds(c) ==
  /\ ctxDone[c]
  /\ DialFail(c)
  /\ cancelled' = [cancelled EXCEPT ![c][attempt[c]] = TRUE]
  /\ UNCHANGED <<request, stream>>

-----------------------------------------------------------------------------
(* The request goroutine of attempt i.                                     *)

\* Do returns with a status of success.
RequestOk(c, i) ==
  /\ request[c][i] = "requesting"
  /\ request' = [request EXCEPT ![c][i] = "offering"]
  /\ stream' = [stream EXCEPT ![c][i] = "open"]
  /\ UNCHANGED <<vars, cancelled>>

\* Do fails, or its status is not a success: the pipe is closed.
RequestFails(c, i) ==
  /\ request[c][i] = "requesting"
  /\ request' = [request EXCEPT ![c][i] = "offering"]
  /\ UNCHANGED <<vars, cancelled, stream>>

\* httpCloser.Close: the pipe, both ends, and the context of the request.
CloseStream(c, i) ==
  /\ stream' = [stream EXCEPT ![c][i] = "closed"]
  /\ cancelled' = [cancelled EXCEPT ![c][i] = TRUE]

\* Mutant: the request goroutine leaves its stream open.
RequestAbandons_NoClose(c, i) ==
  /\ request[c][i] = "offering"
  /\ ctxDone[c]
  /\ request' = [request EXCEPT ![c][i] = "exited"]
  /\ UNCHANGED <<vars, cancelled, stream>>

\* <-ctx.Done(): a stream is closed.
RequestAbandons(c, i) ==
  /\ request[c][i] = "offering"
  /\ ctxDone[c]
  /\ request' = [request EXCEPT ![c][i] = "exited"]
  /\ IF stream[c][i] = "open" THEN CloseStream(c, i) ELSE UNCHANGED <<cancelled, stream>>
  /\ UNCHANGED vars

-----------------------------------------------------------------------------
(* The rest is Connect; a connection that the worker closes is its stream. *)

HttpAbandon(c) ==
  /\ Abandon(c)
  /\ IF conn[c] = "open" THEN CloseStream(c, attempt[c]) ELSE UNCHANGED <<cancelled, stream>>
  /\ UNCHANGED request

\* Mutant: the request has the context of the call.
Outer_SharedContext(c) ==
  /\ CallerStep(c) \/ GiveUp(c) \/ GoOn(c) \/ CtxDone(c)
  /\ cancelled' = [cancelled EXCEPT ![c] =
                     [i \in Attempts |-> @[i] \/ (ctxDone'[c] /\ request[c][i] # "none")]]
  /\ UNCHANGED <<request, stream>>

Outer(c) ==
  /\ CallerStep(c) \/ GiveUp(c) \/ GoOn(c) \/ CtxDone(c)
  /\ UNCHANGED httpVars

HttpClose == Close /\ UNCHANGED httpVars

CallReady(c) == TakeStream(c) \/ TakeError(c) \/ CallEnds(c)
RequestEnds(c, i) == RequestOk(c, i) \/ RequestFails(c, i)

HttpNext ==
  \/ \E c \in Calls :
       \/ FirstCall(c) \/ NextCall(c) \/ CallReady(c) \/ HttpAbandon(c) \/ Outer(c)
       \/ \E i \in Attempts : RequestEnds(c, i) \/ RequestAbandons(c, i)
  \/ HttpClose

(***************************************************************************)
(* As in Connect.  A request ends once its context is cancelled; before    *)
(* that a silent server may keep it for ever.                              *)
(***************************************************************************)
HttpFairness ==
  \A c \in Calls :
    /\ WF_allVars(CallerStep(c) /\ UNCHANGED httpVars)
    /\ WF_allVars(((GiveUp(c) \/ GoOn(c)) /\ UNCHANGED httpVars) \/ NextCall(c) \/ HttpAbandon(c)
                    \/ (Deliver(c) /\ UNCHANGED httpVars))
    /\ WF_allVars(CallReady(c))
    /\ WF_allVars(timed /\ CtxDone(c) /\ UNCHANGED httpVars)
    /\ \A i \in Attempts :
         /\ WF_allVars(cancelled[c][i] /\ RequestEnds(c, i))
         /\ WF_allVars(RequestAbandons(c, i))

HttpSpec == HttpInit /\ [][HttpNext]_allVars /\ HttpFairness

-----------------------------------------------------------------------------
(* Safety.                                                                 *)

\* The attempt whose stream the caller owns.
Owned(c, i) == result[c] = "conn" /\ i = attempt[c]

\* The stream a caller owns outlives the call: neither the deferred cancel of
\* Connect nor the deadline reaches the context of its request.
OwnedStreamLives ==
  \A c \in Calls, i \in Attempts : Owned(c, i) => stream[c][i] = "open" /\ ~cancelled[c][i]

\* When all goroutines of a call are done, every request that was made is
\* cancelled and its stream closed, but for the one the caller owns.
NoRequestLeak ==
  \A c \in Calls :
    /\ caller[c] = "returned" /\ worker[c] = "exited"
    /\ \A i \in Attempts : request[c][i] \in {"none", "exited"}
    => \A i \in Attempts :
         request[c][i] = "exited" =>
           /\ stream[c][i] = "open" <=> Owned(c, i)
           /\ cancelled[c][i] <=> ~Owned(c, i)

\* With a deadline the request goroutines end, whatever attempt they belong to.
RequestsExit ==
  \A c \in Calls, i \in Attempts :
    (timed /\ request[c][i] = "requesting") ~> request[c][i] = "exited"

\* HttpDialer keeps the promises of Connect, its liveness included.
ImplementsConnect == Spec
=============================================================================
