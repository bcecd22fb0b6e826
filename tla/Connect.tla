------------------------------ MODULE Connect ------------------------------
(***************************************************************************)
(* Connect and Close of the dialers: dialer.BasicDialer and                *)
(* dialer.WebsocketDialer, which dial in a goroutine of their own, and     *)
(* dialer.SocksDialer, which does not.                                     *)
(*                                                                         *)
(* Connect derives a context with a deadline (when the dialer has a        *)
(* positive timeout), starts a worker goroutine that dials with retries,   *)
(* and waits for the first of: the dialer closed, the context done, the    *)
(* worker's result.  The result travels over an unbuffered channel, so it  *)
(* changes hands only when both goroutines stand at their selects; a Go    *)
(* select takes any of its ready cases.  Close closes the done channel     *)
(* once.                                                                   *)
(*                                                                         *)
(* A SocksDialer dials in Connect itself: the worker is then the same      *)
(* goroutine as the caller.  It dials once, and only the context ends the  *)
(* dial early.                                                             *)
(***************************************************************************)
EXTENDS Naturals

CONSTANTS
  Calls,        \* the concurrent calls of Connect on one dialer
  Retry,        \* how many times a failed dial is repeated
  Cancellable   \* the context the caller passes in may be cancelled

ASSUME RetryAssumption == Retry \in Nat
ASSUME CancellableAssumption == Cancellable \in BOOLEAN

VARIABLES
  timed,     \* d.timeout > 0, set once: the context of a call has a deadline
  inline,    \* the dialer is a SocksDialer, fixed
  done,      \* the channel d.done is closed
  ctxDone,   \* the context of the call is done
  caller,    \* where the goroutine that called Connect is
  worker,    \* where the goroutine that dials for the call is
  attempt,   \* the loop variable i of connect
  conn,      \* the connection the dial of the call produced
  result     \* what Connect returned

optionVars == <<timed, inline>>
vars == <<optionVars, done, ctxDone, caller, worker, attempt, conn, result>>

TypeOK ==
  /\ timed \in BOOLEAN /\ inline \in BOOLEAN
  /\ done \in BOOLEAN
  /\ ctxDone \in [Calls -> BOOLEAN]
  /\ caller \in [Calls -> {"idle", "waiting", "returned"}]
  /\ worker \in [Calls -> {"none", "dialing", "failed", "redialing", "offering", "exited"}]
  /\ attempt \in [Calls -> 0..Retry]
  /\ conn \in [Calls -> {"none", "open", "closed"}]
  /\ result \in [Calls -> {"none", "conn", "error", "ErrClosed", "ctxErr"}]

Init ==
  /\ timed \in BOOLEAN /\ inline \in BOOLEAN
  /\ done = FALSE
  /\ ctxDone = [c \in Calls |-> FALSE]
  /\ caller = [c \in Calls |-> "idle"]
  /\ worker = [c \in Calls |-> "none"]
  /\ attempt = [c \in Calls |-> 0]
  /\ conn = [c \in Calls |-> "none"]
  /\ result = [c \in Calls |-> "none"]

-----------------------------------------------------------------------------
(* The goroutine of the caller.                                            *)

\* The context is made, the worker is started and the caller selects.  A
\* dialer that is already closed is not refused here: its select finds out.
Start(c) ==
  /\ caller[c] = "idle"
  /\ caller' = [caller EXCEPT ![c] = "waiting"]
  /\ worker' = [worker EXCEPT ![c] = "dialing"]
  /\ UNCHANGED <<optionVars, done, ctxDone, attempt, conn, result>>

\* Connect returns r.  The deferred cancel runs with it, when there is one.
Return(c, r) ==
  /\ caller[c] = "waiting"
  /\ caller' = [caller EXCEPT ![c] = "returned"]
  /\ result' = [result EXCEPT ![c] = r]
  /\ ctxDone' = [ctxDone EXCEPT ![c] = @ \/ timed]
  /\ UNCHANGED <<optionVars, done, attempt, conn>>

CallerClosed(c) ==
  /\ done /\ ~inline
  /\ Return(c, "ErrClosed")
  /\ UNCHANGED worker

\* Mutant: the select of the caller has no case for ctx.Done().
CallerCtx_Missing(c) ==
  /\ FALSE
  /\ Return(c, "ctxErr")
  /\ UNCHANGED worker

CallerCtx(c) ==
  /\ ctxDone[c] /\ ~inline
  /\ Return(c, "ctxErr")
  /\ UNCHANGED worker

\* Mutant: the worker closes the connection on every way out (a deferred close).
Deliver_DeferredClose(c) ==
  /\ worker[c] = "offering"
  /\ caller[c] = "waiting"
  /\ caller' = [caller EXCEPT ![c] = "returned"]
  /\ result' = [result EXCEPT ![c] = IF conn[c] = "open" THEN "conn" ELSE "error"]
  /\ conn' = [conn EXCEPT ![c] = IF @ = "open" THEN "closed" ELSE @]
  /\ worker' = [worker EXCEPT ![c] = "exited"]
  /\ UNCHANGED <<optionVars, done, ctxDone, attempt>>

\* ch <- connectResult{...} meets result := <-ch; of a SocksDialer, the dial
\* returns.
Deliver(c) ==
  /\ worker[c] = "offering"
  /\ Return(c, IF conn[c] = "open" THEN "conn" ELSE "error")
  /\ worker' = [worker EXCEPT ![c] = "exited"]

-----------------------------------------------------------------------------
(* The goroutine of the worker.                                            *)

\* How often a failed dial is repeated: a SocksDialer keeps the option and does
\* not look at it.
Retries == IF inline THEN 0 ELSE Retry

DialOk(c) ==
  /\ worker[c] = "dialing"
  /\ conn' = [conn EXCEPT ![c] = "open"]
  /\ worker' = [worker EXCEPT ![c] = "offering"]
  /\ UNCHANGED <<optionVars, done, ctxDone, caller, attempt, result>>

\* Mutant: the bound of the loop is off by one.
DialFail_OneMore(c) ==
  /\ worker[c] = "dialing"
  /\ worker' = [worker EXCEPT ![c] = IF attempt[c] > Retry THEN "offering" ELSE "failed"]
  /\ UNCHANGED <<optionVars, done, ctxDone, caller, attempt, conn, result>>

\* Mutant: the loop ends on the first error that is not the last one.
DialFail_NoRetry(c) ==
  /\ worker[c] = "dialing"
  /\ worker' = [worker EXCEPT ![c] = "offering"]
  /\ UNCHANGED <<optionVars, done, ctxDone, caller, attempt, conn, result>>

DialFail(c) ==
  /\ worker[c] = "dialing"
  /\ worker' = [worker EXCEPT ![c] = IF attempt[c] >= Retries THEN "offering" ELSE "failed"]
  /\ UNCHANGED <<optionVars, done, ctxDone, caller, attempt, conn, result>>

\* The select between two dials: it gives up when a channel is ready ...
GiveUp(c) ==
  /\ worker[c] = "failed"
  /\ done \/ ctxDone[c]
  /\ worker' = [worker EXCEPT ![c] = "offering"]
  /\ UNCHANGED <<optionVars, done, ctxDone, caller, attempt, conn, result>>

\* Mutant: the retry loop has no select and goes on in any case.
GoOn_Blind(c) ==
  /\ worker[c] = "failed"
  /\ worker' = [worker EXCEPT ![c] = "redialing"]
  /\ UNCHANGED <<optionVars, done, ctxDone, caller, attempt, conn, result>>

\* ... and takes its default only when none is.
GoOn(c) ==
  /\ worker[c] = "failed"
  /\ ~done /\ ~ctxDone[c]
  /\ worker' = [worker EXCEPT ![c] = "redialing"]
  /\ UNCHANGED <<optionVars, done, ctxDone, caller, attempt, conn, result>>

\* i++ and the next call of DialContext, whatever became of the channels since.
Redial(c) ==
  /\ worker[c] = "redialing"
  /\ worker' = [worker EXCEPT ![c] = "dialing"]
  /\ attempt' = [attempt EXCEPT ![c] = @ + 1]
  /\ UNCHANGED <<optionVars, done, ctxDone, caller, conn, result>>

\* Mutant: the worker leaves without closing the connection.
Abandon_NoClose(c) ==
  /\ worker[c] = "offering"
  /\ done \/ ctxDone[c]
  /\ worker' = [worker EXCEPT ![c] = "exited"]
  /\ UNCHANGED <<optionVars, done, ctxDone, caller, attempt, conn, result>>

\* Mutant: the select of the worker waits for the channels of the dialer only.
Abandon_DoneOnly(c) ==
  /\ worker[c] = "offering"
  /\ done
  /\ worker' = [worker EXCEPT ![c] = "exited"]
  /\ conn' = [conn EXCEPT ![c] = IF @ = "open" THEN "closed" ELSE @]
  /\ UNCHANGED <<optionVars, done, ctxDone, caller, attempt, result>>

\* Nobody takes the result any more: a connection is closed by the worker.
Abandon(c) ==
  /\ worker[c] = "offering" /\ ~inline
  /\ done \/ ctxDone[c]
  /\ worker' = [worker EXCEPT ![c] = "exited"]
  /\ conn' = [conn EXCEPT ![c] = IF @ = "open" THEN "closed" ELSE @]
  /\ UNCHANGED <<optionVars, done, ctxDone, caller, attempt, result>>

-----------------------------------------------------------------------------
(* The environment: deadlines, cancelled requests, and Close.              *)

\* The deadline of the call passes, or the context it was given is cancelled.
CtxDone(c) ==
  /\ timed \/ Cancellable
  /\ caller[c] # "idle"
  /\ ~ctxDone[c]
  /\ ctxDone' = [ctxDone EXCEPT ![c] = TRUE]
  /\ UNCHANGED <<optionVars, done, caller, worker, attempt, conn, result>>

\* The Close that wins the compare-and-swap; any other changes nothing.
Close ==
  /\ ~done
  /\ done' = TRUE
  /\ UNCHANGED <<optionVars, ctxDone, caller, worker, attempt, conn, result>>

CallerStep(c) == CallerClosed(c) \/ CallerCtx(c) \/ Deliver(c)
WorkerStep(c) == GiveUp(c) \/ GoOn(c) \/ Redial(c) \/ Abandon(c) \/ Deliver(c)
DialEnds(c) == DialOk(c) \/ DialFail(c)

Next ==
  \/ \E c \in Calls : Start(c) \/ CallerStep(c) \/ WorkerStep(c) \/ DialEnds(c) \/ CtxDone(c)
  \/ Close

(***************************************************************************)
(* Goroutines at a select with a ready case run.  A deadline passes.  A    *)
(* dial need not end by itself (a silent peer), but every rawDialer is     *)
(* given the context and returns once that is done.                        *)
(***************************************************************************)
Fairness ==
  \A c \in Calls :
    /\ WF_vars(CallerStep(c))
    /\ WF_vars(WorkerStep(c))
    /\ WF_vars(ctxDone[c] /\ DialEnds(c))
    /\ WF_vars(timed /\ CtxDone(c))

Spec == Init /\ [][Next]_vars /\ Fairness

-----------------------------------------------------------------------------
(* Safety.                                                                 *)

\* A finished call leaves no connection behind: once the caller has returned
\* and the worker has exited, the connection is open exactly when the caller
\* holds it (the select of the worker, with its three ways out), and so is never
\* closed under it.
NoLeak ==
  \A c \in Calls :
    caller[c] = "returned" /\ worker[c] = "exited" => (conn[c] = "open" <=> result[c] = "conn")

\* Connect of a dialer with a worker reports a dial error only when all the
\* retries of its configuration were used, or when the dialer was closed or the
\* context done before.  A SocksDialer, which has the same option, does not
\* retry, and nothing is claimed of it.
ErrorIsFinal ==
  [][\A c \in Calls :
       ~inline /\ result[c] = "none" /\ result'[c] = "error" =>
         attempt[c] = Retry \/ done \/ ctxDone[c]]_vars

\* The check of the retry loop and the dial that follows are two steps, between
\* which the caller may return.  At most that one dial is begun for it then:
\* whatever made the caller return stops the loop at its next check.
OneLateDial ==
  \A c \in Calls, i \in 0..Retry :
    [](caller[c] = "returned" /\ attempt[c] = i => [](attempt[c] <= i + 1))

-----------------------------------------------------------------------------
(* Liveness.                                                               *)

\* Close answers every call that waits, whatever the dial does, unless the call
\* dials itself; with a deadline both goroutines of a call end, the worker also
\* when nobody takes its result.
CallsEnd ==
  \A c \in Calls :
    /\ (done /\ ~inline /\ caller[c] = "waiting") ~> caller[c] = "returned"
    /\ (timed /\ worker[c] = "dialing") ~> worker[c] = "exited" /\ caller[c] = "returned"

-----------------------------------------------------------------------------
(* Refinement: Connect keeps the promise of Handoff.                       *)

answerOf ==
  [c \in Calls |->
    IF caller[c] = "idle" THEN "none"
    ELSE IF caller[c] = "waiting" THEN "asked"
    ELSE IF result[c] = "conn" THEN "stream" ELSE "error"]

streamOf ==
  [c \in Calls |->
    IF conn[c] = "none" THEN "absent"
    ELSE IF conn[c] = "closed" THEN "released"
    ELSE IF result[c] = "conn" THEN "owned" ELSE "inflight"]

H == INSTANCE Handoff WITH answer <- answerOf, stream <- streamOf

\* Each call is answered once and its stream given or released, not both.
HandoffSafe == H!Spec

\* With a deadline each call is answered, and its stream does not stay
\* between the dialer and its caller.
HandoffLive == timed => H!Prompt
=============================================================================
