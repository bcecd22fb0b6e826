------------------------------ MODULE Bridging -----------------------------
(***************************************************************************)
(* network.Bridging: two endpoints are joined by two forwarder goroutines, *)
(* one for each direction, and a main goroutine that waits for the first   *)
(* of them to end, lets the other one go on for a grace period, and closes *)
(* both endpoints.                                                         *)
(*                                                                         *)
(* Forwarder f copies what endpoint f sends to the other endpoint.  The    *)
(* four copy loops of the code (plain, and three for websockets) differ in *)
(* the framing only: each repeats a read and a write and ends on the first *)
(* error, and each puts one value in the channel done, of capacity one.    *)
(* Messages are counted, their bytes are not modelled.                     *)
(***************************************************************************)
EXTENDS Naturals

CONSTANT MaxMsgs  \* bound: messages a peer sends

ASSUME MaxMsgsAssumption == MaxMsgs \in Nat

\* "none":  duration <= 1ms, the endpoints are closed at once
\* "short": below 10s, the main goroutine sleeps for the whole of it
\* "long":  it waits for a timer or for the second forwarder
Graces == {"none", "short", "long"}

Ends == {0, 1}
Other(e) == 1 - e

VARIABLES
  grace,     \* the class of the duration, fixed
  http,      \* endpoint 0 is the response of an http handler, fixed
  peer,      \* the far side of an endpoint: "up", sent "eof", or "gone"
  sent,      \* how many messages it sent
  got,       \* how many of them the forwarder of the endpoint has read
  put,       \* how many of them it has written to the other endpoint
  closed,    \* Bridging has closed the endpoint
  fwd,       \* where each forwarder is
  done,      \* how many values are in the channel
  main,      \* where the main goroutine is
  elapsed,   \* the grace period is over
  late       \* a response was written to after its handler returned

setting == <<grace, http>>
vars == <<setting, peer, sent, got, put, closed, fwd, done, main, elapsed, late>>

TypeOK ==
  /\ grace \in Graces /\ http \in BOOLEAN
  /\ peer \in [Ends -> {"up", "eof", "gone"}]
  /\ sent \in [Ends -> 0..MaxMsgs]
  /\ got \in [Ends -> 0..MaxMsgs]
  /\ put \in [Ends -> 0..MaxMsgs]
  /\ closed \in [Ends -> BOOLEAN]
  /\ fwd \in [Ends -> {"reading", "writing", "ending", "exited"}]
  /\ done \in 0..1
  /\ main \in {"waiting", "polling", "grace", "close1", "close0", "returned"}
  /\ elapsed \in BOOLEAN
  /\ late \in BOOLEAN

Init ==
  /\ grace \in Graces /\ http \in BOOLEAN
  /\ peer = [e \in Ends |-> "up"]
  /\ sent = [e \in Ends |-> 0]
  /\ got = [e \in Ends |-> 0]
  /\ put = [e \in Ends |-> 0]
  /\ closed = [e \in Ends |-> FALSE]
  /\ fwd = [e \in Ends |-> "reading"]
  /\ done = 0
  /\ main = "waiting"
  /\ elapsed = FALSE
  /\ late = FALSE

-----------------------------------------------------------------------------
(* The peers.  What is sent to an endpoint already closed is no concern of *)
(* Bridging.                                                               *)

Send(e) ==
  /\ peer[e] = "up" /\ ~closed[e] /\ sent[e] < MaxMsgs
  /\ sent' = [sent EXCEPT ![e] = @ + 1]
  /\ UNCHANGED <<setting, peer, got, put, closed, fwd, done, main, elapsed, late>>

\* A half-close leaves the peer able to take data, a full one does not.
Hangup(e, p) ==
  /\ peer[e] = "up" \/ (peer[e] = "eof" /\ p = "gone")
  /\ peer' = [peer EXCEPT ![e] = p]
  /\ UNCHANGED <<setting, sent, got, put, closed, fwd, done, main, elapsed, late>>

-----------------------------------------------------------------------------
(* The forwarders.                                                         *)

\* Mutant: a message is counted whether or not one was sent.
Read_Unchecked(f) ==
  /\ fwd[f] = "reading"
  /\ got[f] <= sent[f] /\ ~closed[f]
  /\ got' = [got EXCEPT ![f] = @ + 1]
  /\ fwd' = [fwd EXCEPT ![f] = "writing"]
  /\ UNCHANGED <<setting, peer, sent, put, closed, done, main, elapsed, late>>

Read(f) ==
  /\ fwd[f] = "reading"
  /\ got[f] < sent[f] /\ ~closed[f]
  /\ got' = [got EXCEPT ![f] = @ + 1]
  /\ fwd' = [fwd EXCEPT ![f] = "writing"]
  /\ UNCHANGED <<setting, peer, sent, put, closed, done, main, elapsed, late>>

\* Mutant: the end of the data is reported with the last message still unread.
ReadEnds_Early(f) ==
  /\ fwd[f] = "reading"
  /\ closed[f] \/ peer[f] # "up"
  /\ fwd' = [fwd EXCEPT ![f] = "ending"]
  /\ UNCHANGED <<setting, peer, sent, got, put, closed, done, main, elapsed, late>>

\* EOF after the last message, or an error: the loop ends.
ReadEnds(f) ==
  /\ fwd[f] = "reading"
  /\ closed[f] \/ peer[f] = "gone" \/ (peer[f] = "eof" /\ got[f] = sent[f])
  /\ fwd' = [fwd EXCEPT ![f] = "ending"]
  /\ UNCHANGED <<setting, peer, sent, got, put, closed, done, main, elapsed, late>>

\* Close of an http endpoint closes the body of its request, which stops the
\* reads; its writer, the response, is good until the handler returns.
Writable(e) == IF http /\ e = 0 THEN main # "returned" ELSE ~closed[e]

Write(f) ==
  /\ fwd[f] = "writing"
  /\ Writable(Other(f))
  /\ put' = [put EXCEPT ![f] = @ + 1]
  /\ fwd' = [fwd EXCEPT ![f] = "reading"]
  /\ UNCHANGED <<setting, peer, sent, got, closed, done, main, elapsed, late>>

WriteEnds(f) ==
  /\ fwd[f] = "writing"
  /\ ~Writable(Other(f)) \/ peer[Other(f)] = "gone"
  /\ fwd' = [fwd EXCEPT ![f] = "ending"]
  /\ late' = (late \/ (http /\ Other(f) = 0 /\ ~Writable(Other(f))))
  /\ UNCHANGED <<setting, peer, sent, got, put, closed, done, main, elapsed>>

\* Mutant: the channel has no buffer and the main goroutine no longer waits.
Signal_Unbuffered(f) ==
  /\ fwd[f] = "ending"
  /\ done < 1 /\ main \in {"waiting", "polling", "grace"}
  /\ done' = done + 1
  /\ fwd' = [fwd EXCEPT ![f] = "exited"]
  /\ UNCHANGED <<setting, peer, sent, got, put, closed, main, elapsed, late>>

\* forwardingDone: done <- true blocks while the channel is full.
Signal(f) ==
  /\ fwd[f] = "ending"
  /\ done < 1
  /\ done' = done + 1
  /\ fwd' = [fwd EXCEPT ![f] = "exited"]
  /\ UNCHANGED <<setting, peer, sent, got, put, closed, main, elapsed, late>>

-----------------------------------------------------------------------------
(* The main goroutine.                                                     *)

\* Mutant: the main goroutine waits for both forwarders before anything else.
FirstDone_WaitsForBoth ==
  /\ main = "waiting"
  /\ \A f \in Ends : fwd[f] = "exited" \/ (fwd[f] = "ending" /\ done = 1)
  /\ done' = 0
  /\ main' = IF grace = "none" THEN "close1" ELSE "polling"
  /\ UNCHANGED <<setting, peer, sent, got, put, closed, fwd, elapsed, late>>

\* Mutant: the first value stays in the channel.
FirstDone_Peeks ==
  /\ main = "waiting"
  /\ done = 1
  /\ done' = done
  /\ main' = IF grace = "none" THEN "close1" ELSE "polling"
  /\ UNCHANGED <<setting, peer, sent, got, put, closed, fwd, elapsed, late>>

FirstDone ==
  /\ main = "waiting"
  /\ done = 1
  /\ done' = 0
  /\ main' = IF grace = "none" THEN "close1" ELSE "polling"
  /\ UNCHANGED <<setting, peer, sent, got, put, closed, fwd, elapsed, late>>

\* The select with a default.
Poll ==
  /\ main = "polling"
  /\ IF done = 1 THEN done' = 0 /\ main' = "close1" ELSE done' = done /\ main' = "grace"
  /\ UNCHANGED <<setting, peer, sent, got, put, closed, fwd, elapsed, late>>

\* The sleep or the timer.
GraceElapses ==
  /\ main = "grace"
  /\ main' = "close1"
  /\ elapsed' = TRUE
  /\ UNCHANGED <<setting, peer, sent, got, put, closed, fwd, done, late>>

\* The second forwarder ends before the timer; it is noticed by the select
\* of a long grace period only, a sleep is not cut short.
SecondDone ==
  /\ main = "grace" /\ grace = "long"
  /\ done = 1
  /\ done' = 0
  /\ main' = "close1"
  /\ UNCHANGED <<setting, peer, sent, got, put, closed, fwd, elapsed, late>>

\* The deferred closes, last deferred first.
Close1 ==
  /\ main = "close1"
  /\ closed' = [closed EXCEPT ![1] = TRUE]
  /\ main' = "close0"
  /\ UNCHANGED <<setting, peer, sent, got, put, fwd, done, elapsed, late>>

Close0 ==
  /\ main = "close0"
  /\ closed' = [closed EXCEPT ![0] = TRUE]
  /\ main' = "returned"
  /\ UNCHANGED <<setting, peer, sent, got, put, fwd, done, elapsed, late>>

Main == FirstDone \/ Poll \/ GraceElapses \/ SecondDone \/ Close1 \/ Close0
ForwarderReads(f) == Read(f) \/ ReadEnds(f)

Next ==
  \/ \E e \in Ends : Send(e) \/ Hangup(e, "eof") \/ Hangup(e, "gone")
  \/ \E f \in Ends : ForwarderReads(f) \/ Write(f) \/ WriteEnds(f) \/ Signal(f)
  \/ Main

(***************************************************************************)
(* Goroutines that are not blocked run and timers fire.  A write has no    *)
(* deadline: nothing ends it but its endpoint or the end of its peer.      *)
(***************************************************************************)
Fairness ==
  /\ WF_vars(Main)
  /\ \A f \in Ends :
       /\ WF_vars(ForwarderReads(f))
       /\ WF_vars(WriteEnds(f))
       /\ WF_vars(Signal(f))

Spec == Init /\ [][Next]_vars /\ Fairness

-----------------------------------------------------------------------------
(* Safety.                                                                 *)

\* The comment on ConnectDialer.Close: an end is closed only after the grace
\* period, unless both directions have finished or there is no grace period.
GraceRespected ==
  closed[1] \/ closed[0] =>
    grace = "none" \/ elapsed \/ \A f \in Ends : fwd[f] = "exited"

\* No message is lost between two peers that hang up in order: Bridging gives
\* up on a direction only when it is complete or the grace period is over.
NoDataLost ==
  main = "returned" /\ (\A e \in Ends : peer[e] # "gone") =>
    /\ \E f \in Ends : put[f] = sent[f]
    /\ elapsed \/ grace = "none" \/ \A f \in Ends : put[f] = sent[f]

\* No forwarder writes to an endpoint after the end of its handler.
NoLateWrite == ~late

-----------------------------------------------------------------------------
(* Liveness.                                                               *)

\* Once a direction has ended both endpoints are closed, whatever the other
\* one is blocked on, and no forwarder outlives its bridge: neither stays at
\* the channel, which nobody reads any more once Bridging has returned.
FirstEndEndsAll ==
  \A f \in Ends :
    fwd[f] = "ending" ~>
      /\ main = "returned" /\ closed[0] /\ closed[1]
      /\ \A g \in Ends : fwd[g] = "exited"

\* Peers that take what is written to them, sooner or later.
Draining == \A f \in Ends : WF_vars(Write(f))

\* Between such peers the end of one ends both.
EndSpreads == Draining => \A e \in Ends : peer[e] # "up" ~> main = "returned"
=============================================================================
