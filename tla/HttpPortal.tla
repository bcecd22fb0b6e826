----------------------------- MODULE HttpPortal ----------------------------
(***************************************************************************)
(* A portal route of listener.HttpListener.  Each request becomes a        *)
(* connection of a listener (httpListener) that the portal, a              *)
(* reverse.Dialer, accepts from: its handler offers the connection and     *)
(* waits for the portal, for the closing of the listener or for the end of *)
(* the request.  A websocket connection outlives its handler.  The other   *)
(* kind is made of the body of the request and of its response, which is   *)
(* good only until the handler returns: the handler waits for the close of *)
(* the connection (http2PortalWriter), whose Write and Close exclude each  *)
(* other by a mutex.                                                       *)
(*                                                                         *)
(* The portal and what it does with a connection are external: it accepts, *)
(* writes and closes in any order, from any goroutine.                     *)
(***************************************************************************)
EXTENDS Naturals

CONSTANT Requests  \* the requests of one route

VARIABLES
  kind,      \* of the route, fixed: "http" or "websocket"
  done,      \* l.done of HttpListener is closed
  selfDone,  \* the portal has closed its httpListener
  handler,   \* of each request
  gone,      \* its client has gone: its context is done
  accepted,  \* the portal has its connection
  closed,    \* the connection is closed: w.e, or that of the websocket
  doneCount, \* how often the channel w.done was closed
  writer     \* the goroutine of the portal that writes to the connection

vars == <<kind, done, selfDone, handler, gone, accepted, closed, doneCount, writer>>

TypeOK ==
  /\ kind \in {"http", "websocket"}
  /\ done \in BOOLEAN /\ selfDone \in BOOLEAN
  /\ handler \in [Requests -> {"none", "offering", "waiting", "returned"}]
  /\ gone \in [Requests -> BOOLEAN]
  /\ accepted \in [Requests -> BOOLEAN]
  /\ closed \in [Requests -> BOOLEAN]
  /\ doneCount \in [Requests -> 0..1]
  /\ writer \in [Requests -> {"idle", "writing", "flushing"}]

Init ==
  /\ kind \in {"http", "websocket"}
  /\ done = FALSE /\ selfDone = FALSE
  /\ handler = [r \in Requests |-> "none"]
  /\ gone = [r \in Requests |-> FALSE]
  /\ accepted = [r \in Requests |-> FALSE]
  /\ closed = [r \in Requests |-> FALSE]
  /\ doneCount = [r \in Requests |-> 0]
  /\ writer = [r \in Requests |-> "idle"]

-----------------------------------------------------------------------------
(* http2PortalWriter.  The mutex is held by the writer from the start of a *)
(* Write to its end.                                                       *)

MutexFree(r) == writer[r] # "writing"

\* Mutant: the end of a failed Write is not remembered.
Shut_Forgets(r) ==
  /\ closed' = closed
  /\ doneCount' = [doneCount EXCEPT ![r] = IF kind = "http" THEN @ + 1 ELSE @]

\* Mutant: the channel is not closed.
Shut_Silent(r) ==
  /\ closed' = [closed EXCEPT ![r] = TRUE]
  /\ doneCount' = doneCount

\* w.e is set, the body of the request is closed, and close(w.done).
Shut(r) ==
  /\ closed' = [closed EXCEPT ![r] = TRUE]
  /\ doneCount' = [doneCount EXCEPT ![r] = IF kind = "http" THEN @ + 1 ELSE @]

\* Mutant: Close does not take the mutex.
CloseConn_NoLock(r) ==
  /\ accepted[r] /\ ~closed[r]
  /\ Shut(r)
  /\ UNCHANGED <<kind, done, selfDone, handler, gone, accepted, writer>>

\* The first Close of a connection that was accepted; a later one finds w.e.
CloseConn(r) ==
  /\ accepted[r] /\ ~closed[r]
  /\ kind = "http" => MutexFree(r)
  /\ Shut(r)
  /\ UNCHANGED <<kind, done, selfDone, handler, gone, accepted, writer>>

\* A Write that finds no error and reaches the response.
Write(r) ==
  /\ kind = "http" /\ accepted[r] /\ writer[r] = "idle"
  /\ ~closed[r]
  /\ writer' = [writer EXCEPT ![r] = "writing"]
  /\ UNCHANGED <<kind, done, selfDone, handler, gone, accepted, closed, doneCount>>

\* It ends; the connection (ioutil) flushes once more what was written.
WriteOk(r) ==
  /\ writer[r] = "writing"
  /\ writer' = [writer EXCEPT ![r] = "flushing"]
  /\ UNCHANGED <<kind, done, selfDone, handler, gone, accepted, closed, doneCount>>

\* The response reports an error, after some bytes or none.
WriteFails(r) ==
  /\ writer[r] = "writing"
  /\ Shut(r)
  /\ \E w \in {"idle", "flushing"} : writer' = [writer EXCEPT ![r] = w]
  /\ UNCHANGED <<kind, done, selfDone, handler, gone, accepted>>

\* Flush takes the mutex again, and does not look at w.e: the handler may have
\* returned meanwhile.
Flush(r) ==
  /\ writer[r] = "flushing"
  /\ writer' = [writer EXCEPT ![r] = "idle"]
  /\ UNCHANGED <<kind, done, selfDone, handler, gone, accepted, closed, doneCount>>

-----------------------------------------------------------------------------
(* The handler.                                                            *)

\* A request that passes the checks, upgraded when it is a websocket.
Start(r) ==
  /\ handler[r] = "none"
  /\ handler' = [handler EXCEPT ![r] = "offering"]
  /\ UNCHANGED <<kind, done, selfDone, gone, accepted, closed, doneCount, writer>>

\* Mutant: a handler that gives up leaves its connection open.
Refuse_KeepsOpen(r) ==
  /\ handler[r] = "offering"
  /\ done \/ selfDone \/ (gone[r] /\ kind = "http")
  /\ handler' = [handler EXCEPT ![r] = "returned"]
  /\ UNCHANGED <<kind, done, selfDone, gone, accepted, closed, doneCount, writer>>

\* The three other cases of the select.  The context of a request that was
\* upgraded ends with its handler only.
Refuse(r) ==
  /\ handler[r] = "offering"
  /\ done \/ selfDone \/ (gone[r] /\ kind = "http")
  /\ Shut(r)
  /\ handler' = [handler EXCEPT ![r] = "returned"]
  /\ UNCHANGED <<kind, done, selfDone, gone, accepted, writer>>

\* listener.ch <- conn meets c = <-l.ch of Accept, whatever else is ready.
Accept(r) ==
  /\ handler[r] = "offering"
  /\ accepted' = [accepted EXCEPT ![r] = TRUE]
  /\ handler' = [handler EXCEPT ![r] = IF kind = "http" THEN "waiting" ELSE "returned"]
  /\ UNCHANGED <<kind, done, selfDone, gone, closed, doneCount, writer>>

\* wc.Wait() returns.
Return(r) ==
  /\ handler[r] = "waiting" /\ doneCount[r] > 0
  /\ handler' = [handler EXCEPT ![r] = "returned"]
  /\ UNCHANGED <<kind, done, selfDone, gone, accepted, closed, doneCount, writer>>

-----------------------------------------------------------------------------
(* The client; close(l.done) of HttpListener.Close; and the close of the   *)
(* listener of the portal, by the Close of the portal that follows it or   *)
(* by the portal for reasons of its own.                                   *)

Leave(r) ==
  /\ handler[r] \in {"offering", "waiting"} /\ ~gone[r]
  /\ gone' = [gone EXCEPT ![r] = TRUE]
  /\ UNCHANGED <<kind, done, selfDone, handler, accepted, closed, doneCount, writer>>

Close ==
  /\ ~done
  /\ done' = TRUE
  /\ UNCHANGED <<kind, selfDone, handler, gone, accepted, closed, doneCount, writer>>

ClosePortal ==
  /\ ~selfDone
  /\ selfDone' = TRUE
  /\ UNCHANGED <<kind, done, handler, gone, accepted, closed, doneCount, writer>>

Next ==
  \/ \E r \in Requests :
       \/ Start(r) \/ Refuse(r) \/ Accept(r) \/ Return(r) \/ Leave(r)
       \/ CloseConn(r) \/ Write(r) \/ WriteOk(r) \/ WriteFails(r) \/ Flush(r)
  \/ Close \/ ClosePortal

(***************************************************************************)
(* Handlers run.  The portal owes nothing, it may leave a connection       *)
(* offered or open for ever, and a write to a client that reads nothing    *)
(* need not end.                                                           *)
(***************************************************************************)
Fairness ==
  \A r \in Requests :
    WF_vars(Refuse(r)) /\ WF_vars(Return(r))

Spec == Init /\ [][Next]_vars /\ Fairness

-----------------------------------------------------------------------------
(* Safety.                                                                 *)

\* A handler never returns while its response is being written to, whoever
\* closes the connection meanwhile.
ResponseAlive == \A r \in Requests : writer[r] = "writing" => handler[r] # "returned"

\* A handler that has returned has left a connection open only if it is a
\* websocket that the portal has.
NoOrphan ==
  \A r \in Requests :
    handler[r] = "returned" => closed[r] \/ (kind = "websocket" /\ accepted[r])

-----------------------------------------------------------------------------
(* Liveness.                                                               *)

\* A handler does not stay for nothing: closing the listener frees one that
\* offers its connection, and the close of the connection, however it came
\* about, frees one that waits.
HandlersFreed ==
  \A r \in Requests :
    /\ (done /\ handler[r] = "offering") ~> handler[r] # "offering"
    /\ closed[r] ~> handler[r] = "returned"
=============================================================================
