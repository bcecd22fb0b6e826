------------------------------- MODULE Relay -------------------------------
(***************************************************************************)
(* What accepts connections and joins each of them to one that a dialer    *)
(* makes: listener.BasicListener, bridge.bridge, sniproxy.Listener and the *)
(* routes of listener.HttpListener that lead to a dialer.  Their loops are *)
(* the same: accept, back off after an error, end once closed.  Each       *)
(* connection is served by a goroutine of its own, which asks the dialer   *)
(* and bridges, or closes the connection.                                  *)
(*                                                                         *)
(* The sniproxy first reads the server name from the connection, in yet    *)
(* another goroutine, against a timer and against Close.  What was read is *)
(* put in front of the rest of the stream (sniConn).                       *)
(*                                                                         *)
(* The dialer is that of Handoff, which Connect and HttpConnect implement. *)
(* Of network.Bridging it is used that it passes on what the client sends, *)
(* in order, and ends once one of its forwarders does; Bridging has the    *)
(* rest.  What a client sends is numbered: 1 is the header of a TLS        *)
(* record, 2 its body; their lengths are what they say they are.           *)
(***************************************************************************)
EXTENDS Naturals, Sequences

CONSTANTS
  Conns,      \* the connections of clients
  MaxUnits,   \* bound: how much each client sends
  MaxErrors   \* bound: errors of Accept before the listener is closed

ASSUME BoundsAssumption == MaxUnits \in Nat /\ MaxErrors \in Nat

Handlers == {"http", "websocket"}
Kinds == {"basic", "bridge", "sniproxy"} \cup Handlers

VARIABLES
  kind,     \* what accepts, fixed
  closing,  \* the steps of Close: "no", "flagged", "signalled", "closed"
  loop,     \* where Serve is
  errors,   \* how often Accept failed
  serve,    \* of each connection: its goroutine
  src,      \* the connection: not made, open, or closed by us
  gone,     \* its client has hung up
  sent,     \* how much it has sent
  taken,    \* how much of this was read from the connection
  sniff,    \* the goroutine of sniffSNI, "exited" with its outcome
  buffer,   \* what it read and the bridge has not yet
  out,      \* what the bridge wrote to the dialed connection, or writes to it
  writing,  \* the forwarder is in Write: the last of it was not taken yet
  dst,      \* the dialed connection
  answer, stream  \* of the dialer, see Handoff

D == INSTANCE Handoff WITH Calls <- Conns

loopVars == <<kind, closing, loop, errors>>
dataVars == <<gone, sent, taken, sniff, buffer, out, writing>>
dialVars == <<answer, stream>>
vars == <<loopVars, serve, src, dataVars, dst, dialVars>>

Outcomes == {"name", "error", "broken"}

TypeOK ==
  /\ kind \in Kinds
  /\ closing \in {"no", "flagged", "signalled", "closed"}
  /\ loop \in {"accepting", "sleeping", "returned"}
  /\ errors \in 0..MaxErrors
  /\ serve \in [Conns -> {"none", "started", "sniffing", "connecting", "bridging", "done"}]
  /\ src \in [Conns -> {"none", "open", "closed"}]
  /\ gone \in [Conns -> BOOLEAN]
  /\ sent \in [Conns -> 0..MaxUnits]
  /\ taken \in [Conns -> 0..MaxUnits] /\ \A c \in Conns : taken[c] <= sent[c]
  /\ sniff \in [Conns -> {"none", "header", "body"} \cup Outcomes]
  /\ buffer \in [Conns -> Seq(1..MaxUnits)]
  /\ out \in [Conns -> Seq(1..MaxUnits)]
  /\ writing \in [Conns -> BOOLEAN]
  /\ dst \in [Conns -> {"none", "open", "closed"}]
  /\ D!TypeOK

Init ==
  /\ kind \in Kinds
  /\ closing = "no" /\ loop = "accepting" /\ errors = 0
  /\ serve = [c \in Conns |-> "none"]
  /\ src = [c \in Conns |-> "none"]
  /\ gone = [c \in Conns |-> FALSE]
  /\ sent = [c \in Conns |-> 0]
  /\ taken = [c \in Conns |-> 0]
  /\ sniff = [c \in Conns |-> "none"]
  /\ buffer = [c \in Conns |-> <<>>]
  /\ out = [c \in Conns |-> <<>>]
  /\ writing = [c \in Conns |-> FALSE]
  /\ dst = [c \in Conns |-> "none"]
  /\ D!Init

-----------------------------------------------------------------------------
(* The loop of Serve, and Close.  The loop of the http listener is that of *)
(* net/http.                                                               *)

Accept(c) ==
  /\ loop = "accepting" /\ closing # "closed"
  /\ serve[c] = "none"
  /\ serve' = [serve EXCEPT ![c] = "started"]
  /\ src' = [src EXCEPT ![c] = "open"]
  /\ UNCHANGED <<loopVars, dataVars, dst, dialVars>>

\* Where an error of Accept takes the loop: the http server looks at the error,
\* which is temporary or not, the others at the flag.
AfterError ==
  IF kind \in Handlers
  THEN IF closing = "closed" THEN {"returned"} ELSE {"sleeping", "returned"}
  ELSE IF closing = "no" THEN {"sleeping"} ELSE {"returned"}

\* Mutant: the flag is not looked at.
AcceptFails_NoFlag ==
  /\ loop = "accepting"
  /\ closing = "closed" \/ errors < MaxErrors
  /\ errors' = IF closing = "closed" THEN errors ELSE errors + 1
  /\ loop' = "sleeping"
  /\ UNCHANGED <<kind, closing, serve, src, dataVars, dst, dialVars>>

AcceptFails ==
  /\ loop = "accepting"
  /\ closing = "closed" \/ errors < MaxErrors
  /\ errors' = IF closing = "closed" THEN errors ELSE errors + 1
  /\ loop' \in AfterError
  /\ UNCHANGED <<kind, closing, serve, src, dataVars, dst, dialVars>>

Wake ==
  /\ loop = "sleeping"
  /\ loop' = "accepting"
  /\ UNCHANGED <<kind, closing, errors, serve, src, dataVars, dst, dialVars>>

\* The compare-and-swap of the first Close; the done channel, which a basic
\* listener does not have; and the listener.
Flag == closing = "no" /\ closing' = "flagged"
Signal == closing = "flagged" /\ kind # "basic" /\ closing' = "signalled"
Shut == closing = (IF kind = "basic" THEN "flagged" ELSE "signalled") /\ closing' = "closed"

Close ==
  /\ Flag \/ Signal \/ Shut
  /\ UNCHANGED <<kind, loop, errors, serve, src, dataVars, dst, dialVars>>

-----------------------------------------------------------------------------
(* The goroutine that serves connection c.                                 *)

Goes(c, where) == serve' = [serve EXCEPT ![c] = where]

\* Mutant: the connection stays open.
GivesUp_KeepsOpen(c) ==
  /\ Goes(c, "done")
  /\ UNCHANGED <<loopVars, src, dataVars, dst>>

\* c.Close(), and the goroutine returns.
GivesUp(c) ==
  /\ Goes(c, "done")
  /\ src' = [src EXCEPT ![c] = "closed"]
  /\ UNCHANGED <<loopVars, dataVars, dst>>

\* Connect is called.
Asks(c) ==
  /\ D!Ask(c)
  /\ Goes(c, "connecting")
  /\ UNCHANGED <<loopVars, src, dataVars, dst>>

Start(c) ==
  /\ serve[c] = "started" /\ kind # "sniproxy"
  /\ Asks(c)

\* A handler refuses an access token; an upgrade fails.
Refused(c) ==
  /\ serve[c] = "started" /\ kind \in Handlers
  /\ GivesUp(c)
  /\ UNCHANGED dialVars

StartSniff(c) ==
  /\ serve[c] = "started" /\ kind = "sniproxy"
  /\ Goes(c, "sniffing")
  /\ sniff' = [sniff EXCEPT ![c] = "header"]
  /\ UNCHANGED <<loopVars, src, gone, sent, taken, buffer, out, writing, dst, dialVars>>

\* Mutant: a connection that says nothing gets the default route.
SniffTimeout_Default(c) ==
  /\ serve[c] = "sniffing"
  /\ Asks(c)

\* The timer; done may be ready as well.
SniffTimeout(c) ==
  /\ serve[c] = "sniffing"
  /\ GivesUp(c)
  /\ UNCHANGED dialVars

SniffClosed(c) ==
  /\ serve[c] = "sniffing" /\ closing \in {"signalled", "closed"}
  /\ GivesUp(c)
  /\ UNCHANGED dialVars

\* A route, the default or the fallback takes the connection, unless there
\* is none.
SniffDone(c) ==
  /\ serve[c] = "sniffing" /\ sniff[c] \in Outcomes
  /\ \/ sniff[c] # "broken" /\ Asks(c)
     \/ GivesUp(c) /\ UNCHANGED dialVars

Connected(c) ==
  /\ D!Give(c)
  /\ dst' = [dst EXCEPT ![c] = "open"]
  /\ Goes(c, "bridging")
  /\ UNCHANGED <<loopVars, src, dataVars>>

ConnectFails(c) ==
  /\ D!Refuse(c)
  /\ GivesUp(c)

\* The dialer, at any time; it gives a stream or refuses to do so above.
Dialing(c) ==
  /\ D!Open(c) \/ D!Release(c)
  /\ UNCHANGED <<loopVars, serve, src, dataVars, dst>>

\* Mutant: the bridge gets the connection itself.
Forward_Raw(c) ==
  /\ serve[c] = "bridging" /\ ~writing[c] /\ taken[c] < sent[c]
  /\ taken' = [taken EXCEPT ![c] = @ + 1]
  /\ out' = [out EXCEPT ![c] = Append(@, taken[c] + 1)]
  /\ writing' = [writing EXCEPT ![c] = TRUE]
  /\ UNCHANGED <<loopVars, serve, src, gone, sent, sniff, buffer, dst, dialVars>>

\* The forwarder reads, first what was sniffed, and calls Write.
Forward(c) ==
  /\ serve[c] = "bridging" /\ ~writing[c]
  /\ \/ /\ buffer[c] # <<>>
        /\ out' = [out EXCEPT ![c] = Append(@, Head(buffer[c]))]
        /\ buffer' = [buffer EXCEPT ![c] = Tail(@)]
        /\ UNCHANGED taken
     \/ /\ buffer[c] = <<>> /\ taken[c] < sent[c]
        /\ taken' = [taken EXCEPT ![c] = @ + 1]
        /\ out' = [out EXCEPT ![c] = Append(@, taken[c] + 1)]
        /\ UNCHANGED buffer
  /\ writing' = [writing EXCEPT ![c] = TRUE]
  /\ UNCHANGED <<loopVars, serve, src, gone, sent, sniff, dst, dialVars>>

\* The dialed peer takes the data and Write returns.
Written(c) ==
  /\ serve[c] = "bridging" /\ writing[c]
  /\ writing' = [writing EXCEPT ![c] = FALSE]
  /\ UNCHANGED <<loopVars, serve, src, gone, sent, taken, sniff, buffer, out, dst, dialVars>>

\* A forwarder, of this direction or of the other one, has met the end of its
\* reader or an error.
BridgeEnds(c) ==
  /\ serve[c] = "bridging"
  /\ src' = [src EXCEPT ![c] = "closed"]
  /\ dst' = [dst EXCEPT ![c] = "closed"]
  /\ Goes(c, "done")
  /\ UNCHANGED <<loopVars, dataVars, dialVars>>

-----------------------------------------------------------------------------
(* sniffSNI.                                                               *)

Sniffing(c) == sniff[c] \in {"header", "body"}

\* Mutant: one read of the connection in place of io.ReadFull.
SniffReads_NotFull(c) ==
  /\ Sniffing(c) /\ src[c] = "open"
  /\ taken' = [taken EXCEPT ![c] = @ + 1]
  /\ buffer' = [buffer EXCEPT ![c] = Append(@, taken[c] + 1)]
  /\ \E s \in {IF sniff[c] = "header" THEN "body" ELSE "name", "error"} :
       sniff' = [sniff EXCEPT ![c] = s]
  /\ UNCHANGED <<loopVars, serve, src, gone, sent, out, writing, dst, dialVars>>

\* A part of the record is read.  After the header, which may be no TLS, the
\* body follows; after it the name is found or not.
SniffReads(c) ==
  /\ Sniffing(c) /\ src[c] = "open" /\ taken[c] < sent[c]
  /\ taken' = [taken EXCEPT ![c] = @ + 1]
  /\ buffer' = [buffer EXCEPT ![c] = Append(@, taken[c] + 1)]
  /\ \E s \in {IF sniff[c] = "header" THEN "body" ELSE "name", "error"} :
       sniff' = [sniff EXCEPT ![c] = s]
  /\ UNCHANGED <<loopVars, serve, src, gone, sent, out, writing, dst, dialVars>>

\* Mutant: it waits for data on a connection that is closed.
SniffBreaks_NotClosed(c) ==
  /\ Sniffing(c) /\ src[c] = "open"
  /\ gone[c] /\ taken[c] = sent[c]
  /\ sniff' = [sniff EXCEPT ![c] = "broken"]
  /\ src' = [src EXCEPT ![c] = "closed"]
  /\ UNCHANGED <<loopVars, serve, gone, sent, taken, buffer, out, writing, dst, dialVars>>

\* The read fails, and the connection is closed.
SniffBreaks(c) ==
  /\ Sniffing(c)
  /\ src[c] = "closed" \/ (gone[c] /\ taken[c] = sent[c])
  /\ sniff' = [sniff EXCEPT ![c] = "broken"]
  /\ src' = [src EXCEPT ![c] = "closed"]
  /\ UNCHANGED <<loopVars, serve, gone, sent, taken, buffer, out, writing, dst, dialVars>>

-----------------------------------------------------------------------------
(* The clients.                                                            *)

Send(c) ==
  /\ src[c] = "open" /\ ~gone[c] /\ sent[c] < MaxUnits
  /\ sent' = [sent EXCEPT ![c] = @ + 1]
  /\ UNCHANGED <<loopVars, serve, src, gone, taken, sniff, buffer, out, writing, dst, dialVars>>

Hangup(c) ==
  /\ src[c] = "open" /\ ~gone[c]
  /\ gone' = [gone EXCEPT ![c] = TRUE]
  /\ UNCHANGED <<loopVars, serve, src, sent, taken, sniff, buffer, out, writing, dst, dialVars>>

Next ==
  \/ AcceptFails \/ Wake \/ Close
  \/ \E c \in Conns :
       \/ Accept(c) \/ Start(c) \/ Refused(c) \/ StartSniff(c)
       \/ SniffTimeout(c) \/ SniffClosed(c) \/ SniffDone(c) \/ SniffReads(c) \/ SniffBreaks(c)
       \/ Connected(c) \/ ConnectFails(c) \/ Dialing(c)
       \/ Forward(c) \/ Written(c) \/ BridgeEnds(c)
       \/ Send(c) \/ Hangup(c)

(***************************************************************************)
(* Goroutines run, the sniffing timer fires, a Close that was begun goes   *)
(* on.  The dialer is prompt: it has a timeout.  A forwarder that has read *)
(* all that its client sent before it hung up, and is not in Write, meets  *)
(* the end of the stream; with it the bridge ends (FirstEndEndsAll of      *)
(* Bridging).                                                              *)
(* Clients owe nothing, and neither do the dialed peers: no Write need     *)
(* return.                                                                 *)
(***************************************************************************)
Fairness ==
  /\ WF_vars(AcceptFails /\ closing = "closed") /\ WF_vars(Wake) /\ WF_vars(Close /\ closing # "no")
  /\ \A c \in Conns :
       /\ WF_vars(Start(c) \/ Refused(c) \/ StartSniff(c))
       /\ WF_vars(SniffTimeout(c) \/ SniffClosed(c) \/ SniffDone(c))
       /\ WF_vars(SniffReads(c) \/ SniffBreaks(c))
       /\ WF_vars(Connected(c) \/ ConnectFails(c))
       /\ WF_vars(Forward(c))
       /\ WF_vars(/\ gone[c] /\ taken[c] = sent[c] /\ buffer[c] = <<>> /\ ~writing[c]
                  /\ BridgeEnds(c))

Spec == Init /\ [][Next]_vars /\ Fairness

-----------------------------------------------------------------------------
(* Safety.                                                                 *)

\* What is written to the dialed connection is what the client has sent, from its
\* first byte and in order, whatever part of it was sniffed and however the
\* sniffing ended (sniConn.Read).
ClientBytesIntact == \A c \in Conns : out[c] = [i \in 1..Len(out[c]) |-> i]

\* A connection whose goroutine has returned is closed, and so is the one
\* that the dialer gave for it; while it runs, that one is bridged.
NoOrphan ==
  \A c \in Conns :
    /\ serve[c] = "done" => src[c] = "closed"
    /\ dst[c] = "open" <=> serve[c] = "bridging"
    /\ stream[c] = "owned" <=> dst[c] # "none"

-----------------------------------------------------------------------------
(* Liveness.                                                               *)

\* A connection to the sniproxy does not stay unrouted, even if its client
\* is silent, and the goroutine that sniffs does not outlive the decision.
SniffEnds ==
  \A c \in Conns : serve[c] = "sniffing" ~> serve[c] # "sniffing" /\ ~Sniffing(c)

\* The dialed peers take what is written to them.
Draining == \A c \in Conns : WF_vars(Written(c))

\* When a client hangs up everything made for it ends, be it sniffing or
\* dialing at the time, and a bridge, too, if the dialed peer takes what the
\* client has sent; one that does not keeps the forwarder in Write, and the
\* bridge has not seen the end.
EndsWithClient ==
  /\ \A c \in Conns : gone[c] ~> (serve[c] = "done" \/ writing[c]) /\ ~Sniffing(c)
  /\ Draining => \A c \in Conns : gone[c] ~> serve[c] = "done" /\ ~Sniffing(c)

\* Closing ends the loop, one that backs off after an error included.
CloseEndsServe == closing # "no" ~> loop = "returned"
=============================================================================
