----------------------------- MODULE UdpStream -----------------------------
(***************************************************************************)
(* Datagrams over a stream.  A connection of the udp listener (udpToTcp)   *)
(* and one of the udp dialer (tcpFromUdp) have the same two halves: Read   *)
(* puts a length of two bytes before each datagram that comes in, and      *)
(* Write hands the bytes of the stream, cut anywhere, over a pipe to a     *)
(* goroutine (run) that collects a length and then as many bytes, and      *)
(* sends them as a datagram.  A second goroutine counts the ticks of a ten *)
(* second ticker since the last datagram and closes the connection.        *)
(*                                                                         *)
(* The module follows one direction through two such connections, one of a *)
(* listener and one of a dialer: Read of the near end, the streams and     *)
(* bridges in between, and Write, run and the timer of the far end.  Bytes *)
(* are numbers: a datagram is filled with the number of its arrival.  What *)
(* a full queue of the listener drops (UdpListener) does not come in.      *)
(***************************************************************************)
EXTENDS Integers, Sequences

CONSTANTS
  Lengths,       \* lengths of the datagrams that arrive
  Size,          \* c.size: what does not fit is cut off
  Wait,          \* ticks without a datagram until the timer closes (wait)
  MaxDatagrams,  \* bound: datagrams that arrive
  MaxAnswers     \* bound: datagrams that arrive at the far end

ASSUME SizeAssumption == Size \in 1..65535 /\ Lengths \subseteq Nat
ASSUME WaitAssumption == Wait \in Nat \ {0}
ASSUME BoundAssumption == MaxDatagrams \in Nat /\ MaxAnswers \in Nat

VARIABLES
  side,      \* the near end, fixed: "listener" or "dialer"
  arrived,   \* how many datagrams have come in
  taken,     \* those of them that are not empty, cut to Size (history)
  read,      \* c.read: what is left of the last of them
  near,      \* the near end is open
  wire,      \* the bytes between the two ends
  fwd,       \* the forwarder that calls Write
  chunk,     \* what is left of the slice it writes
  run,       \* the goroutine of run
  buf,       \* b[:], as far as it was read
  need,      \* how many bytes it is to have
  out,       \* the datagrams sent
  closed,    \* the far end is closed
  timer,     \* the goroutine of the ticker
  count,     \* its counter
  signal,    \* a value is in the channel c.signal
  answers    \* how many datagrams have come in at the far end

nearVars == <<side, arrived, taken, read, near>>
pipeVars == <<wire, fwd, chunk>>
runVars == <<run, buf, need, out>>
timerVars == <<timer, count, signal, answers>>
vars == <<nearVars, pipeVars, runVars, closed, timerVars>>

Init ==
  /\ side \in {"listener", "dialer"}
  /\ arrived = 0 /\ taken = <<>> /\ read = <<>> /\ near = TRUE
  /\ wire = <<>> /\ fwd = "copying" /\ chunk = <<>>
  /\ run = "header" /\ buf = <<>> /\ need = 2 /\ out = <<>>
  /\ closed = FALSE
  /\ timer = "running" /\ count = 0 /\ signal = FALSE /\ answers = 0

Smaller(m, n) == IF m < n THEN m ELSE n
Rest(s, k) == SubSeq(s, k + 1, Len(s))

-----------------------------------------------------------------------------
(* The near end.                                                           *)

\* binary.LittleEndian.PutUint16, and the datagram.
Frame(d) == <<Len(d) % 256, Len(d) \div 256>> \o d

\* Datagram number k of length n, as the socket delivers it.
Payload(k, n) == [i \in 1..Smaller(n, Size) |-> k]

\* A datagram comes in.  The dialer passes over an empty one, the listener
\* makes a frame of it, too.
Arrive(n) ==
  /\ near /\ read = <<>> /\ arrived < MaxDatagrams
  /\ arrived' = arrived + 1
  /\ taken' = IF n = 0 THEN taken ELSE Append(taken, Payload(arrived + 1, n))
  /\ read' = IF side = "dialer" /\ n = 0 THEN read ELSE Frame(Payload(arrived + 1, n))
  /\ UNCHANGED <<side, near, pipeVars, runVars, closed, timerVars>>

\* Read copies as much as the slice of the bridge takes.
Read(k) ==
  /\ near /\ k <= Len(read)
  /\ wire' = wire \o SubSeq(read, 1, k)
  /\ read' = Rest(read, k)
  /\ UNCHANGED <<side, arrived, taken, near, fwd, chunk, runVars, closed, timerVars>>

\* The near end is closed, or its bridge ends.
NearEnds ==
  /\ near
  /\ near' = FALSE
  /\ UNCHANGED <<side, arrived, taken, read, pipeVars, runVars, closed, timerVars>>

-----------------------------------------------------------------------------
(* The far end, seen by its bridge.                                        *)

\* Write of any slice of the stream.
Write(k) ==
  /\ fwd = "copying" /\ chunk = <<>> /\ ~closed /\ k <= Len(wire)
  /\ chunk' = SubSeq(wire, 1, k)
  /\ wire' = Rest(wire, k)
  /\ UNCHANGED <<nearVars, fwd, runVars, closed, timerVars>>

\* Mutant: a Write that has begun waits for its reader.
WriteFails_Waits ==
  /\ fwd = "copying" /\ closed /\ chunk = <<>>
  /\ fwd' = "ended"
  /\ UNCHANGED <<nearVars, wire, chunk, runVars, closed, timerVars>>

\* The pipe is closed, before Write or under it.
WriteFails ==
  /\ fwd = "copying" /\ closed
  /\ fwd' = "ended" /\ chunk' = <<>>
  /\ UNCHANGED <<nearVars, wire, runVars, closed, timerVars>>

\* The near end is closed and all it sent was written.
StreamEnds ==
  /\ fwd = "copying" /\ ~near /\ wire = <<>> /\ chunk = <<>>
  /\ fwd' = "ended"
  /\ UNCHANGED <<nearVars, wire, chunk, runVars, closed, timerVars>>

\* The bridge closes the connection; it may do so for its other direction.
BridgeCloses ==
  /\ ~closed
  /\ closed' = TRUE
  /\ UNCHANGED <<nearVars, pipeVars, runVars, timerVars>>

-----------------------------------------------------------------------------
(* run.                                                                    *)

\* Mutant: io.Reader.Read in place of io.ReadAtLeast.
Fill_Once ==
  /\ run \in {"header", "body"} /\ Len(buf) < need /\ chunk # <<>>
  /\ LET k == Smaller(need, Len(chunk)) IN
       /\ buf' = SubSeq(chunk, 1, k) \o [i \in 1..(need - k) |-> 0]
       /\ chunk' = Rest(chunk, k)
  /\ UNCHANGED <<nearVars, wire, fwd, run, need, out, closed, timerVars>>

\* io.ReadAtLeast: one read of the pipe.
Fill ==
  /\ run \in {"header", "body"} /\ Len(buf) < need /\ chunk # <<>> /\ ~closed
  /\ LET k == Smaller(need - Len(buf), Len(chunk)) IN
       /\ buf' = buf \o SubSeq(chunk, 1, k)
       /\ chunk' = Rest(chunk, k)
  /\ UNCHANGED <<nearVars, wire, fwd, run, need, out, closed, timerVars>>

\* Mutant: run returns at an empty frame, and leaves the connection open.
Header_Returns ==
  /\ run = "header" /\ Len(buf) = need
  /\ LET n == buf[1] + 256 * buf[2] IN
       IF n = 0 THEN run' = "exited" /\ UNCHANGED need ELSE run' = "body" /\ need' = n
  /\ buf' = <<>>
  /\ UNCHANGED <<nearVars, pipeVars, out, closed, timerVars>>

\* binary.LittleEndian.Uint16; an empty frame is passed over.
Header ==
  /\ run = "header" /\ Len(buf) = need
  /\ LET n == buf[1] + 256 * buf[2] IN
       IF n = 0 THEN UNCHANGED <<run, need>> ELSE run' = "body" /\ need' = n
  /\ buf' = <<>>
  /\ UNCHANGED <<nearVars, pipeVars, out, closed, timerVars>>

\* The datagram is sent, and the timer signalled.
Send ==
  /\ run = "body" /\ Len(buf) = need
  /\ out' = Append(out, buf)
  /\ run' = "header" /\ buf' = <<>> /\ need' = 2
  /\ signal' = TRUE
  /\ UNCHANGED <<nearVars, pipeVars, closed, timer, count, answers>>

\* The socket refuses the datagram, or it is closed.
SendFails ==
  /\ run = "body" /\ Len(buf) = need
  /\ run' = "exited" /\ closed' = TRUE
  /\ UNCHANGED <<nearVars, pipeVars, buf, need, out, timerVars>>

\* The pipe is closed: a piece that is not complete is dropped.
RunEnds ==
  /\ run \in {"header", "body"} /\ Len(buf) < need /\ closed
  /\ run' = "exited"
  /\ UNCHANGED <<nearVars, pipeVars, buf, need, out, closed, timerVars>>

-----------------------------------------------------------------------------
(* The timer.  When a tick and a signal are both ready the select takes    *)
(* either.  It does not look at c.done.                                    *)

Tick ==
  /\ timer = "running"
  /\ count' = count + 1
  /\ IF count + 1 = Wait THEN timer' = "exited" /\ closed' = TRUE
                         ELSE UNCHANGED <<timer, closed>>
  /\ UNCHANGED <<nearVars, pipeVars, runVars, signal, answers>>

Signalled ==
  /\ timer = "running" /\ signal
  /\ signal' = FALSE /\ count' = 0
  /\ UNCHANGED <<nearVars, pipeVars, runVars, closed, timer, answers>>

\* A datagram for the other direction comes in at a listener (putRead); at a
\* dialer it does not concern the timer.
Answer ==
  /\ side = "dialer" /\ ~closed /\ answers < MaxAnswers
  /\ answers' = answers + 1
  /\ signal' = TRUE
  /\ UNCHANGED <<nearVars, pipeVars, runVars, closed, timer, count>>

Run == Fill \/ Header \/ Send \/ SendFails \/ RunEnds
Forwarder == (\E k \in 1..Len(wire) : Write(k)) \/ WriteFails \/ StreamEnds

Next ==
  \/ \E n \in Lengths : Arrive(n)
  \/ \E k \in 1..Len(read) : Read(k)
  \/ NearEnds \/ BridgeCloses
  \/ Forwarder \/ Run
  \/ Tick \/ Signalled \/ Answer

(***************************************************************************)
(* The goroutines of both ends and of the bridges run.  Nothing arrives    *)
(* for sure, no end is closed for sure, and the ticker need not tick: what *)
(* the goroutines do they have to do without its help, see Ticking.        *)
(***************************************************************************)
Fairness ==
  /\ WF_vars(\E k \in 1..Len(read) : Read(k))
  /\ WF_vars(Forwarder) /\ WF_vars(Run)
  /\ WF_vars(fwd = "ended" /\ BridgeCloses)
  /\ WF_vars(Signalled)

Spec == Init /\ [][Next]_vars /\ Fairness

-----------------------------------------------------------------------------
(* Properties.                                                             *)

A == INSTANCE Datagrams WITH
  Data <- {Payload(k, n) : k \in 1..MaxDatagrams, n \in Lengths \ {0}},
  underway <- Rest(taken, Len(out)),
  delivered <- out,
  open <- near /\ ~closed

\* However Read and Write cut the stream, each datagram that is not empty
\* comes out whole, once and in order; and all do come out of a connection
\* whose ends stay open, which is one whose ticker is slower than its bytes.
ImplementsDatagrams == A!Spec

\* The ticker ticks again and again.
Ticking == WF_vars(Tick)

\* A connection whose traffic ends is closed by its ticker, its two goroutines
\* exit, and nobody is left in Write.
IdleEnds == Ticking => <>[](closed /\ run = "exited" /\ timer = "exited" /\ chunk = <<>>)
=============================================================================
