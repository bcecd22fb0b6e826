--------------------------- MODULE BridgingProofs --------------------------
(***************************************************************************)
(* Proofs about Bridging for any number of messages, every grace period    *)
(* and any choice of http endpoints: its types, that the grace period is   *)
(* respected, that no message is lost between peers that hang up in order, *)
(* and that no forwarder stays at the channel.                             *)
(***************************************************************************)
EXTENDS Bridging, TLAPS

USE DEF setting

Before == {"waiting", "polling", "grace", "close1"}
After == {"close0", "returned"}

-----------------------------------------------------------------------------
(* Every value that a forwarder put in the channel is still there or was   *)
(* taken by the main goroutine, whose place says how many it took.         *)

One == \E f \in Ends : fwd[f] = "exited" /\ fwd[Other(f)] # "exited"
Both == \A f \in Ends : fwd[f] = "exited"
Neither == \A f \in Ends : fwd[f] # "exited"

Values ==
  /\ main = "waiting" => (done = 0 /\ Neither) \/ (done = 1 /\ One)
  /\ main \in {"polling", "grace"} => (done = 0 /\ One) \/ (done = 1 /\ Both)
  /\ main \in {"close1", "close0", "returned"} =>
       /\ ~Neither
       /\ grace = "none" \/ elapsed \/ Both

Closes ==
  /\ closed[1] => main \in After
  /\ closed[0] => main = "returned"

-----------------------------------------------------------------------------
(* The message a forwarder holds is between its read and its write.  As    *)
(* long as nothing is closed and nobody is gone, only a direction that is  *)
(* complete ends.                                                          *)

Counts ==
  \A f \in Ends :
    /\ got[f] <= sent[f]
    /\ put[f] <= got[f]
    /\ fwd[f] = "reading" => put[f] = got[f]
    /\ fwd[f] = "writing" => put[f] + 1 = got[f]

NoneGone == \A e \in Ends : peer[e] # "gone"

Ended(f) == fwd[f] \in {"ending", "exited"}
Complete(f) == Ended(f) /\ peer[f] = "eof" /\ put[f] = sent[f]

Data ==
  /\ main \in Before /\ NoneGone => \A f \in Ends : Ended(f) => Complete(f)
  /\ main \in After /\ NoneGone =>
       /\ \E f \in Ends : Complete(f)
       /\ grace = "none" \/ elapsed \/ \A f \in Ends : Complete(f)

IInv == TypeOK /\ Values /\ Closes /\ Counts /\ Data

-----------------------------------------------------------------------------

LEMMA EndsFacts ==
  /\ 0 \in Ends /\ 1 \in Ends
  /\ Other(0) = 1 /\ Other(1) = 0
  /\ \A f \in Ends : f = 0 \/ f = 1
BY DEF Ends, Other

\* IInv holds when the forwarders are started.
LEMMA InitIInv == Init => IInv
<1> SUFFICES ASSUME Init PROVE IInv
  OBVIOUS
<1>1. TypeOK
  <2>1. 0 \in 0..MaxMsgs /\ 0 \in 0..1
    BY MaxMsgsAssumption
  <2> QED
    BY <2>1 DEF Init, TypeOK
<1>2. Values /\ Closes
  BY EndsFacts DEF Init, Values, Closes, Neither, After
<1>3. Counts /\ Data
  BY DEF Init, Counts, Data, Ended, After
<1> QED
  BY <1>1, <1>2, <1>3 DEF IInv

\* A step keeps the types.  The counters stay below the bound on sent.
LEMMA NextTypeOK == IInv /\ [Next]_vars => TypeOK'
<1> SUFFICES ASSUME IInv, [Next]_vars PROVE TypeOK'
  OBVIOUS
<1> USE MaxMsgsAssumption DEF IInv, TypeOK, Counts
<1>1. ASSUME NEW e \in Ends, Send(e) PROVE TypeOK'
  BY <1>1 DEF Send
<1>2. ASSUME NEW e \in Ends, Hangup(e, "eof") \/ Hangup(e, "gone") PROVE TypeOK'
  BY <1>2 DEF Hangup
<1>3. ASSUME NEW f \in Ends, Read(f) PROVE TypeOK'
  BY <1>3 DEF Read
<1>4. ASSUME NEW f \in Ends, ReadEnds(f) PROVE TypeOK'
  BY <1>4 DEF ReadEnds
<1>5. ASSUME NEW f \in Ends, Write(f) PROVE TypeOK'
  BY <1>5 DEF Write
<1>6. ASSUME NEW f \in Ends, WriteEnds(f) PROVE TypeOK'
  BY <1>6 DEF WriteEnds
<1>7. ASSUME NEW f \in Ends, Signal(f) PROVE TypeOK'
  BY <1>7 DEF Signal
<1>8. CASE FirstDone \/ Poll
  BY <1>8 DEF FirstDone, Poll
<1>9. CASE GraceElapses
  BY <1>9, Zenon DEF GraceElapses
<1>10. CASE SecondDone
  BY <1>10 DEF SecondDone
<1>11. CASE Close1 \/ Close0
  BY <1>11 DEF Close1, Close0
<1>12. CASE UNCHANGED vars
  BY <1>12 DEF vars
<1> QED
  BY <1>1, <1>2, <1>3, <1>4, <1>5, <1>6, <1>7, <1>8, <1>9, <1>10, <1>11, <1>12
  DEF Next, ForwarderReads, Main
\* A step keeps the account of the values in the channel, and the closes.
LEMMA NextValues == IInv /\ [Next]_vars => Values' /\ Closes'
<1> SUFFICES ASSUME IInv, [Next]_vars PROVE Values' /\ Closes'
  OBVIOUS
<1> USE EndsFacts DEF IInv, TypeOK, Values, Closes, One, Both, Neither, After
<1>1. ASSUME NEW e \in Ends, Send(e) \/ Hangup(e, "eof") \/ Hangup(e, "gone")
      PROVE  Values' /\ Closes'
  BY <1>1 DEF Send, Hangup
<1>2. ASSUME NEW f \in Ends, Read(f) \/ ReadEnds(f) PROVE Values' /\ Closes'
  BY <1>2 DEF Read, ReadEnds
<1>3. ASSUME NEW f \in Ends, Write(f) PROVE Values' /\ Closes'
  BY <1>3 DEF Write
<1>4. ASSUME NEW f \in Ends, WriteEnds(f) PROVE Values' /\ Closes'
  <2>1. /\ fwd' = [fwd EXCEPT ![f] = "ending"] /\ fwd[f] = "writing"
        /\ UNCHANGED <<setting, closed, done, main, elapsed>>
    BY <1>4 DEF WriteEnds
  <2> QED
    BY <2>1
<1>5. ASSUME NEW f \in Ends, Signal(f) PROVE Values' /\ Closes'
  BY <1>5 DEF Signal
<1>6. CASE FirstDone
  BY <1>6 DEF FirstDone, Graces
<1>7. CASE Poll
  BY <1>7 DEF Poll
<1>8. CASE GraceElapses \/ SecondDone
  BY <1>8 DEF GraceElapses, SecondDone
<1>9. CASE Close1 \/ Close0
  BY <1>9 DEF Close1, Close0
<1>10. CASE UNCHANGED vars
  BY <1>10 DEF vars
<1> QED
  BY <1>1, <1>2, <1>3, <1>4, <1>5, <1>6, <1>7, <1>8, <1>9, <1>10
  DEF Next, ForwarderReads, Main

\* A step keeps the counters of each direction in order.
LEMMA NextCounts == IInv /\ [Next]_vars => Counts'
<1> SUFFICES ASSUME IInv, [Next]_vars PROVE Counts'
  OBVIOUS
<1> USE DEF IInv, TypeOK, Counts
<1>1. ASSUME NEW e \in Ends, Send(e) PROVE Counts'
  BY <1>1 DEF Send
<1>2. ASSUME NEW e \in Ends, Hangup(e, "eof") \/ Hangup(e, "gone") PROVE Counts'
  BY <1>2 DEF Hangup
<1>3. ASSUME NEW f \in Ends, Read(f) PROVE Counts'
  BY <1>3 DEF Read
<1>4. ASSUME NEW f \in Ends, ReadEnds(f) PROVE Counts'
  BY <1>4 DEF ReadEnds
<1>5. ASSUME NEW f \in Ends, Write(f) PROVE Counts'
  BY <1>5 DEF Write
<1>6. ASSUME NEW f \in Ends, WriteEnds(f) PROVE Counts'
  BY <1>6 DEF WriteEnds
<1>7. ASSUME NEW f \in Ends, Signal(f) PROVE Counts'
  BY <1>7 DEF Signal
<1>8. CASE Main
  BY <1>8 DEF Main, FirstDone, Poll, GraceElapses, SecondDone, Close1, Close0
<1>9. CASE UNCHANGED vars
  BY <1>9 DEF vars
<1> QED
  BY <1>1, <1>2, <1>3, <1>4, <1>5, <1>6, <1>7, <1>8, <1>9 DEF Next, ForwarderReads
\* A direction that ends before anything is closed, with nobody gone, was
\* read to its end and written to its end.
LEMMA OpenEnds ==
  ASSUME IInv, NEW f \in Ends, ReadEnds(f) \/ WriteEnds(f), main \in Before, NoneGone
  PROVE  ReadEnds(f) /\ peer[f] = "eof" /\ put[f] = sent[f]
<1>1. ~closed[0] /\ ~closed[1] /\ main # "returned"
  BY DEF IInv, Closes, Before, After
<1>2. Other(f) \in Ends /\ ~closed[f] /\ ~closed[Other(f)]
  BY <1>1, EndsFacts
<1>3. ~WriteEnds(f)
  BY <1>1, <1>2 DEF WriteEnds, Writable, NoneGone
<1>4. fwd[f] = "reading" /\ peer[f] = "eof" /\ got[f] = sent[f]
  BY <1>2, <1>3 DEF ReadEnds, NoneGone
<1> QED
  BY <1>3, <1>4 DEF IInv, Counts

\* A step keeps the relation between the messages and the ended directions.
LEMMA NextData == IInv /\ [Next]_vars => Data'
<1> SUFFICES ASSUME IInv, [Next]_vars PROVE Data'
  OBVIOUS
<1> USE EndsFacts DEF IInv, TypeOK, Data, Complete, Ended, NoneGone, Before, After
<1>1. ASSUME NEW e \in Ends, Send(e) PROVE Data'
  BY <1>1 DEF Send
<1>2. ASSUME NEW e \in Ends, Hangup(e, "eof") \/ Hangup(e, "gone") PROVE Data'
  BY <1>2 DEF Hangup
<1>3. ASSUME NEW f \in Ends, Read(f) PROVE Data'
  BY <1>3 DEF Read
<1>4. ASSUME NEW f \in Ends, ReadEnds(f) PROVE Data'
  <2>1. main \in Before /\ NoneGone => peer[f] = "eof" /\ put[f] = sent[f]
    BY <1>4, OpenEnds
  <2>2. fwd' = [fwd EXCEPT ![f] = "ending"] /\ UNCHANGED <<setting, peer, sent, put, main, elapsed>>
    BY <1>4 DEF ReadEnds
  <2>3. CASE main \in Before
    BY <2>1, <2>2, <2>3
  <2>4. CASE main \in After
    <3>1. \A g \in Ends : Complete(g) => Complete(g)'
      BY <2>2
    <3> QED
      BY <2>2, <2>4, <3>1
  <2> QED
    BY <2>3, <2>4
<1>5. ASSUME NEW f \in Ends, Write(f) PROVE Data'
  BY <1>5 DEF Write
<1>6. ASSUME NEW f \in Ends, WriteEnds(f) PROVE Data'
  <2>1. /\ fwd' = [fwd EXCEPT ![f] = "ending"] /\ fwd[f] = "writing"
        /\ UNCHANGED <<setting, peer, sent, got, put, closed, done, main, elapsed>>
    BY <1>6 DEF WriteEnds
  <2>2. ~(main \in Before /\ NoneGone)
    BY <1>6, <2>1, OpenEnds DEF ReadEnds
  <2> QED
    BY <2>1, <2>2
<1>7. ASSUME NEW f \in Ends, Signal(f) PROVE Data'
  BY <1>7 DEF Signal
<1>8. CASE FirstDone \/ Poll \/ GraceElapses \/ SecondDone
  BY <1>8 DEF FirstDone, Poll, GraceElapses, SecondDone
<1>9. CASE Close1
  BY <1>9 DEF Close1, Values, Both, Neither
<1>10. CASE Close0
  BY <1>10 DEF Close0
<1>11. CASE UNCHANGED vars
  BY <1>11 DEF vars
<1> QED
  BY <1>1, <1>2, <1>3, <1>4, <1>5, <1>6, <1>7, <1>8, <1>9, <1>10, <1>11
  DEF Next, ForwarderReads, Main

LEMMA Invariance == Spec => []IInv
<1>1. IInv /\ [Next]_vars => IInv'
  BY NextTypeOK, NextValues, NextCounts, NextData DEF IInv
<1> QED
  BY <1>1, InitIInv, PTL DEF Spec

-----------------------------------------------------------------------------

\* Every variable keeps its type: the channel never overflows and no counter
\* runs past the messages sent.
THEOREM TypeCorrect == Spec => []TypeOK
BY Invariance, PTL DEF IInv

\* An endpoint is closed only after the grace period, unless both directions
\* have finished or there is no grace period.
THEOREM BridgingRespectsGrace == Spec => []GraceRespected
<1>1. IInv => GraceRespected
  BY DEF IInv, Closes, Values, After, Both, GraceRespected
<1> QED
  BY <1>1, Invariance, PTL

\* Between peers that hang up in order a returned bridge has delivered every
\* message of one direction, and of both unless the grace period cut it off.
THEOREM BridgingLosesNothing == Spec => []NoDataLost
<1>1. IInv => NoDataLost
  BY DEF IInv, Data, After, NoneGone, Complete, NoDataLost
<1> QED
  BY <1>1, Invariance, PTL

-----------------------------------------------------------------------------
(* The channel.  It has room for one value, and two are put in.  The main  *)
(* goroutine takes the first in any case and may return without the second.*)

\* Once the main goroutine has taken the first value, a channel that is full
\* holds the second: nobody else comes.
Room == done = 1 /\ main # "waiting" => Both

\* A forwarder that ends finds room in the channel, or the main goroutine still
\* waits for what fills it.
NoSignalStuck == \A f \in Ends : fwd[f] = "ending" => done = 0 \/ main = "waiting"

\* A step fills the channel after the first value only with the second.
LEMMA NextRoom == IInv /\ Room /\ [Next]_vars => Room'
<1> SUFFICES ASSUME IInv, Room, [Next]_vars PROVE Room'
  OBVIOUS
<1> USE EndsFacts DEF IInv, TypeOK, Room, Both
<1>1. ASSUME NEW e \in Ends, Send(e) \/ Hangup(e, "eof") \/ Hangup(e, "gone") PROVE Room'
  BY <1>1 DEF Send, Hangup
<1>2. ASSUME NEW f \in Ends, ForwarderReads(f) \/ Write(f) \/ WriteEnds(f) PROVE Room'
  BY <1>2 DEF ForwarderReads, Read, ReadEnds, Write, WriteEnds
<1>3. ASSUME NEW f \in Ends, Signal(f) PROVE Room'
  <2>1. CASE main = "waiting"
    BY <1>3, <2>1 DEF Signal
  <2>2. CASE main # "waiting"
    <3>1. ~Neither
      BY <1>3, <2>2 DEF Signal, Values, One, Neither
    <3> QED
      BY <1>3, <3>1 DEF Signal, Neither
  <2> QED
    BY <2>1, <2>2
<1>4. CASE Main
  BY <1>4 DEF Main, FirstDone, Poll, GraceElapses, SecondDone, Close1, Close0
<1>5. CASE UNCHANGED vars
  BY <1>5 DEF vars
<1> QED
  BY <1>1, <1>2, <1>3, <1>4, <1>5 DEF Next

\* No forwarder stays at the channel, also when Bridging has returned and nobody
\* reads it any more: one value of room is enough for two forwarders.
THEOREM BridgingSignals == Spec => []NoSignalStuck
<1>1. Init => Room
  BY DEF Init, Room
<1>2. IInv /\ Room => NoSignalStuck
  BY DEF IInv, TypeOK, Room, Both, NoSignalStuck
<1> QED
  BY <1>1, <1>2, NextRoom, Invariance, PTL DEF Spec
=============================================================================
