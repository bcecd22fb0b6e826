---------------------------- MODULE RelayProofs ----------------------------
(***************************************************************************)
(* Proofs about Relay for any connections and any amount of data: its      *)
(* types, that the bytes of a client arrive in order behind any sniffing,  *)
(* that no connection is left open or unbridged, and that none is read by  *)
(* two goroutines at once.                                                 *)
(***************************************************************************)
EXTENDS Relay, SequenceTheorems, TLAPS

-----------------------------------------------------------------------------
(* The invariant of one connection.                                        *)

\* The first n units are those of o, followed by those of b.
Joined(o, b, n) ==
  /\ Len(o) + Len(b) = n
  /\ \A i \in 1..Len(o) : o[i] = i
  /\ \A i \in 1..Len(b) : b[i] = Len(o) + i

\* What was read from the connection is what the bridge has passed on,
\* followed by the buffer.
Read(c) == taken[c] <= sent[c] /\ Joined(out[c], buffer[c], taken[c])

\* The goroutine and the dialer agree on who has the call and its stream.
Agree(c) ==
  /\ answer[c] = "asked" <=> serve[c] = "connecting"
  /\ answer[c] = "none" => stream[c] = "absent"
  /\ stream[c] = "owned" <=> dst[c] # "none"
  /\ answer[c] = "stream" <=> dst[c] # "none"
  /\ serve[c] = "done" => src[c] = "closed"
  /\ dst[c] = "open" <=> serve[c] = "bridging"

Inv(c) == Read(c) /\ Agree(c)

IInv == TypeOK /\ \A c \in Conns : Inv(c)

\* IInv holds for a relay that is new.
LEMMA InitIInv == Init => IInv
<1> SUFFICES ASSUME Init PROVE IInv
  OBVIOUS
<1>1. TypeOK
  <2>1. 0 \in 0..MaxUnits /\ 0 \in 0..MaxErrors /\ <<>> \in Seq(1..MaxUnits)
    BY BoundsAssumption
  <2> QED
    BY <2>1 DEF Init, TypeOK, D!Init, D!TypeOK
<1>2. ASSUME NEW c \in Conns PROVE Inv(c)
  <2>1. /\ taken[c] = 0 /\ sent[c] = 0 /\ out[c] = <<>> /\ buffer[c] = <<>>
        /\ serve[c] = "none" /\ dst[c] = "none" /\ answer[c] = "none" /\ stream[c] = "absent"
    BY DEF Init, D!Init
  <2>2. Read(c)
    BY <2>1 DEF Read, Joined
  <2>3. Agree(c)
    BY <2>1 DEF Agree
  <2> QED
    BY <2>2, <2>3 DEF Inv
<1> QED
  BY <1>1, <1>2 DEF IInv

\* The data of a connection that reads on into its buffer or into the bridge.
LEMMA ReadOn ==
  ASSUME NEW c \in Conns, IInv, taken[c] < sent[c],
         NEW next, next = taken[c] + 1
  PROVE  /\ next \in 1..MaxUnits
         /\ Append(buffer[c], next) \in Seq(1..MaxUnits)
         /\ Append(out[c], next) \in Seq(1..MaxUnits)
<1>1. taken[c] \in 0..MaxUnits /\ sent[c] \in 0..MaxUnits /\ MaxUnits \in Nat
  BY BoundsAssumption DEF IInv, TypeOK
<1>2. next \in 1..MaxUnits
  BY <1>1
<1>3. buffer[c] \in Seq(1..MaxUnits) /\ out[c] \in Seq(1..MaxUnits)
  BY DEF IInv, TypeOK
<1> QED
  BY <1>2, <1>3

\* A unit is read into the buffer.
LEMMA JoinedBuffer ==
  ASSUME NEW S, NEW o \in Seq(S), NEW b \in Seq(S), NEW n \in Nat, Joined(o, b, n),
         NEW u \in S, u = n + 1
  PROVE  Joined(o, Append(b, u), u)
<1>1. Len(o) \in Nat /\ Len(b) \in Nat /\ Len(o) + Len(b) = n
  BY DEF Joined
<1>2. /\ Len(Append(b, u)) = Len(b) + 1
      /\ \A i \in 1..Len(b) : Append(b, u)[i] = b[i]
      /\ Append(b, u)[Len(b) + 1] = u
  BY AppendProperties
<1>3. \A i \in 1..(Len(b) + 1) : Append(b, u)[i] = Len(o) + i
  <2>1. \A i \in 1..Len(b) : b[i] = Len(o) + i
    BY DEF Joined
  <2>2. \A i \in 1..(Len(b) + 1) : i \in 1..Len(b) \/ i = Len(b) + 1
    BY <1>1
  <2> QED
    BY <1>1, <1>2, <2>1, <2>2, SMTT(40)
<1> QED
  BY <1>1, <1>2, <1>3 DEF Joined

\* A unit passes the empty buffer.
LEMMA JoinedPass ==
  ASSUME NEW S, NEW o \in Seq(S), NEW n \in Nat, Joined(o, <<>>, n),
         NEW u \in S, u = n + 1
  PROVE  Joined(Append(o, u), <<>>, u)
<1>1. Len(o) \in Nat /\ Len(o) = n
  BY DEF Joined
<1>2. /\ Len(Append(o, u)) = n + 1
      /\ \A i \in 1..n : Append(o, u)[i] = o[i]
      /\ Append(o, u)[n + 1] = u
  BY <1>1, AppendProperties
<1>3. \A i \in 1..(n + 1) : Append(o, u)[i] = i
  <2>1. \A i \in 1..n : o[i] = i
    BY <1>1 DEF Joined
  <2>2. \A i \in 1..(n + 1) : i \in 1..n \/ i = n + 1
    OBVIOUS
  <2> QED
    BY <1>2, <2>1, <2>2
<1> QED
  BY <1>1, <1>2, <1>3 DEF Joined

\* A unit leaves the buffer for the bridge.
LEMMA JoinedMove ==
  ASSUME NEW S, NEW o \in Seq(S), NEW b \in Seq(S), NEW n \in Nat, Joined(o, b, n),
         b # <<>>
  PROVE  Joined(Append(o, Head(b)), Tail(b), n)
<1> DEFINE u == Head(b)
<1>1. Len(o) \in Nat /\ Len(b) \in Nat /\ Len(b) > 0 /\ Len(o) + Len(b) = n
  BY EmptySeq DEF Joined
<1>2. u \in S /\ u = Len(o) + 1
  <2>1. u \in S
    BY HeadTailProperties
  <2>2. u = b[1] /\ 1 \in 1..Len(b)
    BY <1>1
  <2>3. \A i \in 1..Len(b) : b[i] = Len(o) + i
    BY DEF Joined
  <2> QED
    BY <2>1, <2>2, <2>3
<1>3. /\ Len(Append(o, u)) = Len(o) + 1
      /\ \A i \in 1..Len(o) : Append(o, u)[i] = o[i]
      /\ Append(o, u)[Len(o) + 1] = u
  BY <1>2, AppendProperties
<1>4. Len(Tail(b)) = Len(b) - 1 /\ \A i \in 1..Len(Tail(b)) : Tail(b)[i] = b[i + 1]
  BY HeadTailProperties
<1> HIDE DEF u
<1>5. \A i \in 1..(Len(o) + 1) : Append(o, u)[i] = i
  <2>1. \A i \in 1..Len(o) : o[i] = i
    BY DEF Joined
  <2>2. \A i \in 1..(Len(o) + 1) : i \in 1..Len(o) \/ i = Len(o) + 1
    BY <1>1
  <2> QED
    BY <1>2, <1>3, <2>1, <2>2
<1>6. \A i \in 1..(Len(b) - 1) : Tail(b)[i] = Len(o) + 1 + i
  <2>1. \A i \in 1..Len(b) : b[i] = Len(o) + i
    BY DEF Joined
  <2>2. \A i \in 1..(Len(b) - 1) : i + 1 \in 1..Len(b) /\ Tail(b)[i] = b[i + 1]
    BY <1>1, <1>4
  <2> QED
    BY <1>1, <2>1, <2>2
<1>7. Joined(Append(o, u), Tail(b), n)
  <2>1. Len(Append(o, u)) + Len(Tail(b)) = n
    BY <1>1, <1>3, <1>4
  <2> QED
    BY <1>3, <1>4, <1>5, <1>6, <2>1 DEF Joined
<1> QED
  BY <1>7 DEF u

\* The steps that leave the data alone.
LEMMA ControlStep ==
  ASSUME IInv, UNCHANGED <<kind, sent, taken, buffer, out>>, writing' \in [Conns -> BOOLEAN],
         closing' \in {"no", "flagged", "signalled", "closed"},
         loop' \in {"accepting", "sleeping", "returned"}, errors' \in 0..MaxErrors,
         serve' \in [Conns -> {"none", "started", "sniffing", "connecting", "bridging", "done"}],
         src' \in [Conns -> {"none", "open", "closed"}], gone' \in [Conns -> BOOLEAN],
         sniff' \in [Conns -> {"none", "header", "body"} \cup Outcomes],
         dst' \in [Conns -> {"none", "open", "closed"}], D!TypeOK',
         \A c \in Conns : Agree(c)'
  PROVE  IInv'
<1>1. TypeOK'
  BY DEF IInv, TypeOK
<1>2. \A c \in Conns : Read(c)'
  BY DEF IInv, Inv, Read
<1> QED
  BY <1>1, <1>2 DEF IInv, Inv

\* Every step keeps IInv.
LEMMA NextIInv == IInv /\ [Next]_vars => IInv'
<1> SUFFICES ASSUME IInv, [Next]_vars PROVE IInv'
  OBVIOUS
<1>0. TypeOK /\ D!TypeOK /\ \A c \in Conns : Agree(c) /\ Read(c)
  BY DEF IInv, Inv, TypeOK
<1>1. CASE AcceptFails
  <2>1. errors' \in 0..MaxErrors
    BY <1>0, <1>1, BoundsAssumption DEF AcceptFails, TypeOK
  <2> QED
    BY <1>0, <1>1, <2>1, ControlStep DEF AcceptFails, AfterError, TypeOK, D!TypeOK, Agree, dataVars, dialVars
<1>2. CASE Wake
  BY <1>0, <1>2, ControlStep DEF Wake, TypeOK, D!TypeOK, Agree, dataVars, dialVars
<1>3. CASE Close
  BY <1>0, <1>3, ControlStep DEF Close, Flag, Signal, Shut, TypeOK, D!TypeOK, Agree, dataVars, dialVars
<1>4. ASSUME NEW c \in Conns, Accept(c) PROVE IInv'
  BY <1>0, <1>4, ControlStep DEF Accept, TypeOK, D!TypeOK, Agree, loopVars, dataVars, dialVars
<1>5. ASSUME NEW c \in Conns, Start(c) PROVE IInv'
  BY <1>0, <1>5, ControlStep
  DEF Start, Asks, Goes, D!Ask, TypeOK, D!TypeOK, Agree, loopVars, dataVars, dialVars
<1>6. ASSUME NEW c \in Conns, Refused(c) PROVE IInv'
  BY <1>0, <1>6, ControlStep
  DEF Refused, GivesUp, Goes, TypeOK, D!TypeOK, Agree, loopVars, dataVars, dialVars
<1>7. ASSUME NEW c \in Conns, StartSniff(c) PROVE IInv'
  BY <1>0, <1>7, ControlStep
  DEF StartSniff, Goes, TypeOK, D!TypeOK, Agree, loopVars, dataVars, dialVars
<1>8. ASSUME NEW c \in Conns, SniffTimeout(c) PROVE IInv'
  BY <1>0, <1>8, ControlStep
  DEF SniffTimeout, GivesUp, Goes, TypeOK, D!TypeOK, Agree, loopVars, dataVars, dialVars
<1>9. ASSUME NEW c \in Conns, SniffClosed(c) PROVE IInv'
  BY <1>0, <1>9, ControlStep
  DEF SniffClosed, GivesUp, Goes, TypeOK, D!TypeOK, Agree, loopVars, dataVars, dialVars
<1>10. ASSUME NEW c \in Conns, SniffDone(c) PROVE IInv'
  <2>1. CASE Asks(c)
    BY <1>0, <1>10, <2>1, ControlStep
    DEF SniffDone, Asks, Goes, D!Ask, TypeOK, D!TypeOK, Agree, loopVars, dataVars, dialVars
  <2>2. CASE GivesUp(c) /\ UNCHANGED dialVars
    BY <1>0, <1>10, <2>2, ControlStep
    DEF SniffDone, GivesUp, Goes, TypeOK, D!TypeOK, Agree, loopVars, dataVars, dialVars
  <2> QED
    BY <1>10, <2>1, <2>2 DEF SniffDone
<1>11. ASSUME NEW c \in Conns, Connected(c) PROVE IInv'
  BY <1>0, <1>11, ControlStep
  DEF Connected, Goes, D!Give, TypeOK, D!TypeOK, Agree, loopVars, dataVars, dialVars
<1>12. ASSUME NEW c \in Conns, ConnectFails(c) PROVE IInv'
  BY <1>0, <1>12, ControlStep
  DEF ConnectFails, GivesUp, Goes, D!Refuse, TypeOK, D!TypeOK, Agree, loopVars, dataVars, dialVars
<1>13. ASSUME NEW c \in Conns, Dialing(c) PROVE IInv'
  <2>0. UNCHANGED <<loopVars, serve, src, dataVars, dst>>
    BY <1>13 DEF Dialing
  <2>1. CASE D!Open(c)
    BY <1>0, <2>0, <2>1, ControlStep DEF D!Open, TypeOK, D!TypeOK, Agree, loopVars, dataVars, dialVars
  <2>2. CASE D!Release(c)
    BY <1>0, <2>0, <2>2, ControlStep DEF D!Release, TypeOK, D!TypeOK, Agree, loopVars, dataVars, dialVars
  <2> QED
    BY <1>13, <2>1, <2>2 DEF Dialing
<1>14. ASSUME NEW c \in Conns, BridgeEnds(c) PROVE IInv'
  BY <1>0, <1>14, ControlStep
  DEF BridgeEnds, Goes, TypeOK, D!TypeOK, Agree, loopVars, dataVars, dialVars
<1>15. ASSUME NEW c \in Conns, SniffBreaks(c) PROVE IInv'
  BY <1>0, <1>15, ControlStep
  DEF SniffBreaks, Sniffing, Outcomes, TypeOK, D!TypeOK, Agree, loopVars, dataVars, dialVars
<1>16. ASSUME NEW c \in Conns, Hangup(c) PROVE IInv'
  BY <1>0, <1>16, ControlStep
  DEF Hangup, TypeOK, D!TypeOK, Agree, loopVars, dataVars, dialVars
<1>17. ASSUME NEW c \in Conns, Send(c) PROVE IInv'
  <2>1. sent' \in [Conns -> 0..MaxUnits] /\ \A d \in Conns : sent'[d] >= sent[d]
    BY <1>0, <1>17, BoundsAssumption DEF Send, TypeOK
  <2>2. TypeOK'
    BY <1>0, <1>17, <2>1 DEF Send, TypeOK, D!TypeOK, loopVars, dialVars
  <2>3. \A d \in Conns : Read(d)'
    BY <1>0, <1>17, <2>1 DEF Send, Read, TypeOK
  <2>4. \A d \in Conns : Agree(d)'
    BY <1>0, <1>17 DEF Send, Agree, dialVars
  <2> QED
    BY <2>2, <2>3, <2>4 DEF IInv, Inv
<1>18. ASSUME NEW c \in Conns, SniffReads(c) PROVE IInv'
  <2> DEFINE next == taken[c] + 1
  <2>1. /\ next \in 1..MaxUnits
        /\ Append(buffer[c], next) \in Seq(1..MaxUnits)
    BY <1>18, ReadOn DEF SniffReads
  <2>2. TypeOK'
    BY <1>0, <1>18, <2>1 DEF SniffReads, TypeOK, D!TypeOK, Outcomes, loopVars, dialVars
  <2>3. \A d \in Conns : Agree(d)'
    BY <1>0, <1>18 DEF SniffReads, Agree, dialVars
  <2>4. ASSUME NEW d \in Conns PROVE Read(d)'
    <3>1. CASE d # c
      BY <1>0, <1>18, <3>1 DEF SniffReads, Read, TypeOK
    <3>2. CASE d = c
      <4>1. /\ taken'[c] = next /\ buffer'[c] = Append(buffer[c], next)
            /\ out'[c] = out[c] /\ sent'[c] = sent[c] /\ taken[c] < sent[c]
        BY <1>18 DEF SniffReads, TypeOK, IInv
      <4>2. /\ buffer[c] \in Seq(1..MaxUnits) /\ out[c] \in Seq(1..MaxUnits)
            /\ taken[c] \in Nat /\ sent[c] \in Nat
        BY <1>0 DEF TypeOK
      <4>3. Read(c)
        BY <1>0
      <4>4. Joined(out[c], Append(buffer[c], next), next)
        BY <2>1, <4>2, <4>3, JoinedBuffer DEF Read
      <4> QED
        BY <3>2, <4>1, <4>2, <4>4 DEF Read
    <3> QED
      BY <3>1, <3>2
  <2> QED
    BY <2>2, <2>3, <2>4 DEF IInv, Inv
<1>19. ASSUME NEW c \in Conns, Forward(c) PROVE IInv'
  <2> DEFINE next == taken[c] + 1
  <2>1. /\ buffer[c] \in Seq(1..MaxUnits) /\ out[c] \in Seq(1..MaxUnits)
        /\ taken[c] \in Nat /\ sent[c] \in Nat
    BY <1>0 DEF TypeOK
  <2>2. \A d \in Conns : Agree(d)'
    BY <1>0, <1>19 DEF Forward, Agree, dialVars
  <2>3. CASE buffer[c] # <<>> /\ out' = [out EXCEPT ![c] = Append(@, Head(buffer[c]))]
               /\ buffer' = [buffer EXCEPT ![c] = Tail(@)] /\ UNCHANGED taken
    <3>1. Head(buffer[c]) \in 1..MaxUnits /\ Tail(buffer[c]) \in Seq(1..MaxUnits)
      BY <2>1, <2>3, HeadTailProperties
    <3>2. Append(out[c], Head(buffer[c])) \in Seq(1..MaxUnits)
      BY <2>1, <3>1
    <3>3. TypeOK'
      BY <1>0, <1>19, <2>3, <3>1, <3>2 DEF Forward, TypeOK, D!TypeOK, loopVars, dialVars
    <3>4. ASSUME NEW d \in Conns PROVE Read(d)'
      <4>1. CASE d # c
        BY <1>0, <1>19, <2>3, <4>1 DEF Forward, Read, TypeOK
      <4>2. CASE d = c
        <5>1. /\ taken'[c] = taken[c] /\ buffer'[c] = Tail(buffer[c])
              /\ out'[c] = Append(out[c], Head(buffer[c])) /\ sent'[c] = sent[c]
          BY <1>0, <1>19, <2>3 DEF Forward, TypeOK
        <5>2. Read(c)
          BY <1>0
        <5>4. Joined(Append(out[c], Head(buffer[c])), Tail(buffer[c]), taken[c])
          BY <2>1, <2>3, <5>2, JoinedMove DEF Read
        <5> QED
          BY <4>2, <5>1, <5>2, <5>4 DEF Read
      <4> QED
        BY <4>1, <4>2
    <3> QED
      BY <2>2, <3>3, <3>4 DEF IInv, Inv
  <2>4. CASE buffer[c] = <<>> /\ taken[c] < sent[c] /\ taken' = [taken EXCEPT ![c] = @ + 1]
               /\ out' = [out EXCEPT ![c] = Append(@, next)] /\ UNCHANGED buffer
    <3>1. next \in 1..MaxUnits /\ Append(out[c], next) \in Seq(1..MaxUnits)
      BY <2>4, ReadOn
    <3>2. TypeOK'
      BY <1>0, <1>19, <2>4, <3>1 DEF Forward, TypeOK, D!TypeOK, loopVars, dialVars
    <3>3. ASSUME NEW d \in Conns PROVE Read(d)'
      <4>1. CASE d # c
        BY <1>0, <1>19, <2>4, <4>1 DEF Forward, Read, TypeOK
      <4>2. CASE d = c
        <5>1. /\ taken'[c] = next /\ buffer'[c] = <<>> /\ out'[c] = Append(out[c], next)
              /\ sent'[c] = sent[c]
          BY <1>0, <1>19, <2>4 DEF Forward, TypeOK
        <5>2. Read(c)
          BY <1>0
        <5>4. Joined(Append(out[c], next), <<>>, next)
          BY <2>1, <2>4, <3>1, <5>2, JoinedPass DEF Read
        <5> QED
          BY <2>1, <2>4, <4>2, <5>1, <5>4 DEF Read
      <4> QED
        BY <4>1, <4>2
    <3> QED
      BY <2>2, <3>2, <3>3 DEF IInv, Inv
  <2> QED
    BY <1>19, <2>3, <2>4 DEF Forward
<1>20. ASSUME NEW c \in Conns, Written(c) PROVE IInv'
  <2>1. writing' \in [Conns -> BOOLEAN]
    BY <1>0, <1>20 DEF Written, TypeOK
  <2> QED
    BY <1>0, <1>20, <2>1, ControlStep DEF Written, TypeOK, D!TypeOK, Agree, loopVars, dialVars
<1>21. CASE UNCHANGED vars
  BY <1>0, <1>21, ControlStep DEF vars, TypeOK, D!TypeOK, Agree, loopVars, dataVars, dialVars
<1> QED
  BY <1>1, <1>2, <1>3, <1>4, <1>5, <1>6, <1>7, <1>8, <1>9, <1>10, <1>11, <1>12, <1>13, <1>14, <1>15, <1>16, <1>17, <1>18, <1>19, <1>20, <1>21 DEF Next

-----------------------------------------------------------------------------
(* Theorems.                                                               *)

\* IInv holds in every state.
THEOREM Invariant == Spec => []IInv
<1> QED
  BY InitIInv, NextIInv, PTL DEF Spec

\* Relay is type correct.
THEOREM TypeCorrect == Spec => []TypeOK
<1>1. IInv => TypeOK
  BY DEF IInv
<1> QED
  BY <1>1, Invariant, PTL

\* The dialed connection gets the bytes of the client in order and from the
\* first, however much of them was sniffed.
THEOREM RelayBytesIntact == Spec => []ClientBytesIntact
<1>1. IInv => ClientBytesIntact
  <2> SUFFICES ASSUME IInv, NEW c \in Conns PROVE out[c] = [i \in 1..Len(out[c]) |-> i]
    BY DEF ClientBytesIntact
  <2>1. out[c] \in Seq(1..MaxUnits) /\ \A i \in 1..Len(out[c]) : out[c][i] = i
    BY DEF IInv, TypeOK, Inv, Read, Joined
  <2>2. out[c] = [i \in 1..Len(out[c]) |-> out[c][i]]
    BY <2>1
  <2> QED
    BY <2>1, <2>2
<1> QED
  BY <1>1, Invariant, PTL

\* No connection is left open by a goroutine that has returned, and none that
\* was dialed is held without a bridge.
THEOREM RelayNoOrphan == Spec => []NoOrphan
<1>1. IInv => NoOrphan
  BY DEF IInv, Inv, Agree, NoOrphan
<1> QED
  BY <1>1, Invariant, PTL

-----------------------------------------------------------------------------
(* Who reads from a connection.  The goroutine that sniffs and the bridge  *)
(* both do, and what was sniffed is handed from the one to the other       *)
(* without a lock.                                                         *)

\* The goroutine that sniffs is at work only while its outcome is waited for,
\* or after the connection was closed; a connection is dialed for and bridged
\* only when it is open and was read without an error.
OneReader ==
  \A c \in Conns :
    /\ Sniffing(c) => serve[c] = "sniffing" \/ (serve[c] = "done" /\ src[c] = "closed")
    /\ serve[c] \in {"connecting", "bridging"} =>
         src[c] = "open" /\ sniff[c] \in {"none", "name", "error"}

\* What it takes for that before the connection is dialed for: nothing has
\* closed it but the goroutine that sniffs, which then reports so.
Alone ==
  /\ \A c \in Conns :
       /\ serve[c] \in {"none", "started"} => sniff[c] = "none"
       /\ serve[c] \in {"started", "sniffing"} => src[c] = "open" \/ sniff[c] = "broken"
  /\ OneReader

\* Every step keeps the readers of a connection apart.
LEMMA NextAlone == IInv /\ Alone /\ [Next]_vars => Alone'
<1> SUFFICES ASSUME IInv, Alone, [Next]_vars PROVE Alone'
  OBVIOUS
<1>0. /\ serve \in [Conns -> {"none", "started", "sniffing", "connecting", "bridging", "done"}]
      /\ src \in [Conns -> {"none", "open", "closed"}]
      /\ sniff \in [Conns -> {"none", "header", "body", "name", "error", "broken"}]
      /\ \A c \in Conns : answer[c] = "asked" <=> serve[c] = "connecting"
  BY DEF IInv, Inv, TypeOK, Agree, Outcomes
<1> USE DEF Alone, OneReader, Sniffing
<1>1. CASE AcceptFails \/ Wake \/ Close \/ UNCHANGED vars
  BY <1>1 DEF AcceptFails, Wake, Close, vars, dataVars
<1>2. ASSUME NEW c \in Conns, Send(c) \/ Hangup(c) \/ Forward(c) \/ Written(c) \/ Dialing(c)
      PROVE  Alone'
  BY <1>2 DEF Send, Hangup, Forward, Written, Dialing, dataVars
<1>3. ASSUME NEW c \in Conns, Accept(c) PROVE Alone'
  BY <1>0, <1>3 DEF Accept, dataVars
<1>4. ASSUME NEW c \in Conns, Start(c) PROVE Alone'
  BY <1>0, <1>4 DEF Start, Asks, Goes, dataVars
<1>5. ASSUME NEW c \in Conns, Refused(c) \/ SniffTimeout(c) \/ SniffClosed(c) PROVE Alone'
  BY <1>0, <1>5 DEF Refused, SniffTimeout, SniffClosed, GivesUp, Goes, dataVars
<1>6. ASSUME NEW c \in Conns, StartSniff(c) PROVE Alone'
  BY <1>0, <1>6 DEF StartSniff, Goes
<1>7. ASSUME NEW c \in Conns, SniffDone(c) PROVE Alone'
  BY <1>0, <1>7 DEF SniffDone, Asks, GivesUp, Goes, Outcomes, dataVars
<1>8. ASSUME NEW c \in Conns, SniffReads(c) PROVE Alone'
  BY <1>0, <1>8 DEF SniffReads, Outcomes
<1>9. ASSUME NEW c \in Conns, SniffBreaks(c) PROVE Alone'
  BY <1>0, <1>9 DEF SniffBreaks, Outcomes
<1>10. ASSUME NEW c \in Conns, Connected(c) PROVE Alone'
  BY <1>0, <1>10 DEF Connected, D!Give, Goes, dataVars
<1>11. ASSUME NEW c \in Conns, ConnectFails(c) PROVE Alone'
  BY <1>0, <1>11 DEF ConnectFails, D!Refuse, GivesUp, Goes, dataVars
<1>12. ASSUME NEW c \in Conns, BridgeEnds(c) PROVE Alone'
  BY <1>0, <1>12 DEF BridgeEnds, Goes, dataVars
<1> QED
  BY <1>1, <1>2, <1>3, <1>4, <1>5, <1>6, <1>7, <1>8, <1>9, <1>10, <1>11, <1>12 DEF Next

\* The goroutine that sniffs and the bridge never read from one connection at
\* the same time, whichever of the timer, Close and the sniffing comes first.
THEOREM RelayOneReader == Spec => []OneReader
<1>1. Init => Alone
  BY DEF Init, Alone, OneReader, Sniffing
<1>2. Alone => OneReader
  BY DEF Alone
<1> QED
  BY <1>1, <1>2, NextAlone, Invariant, PTL DEF Spec
=============================================================================
