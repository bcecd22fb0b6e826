------------------------- MODULE UdpListenerProofs -------------------------
(***************************************************************************)
(* Proofs about UdpListener for any clients, sessions, capacities and      *)
(* datagrams: a buffer goes back to the pool once and is not used after,   *)
(* the map is exact, and no session reads out of order.                    *)
(*                                                                         *)
(* A datagram is in one place at a time.  The places are in line: what a   *)
(* session has is older than what the dispatcher holds, that is older than *)
(* the channel, and that than what the reader holds.  So only the sessions *)
(* have to be told apart.                                                  *)
(***************************************************************************)
EXTENDS UdpListener, TLAPS

-----------------------------------------------------------------------------
(* Queues.                                                                 *)

InQ(q, m) == \E i \in DOMAIN q : q[i] = m
Rising(q) == \A i, j \in DOMAIN q : i < j => q[i] < q[j]

\* The oldest of a queue that is in order is taken.
LEMMA TakeFirst ==
  ASSUME NEW q \in Seq(Msgs), q # <<>>
  PROVE  /\ Head(q) \in Msgs /\ Tail(q) \in Seq(Msgs) /\ Len(Tail(q)) = Len(q) - 1
         /\ InQ(q, Head(q))
         /\ \A m : InQ(q, m) <=> m = Head(q) \/ InQ(Tail(q), m)
         /\ Rising(q) => Rising(Tail(q)) /\ \A m : InQ(Tail(q), m) => Head(q) < m
<1>1. Head(q) = q[1] /\ 1 \in DOMAIN q /\ Len(q) \in Nat /\ DOMAIN q = 1..Len(q)
  OBVIOUS
<1>2. Tail(q) \in Seq(Msgs) /\ Len(Tail(q)) = Len(q) - 1 /\ DOMAIN Tail(q) = 1..(Len(q) - 1)
  OBVIOUS
<1>3. \A i \in DOMAIN Tail(q) : Tail(q)[i] = q[i + 1] /\ i + 1 \in DOMAIN q
  BY <1>1, <1>2
<1>4. Head(q) \in Msgs
  OBVIOUS
<1>5. InQ(q, Head(q))
  BY <1>1 DEF InQ
<1>6. ASSUME NEW m, InQ(q, m) PROVE m = Head(q) \/ InQ(Tail(q), m)
  <2>1. PICK i \in DOMAIN q : q[i] = m
    BY <1>6 DEF InQ
  <2>2. CASE i = 1
    BY <2>1, <2>2, <1>1
  <2>3. CASE i # 1
    <3>1. i - 1 \in DOMAIN Tail(q) /\ (i - 1) + 1 = i
      BY <2>1, <2>3, <1>1, <1>2
    <3>2. Tail(q)[i - 1] = m
      BY <3>1, <1>3, <2>1
    <3> QED
      BY <3>1, <3>2 DEF InQ
  <2> QED
    BY <2>2, <2>3
<1>7. ASSUME NEW m, InQ(Tail(q), m) PROVE InQ(q, m)
  BY <1>7, <1>3 DEF InQ
<1>8. ASSUME Rising(q) PROVE Rising(Tail(q)) /\ \A m : InQ(Tail(q), m) => Head(q) < m
  BY <1>1, <1>2, <1>3, <1>8 DEF InQ, Rising
<1> QED
  BY <1>2, <1>4, <1>5, <1>6, <1>7, <1>8

\* One that is newer than all is put in.
LEMMA PutLast ==
  ASSUME NEW q \in Seq(Msgs), NEW n \in Msgs
  PROVE  /\ Append(q, n) \in Seq(Msgs) /\ Len(Append(q, n)) = Len(q) + 1
         /\ \A m : InQ(Append(q, n), m) <=> m = n \/ InQ(q, m)
         /\ Rising(q) /\ (\A m \in Msgs : InQ(q, m) => m < n) => Rising(Append(q, n))
<1>1. /\ Append(q, n) \in Seq(Msgs) /\ Len(Append(q, n)) = Len(q) + 1 /\ Len(q) \in Nat
      /\ DOMAIN q = 1..Len(q) /\ DOMAIN Append(q, n) = 1..(Len(q) + 1)
  OBVIOUS
<1>2. Append(q, n)[Len(q) + 1] = n /\ \A i \in DOMAIN q : Append(q, n)[i] = q[i] /\ q[i] \in Msgs
  OBVIOUS
<1>3. ASSUME NEW m PROVE InQ(Append(q, n), m) <=> m = n \/ InQ(q, m)
  BY <1>1, <1>2 DEF InQ
<1>4. ASSUME Rising(q), \A m \in Msgs : InQ(q, m) => m < n PROVE Rising(Append(q, n))
  BY <1>1, <1>2, <1>4 DEF InQ, Rising
<1> QED
  BY <1>1, <1>3, <1>4

-----------------------------------------------------------------------------
(* The invariant.                                                          *)

Busy == disp \in {"offering", "putting", "full"}
Has(s, m) == held[s] = m \/ InQ(queue[s], m)

\* Number x has passed the reader and the channel.
Ahead(x) ==
  /\ x <= arrived
  /\ taken # None => x < taken
  /\ \A m \in Msgs : InQ(msgs, m) => x < m

Line ==
  /\ reader = "sending" <=> taken # None
  /\ taken # None => taken = arrived
  /\ Rising(msgs)
  /\ \A m \in Msgs : InQ(msgs, m) => m <= arrived /\ (taken # None => m < taken)
  /\ Busy => msg \in Msgs /\ sess \in Sessions /\ from[msg] = client[sess] /\ Ahead(msg)

\* A session has what it has yet to copy or to read, in the order of arrival
\* and from its client.
Waiting(s) ==
  /\ Rising(queue[s])
  /\ Ahead(lastRead[s]) /\ (Busy => lastRead[s] < msg)
  /\ held[s] # None => held[s] = lastRead[s]
  /\ \A m \in Msgs : InQ(queue[s], m) => lastRead[s] < m
  /\ \A m \in Msgs : Has(s, m) => Ahead(m) /\ (Busy => m < msg) /\ from[m] = client[s]

Apart == \A s, t \in Sessions, m \in Msgs : Has(s, m) /\ Has(t, m) => s = t

Pooled == \A m \in Msgs : freed[m] > 0 => m <= arrived /\ ~InUse(m)

\* An entry belongs to its client; the session on offer is in no entry yet.
Mapped ==
  /\ \A c \in Clients : keys[c] # None => client[keys[c]] = c
  /\ disp = "offering" => sess \in Sessions /\ keys[client[sess]] = None /\ (done \/ stage[sess] # "gone")
  /\ ExactMap

Flow == Line /\ (\A s \in Sessions : Waiting(s)) /\ Apart /\ Pooled
IInv == TypeOK /\ Flow /\ Mapped

\* IInv holds for a listener that is new.
LEMMA InitIInv == Init => IInv
<1> SUFFICES ASSUME Init PROVE IInv
  OBVIOUS
<1>1. SomeClient \in Clients
  BY ClientsAssumption DEF SomeClient
<1>2. /\ 0 \in 0..MaxMsgs /\ MaxMsgs \in Nat
      /\ <<>> \in Seq(Msgs) /\ Len(<<>>) = 0 /\ 0 <= MsgCap /\ 0 <= Frame
      /\ \A m : ~InQ(<<>>, m)
      /\ Rising(<<>>)
  BY CapacityAssumption DEF InQ, Rising
<1>3. \A m \in Msgs : m \in Nat /\ m > 0
  BY <1>2 DEF Msgs
<1>4. TypeOK
  <2>1. from \in [Msgs -> Clients] /\ client \in [Sessions -> Clients]
    BY <1>1 DEF Init
  <2>2. accepted \in [Sessions -> BOOLEAN] /\ done \in BOOLEAN
    BY DEF Init
  <2>3. freed \in [Msgs -> 0..1] /\ lastRead \in [Sessions -> 0..MaxMsgs] /\ arrived \in 0..MaxMsgs
    BY <1>2 DEF Init
  <2>4. /\ queue \in [Sessions -> Seq(Msgs)] /\ \A s \in Sessions : Len(queue[s]) <= Frame
        /\ msgs \in Seq(Msgs) /\ Len(msgs) <= MsgCap
    BY <1>2 DEF Init
  <2> QED
    BY <2>1, <2>2, <2>3, <2>4 DEF Init, TypeOK
<1>5. Line /\ Mapped
  BY <1>2 DEF Init, Line, Busy, Mapped, ExactMap
<1>6. ASSUME NEW s \in Sessions PROVE Waiting(s) /\ \A m \in Msgs : ~Has(s, m)
  BY <1>2, <1>3, NoneAssumption DEF Init, Waiting, Has, Ahead, Busy
<1>7. Apart
  BY <1>6 DEF Apart
<1>8. Pooled
  BY DEF Init, Pooled
<1> QED
  BY <1>4, <1>5, <1>6, <1>7, <1>8 DEF IInv, Flow

-----------------------------------------------------------------------------
(* The types.  A buffer that is in use was never put back, so that putting *)
(* it back keeps the count within its range.                               *)

LEMMA FreeTypes ==
  ASSUME IInv, NEW m \in Msgs, InUse(m), Free(m)
  PROVE  freed' \in [Msgs -> 0..1]
<1>1. freed \in [Msgs -> 0..1] /\ ~(freed[m] > 0)
  BY DEF IInv, TypeOK, Flow, Pooled
<1>2. freed[m] = 0
  BY <1>1
<1>3. freed' = [freed EXCEPT ![m] = 1]
  BY <1>2 DEF Free
<1> QED
  BY <1>1, <1>3

\* Every step keeps the types.
LEMMA NextTypes ==
  ASSUME IInv, [Next]_vars
  PROVE  TypeOK'
<1> USE CapacityAssumption, NoneAssumption
<1> USE DEF IInv, TypeOK
<1>0. MaxMsgs \in Nat /\ Msgs \subseteq Nat /\ Line
  BY DEF Msgs, Flow
<1>b. Busy => msg \in Msgs /\ sess \in Sessions /\ InUse(msg)
  BY <1>0 DEF Line, Busy, InUse
<1>1. ASSUME NEW c \in Clients, Arrive(c) PROVE TypeOK'
  <2>1. arrived + 1 \in Msgs /\ arrived + 1 \in 0..MaxMsgs
    BY <1>0, <1>1 DEF Arrive, Msgs
  <2> QED
    BY <1>1, <2>1 DEF Arrive, dispVars
<1>2. CASE Enqueue
  <2>1. taken \in Msgs
    BY <1>2, <1>0 DEF Enqueue, Line
  <2>2. Append(msgs, taken) \in Seq(Msgs) /\ Len(Append(msgs, taken)) <= MsgCap
    BY <1>2, <2>1, PutLast DEF Enqueue
  <2> QED
    BY <1>2, <2>2 DEF Enqueue, dispVars
<1>3. CASE ReaderStops
  <2>1. freed' \in [Msgs -> 0..1]
    BY <1>3, FreeTypes DEF ReaderStops, InUse
  <2> QED
    BY <1>3, <2>1 DEF ReaderStops, dispVars
<1>4. CASE DispatchStops
  BY <1>4 DEF DispatchStops, readerVars
<1>5. ASSUME NEW s \in Sessions, DispatchClose(s) PROVE TypeOK'
  BY <1>5 DEF DispatchClose, readerVars, dispVars
<1>6. CASE DispatchOld
  <2>1. Head(msgs) \in Msgs /\ Tail(msgs) \in Seq(Msgs) /\ Len(Tail(msgs)) <= MsgCap
    BY <1>6, TakeFirst DEF DispatchOld
  <2> QED
    BY <1>6, <2>1 DEF DispatchOld
<1>7. ASSUME NEW s \in Sessions, DispatchNew(s) PROVE TypeOK'
  <2>1. Head(msgs) \in Msgs /\ Tail(msgs) \in Seq(Msgs) /\ Len(Tail(msgs)) <= MsgCap
    BY <1>7, TakeFirst DEF DispatchNew
  <2>2. 0 \in 0..MaxMsgs
    BY <1>0
  <2> QED
    BY <1>7, <2>1, <2>2 DEF DispatchNew
<1>8. CASE Accept
  <2>1. sess \in Sessions
    BY <1>8, <1>b DEF Accept, Busy
  <2> QED
    BY <1>8, <2>1 DEF Accept, readerVars
<1>9. CASE OfferStops \/ PutDone
  <2>1. freed' \in [Msgs -> 0..1]
    BY <1>9, <1>b, FreeTypes DEF OfferStops, PutDone, Busy
  <2> QED
    BY <1>9, <2>1 DEF OfferStops, PutDone, readerVars
<1>10. CASE PutSend
  <2>1. msg \in Msgs /\ sess \in Sessions
    BY <1>10, <1>b DEF PutSend, Busy
  <2>2. Append(queue[sess], msg) \in Seq(Msgs) /\ Len(Append(queue[sess], msg)) <= Frame
    BY <1>10, <2>1, PutLast DEF PutSend
  <2> QED
    BY <1>10, <2>1, <2>2 DEF PutSend, readerVars
<1>11. CASE PutFull
  BY <1>11 DEF PutFull, readerVars
<1>12. CASE PutDrop
  <2>1. sess \in Sessions
    BY <1>12, <1>b DEF PutDrop, Busy
  <2>2. /\ Head(queue[sess]) \in Msgs /\ InQ(queue[sess], Head(queue[sess]))
        /\ Tail(queue[sess]) \in Seq(Msgs) /\ Len(Tail(queue[sess])) <= Frame
    BY <1>12, <2>1, TakeFirst DEF PutDrop
  <2>3. InUse(Head(queue[sess]))
    BY <2>1, <2>2 DEF InUse, InQ
  <2>4. freed' \in [Msgs -> 0..1]
    BY <1>12, <2>2, <2>3, FreeTypes DEF PutDrop
  <2> QED
    BY <1>12, <2>1, <2>2, <2>4 DEF PutDrop, readerVars
<1>13. ASSUME NEW s \in Sessions, Read(s) PROVE TypeOK'
  <2>1. /\ Head(queue[s]) \in Msgs /\ Head(queue[s]) \in 0..MaxMsgs
        /\ Tail(queue[s]) \in Seq(Msgs) /\ Len(Tail(queue[s])) <= Frame
    BY <1>0, <1>13, TakeFirst DEF Read, Msgs
  <2> QED
    BY <1>13, <2>1 DEF Read, readerVars, dispVars
<1>14. ASSUME NEW s \in Sessions, ReadAll(s) PROVE TypeOK'
  <2>1. held[s] \in Msgs /\ InUse(held[s])
    BY <1>14 DEF ReadAll, InUse
  <2>2. freed' \in [Msgs -> 0..1]
    BY <1>14, <2>1, FreeTypes DEF ReadAll
  <2> QED
    BY <1>14, <2>2 DEF ReadAll, readerVars, dispVars
<1>15. ASSUME NEW s \in Sessions, Shut(s) \/ ShutReturns(s) PROVE TypeOK'
  BY <1>15 DEF Shut, ShutReturns, readerVars, dispVars
<1>16. ASSUME NEW s \in Sessions, Collect(s) PROVE TypeOK'
  <2>1. <<>> \in Seq(Msgs) /\ Len(<<>>) <= Frame
    OBVIOUS
  <2> QED
    BY <1>16, <2>1 DEF Collect, readerVars, dispVars
<1>17. CASE Close
  BY <1>17 DEF Close, readerVars, dispVars
<1>18. CASE UNCHANGED vars
  BY <1>18 DEF vars, readerVars, dispVars
<1> QED
  BY <1>1, <1>2, <1>3, <1>4, <1>5, <1>6, <1>7, <1>8, <1>9, <1>10, <1>11, <1>12, <1>13, <1>14,
     <1>15, <1>16, <1>17, <1>18 DEF Next, Reader, Dispatch

-----------------------------------------------------------------------------
(* The map.                                                                *)

\* Every step keeps the map exact: the session that is offered has a client
\* without an entry, as nobody but the dispatcher inserts.
LEMMA NextMapped ==
  ASSUME IInv, [Next]_vars
  PROVE  Mapped'
<1> USE NoneAssumption
<1> USE DEF IInv, TypeOK, Mapped, ExactMap
<1>0. Line
  BY DEF Flow
<1>1. CASE (\E c \in Clients : Arrive(c)) \/ Reader \/ (\E s \in Sessions : Read(s) \/ ReadAll(s) \/ Collect(s))
  BY <1>1 DEF Arrive, Reader, Enqueue, ReaderStops, Read, ReadAll, Collect, dispVars
<1>2. CASE DispatchStops \/ OfferStops \/ Close
  BY <1>2 DEF DispatchStops, OfferStops, Close, dispVars
<1>3. CASE PutDone \/ PutSend \/ PutFull \/ PutDrop
  BY <1>3 DEF PutDone, PutSend, PutFull, PutDrop
<1>4. ASSUME NEW s \in Sessions, DispatchClose(s) PROVE Mapped'
  BY <1>4 DEF DispatchClose, dispVars
<1>5. CASE DispatchOld
  BY <1>5 DEF DispatchOld
<1>6. ASSUME NEW s \in Sessions, DispatchNew(s) PROVE Mapped'
  <2>1. Head(msgs) \in Msgs
    BY <1>6, TakeFirst DEF DispatchNew
  <2>2. from[Head(msgs)] \in Clients /\ keys[from[Head(msgs)]] = None
    BY <1>6, <2>1 DEF DispatchNew
  <2> QED
    BY <1>6, <2>2 DEF DispatchNew, Garbage
<1>7. CASE Accept
  BY <1>7 DEF Accept
<1>8. ASSUME NEW s \in Sessions, Shut(s) \/ ShutReturns(s) PROVE Mapped'
  BY <1>8 DEF Shut, ShutReturns, dispVars
<1>9. CASE UNCHANGED vars
  BY <1>9 DEF vars, dispVars
<1> QED
  BY <1>1, <1>2, <1>3, <1>4, <1>5, <1>6, <1>7, <1>8, <1>9 DEF Next, Dispatch

-----------------------------------------------------------------------------
(* The line of datagrams.                                                  *)

\* Nothing goes back to the pool, and what is in use then is in use before or
\* has just arrived.
LEMMA KeepPooled ==
  ASSUME IInv, freed' = freed, arrived' \in Nat, arrived <= arrived',
         \A m \in Msgs : InUse(m)' => InUse(m) \/ m > arrived
  PROVE  Pooled'
BY DEF IInv, TypeOK, Flow, Pooled, Msgs

\* A datagram goes back to the pool from the only place it is in.
LEMMA FreePooled ==
  ASSUME IInv, NEW n \in Msgs, n <= arrived, Free(n), arrived' = arrived,
         ~InUse(n)', \A m \in Msgs : InUse(m)' => InUse(m)
  PROVE  Pooled'
<1>1. freed \in [Msgs -> 0..1] /\ freed' = [freed EXCEPT ![n] = @ + 1]
  BY DEF IInv, TypeOK, Free
<1>2. \A m \in Msgs : m # n => freed'[m] = freed[m]
  BY <1>1
<1> QED
  BY <1>2 DEF IInv, Flow, Pooled

\* The numbers among the types.
LEMMA Numbers ==
  ASSUME TypeOK
  PROVE  /\ MaxMsgs \in Nat /\ Msgs = 1..MaxMsgs /\ arrived \in Nat /\ (taken # None => taken \in Msgs)
         /\ \A s \in Sessions : lastRead[s] \in Nat
<1>1. MaxMsgs \in Nat /\ Msgs = 1..MaxMsgs /\ 0..MaxMsgs \subseteq Nat
  BY CapacityAssumption DEF Msgs
<1>2. arrived \in 0..MaxMsgs /\ taken \in Msgs \cup {None} /\ lastRead \in [Sessions -> 0..MaxMsgs]
  BY DEF TypeOK
<1> QED
  BY <1>1, <1>2

\* What is in use, by place.
LEMMA Places == \A m : InUse(m) <=> taken = m \/ InQ(msgs, m) \/ (Busy /\ msg = m)
                                    \/ \E s \in Sessions : Has(s, m)
BY DEF InUse, InQ, Busy, Has

\* The reader and the channel keep the line: what arrives is the newest.
LEMMA ReaderFlow ==
  ASSUME IInv, TypeOK', (\E c \in Clients : Arrive(c)) \/ Reader
  PROVE  Flow'
<1> USE NoneAssumption
<1>0. /\ TypeOK /\ Line /\ (\A s \in Sessions : Waiting(s)) /\ Apart
      /\ MaxMsgs \in Nat /\ Msgs = 1..MaxMsgs /\ arrived \in Nat /\ (taken # None => taken \in Msgs)
      /\ \A s \in Sessions : lastRead[s] \in Nat
  BY Numbers DEF IInv, Flow
<1>1. UNCHANGED <<disp, msg, sess, client, queue, held, lastRead>>
  BY DEF Arrive, Reader, Enqueue, ReaderStops, dispVars
<1>2. /\ Busy' <=> Busy
      /\ \A s \in Sessions, m \in Msgs : Has(s, m)' <=> Has(s, m)
  BY <1>1 DEF Busy, Has
<1>3. Apart'
  BY <1>0, <1>2 DEF Apart
<1>u. \A m \in Msgs : InUse(m)' <=> taken' = m \/ InQ(msgs', m) \/ (Busy /\ msg = m)
                                    \/ \E s \in Sessions : Has(s, m)
  BY <1>1 DEF InUse, InQ, Busy, Has
<1>4. ASSUME NEW c \in Clients, Arrive(c) PROVE Flow'
  <2>1. /\ taken' = arrived + 1 /\ arrived' = arrived + 1 /\ arrived + 1 \in Msgs
        /\ taken = None /\ reader' = "sending" /\ msgs' = msgs /\ freed' = freed
    BY <1>4, <1>0 DEF Arrive, Line
  <2>2. \A m \in Msgs : m <= arrived => from'[m] = from[m]
    BY <1>4, <1>0, <2>1 DEF Arrive, TypeOK
  <2>3. \A x \in Nat : Ahead(x) => Ahead(x)'
    BY <1>0, <2>1 DEF Ahead
  <2>4. Line'
    <3>1. \A m \in Msgs : InQ(msgs', m) => m <= arrived' /\ m < taken'
      BY <1>0, <2>1 DEF Line
    <3>2. Busy => msg \in Msgs /\ from'[msg] = client'[sess] /\ Ahead(msg)'
      BY <1>0, <1>1, <2>2, <2>3 DEF Line, Ahead
    <3> QED
      BY <1>0, <1>1, <1>2, <2>1, <3>1, <3>2 DEF Line
  <2>5. ASSUME NEW s \in Sessions PROVE Waiting(s)'
    <3>1. Waiting(s)
      BY <1>0
    <3>2. \A m \in Msgs : Has(s, m) => Ahead(m)' /\ from'[m] = from[m]
      BY <1>0, <2>2, <2>3, <3>1 DEF Waiting, Ahead
    <3>3. Ahead(lastRead[s])'
      BY <1>0, <1>1, <2>3, <3>1 DEF Waiting
    <3> QED
      BY <1>1, <1>2, <3>1, <3>2, <3>3 DEF Waiting
  <2>6. Pooled'
    BY <1>0, <1>u, <2>1, Places, KeepPooled
  <2> QED
    BY <1>3, <2>4, <2>5, <2>6 DEF Flow
<1>5. CASE Enqueue
  <2>1. /\ taken \in Msgs /\ taken = arrived /\ taken' = None /\ reader' = "reading"
        /\ msgs' = Append(msgs, taken) /\ UNCHANGED <<arrived, from, freed>>
    BY <1>5, <1>0 DEF Enqueue, Line
  <2>2. /\ \A m : InQ(msgs', m) <=> m = taken \/ InQ(msgs, m)
        /\ Rising(msgs')
    BY <1>0, <2>1, PutLast DEF Line, TypeOK
  <2>3. \A x \in Nat : Ahead(x) => Ahead(x)'
    BY <1>0, <2>1, <2>2 DEF Ahead
  <2>4. Line'
    <3>1. \A m \in Msgs : InQ(msgs', m) => m <= arrived'
      BY <1>0, <2>1, <2>2 DEF Line
    <3>2. Busy => msg \in Msgs /\ from'[msg] = client'[sess] /\ Ahead(msg)'
      BY <1>0, <1>1, <2>1, <2>3 DEF Line
    <3> QED
      BY <1>0, <1>1, <1>2, <2>1, <2>2, <3>1, <3>2 DEF Line
  <2>5. ASSUME NEW s \in Sessions PROVE Waiting(s)'
    <3>1. Waiting(s)
      BY <1>0
    <3>2. \A m \in Msgs : Has(s, m) => Ahead(m)'
      BY <1>0, <2>3, <3>1 DEF Waiting
    <3>3. Ahead(lastRead[s])'
      BY <1>0, <1>1, <2>3, <3>1 DEF Waiting
    <3> QED
      BY <1>1, <1>2, <2>1, <3>1, <3>2, <3>3 DEF Waiting
  <2>6. Pooled'
    BY <1>0, <1>u, <2>1, <2>2, Places, KeepPooled
  <2> QED
    BY <1>3, <2>4, <2>5, <2>6 DEF Flow
<1>6. CASE ReaderStops
  <2>1. /\ taken' = None /\ reader' = "stopped" /\ UNCHANGED <<arrived, from, msgs>>
        /\ IF taken # None THEN Free(taken) ELSE freed' = freed
    BY <1>6 DEF ReaderStops
  <2>2. \A x : Ahead(x) => Ahead(x)'
    BY <2>1 DEF Ahead
  <2>3. Line'
    BY <1>0, <1>1, <1>2, <2>1, <2>2 DEF Line
  <2>4. ASSUME NEW s \in Sessions PROVE Waiting(s)'
    BY <1>0, <1>1, <1>2, <2>1, <2>2 DEF Waiting
  <2>5. Pooled'
    <3>1. \A m \in Msgs : InUse(m)' => InUse(m)
      BY <1>0, <1>u, <2>1, Places
    <3>2. CASE taken = None
      BY <1>0, <2>1, <3>1, <3>2, KeepPooled
    <3>3. CASE taken # None
      <4> PICK n \in Msgs : n = taken
        BY <1>0, <3>3
      <4>1. n <= arrived
        BY <1>0, <3>3 DEF Line
      <4>2. ~InQ(msgs', n) /\ ~(Busy /\ msg = n)
        BY <1>0, <2>1, <3>3, <4>1 DEF Line, Ahead
      <4>3. \A s \in Sessions : ~Has(s, n)
        BY <1>0, <3>3, <4>1 DEF Waiting, Ahead
      <4>4. ~InUse(n)'
        BY <1>0, <1>u, <2>1, <4>2, <4>3
      <4> QED
        BY <2>1, <3>1, <3>3, <4>1, <4>4, FreePooled
    <3> QED
      BY <3>2, <3>3
  <2> QED
    BY <1>3, <2>3, <2>4, <2>5 DEF Flow
<1> QED
  BY <1>4, <1>5, <1>6 DEF Reader

\* Nothing moves but the goroutines, the map and the stages of the sessions.
LEMMA StillFlow ==
  ASSUME IInv, UNCHANGED <<arrived, from, freed, readerVars, msg, sess, client, queue, held, lastRead>>,
         Busy' => Busy
  PROVE  Flow'
<1> USE NoneAssumption
<1>0. /\ TypeOK /\ Line /\ (\A s \in Sessions : Waiting(s)) /\ Apart
      /\ MaxMsgs \in Nat /\ Msgs = 1..MaxMsgs /\ arrived \in Nat /\ (taken # None => taken \in Msgs)
      /\ \A s \in Sessions : lastRead[s] \in Nat
  BY Numbers DEF IInv, Flow
<1>1. UNCHANGED <<arrived, from, freed, reader, taken, msgs, msg, sess, client, queue, held, lastRead>>
  BY DEF readerVars
<1>2. /\ \A x : Ahead(x)' <=> Ahead(x)
      /\ \A s, m : Has(s, m)' <=> Has(s, m)
  BY <1>1 DEF Ahead, Has
<1>3. Line'
  BY <1>0, <1>1, <1>2 DEF Line, Ahead
<1>4. \A s \in Sessions : Waiting(s)'
  BY <1>0, <1>1, <1>2 DEF Waiting, Ahead
<1>5. Apart'
  BY <1>0, <1>2 DEF Apart
<1>6. \A m \in Msgs : InUse(m)' => InUse(m)
  BY <1>1 DEF InUse, Busy
<1>7. Pooled'
  BY <1>0, <1>1, <1>6, KeepPooled
<1> QED
  BY <1>3, <1>4, <1>5, <1>7 DEF Flow

\* The dispatcher puts back the buffer of the datagram it holds.
LEMMA GiveBackFlow ==
  ASSUME IInv, TypeOK', OfferStops \/ PutDone
  PROVE  Flow'
<1> USE NoneAssumption
<1>0. /\ TypeOK /\ Line /\ (\A s \in Sessions : Waiting(s)) /\ Apart
      /\ MaxMsgs \in Nat /\ Msgs = 1..MaxMsgs /\ arrived \in Nat /\ (taken # None => taken \in Msgs)
      /\ \A s \in Sessions : lastRead[s] \in Nat
  BY Numbers DEF IInv, Flow
<1>1. /\ UNCHANGED <<arrived, from, reader, taken, msgs, msg, sess, client, queue, held, lastRead>>
      /\ Busy /\ ~Busy' /\ Free(msg) /\ msg \in Msgs
  BY <1>0 DEF OfferStops, PutDone, readerVars, Busy, Line
<1>2. /\ \A x : Ahead(x)' <=> Ahead(x)
      /\ \A s, m : Has(s, m)' <=> Has(s, m)
  BY <1>1 DEF Ahead, Has
<1>3. Line'
  BY <1>0, <1>1 DEF Line
<1>4. \A s \in Sessions : Waiting(s)'
  BY <1>0, <1>1, <1>2 DEF Waiting, Ahead
<1>5. Apart'
  BY <1>0, <1>2 DEF Apart
<1>6. \A m \in Msgs : InUse(m)' <=> taken = m \/ InQ(msgs, m) \/ \E s \in Sessions : Has(s, m)
  BY <1>1 DEF InUse, InQ, Busy, Has
<1>7. Pooled'
  <2> PICK n \in Msgs : n = msg
    BY <1>1
  <2>1. n <= arrived /\ taken # n /\ ~InQ(msgs, n)
    BY <1>0, <1>1 DEF Line, Ahead
  <2>2. \A s \in Sessions : ~Has(s, n)
    BY <1>0, <1>1 DEF Waiting
  <2>3. ~InUse(n)' /\ \A m \in Msgs : InUse(m)' => InUse(m)
    BY <1>6, <2>1, <2>2, Places
  <2> QED
    BY <1>1, <2>1, <2>3, FreePooled
<1> QED
  BY <1>3, <1>4, <1>5, <1>7 DEF Flow

\* The oldest of the channel is for a session of the map, or for a new one
\* that has nothing yet.
LEMMA DispatchFlow ==
  ASSUME IInv, TypeOK', DispatchOld \/ \E s \in Sessions : DispatchNew(s)
  PROVE  Flow'
<1> USE NoneAssumption
<1>0. /\ TypeOK /\ Line /\ (\A s \in Sessions : Waiting(s)) /\ Apart
      /\ MaxMsgs \in Nat /\ Msgs = 1..MaxMsgs /\ arrived \in Nat /\ (taken # None => taken \in Msgs)
      /\ \A s \in Sessions : lastRead[s] \in Nat
  BY Numbers DEF IInv, Flow
<1>1. /\ msgs # <<>> /\ msgs \in Seq(Msgs) /\ msg' = Head(msgs) /\ msgs' = Tail(msgs)
      /\ ~Busy /\ Busy'
      /\ UNCHANGED <<arrived, from, freed, reader, taken, queue, held>>
  BY <1>0 DEF DispatchOld, DispatchNew, Busy, TypeOK
<1>2. /\ msg' \in Msgs /\ InQ(msgs, msg') /\ Rising(msgs')
      /\ \A m : InQ(msgs, m) <=> m = msg' \/ InQ(msgs', m)
      /\ \A m : InQ(msgs', m) => msg' < m
  BY <1>0, <1>1, TakeFirst DEF Line
<1>3. /\ sess' \in Sessions /\ client'[sess'] = from[msg']
      /\ \A s \in Sessions : \/ client'[s] = client[s] /\ lastRead'[s] = lastRead[s]
                             \/ lastRead'[s] = 0 /\ queue[s] = <<>> /\ held[s] = None
  <2>1. CASE DispatchOld
    <3>1. from[msg'] \in Clients /\ keys[from[msg']] # None /\ sess' = keys[from[msg']]
      BY <1>0, <1>1, <1>2, <2>1 DEF DispatchOld, TypeOK
    <3>2. UNCHANGED <<client, lastRead>>
      BY <2>1 DEF DispatchOld
    <3> QED
      BY <1>0, <3>1, <3>2 DEF IInv, Mapped, TypeOK
  <2>2. ASSUME NEW s \in Sessions, DispatchNew(s)
        PROVE  /\ sess' \in Sessions /\ client'[sess'] = from[msg']
               /\ \A t \in Sessions : \/ client'[t] = client[t] /\ lastRead'[t] = lastRead[t]
                                      \/ lastRead'[t] = 0 /\ queue[t] = <<>> /\ held[t] = None
    BY <1>0, <2>2 DEF DispatchNew, Garbage, TypeOK
  <2> QED
    BY <2>1, <2>2
<1>4. \A x \in Nat : Ahead(x) => Ahead(x)' /\ x < msg'
  BY <1>0, <1>1, <1>2 DEF Ahead
<1>5. \A s, m : Has(s, m)' <=> Has(s, m)
  BY <1>1 DEF Has
<1>6. Line'
  <2>1. msg' <= arrived' /\ (taken' # None => msg' < taken')
    BY <1>0, <1>1, <1>2 DEF Line
  <2>2. \A m \in Msgs : InQ(msgs', m) => m <= arrived' /\ (taken' # None => m < taken')
    BY <1>0, <1>1, <1>2 DEF Line
  <2>3. Ahead(msg)'
    BY <1>2, <2>1 DEF Ahead
  <2> QED
    BY <1>0, <1>1, <1>2, <1>3, <2>2, <2>3 DEF Line
<1>7. ASSUME NEW s \in Sessions PROVE Waiting(s)'
  <2>1. Waiting(s)
    BY <1>0
  <2>2. CASE client'[s] = client[s] /\ lastRead'[s] = lastRead[s]
    <3>1. Ahead(lastRead[s])' /\ lastRead'[s] < msg'
      <4> PICK x \in Nat : x = lastRead[s]
        BY <1>0
      <4> QED
        BY <1>4, <2>1, <2>2 DEF Waiting, Ahead
    <3>2. \A m \in Msgs : Has(s, m)' => Ahead(m)' /\ m < msg' /\ from'[m] = client'[s]
      BY <1>0, <1>1, <1>4, <1>5, <2>1, <2>2 DEF Waiting
    <3> QED
      BY <1>1, <2>1, <2>2, <3>1, <3>2 DEF Waiting
  <2>3. CASE lastRead'[s] = 0 /\ queue[s] = <<>> /\ held[s] = None
    <3>1. Ahead(lastRead[s])' /\ lastRead'[s] < msg'
      BY <1>0, <1>1, <1>2, <2>3 DEF Ahead
    <3>2. \A m \in Msgs : ~InQ(queue[s], m) /\ ~Has(s, m)'
      <4>1. \A m : ~InQ(<<>>, m)
        BY DEF InQ
      <4>2. \A m \in Msgs : ~Has(s, m)
        BY <1>0, <2>3, <4>1 DEF Has
      <4> QED
        BY <1>5, <2>3, <4>1, <4>2
    <3> QED
      BY <1>1, <2>1, <2>3, <3>1, <3>2 DEF Waiting
  <2> QED
    BY <1>3, <2>2, <2>3
<1>8. Apart'
  BY <1>0, <1>5 DEF Apart
<1>9. Pooled'
  <2>1. \A m \in Msgs : InUse(m)' <=> taken' = m \/ InQ(msgs', m) \/ msg' = m \/ \E s \in Sessions : Has(s, m)'
    BY <1>1 DEF InUse, InQ, Busy, Has
  <2>2. \A m \in Msgs : InUse(m)' => InUse(m)
    BY <1>1, <1>2, <1>5, <2>1, Places
  <2> QED
    BY <1>0, <1>1, <2>2, KeepPooled
<1> QED
  BY <1>6, <1>7, <1>8, <1>9 DEF Flow

\* A datagram joins the queue of its session, behind all that is there.
LEMMA PutFlow ==
  ASSUME IInv, TypeOK', PutSend
  PROVE  Flow'
<1> USE NoneAssumption
<1>0. /\ TypeOK /\ Line /\ (\A s \in Sessions : Waiting(s)) /\ Apart
      /\ MaxMsgs \in Nat /\ Msgs = 1..MaxMsgs /\ arrived \in Nat /\ (taken # None => taken \in Msgs)
      /\ \A s \in Sessions : lastRead[s] \in Nat
  BY Numbers DEF IInv, Flow
<1>1. /\ UNCHANGED <<arrived, from, freed, reader, taken, msgs, msg, sess, client, held, lastRead>>
      /\ Busy /\ ~Busy' /\ msg \in Msgs /\ sess \in Sessions
      /\ from[msg] = client[sess] /\ Ahead(msg)
      /\ queue' = [queue EXCEPT ![sess] = Append(@, msg)]
  BY <1>0 DEF PutSend, readerVars, Busy, Line
<1>2. \A x : Ahead(x)' <=> Ahead(x)
  BY <1>1 DEF Ahead
<1>3. /\ queue \in [Sessions -> Seq(Msgs)]
      /\ queue'[sess] = Append(queue[sess], msg)
      /\ \A s \in Sessions : s # sess => queue'[s] = queue[s]
  BY <1>0, <1>1 DEF TypeOK
<1>4. /\ \A m : InQ(queue'[sess], m) <=> m = msg \/ InQ(queue[sess], m)
      /\ Rising(queue'[sess])
  <2>1. Rising(queue[sess]) /\ \A m \in Msgs : InQ(queue[sess], m) => m < msg
    BY <1>0, <1>1 DEF Waiting, Has
  <2> QED
    BY <1>1, <1>3, <2>1, PutLast
<1>5. \A s \in Sessions, m \in Msgs : Has(s, m)' <=> Has(s, m) \/ (s = sess /\ m = msg)
  BY <1>1, <1>3, <1>4 DEF Has
<1>6. Line'
  BY <1>0, <1>1 DEF Line
<1>7. ASSUME NEW s \in Sessions PROVE Waiting(s)'
  <2>1. Waiting(s)
    BY <1>0
  <2>2. \A m \in Msgs : Has(s, m)' => Ahead(m)' /\ from'[m] = client'[s]
    BY <1>1, <1>2, <1>5, <2>1 DEF Waiting
  <2>3. Rising(queue'[s]) /\ \A m \in Msgs : InQ(queue'[s], m) => lastRead[s] < m
    BY <1>1, <1>3, <1>4, <2>1 DEF Waiting
  <2> QED
    BY <1>1, <1>2, <2>1, <2>2, <2>3 DEF Waiting
<1>8. Apart'
  <2>1. \A s \in Sessions : ~Has(s, msg)
    BY <1>0, <1>1 DEF Waiting
  <2> QED
    BY <1>0, <1>1, <1>5, <2>1 DEF Apart
<1>9. Pooled'
  <2>1. \A m \in Msgs : InUse(m)' <=> taken = m \/ InQ(msgs, m) \/ \E s \in Sessions : Has(s, m)'
    BY <1>1 DEF InUse, InQ, Busy, Has
  <2>2. \A m \in Msgs : InUse(m)' => InUse(m)
    BY <1>1, <1>5, <2>1, Places
  <2> QED
    BY <1>0, <1>1, <2>2, KeepPooled
<1> QED
  BY <1>6, <1>7, <1>8, <1>9 DEF Flow

\* A session loses the oldest that it has, or all.
LEMMA LessFlow ==
  ASSUME IInv, TypeOK',
         UNCHANGED <<arrived, from, reader, taken, msgs, msg, sess, client>>, Busy' <=> Busy,
         NEW s \in Sessions,
         \A t \in Sessions : t # s => held'[t] = held[t] /\ queue'[t] = queue[t] /\ lastRead'[t] = lastRead[t],
         \A m \in Msgs : Has(s, m)' => Has(s, m),
         Rising(queue'[s]),
         lastRead'[s] = lastRead[s] \/ (lastRead'[s] \in Msgs /\ Has(s, lastRead'[s])),
         held'[s] # None => held'[s] = lastRead'[s],
         \A m \in Msgs : InQ(queue'[s], m) => lastRead'[s] < m,
         Pooled'
  PROVE  Flow'
<1> USE NoneAssumption
<1>0. /\ TypeOK /\ Line /\ (\A t \in Sessions : Waiting(t)) /\ Apart
      /\ MaxMsgs \in Nat /\ Msgs = 1..MaxMsgs /\ arrived \in Nat /\ (taken # None => taken \in Msgs)
      /\ \A t \in Sessions : lastRead[t] \in Nat
  BY Numbers DEF IInv, Flow
<1>1. /\ \A x : Ahead(x)' <=> Ahead(x)
      /\ \A t \in Sessions, m \in Msgs : t # s => (Has(t, m)' <=> Has(t, m))
  BY DEF Ahead, Has
<1>2. Line'
  BY <1>0, <1>1 DEF Line
<1>3. ASSUME NEW t \in Sessions PROVE Waiting(t)'
  <2>1. Waiting(t) /\ Waiting(s)
    BY <1>0
  <2>2. CASE t # s
    BY <1>1, <2>1, <2>2 DEF Waiting
  <2>3. CASE t = s
    <3>1. Ahead(lastRead[s])' /\ (Busy' => lastRead'[s] < msg')
      <4> PICK x : x = lastRead'[s]
        OBVIOUS
      <4>1. Ahead(x) /\ (Busy => x < msg)
        BY <2>1 DEF Waiting
      <4> QED
        BY <4>1 DEF Ahead
    <3>2. \A m \in Msgs : Has(s, m)' => Ahead(m)' /\ (Busy' => m < msg') /\ from'[m] = client'[s]
      BY <1>1, <2>1 DEF Waiting
    <3> QED
      BY <2>1, <2>3, <3>1, <3>2 DEF Waiting
  <2> QED
    BY <2>2, <2>3
<1>4. Apart'
  BY <1>0, <1>1 DEF Apart
<1> QED
  BY <1>2, <1>3, <1>4 DEF Flow

\* What a session has is in no other place.
LEMMA OnlyPlace ==
  ASSUME IInv, NEW s \in Sessions, NEW n \in Msgs, Has(s, n)
  PROVE  /\ InUse(n) /\ n <= arrived /\ taken # n /\ ~InQ(msgs, n) /\ ~(Busy /\ msg = n)
         /\ \A t \in Sessions : t # s => ~Has(t, n)
<1>1. /\ TypeOK /\ Waiting(s) /\ Apart /\ MaxMsgs \in Nat /\ Msgs = 1..MaxMsgs /\ arrived \in Nat
      /\ (taken # None => taken \in Msgs)
  BY Numbers DEF IInv, Flow
<1>2. Ahead(n) /\ (Busy => n < msg)
  BY <1>1 DEF Waiting
<1>3. InUse(n)
  BY Places
<1>4. \A t \in Sessions : t # s => ~Has(t, n)
  BY <1>1 DEF Apart
<1> QED
  BY <1>1, <1>2, <1>3, <1>4, NoneAssumption DEF Ahead

\* The dispatcher drops the oldest of a full queue.
LEMMA DropFlow ==
  ASSUME IInv, TypeOK', PutDrop
  PROVE  Flow'
<1> USE NoneAssumption
<1>0. /\ TypeOK /\ Line /\ (\A s \in Sessions : Waiting(s)) /\ Apart
      /\ MaxMsgs \in Nat /\ Msgs = 1..MaxMsgs /\ arrived \in Nat /\ (taken # None => taken \in Msgs)
      /\ \A s \in Sessions : lastRead[s] \in Nat
  BY Numbers DEF IInv, Flow
<1>s. sess \in Sessions
  BY <1>0 DEF PutDrop, Line, Busy
<1> PICK s \in Sessions : s = sess
  BY <1>s
<1> PICK n : n = Head(queue[s])
  OBVIOUS
<1>1. /\ UNCHANGED <<arrived, from, reader, taken, msgs, msg, sess, client, held, lastRead>>
      /\ (Busy' <=> Busy) /\ Free(n)
      /\ queue' = [queue EXCEPT ![s] = Tail(@)] /\ queue[s] # <<>>
  BY DEF PutDrop, readerVars, Busy
<1>2. /\ queue \in [Sessions -> Seq(Msgs)] /\ queue'[s] = Tail(queue[s])
      /\ \A t \in Sessions : t # s => queue'[t] = queue[t]
  BY <1>0, <1>1 DEF TypeOK
<1>3. /\ n \in Msgs /\ InQ(queue[s], n) /\ Rising(queue'[s])
      /\ \A m : InQ(queue[s], m) <=> m = n \/ InQ(queue'[s], m)
      /\ \A m : InQ(queue'[s], m) => n < m
  BY <1>0, <1>1, <1>2, TakeFirst DEF Waiting
<1>4. /\ \A m \in Msgs : Has(s, m)' => Has(s, m)
      /\ \A t \in Sessions, m \in Msgs : t # s => (Has(t, m)' <=> Has(t, m))
  BY <1>1, <1>2, <1>3 DEF Has
<1>5. Waiting(s) /\ Has(s, n) /\ ~Has(s, n)'
  <2>1. held[s] # n
    BY <1>0, <1>3 DEF Waiting
  <2>2. ~InQ(queue'[s], n)
    BY <1>0, <1>3
  <2> QED
    BY <1>0, <1>1, <1>3, <2>1, <2>2 DEF Has
<1>6. Pooled'
  <2>1. \A m \in Msgs : InUse(m)' <=> taken = m \/ InQ(msgs, m) \/ (Busy /\ msg = m)
                                       \/ \E t \in Sessions : Has(t, m)'
    BY <1>1 DEF InUse, InQ, Busy, Has
  <2>2. \A m \in Msgs : InUse(m)' => InUse(m)
    BY <1>4, <2>1, Places
  <2>3. ~InUse(n)' /\ n <= arrived
    BY <1>3, <1>4, <1>5, <2>1, OnlyPlace
  <2> QED
    BY <1>1, <1>3, <2>2, <2>3, FreePooled
<1>7. \A m \in Msgs : InQ(queue'[s], m) => lastRead[s] < m
  BY <1>3, <1>5 DEF Waiting
<1> QED
  BY <1>1, <1>2, <1>3, <1>4, <1>5, <1>6, <1>7, LessFlow DEF Waiting

\* A Read takes the oldest out of the queue and holds it.
LEMMA ReadFlow ==
  ASSUME IInv, TypeOK', NEW s \in Sessions, Read(s)
  PROVE  Flow'
<1> USE NoneAssumption
<1>0. /\ TypeOK /\ Line /\ (\A t \in Sessions : Waiting(t)) /\ Apart
      /\ MaxMsgs \in Nat /\ Msgs = 1..MaxMsgs /\ arrived \in Nat /\ (taken # None => taken \in Msgs)
      /\ \A t \in Sessions : lastRead[t] \in Nat
  BY Numbers DEF IInv, Flow
<1> PICK n : n = Head(queue[s])
  OBVIOUS
<1>1. /\ UNCHANGED <<arrived, from, freed, reader, taken, msgs, disp, msg, sess, client>>
      /\ held[s] = None /\ queue[s] # <<>>
      /\ queue' = [queue EXCEPT ![s] = Tail(@)]
      /\ held' = [held EXCEPT ![s] = n] /\ lastRead' = [lastRead EXCEPT ![s] = n]
  BY DEF Read, readerVars, dispVars
<1>2. /\ queue \in [Sessions -> Seq(Msgs)] /\ queue'[s] = Tail(queue[s])
      /\ held'[s] = n /\ lastRead'[s] = n
      /\ \A t \in Sessions : t # s => held'[t] = held[t] /\ queue'[t] = queue[t] /\ lastRead'[t] = lastRead[t]
  BY <1>0, <1>1 DEF TypeOK
<1>3. /\ n \in Msgs /\ InQ(queue[s], n) /\ Rising(queue'[s])
      /\ \A m : InQ(queue[s], m) <=> m = n \/ InQ(queue'[s], m)
      /\ \A m : InQ(queue'[s], m) => n < m
  BY <1>0, <1>1, <1>2, TakeFirst DEF Waiting
<1>4. /\ \A m \in Msgs : Has(s, m)' => Has(s, m)
      /\ \A t \in Sessions, m \in Msgs : t # s => (Has(t, m)' <=> Has(t, m))
  BY <1>1, <1>2, <1>3 DEF Has
<1>5. Pooled'
  <2>1. \A m \in Msgs : InUse(m)' <=> taken = m \/ InQ(msgs, m) \/ (Busy /\ msg = m)
                                       \/ \E t \in Sessions : Has(t, m)'
    BY <1>1 DEF InUse, InQ, Busy, Has
  <2>2. \A m \in Msgs : InUse(m)' => InUse(m)
    BY <1>4, <2>1, Places
  <2> QED
    BY <1>0, <1>1, <2>2, KeepPooled
<1>6. Has(s, n) /\ (Busy' <=> Busy)
  BY <1>1, <1>3 DEF Has, Busy
<1> QED
  BY <1>1, <1>2, <1>3, <1>4, <1>5, <1>6, LessFlow

\* The last byte is copied and the buffer put back.
LEMMA ReadAllFlow ==
  ASSUME IInv, TypeOK', NEW s \in Sessions, ReadAll(s)
  PROVE  Flow'
<1> USE NoneAssumption
<1>0. /\ TypeOK /\ Line /\ (\A t \in Sessions : Waiting(t)) /\ Apart
      /\ MaxMsgs \in Nat /\ Msgs = 1..MaxMsgs /\ arrived \in Nat /\ (taken # None => taken \in Msgs)
      /\ \A t \in Sessions : lastRead[t] \in Nat
  BY Numbers DEF IInv, Flow
<1> PICK n : n = held[s]
  OBVIOUS
<1>1. /\ UNCHANGED <<arrived, from, reader, taken, msgs, disp, msg, sess, client, queue, lastRead>>
      /\ n # None /\ Free(n) /\ held' = [held EXCEPT ![s] = None]
  BY DEF ReadAll, readerVars, dispVars
<1>2. /\ held \in [Sessions -> Msgs \cup {None}] /\ held'[s] = None /\ n \in Msgs
      /\ \A t \in Sessions : t # s => held'[t] = held[t]
  BY <1>0, <1>1 DEF TypeOK
<1>3. /\ Has(s, n) /\ (Busy' <=> Busy)
      /\ \A m \in Msgs : Has(s, m)' => Has(s, m)
      /\ \A t \in Sessions, m \in Msgs : t # s => (Has(t, m)' <=> Has(t, m))
  BY <1>0, <1>1, <1>2 DEF Has, Busy
<1>4. ~Has(s, n)'
  <2>1. ~InQ(queue[s], n)
    BY <1>0, <1>1, <1>2 DEF Waiting
  <2>2. held'[s] # n
    BY <1>1, <1>2
  <2> QED
    BY <1>1, <2>1, <2>2 DEF Has
<1>5. Pooled'
  <2>1. \A m \in Msgs : InUse(m)' <=> taken = m \/ InQ(msgs, m) \/ (Busy /\ msg = m)
                                       \/ \E t \in Sessions : Has(t, m)'
    BY <1>1 DEF InUse, InQ, Busy, Has
  <2>2. \A m \in Msgs : InUse(m)' => InUse(m)
    BY <1>3, <2>1, Places
  <2>3. ~InUse(n)' /\ n <= arrived
    BY <1>2, <1>3, <1>4, <2>1, OnlyPlace
  <2> QED
    BY <1>1, <1>2, <2>2, <2>3, FreePooled
<1>6. Waiting(s)
  BY <1>0
<1> QED
  BY <1>1, <1>2, <1>3, <1>5, <1>6, LessFlow DEF Waiting

\* What a closed session has is garbage.
LEMMA CollectFlow ==
  ASSUME IInv, TypeOK', NEW s \in Sessions, Collect(s)
  PROVE  Flow'
<1> USE NoneAssumption
<1>0. /\ TypeOK /\ Line /\ (\A t \in Sessions : Waiting(t)) /\ Apart
      /\ MaxMsgs \in Nat /\ Msgs = 1..MaxMsgs /\ arrived \in Nat /\ (taken # None => taken \in Msgs)
      /\ \A t \in Sessions : lastRead[t] \in Nat
  BY Numbers DEF IInv, Flow
<1>1. /\ UNCHANGED <<arrived, from, freed, reader, taken, msgs, disp, msg, sess, client, lastRead>>
      /\ held' = [held EXCEPT ![s] = None] /\ queue' = [queue EXCEPT ![s] = <<>>]
  BY DEF Collect, readerVars, dispVars
<1>2. /\ held'[s] = None /\ queue'[s] = <<>>
      /\ \A t \in Sessions : t # s => held'[t] = held[t] /\ queue'[t] = queue[t]
  BY <1>0, <1>1 DEF TypeOK
<1>3. Rising(queue'[s]) /\ \A m : ~InQ(queue'[s], m)
  BY <1>2 DEF Rising, InQ
<1>4. /\ \A m \in Msgs : Has(s, m)' => Has(s, m)
      /\ \A t \in Sessions, m \in Msgs : t # s => (Has(t, m)' <=> Has(t, m))
      /\ Busy' <=> Busy
  BY <1>0, <1>1, <1>2, <1>3 DEF Has, Busy
<1>5. Pooled'
  <2>1. \A m \in Msgs : InUse(m)' <=> taken = m \/ InQ(msgs, m) \/ (Busy /\ msg = m)
                                       \/ \E t \in Sessions : Has(t, m)'
    BY <1>1 DEF InUse, InQ, Busy, Has
  <2>2. \A m \in Msgs : InUse(m)' => InUse(m)
    BY <1>4, <2>1, Places
  <2> QED
    BY <1>0, <1>1, <2>2, KeepPooled
<1> QED
  BY <1>1, <1>2, <1>3, <1>4, <1>5, LessFlow

-----------------------------------------------------------------------------
(* The theorems.                                                           *)

\* Every step keeps the invariant.
LEMMA NextIInv == IInv /\ [Next]_vars => IInv'
<1> SUFFICES ASSUME IInv, [Next]_vars PROVE IInv'
  OBVIOUS
<1>t. TypeOK' /\ Mapped'
  BY NextTypes, NextMapped
<1>1. CASE (\E c \in Clients : Arrive(c)) \/ Reader
  BY <1>1, <1>t, ReaderFlow DEF IInv
<1>2. CASE OfferStops \/ PutDone
  BY <1>2, <1>t, GiveBackFlow DEF IInv
<1>3. CASE DispatchOld \/ \E s \in Sessions : DispatchNew(s)
  BY <1>3, <1>t, DispatchFlow DEF IInv
<1>4. CASE PutSend
  BY <1>4, <1>t, PutFlow DEF IInv
<1>5. CASE PutDrop
  BY <1>5, <1>t, DropFlow DEF IInv
<1>6. ASSUME NEW s \in Sessions, Read(s) \/ ReadAll(s) \/ Collect(s) PROVE IInv'
  BY <1>6, <1>t, ReadFlow, ReadAllFlow, CollectFlow DEF IInv
<1>7. CASE DispatchStops \/ Accept \/ PutFull
  BY <1>7, <1>t, StillFlow DEF IInv, DispatchStops, Accept, PutFull, Busy
<1>8. ASSUME NEW s \in Sessions, DispatchClose(s) \/ Shut(s) \/ ShutReturns(s) PROVE IInv'
  BY <1>8, <1>t, StillFlow DEF IInv, DispatchClose, Shut, ShutReturns, Busy, dispVars
<1>9. CASE Close \/ UNCHANGED vars
  BY <1>9, <1>t, StillFlow DEF IInv, Close, Busy, vars, dispVars
<1> QED
  BY <1>1, <1>2, <1>3, <1>4, <1>5, <1>6, <1>7, <1>8, <1>9 DEF Next, Dispatch

LEMMA Invariance == Spec => []IInv
BY InitIInv, NextIInv, PTL DEF Spec

\* The type invariant: the channel and the queues within their capacities, and
\* no buffer put back twice.
THEOREM TypeCorrect == Spec => []TypeOK
<1>1. IInv => TypeOK
  BY DEF IInv
<1> QED
  BY <1>1, Invariance, PTL

\* A buffer that went back to the pool is in no queue, channel or goroutine.
THEOREM ListenerNoUseAfterFree == Spec => []NoUseAfterFree
<1>1. IInv => NoUseAfterFree
  BY DEF IInv, Flow, Pooled, NoUseAfterFree
<1> QED
  BY <1>1, Invariance, PTL

\* Until the listener is closed its map has exactly the sessions that are not
\* yet completely closed, each under its client.
THEOREM ListenerExactMap == Spec => []ExactMap
<1>1. IInv => ExactMap
  BY DEF IInv, Mapped
<1> QED
  BY <1>1, Invariance, PTL

\* A session reads the datagrams of its client only, in the order of arrival,
\* though the oldest are dropped from its queue meanwhile.
THEOREM ListenerInOrder == Spec => InOrder
<1>1. ASSUME IInv, [Next]_vars, NEW s \in Sessions, held'[s] # held[s], held'[s] # None
      PROVE  held'[s] > lastRead[s] /\ from[held'[s]] = client[s]
  <2>0. /\ held \in [Sessions -> Msgs \cup {None}] /\ queue \in [Sessions -> Seq(Msgs)]
        /\ Waiting(s) /\ Msgs \subseteq Nat /\ lastRead[s] \in Nat
    BY <1>1, Numbers DEF IInv, Flow, TypeOK
  <2>1. Read(s)
    <3>1. CASE \E c \in Clients : Arrive(c)
      BY <1>1, <3>1 DEF Arrive
    <3>2. CASE Reader \/ Dispatch \/ Accept \/ Close \/ UNCHANGED vars
      BY <1>1, <3>2 DEF Reader, Enqueue, ReaderStops, Dispatch, DispatchStops, DispatchClose,
         DispatchOld, DispatchNew, OfferStops, PutDone, PutSend, PutFull, PutDrop, Accept, Close, vars
    <3>3. ASSUME NEW t \in Sessions, Shut(t) \/ ShutReturns(t) PROVE FALSE
      BY <1>1, <3>3 DEF Shut, ShutReturns
    <3>4. ASSUME NEW t \in Sessions, ReadAll(t) \/ Collect(t) PROVE FALSE
      BY <1>1, <2>0, <3>4 DEF ReadAll, Collect
    <3>5. ASSUME NEW t \in Sessions, Read(t) PROVE t = s
      BY <1>1, <2>0, <3>5 DEF Read
    <3> QED
      BY <1>1, <3>1, <3>2, <3>3, <3>4, <3>5 DEF Next
  <2>2. held'[s] = Head(queue[s]) /\ queue[s] # <<>>
    BY <2>0, <2>1 DEF Read
  <2>3. Head(queue[s]) \in Msgs /\ InQ(queue[s], Head(queue[s]))
    BY <2>0, <2>2, TakeFirst
  <2> QED
    BY <2>0, <2>2, <2>3 DEF Waiting, Has
<1>2. IInv /\ [Next]_vars =>
        [\A s \in Sessions :
           held'[s] # held[s] /\ held'[s] # None => held'[s] > lastRead[s] /\ from[held'[s]] = client[s]]_vars
  BY <1>1
<1> QED
  BY <1>2, Invariance, PTL DEF Spec, InOrder
=============================================================================
