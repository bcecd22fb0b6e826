---------------------------- MODULE UdpListener ----------------------------
(***************************************************************************)
(* internal/network/udp.go: a listener that turns the datagrams of each    *)
(* client into a stream (udp over tcp).  A reader goroutine (run) takes    *)
(* datagrams from the socket into a channel; a dispatcher goroutine        *)
(* (onMessage) owns the map of sessions, offers new ones to Accept, and    *)
(* puts each datagram in the queue of its session, dropping the oldest     *)
(* when the queue is full.  A session (udpToTcp) is closed by its timer,   *)
(* its write goroutine or its bridge; Close hands the session to the       *)
(* dispatcher over a channel without buffer, so that only the dispatcher   *)
(* touches the map.                                                        *)
(*                                                                         *)
(* A datagram is a number.  The buffer it is in comes from a shared pool;  *)
(* freed counts how often it was put back.                                 *)
(***************************************************************************)
EXTENDS Naturals, Sequences

CONSTANTS
  Clients,   \* client addresses
  Sessions,  \* session objects; one that is garbage is used again
  None,      \* no session, no datagram
  MsgCap,    \* capacity of the channel u.msg
  Frame,     \* capacity of the queue of a session
  MaxMsgs    \* bound: datagrams that arrive

ASSUME CapacityAssumption == MsgCap \in Nat \ {0} /\ Frame \in Nat \ {0} /\ MaxMsgs \in Nat
ASSUME NoneAssumption == None \notin Sessions /\ None \notin Nat
ASSUME ClientsAssumption == Clients # {}

Msgs == 1..MaxMsgs

VARIABLES
  done,      \* the listener is closed
  arrived,   \* how many datagrams have arrived: the numbers 1..arrived
  from,      \* the client of each
  freed,     \* how often the buffer of each went back to the pool
  reader,    \* the goroutine of run
  taken,     \* the datagram it holds
  msgs,      \* the channel u.msg
  disp,      \* the goroutine of onMessage
  msg, sess, \* the datagram and the session it works on
  keys,      \* its map
  stage,     \* of a session: "open", "shut" (closing, not handed over), "gone"
  client,    \* c.addr
  accepted,  \* the session was returned by Accept
  queue,     \* c.ch
  held,      \* c.read: the datagram that a Read has begun to copy out
  lastRead   \* the last datagram taken by Read (history)

readerVars == <<reader, taken, msgs>>
dispVars == <<disp, msg, sess>>
vars == <<done, arrived, from, freed, readerVars, dispVars, keys,
          stage, client, accepted, queue, held, lastRead>>

TypeOK ==
  /\ done \in BOOLEAN
  /\ arrived \in 0..MaxMsgs
  /\ from \in [Msgs -> Clients]
  /\ freed \in [Msgs -> 0..1]
  /\ reader \in {"reading", "sending", "stopped"}
  /\ taken \in Msgs \cup {None}
  /\ msgs \in Seq(Msgs) /\ Len(msgs) <= MsgCap
  /\ disp \in {"select", "offering", "putting", "full", "stopped"}
  /\ msg \in Msgs \cup {None}
  /\ sess \in Sessions \cup {None}
  /\ keys \in [Clients -> Sessions \cup {None}]
  /\ stage \in [Sessions -> {"open", "shut", "gone"}]
  /\ client \in [Sessions -> Clients]
  /\ accepted \in [Sessions -> BOOLEAN]
  /\ queue \in [Sessions -> Seq(Msgs)] /\ \A s \in Sessions : Len(queue[s]) <= Frame
  /\ held \in [Sessions -> Msgs \cup {None}]
  /\ lastRead \in [Sessions -> 0..MaxMsgs]

\* The value of a variable that is not used yet.
SomeClient == CHOOSE c \in Clients : TRUE

Init ==
  /\ done = FALSE
  /\ arrived = 0
  /\ from = [m \in Msgs |-> SomeClient]
  /\ freed = [m \in Msgs |-> 0]
  /\ reader = "reading" /\ taken = None /\ msgs = <<>>
  /\ disp = "select" /\ msg = None /\ sess = None
  /\ keys = [c \in Clients |-> None]
  /\ stage = [s \in Sessions |-> "gone"]
  /\ client = [s \in Sessions |-> SomeClient]
  /\ accepted = [s \in Sessions |-> FALSE]
  /\ queue = [s \in Sessions |-> <<>>]
  /\ held = [s \in Sessions |-> None]
  /\ lastRead = [s \in Sessions |-> 0]

\* pool.Put of the buffer of datagram m.
Free(m) == freed' = [freed EXCEPT ![m] = @ + 1]

-----------------------------------------------------------------------------
(* run.                                                                    *)

Arrive(c) ==
  /\ reader = "reading"
  /\ ~done /\ arrived < MaxMsgs
  /\ arrived' = arrived + 1
  /\ from' = [from EXCEPT ![arrived + 1] = c]
  /\ taken' = arrived + 1
  /\ reader' = "sending"
  /\ UNCHANGED <<done, freed, msgs, dispVars, keys, stage, client, accepted, queue, held, lastRead>>

Enqueue ==
  /\ reader = "sending"
  /\ Len(msgs) < MsgCap
  /\ msgs' = Append(msgs, taken)
  /\ taken' = None
  /\ reader' = "reading"
  /\ UNCHANGED <<done, arrived, from, freed, dispVars, keys, stage, client, accepted, queue, held, lastRead>>

\* A failed read, or the done case of the select.
ReaderStops ==
  /\ reader \in {"reading", "sending"}
  /\ done
  /\ IF taken # None THEN Free(taken) ELSE UNCHANGED freed
  /\ taken' = None
  /\ reader' = "stopped"
  /\ UNCHANGED <<done, arrived, from, msgs, dispVars, keys, stage, client, accepted, queue, held, lastRead>>

Reader == Enqueue \/ ReaderStops

-----------------------------------------------------------------------------
(* onMessage.                                                              *)

DispatchStops ==
  /\ disp = "select"
  /\ done
  /\ disp' = "stopped"
  /\ UNCHANGED <<done, arrived, from, freed, readerVars, msg, sess, keys, stage, client, accepted, queue, held, lastRead>>

\* c = <-u.close meets c.l.close <- c.
DispatchClose(s) ==
  /\ disp = "select"
  /\ stage[s] = "shut"
  /\ stage' = [stage EXCEPT ![s] = "gone"]
  /\ keys' = [keys EXCEPT ![client[s]] = IF @ = s THEN None ELSE @]
  /\ UNCHANGED <<done, arrived, from, freed, readerVars, dispVars, client, accepted, queue, held, lastRead>>

\* A datagram for a session of the map ...
DispatchOld ==
  /\ disp = "select" /\ msgs # <<>>
  /\ keys[from[Head(msgs)]] # None
  /\ msg' = Head(msgs) /\ msgs' = Tail(msgs)
  /\ sess' = keys[from[Head(msgs)]]
  /\ disp' = "putting"
  /\ UNCHANGED <<done, arrived, from, freed, reader, taken, keys, stage, client, accepted, queue, held, lastRead>>

\* Nothing refers to the session any more.
Garbage(s) ==
  /\ stage[s] = "gone" /\ held[s] = None /\ queue[s] = <<>>
  /\ \A c \in Clients : keys[c] # s

\* ... and one for a new session, whose goroutines are started at once.
DispatchNew(s) ==
  /\ disp = "select" /\ msgs # <<>>
  /\ keys[from[Head(msgs)]] = None
  /\ Garbage(s)
  /\ msg' = Head(msgs) /\ msgs' = Tail(msgs)
  /\ sess' = s
  /\ stage' = [stage EXCEPT ![s] = "open"]
  /\ client' = [client EXCEPT ![s] = from[Head(msgs)]]
  /\ accepted' = [accepted EXCEPT ![s] = FALSE]
  /\ lastRead' = [lastRead EXCEPT ![s] = 0]
  /\ disp' = "offering"
  /\ UNCHANGED <<done, arrived, from, freed, reader, taken, keys, queue, held>>

\* u.ch <- c meets uc := <-u.ch of Accept.
Accept ==
  /\ disp = "offering"
  /\ accepted' = [accepted EXCEPT ![sess] = TRUE]
  /\ keys' = [keys EXCEPT ![client[sess]] = sess]
  /\ disp' = "putting"
  /\ UNCHANGED <<done, arrived, from, freed, readerVars, msg, sess, stage, client, queue, held, lastRead>>

\* Mutant: a session is offered without a look at u.done.
OfferStops_Missing ==
  /\ disp = "offering"
  /\ FALSE
  /\ Free(msg)
  /\ disp' = "stopped"
  /\ UNCHANGED <<done, arrived, from, readerVars, msg, sess, keys, stage, client, accepted, queue, held, lastRead>>

OfferStops ==
  /\ disp = "offering"
  /\ done
  /\ Free(msg)
  /\ disp' = "stopped"
  /\ UNCHANGED <<done, arrived, from, readerVars, msg, sess, keys, stage, client, accepted, queue, held, lastRead>>

\* putRead, the done case of either select.
PutDone ==
  /\ disp \in {"putting", "full"}
  /\ stage[sess] # "open"
  /\ Free(msg)
  /\ disp' = "select"
  /\ UNCHANGED <<done, arrived, from, readerVars, msg, sess, keys, stage, client, accepted, queue, held, lastRead>>

\* Mutant: the newest datagram is read first.
PutSend_Front ==
  /\ disp \in {"putting", "full"}
  /\ Len(queue[sess]) < Frame
  /\ queue' = [queue EXCEPT ![sess] = <<msg>> \o @]
  /\ disp' = "select"
  /\ UNCHANGED <<done, arrived, from, freed, readerVars, msg, sess, keys, stage, client, accepted, held, lastRead>>

PutSend ==
  /\ disp \in {"putting", "full"}
  /\ Len(queue[sess]) < Frame
  /\ queue' = [queue EXCEPT ![sess] = Append(@, msg)]
  /\ disp' = "select"
  /\ UNCHANGED <<done, arrived, from, freed, readerVars, msg, sess, keys, stage, client, accepted, held, lastRead>>

\* The default of the first select.
PutFull ==
  /\ disp = "putting"
  /\ stage[sess] = "open" /\ Len(queue[sess]) = Frame
  /\ disp' = "full"
  /\ UNCHANGED <<done, arrived, from, freed, readerVars, msg, sess, keys, stage, client, accepted, queue, held, lastRead>>

\* Mutant: the buffer of the new datagram is put back for that of the oldest.
PutDrop_FreesNew ==
  /\ disp = "full"
  /\ queue[sess] # <<>>
  /\ Free(msg)
  /\ queue' = [queue EXCEPT ![sess] = Tail(@)]
  /\ disp' = "putting"
  /\ UNCHANGED <<done, arrived, from, readerVars, msg, sess, keys, stage, client, accepted, held, lastRead>>

\* v = <-c.ch of the second: the oldest is dropped and the loop goes round,
\* even when a Read has made room meanwhile.
PutDrop ==
  /\ disp = "full"
  /\ queue[sess] # <<>>
  /\ Free(Head(queue[sess]))
  /\ queue' = [queue EXCEPT ![sess] = Tail(@)]
  /\ disp' = "putting"
  /\ UNCHANGED <<done, arrived, from, readerVars, msg, sess, keys, stage, client, accepted, held, lastRead>>

Dispatch ==
  \/ DispatchStops \/ (\E s \in Sessions : DispatchClose(s) \/ DispatchNew(s)) \/ DispatchOld
  \/ OfferStops \/ PutDone \/ PutSend \/ PutFull \/ PutDrop

-----------------------------------------------------------------------------
(* udpToTcp: Read by the bridge that accepted it, and Close.               *)

Read(s) ==
  /\ accepted[s] /\ held[s] = None /\ queue[s] # <<>>
  /\ held' = [held EXCEPT ![s] = Head(queue[s])]
  /\ lastRead' = [lastRead EXCEPT ![s] = Head(queue[s])]
  /\ queue' = [queue EXCEPT ![s] = Tail(@)]
  /\ UNCHANGED <<done, arrived, from, freed, readerVars, dispVars, keys, stage, client, accepted>>

\* Mutant: c.read.data is not cleared.
ReadAll_KeepsData(s) ==
  /\ held[s] # None
  /\ Free(held[s])
  /\ UNCHANGED <<done, arrived, from, readerVars, dispVars, keys, stage, client, accepted, queue, held, lastRead>>

\* The last byte is copied out.
ReadAll(s) ==
  /\ held[s] # None
  /\ Free(held[s])
  /\ held' = [held EXCEPT ![s] = None]
  /\ UNCHANGED <<done, arrived, from, readerVars, dispVars, keys, stage, client, accepted, queue, lastRead>>

\* The first Close, by the timer, a failed write or the bridge.
Shut(s) ==
  /\ stage[s] = "open"
  /\ stage' = [stage EXCEPT ![s] = "shut"]
  /\ UNCHANGED <<done, arrived, from, freed, readerVars, dispVars, keys, client, accepted, queue, held, lastRead>>

\* Mutant: Close gives up when the dispatcher is busy.
ShutReturns_NoWait(s) ==
  /\ stage[s] = "shut"
  /\ stage' = [stage EXCEPT ![s] = "gone"]
  /\ UNCHANGED <<done, arrived, from, freed, readerVars, dispVars, keys, client, accepted, queue, held, lastRead>>

\* <-c.l.done: nobody takes the session any more.
ShutReturns(s) ==
  /\ stage[s] = "shut"
  /\ done
  /\ stage' = [stage EXCEPT ![s] = "gone"]
  /\ UNCHANGED <<done, arrived, from, freed, readerVars, dispVars, keys, client, accepted, queue, held, lastRead>>

\* The garbage of a closed session: what it still holds is not pooled.
Collect(s) ==
  /\ stage[s] = "gone" /\ (disp = "select" \/ sess # s)
  /\ held[s] # None \/ queue[s] # <<>>
  /\ held' = [held EXCEPT ![s] = None]
  /\ queue' = [queue EXCEPT ![s] = <<>>]
  /\ UNCHANGED <<done, arrived, from, freed, readerVars, dispVars, keys, stage, client, accepted, lastRead>>

-----------------------------------------------------------------------------

Close ==
  /\ ~done
  /\ done' = TRUE
  /\ UNCHANGED <<arrived, from, freed, readerVars, dispVars, keys, stage, client, accepted, queue, held, lastRead>>

Next ==
  \/ \E c \in Clients : Arrive(c)
  \/ Reader
  \/ Dispatch \/ Accept
  \/ \E s \in Sessions : Read(s) \/ ReadAll(s) \/ Shut(s) \/ ShutReturns(s) \/ Collect(s)
  \/ Close

(***************************************************************************)
(* The goroutines run, and somebody accepts until the listener is closed.  *)
(* No Read is owed: a bridge may be slow.                                  *)
(***************************************************************************)
Fairness ==
  /\ WF_vars(Reader)
  /\ WF_vars(Dispatch)
  /\ WF_vars(~done /\ Accept)
  /\ \A s \in Sessions : WF_vars(DispatchClose(s)) /\ WF_vars(ShutReturns(s))

Spec == Init /\ [][Next]_vars /\ Fairness

-----------------------------------------------------------------------------
(* Safety.                                                                 *)

InUse(m) ==
  \/ taken = m
  \/ \E i \in DOMAIN msgs : msgs[i] = m
  \/ disp \in {"offering", "putting", "full"} /\ msg = m
  \/ \E s \in Sessions : held[s] = m \/ \E i \in DOMAIN queue[s] : queue[s][i] = m

\* No buffer is used after it went back to the pool (TypeOK has the rest: no
\* buffer goes back twice), along all the ways a datagram can be dropped.
NoUseAfterFree == \A m \in Msgs : freed[m] > 0 => ~InUse(m)

\* The map has exactly the sessions that live or are still closing: each is the
\* one its client's next datagram finds, so that a client has one at most, and
\* none that is completely closed is found.
ExactMap ==
  ~done =>
    /\ \A s \in Sessions :
         stage[s] # "gone" =>
           IF disp = "offering" /\ sess = s THEN keys[client[s]] = None ELSE keys[client[s]] = s
    /\ \A c \in Clients : keys[c] # None => stage[keys[c]] # "gone"

\* Datagrams may be dropped, but a session never reads them out of order, and
\* reads those of its own client only.
InOrder ==
  [][\A s \in Sessions :
       held'[s] # held[s] /\ held'[s] # None => held'[s] > lastRead[s] /\ from[held'[s]] = client[s]]_vars

-----------------------------------------------------------------------------
(* Liveness.                                                               *)

\* Every Close of a session returns, although it waits for the dispatcher and
\* the dispatcher waits for Accept; closing the listener ends its goroutines.
ClosesFinish ==
  /\ \A s \in Sessions : stage[s] = "shut" ~> stage[s] = "gone"
  /\ done ~> reader = "stopped" /\ disp = "stopped"
=============================================================================
