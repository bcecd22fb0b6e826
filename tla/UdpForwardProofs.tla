-------------------------- MODULE UdpForwardProofs --------------------------
(***************************************************************************)
(* Proofs about UdpForward for any clients, sessions, traffic and idle     *)
(* time: its types, that a client has one open session at most, which is   *)
(* the one that Serve finds, that no session is left alone, and the one    *)
(* way in which a dead session stays in the map.                           *)
(***************************************************************************)
EXTENDS UdpForward, TLAPS

-----------------------------------------------------------------------------
(* The invariant.                                                          *)

\* An entry of the map belongs to its client.
Own == \A c \in Clients : keys[c] # None => client[keys[c]] = c

\* While Serve makes a session its client has no entry, as only Serve inserts;
\* what it works on is a session of the client.
Making ==
  /\ serve \in {"dialing", "inserting"} => keys[cur] = None
  /\ serve = "inserting" => new \in Sessions /\ client[new] = cur
  /\ serve \in {"writing", "closing"} => new \in Sessions

IInv == TypeOK /\ Own /\ Making /\ OneReachableSession

\* IInv holds for a mapping that is new.
LEMMA InitIInv == Init => IInv
<1> SUFFICES ASSUME Init PROVE IInv
  OBVIOUS
<1>1. SomeClient \in Clients
  BY ClientsAssumption DEF SomeClient
<1>2. 0 \in 0..Max /\ 0 \in 0..MaxPackets /\ 0 \in 0..MaxReplies
  BY BoundsAssumption
<1>3. TypeOK
  BY <1>1, <1>2 DEF Init, TypeOK
<1>4. Own /\ Making /\ OneReachableSession
  BY DEF Init, Own, Making, OneReachableSession
<1> QED
  BY <1>3, <1>4 DEF IInv

\* Every step keeps the types.
LEMMA NextTypes ==
  ASSUME IInv, [Next]_vars
  PROVE  TypeOK'
<1> USE BoundsAssumption, NoneAssumption, TimedAssumption
<1> USE DEF IInv, TypeOK, Making
<1>1. ASSUME NEW c \in Clients, Receive(c) PROVE TypeOK'
  BY <1>1 DEF Receive, sessionVars
<1>2. CASE ReceiveFails
  BY <1>2 DEF ReceiveFails, sessionVars, trafficVars
<1>3. CASE Lookup
  <2>1. keys[cur] \in Sessions \cup {None}
    OBVIOUS
  <2>2. new' \in Sessions \cup {None} /\ serve' \in {"dialing", "writing"} /\ fatal' = fatal
    BY <1>3, <2>1 DEF Lookup
  <2> QED
    BY <1>3, <2>2 DEF Lookup, sessionVars, trafficVars
<1>18. CASE LookupRaces
  <2>1. fatal' = TRUE
    BY <1>18 DEF LookupRaces
  <2>2. fatal' \in BOOLEAN
    BY <2>1
  <2> QED
    BY <1>18, <2>2 DEF LookupRaces, sessionVars, serveVars, trafficVars
<1>4. CASE Forward
  <2>1. 0 \in 0..Max
    OBVIOUS
  <2> QED
    BY <1>4, <2>1 DEF Forward, Refresh, Refreshed, trafficVars
<1>5. CASE ForwardFails
  BY <1>5 DEF ForwardFails, Shut, trafficVars
<1>6. CASE ForwardClosed \/ DialFails
  BY <1>6 DEF ForwardClosed, DialFails, sessionVars, trafficVars
<1>7. ASSUME NEW s \in Sessions, Dial(s) PROVE TypeOK'
  <2>1. 0 \in 0..Max
    OBVIOUS
  <2> QED
    BY <1>7, <2>1 DEF Dial, trafficVars
<1>8. CASE Insert
  BY <1>8 DEF Insert, sessionVars, trafficVars
<1>9. ASSUME NEW s \in Sessions, Lock(s) PROVE TypeOK'
  BY <1>9 DEF Lock, serveVars, trafficVars
<1>10. ASSUME NEW s \in Sessions, Delete(s) PROVE TypeOK'
  BY <1>10 DEF Delete, serveVars, trafficVars
<1>11. ASSUME NEW s \in Sessions, Reply(s) PROVE TypeOK'
  BY <1>11 DEF Reply, serveVars
<1>12. ASSUME NEW s \in Sessions, ReplyForwarded(s) PROVE TypeOK'
  <2>1. 0 \in 0..Max
    OBVIOUS
  <2> QED
    BY <1>12, <2>1 DEF ReplyForwarded, Refreshed, serveVars, trafficVars
<1>13. ASSUME NEW s \in Sessions, RunEnds(s) \/ RunExits(s) PROVE TypeOK'
  BY <1>13 DEF RunEnds, RunExits, Shut, serveVars, trafficVars
<1>14. ASSUME NEW s \in Sessions, Tick(s) PROVE TypeOK'
  <2>1. ticks[s] + 1 \in 0..Max
    BY <1>14 DEF Tick
  <2> QED
    BY <1>14, <2>1 DEF Tick, serveVars, trafficVars
<1>15. ASSUME NEW s \in Sessions, Park(s) \/ TimerCloses(s) \/ TimerExits(s) PROVE TypeOK'
  BY <1>15 DEF Park, TimerCloses, TimerExits, Shut, serveVars, trafficVars
<1>16. CASE Close
  BY <1>16 DEF Close, sessionVars, serveVars, trafficVars
<1>17. CASE UNCHANGED vars
  BY <1>17 DEF vars, sessionVars, serveVars, trafficVars
<1> QED
  BY <1>1, <1>2, <1>3, <1>4, <1>5, <1>6, <1>7, <1>8, <1>9, <1>10, <1>11, <1>12, <1>13, <1>14,
     <1>15, <1>16, <1>17, <1>18 DEF Next, Serve, Timer

-----------------------------------------------------------------------------

\* What a step keeps that changes neither the map nor the place of Serve and
\* opens no session.
LEMMA OthersKeep ==
  ASSUME IInv, keys' = keys, client' = client, serve' = serve, cur' = cur, new' = new,
         \A s \in Sessions : stage'[s] = "open" => stage[s] = "open"
  PROVE  Own' /\ Making' /\ OneReachableSession'
BY DEF IInv, Own, Making, OneReachableSession

\* Every step keeps the map in order.
LEMMA NextMap ==
  ASSUME IInv, [Next]_vars
  PROVE  Own' /\ Making' /\ OneReachableSession'
<1> DEFINE Good == Own /\ Making /\ OneReachableSession
<1> USE DEF IInv
<1>1. ASSUME NEW c \in Clients, Receive(c) PROVE Good'
  BY <1>1 DEF Receive, sessionVars, TypeOK, Own, Making, OneReachableSession
<1>2. CASE ReceiveFails
  BY <1>2 DEF ReceiveFails, sessionVars, Own, Making, OneReachableSession
<1>3. CASE Lookup
  BY <1>3 DEF Lookup, sessionVars, TypeOK, Own, Making, OneReachableSession
<1>4. CASE LookupRaces
  BY <1>4 DEF LookupRaces, sessionVars, serveVars, Own, Making, OneReachableSession
<1>5. CASE Forward
  BY <1>5 DEF Forward, Own, Making, OneReachableSession
<1>6. CASE ForwardFails
  BY <1>6 DEF ForwardFails, Shut, TypeOK, Own, Making, OneReachableSession
<1>7. CASE ForwardClosed \/ DialFails
  BY <1>7 DEF ForwardClosed, DialFails, sessionVars, Own, Making, OneReachableSession
<1>8. ASSUME NEW s \in Sessions, Dial(s) PROVE Good'
  <2> USE <1>8
  <2>1. /\ keys' = keys /\ cur' = cur /\ serve' = "inserting" /\ new' = s
        /\ serve = "dialing" /\ keys[cur] = None /\ cur \in Clients
        /\ stage' = [stage EXCEPT ![s] = "open"] /\ client' = [client EXCEPT ![s] = cur]
        /\ \A c \in Clients : keys[c] # s
    BY DEF Dial, Garbage, TypeOK, Making
  <2>2. Own'
    BY <2>1 DEF TypeOK, Own
  <2>3. Making'
    BY <2>1 DEF TypeOK, Making
  <2>4. ASSUME NEW t \in Sessions, stage'[t] = "open", t # s PROVE keys[client[t]] = t /\ client'[t] = client[t]
    BY <2>1, <2>4 DEF TypeOK, OneReachableSession
  <2>5. OneReachableSession'
    BY <2>1, <2>4 DEF TypeOK, OneReachableSession
  <2> QED
    BY <2>2, <2>3, <2>5
<1>9. CASE Insert
  <2> USE <1>9
  <2>1. /\ keys' = [keys EXCEPT ![cur] = new] /\ client' = client /\ stage' = stage
        /\ serve = "inserting" /\ serve' = "reading"
        /\ new \in Sessions /\ client[new] = cur /\ keys[cur] = None /\ cur \in Clients
    BY DEF Insert, sessionVars, TypeOK, Making
  <2>2. Own'
    BY <2>1 DEF TypeOK, Own
  <2>3. Making'
    BY <2>1 DEF Making
  <2>4. ASSUME NEW t \in Sessions, stage[t] = "open", t # new PROVE keys[client[t]] = t /\ client[t] # cur
    BY <2>1, <2>4, NoneAssumption DEF TypeOK, OneReachableSession
  <2>5. OneReachableSession'
    BY <2>1, <2>4 DEF TypeOK, OneReachableSession
  <2> QED
    BY <2>2, <2>3, <2>5
<1>10. ASSUME NEW s \in Sessions, Delete(s) PROVE Good'
  <2> USE <1>10
  <2>1. /\ keys' = [keys EXCEPT ![client[s]] = IF @ = s THEN None ELSE @]
        /\ stage' = [stage EXCEPT ![s] = "gone"] /\ stage[s] = "deleting"
        /\ client' = client /\ serve' = serve /\ cur' = cur /\ new' = new
    BY DEF Delete, serveVars
  <2>2. ASSUME NEW c \in Clients PROVE keys'[c] = keys[c] \/ (keys[c] = s /\ keys'[c] = None)
    BY <2>1, <2>2 DEF TypeOK
  <2>3. Own'
    BY <2>1, <2>2 DEF Own
  <2>4. Making'
    BY <2>1, <2>2 DEF TypeOK, Making
  <2>5. ASSUME NEW t \in Sessions, stage'[t] = "open" PROVE t # s /\ stage[t] = "open"
    BY <2>1, <2>5 DEF TypeOK
  <2>6. OneReachableSession'
    BY <2>1, <2>2, <2>5 DEF TypeOK, OneReachableSession
  <2> QED
    BY <2>3, <2>4, <2>6
<1>11. ASSUME NEW s \in Sessions,
              \/ Lock(s) \/ Reply(s) \/ ReplyForwarded(s) \/ RunEnds(s) \/ RunExits(s)
              \/ Park(s) \/ Tick(s) \/ TimerCloses(s) \/ TimerExits(s)
       PROVE  Good'
  <2>1. keys' = keys /\ client' = client /\ serve' = serve /\ cur' = cur /\ new' = new
    BY <1>11 DEF Lock, Reply, ReplyForwarded, RunEnds, RunExits, Park, Tick, TimerCloses,
                 TimerExits, serveVars
  <2>2. ASSUME NEW t \in Sessions, stage'[t] = "open" PROVE stage[t] = "open"
    BY <1>11, <2>2 DEF Lock, Reply, ReplyForwarded, RunEnds, RunExits, Park, Tick, TimerCloses,
                       TimerExits, Shut, TypeOK
  <2> QED
    BY <2>1, <2>2, OthersKeep
<1>12. CASE Close \/ UNCHANGED vars
  BY <1>12, OthersKeep DEF Close, vars, sessionVars, serveVars
<1> QED
  BY <1>1, <1>2, <1>3, <1>4, <1>5, <1>6, <1>7, <1>8, <1>9, <1>10, <1>11, <1>12
  DEF Next, Serve, Timer

LEMMA Invariance == Spec => []IInv
<1>1. IInv /\ [Next]_vars => IInv'
  BY NextTypes, NextMap DEF IInv
<1> QED
  BY InitIInv, <1>1, PTL DEF Spec

-----------------------------------------------------------------------------

\* Every variable keeps its type; the ticks of a session stay within Max.
THEOREM TypeCorrect == Spec => []TypeOK
BY Invariance, PTL DEF IInv

\* Whoever closes the sessions of a client and whenever, it has one open
\* session at most, and Serve finds it.
THEOREM UdpForwardOneReachable == Spec => []OneReachableSession
BY Invariance, PTL DEF IInv

-----------------------------------------------------------------------------
(* Who looks after a session.  Its goroutines, or Serve, compete for the   *)
(* compare-and-swap of Close; the one that wins has to come to the end.    *)

\* Goroutine g is inside Close of session s.
Closing(s, g) ==
  \/ g = "serve" /\ serve = "closing" /\ new = s
  \/ g = "run" /\ run[s] = "closing"
  \/ g = "timer" /\ timer[s] = "closing"

\* An open session has its reader, and its timer if the mapping has a timeout;
\* one that is closed and still in the map has the goroutine that takes it out.
Attended ==
  \A s \in Sessions :
    /\ stage[s] = "open" =>
         run[s] \in {"reading", "selecting"} /\ (Timed => timer[s] \in {"busy", "parked"})
    /\ stage[s] \in {"shut", "deleting"} => Closing(s, closer[s])

\* Every step leaves each session to somebody.
LEMMA NextAttended == IInv /\ Attended /\ [Next]_vars => Attended'
<1> SUFFICES ASSUME IInv, Attended, [Next]_vars PROVE Attended'
  OBVIOUS
<1>0. /\ stage \in [Sessions -> {"open", "shut", "deleting", "gone"}]
      /\ closer \in [Sessions -> {"serve", "run", "timer"}]
      /\ run \in [Sessions -> {"reading", "selecting", "closing", "exited"}]
      /\ timer \in [Sessions -> {"busy", "parked", "closing", "exited"}]
      /\ serve \in {"writing", "closing"} => new \in Sessions
  BY DEF IInv, TypeOK, Making
<1> USE DEF Attended, Closing
<1>1. ASSUME NEW c \in Clients, Receive(c) PROVE Attended'
  BY <1>1 DEF Receive, sessionVars
<1>2. CASE ReceiveFails \/ Lookup \/ LookupRaces \/ DialFails \/ Insert
  BY <1>2 DEF ReceiveFails, Lookup, LookupRaces, DialFails, Insert, sessionVars, serveVars
<1>3. CASE Forward
  BY <1>0, <1>3 DEF Forward, Refresh, Refreshed
<1>4. CASE ForwardFails
  BY <1>0, <1>4 DEF ForwardFails, Shut
<1>5. CASE ForwardClosed
  BY <1>0, <1>5 DEF ForwardClosed, CloseReturns, sessionVars
<1>6. ASSUME NEW s \in Sessions, Dial(s) PROVE Attended'
  BY <1>0, <1>6 DEF Dial
<1>7. ASSUME NEW s \in Sessions, Lock(s) \/ Delete(s) PROVE Attended'
  BY <1>0, <1>7 DEF Lock, Delete, serveVars
<1>8. ASSUME NEW s \in Sessions, Reply(s) \/ RunExits(s) PROVE Attended'
  BY <1>0, <1>8 DEF Reply, RunExits, CloseReturns, serveVars
<1>9. ASSUME NEW s \in Sessions, ReplyForwarded(s) PROVE Attended'
  BY <1>0, <1>9 DEF ReplyForwarded, Refreshed, serveVars
<1>10. ASSUME NEW s \in Sessions, RunEnds(s) PROVE Attended'
  BY <1>0, <1>10 DEF RunEnds, Shut, serveVars
<1>11. ASSUME NEW s \in Sessions, Park(s) \/ Tick(s) PROVE Attended'
  BY <1>0, <1>11 DEF Park, Tick, serveVars
<1>12. ASSUME NEW s \in Sessions, TimerCloses(s) PROVE Attended'
  BY <1>0, <1>12 DEF TimerCloses, Shut, serveVars
<1>13. ASSUME NEW s \in Sessions, TimerExits(s) PROVE Attended'
  BY <1>0, <1>13 DEF TimerExits, CloseReturns, serveVars
<1>14. CASE Close \/ UNCHANGED vars
  BY <1>14 DEF Close, vars, sessionVars, serveVars
<1> QED
  BY <1>1, <1>2, <1>3, <1>4, <1>5, <1>6, <1>7, <1>8, <1>9, <1>10, <1>11, <1>12, <1>13, <1>14
  DEF Next, Serve, Timer

\* No session is left alone: while it is open somebody notices its end, and
\* once it is closed the goroutine that closed it is there to take it out of
\* the map, whichever of the three it was and whoever tried to close it too.
THEOREM UdpForwardAttended == Spec => []Attended
<1>1. Init => Attended
  BY DEF Init, Attended
<1> QED
  BY <1>1, NextAttended, Invariance, PTL DEF Spec

-----------------------------------------------------------------------------
(* Dead entries.  NoDeadEntry does not hold; this is the one way to break  *)
(* it.                                                                     *)

\* A dead entry is made by the insertion of a session that was closed and removed
\* before, and by no other step: every removal takes the entry with it.
DeadOnlyInserted ==
  [][NoDeadEntry /\ ~NoDeadEntry' => serve = "inserting" /\ stage[new] = "gone" /\ Insert]_vars

\* Of all the orders in which the goroutines of the sessions close them, only the
\* one where a session is gone before Serve puts it in the map leaves its client
\* with a dead session.
THEOREM UdpForwardDeadOnlyInserted == Spec => DeadOnlyInserted
<1>1. ASSUME IInv, [Next]_vars, NoDeadEntry, ~NoDeadEntry'
      PROVE  serve = "inserting" /\ stage[new] = "gone" /\ Insert
  <2>0. /\ stage \in [Sessions -> {"open", "shut", "deleting", "gone"}]
        /\ keys \in [Clients -> Sessions \cup {None}] /\ client \in [Sessions -> Clients]
        /\ new \in Sessions \cup {None} /\ cur \in Clients
        /\ Own /\ Making
    BY <1>1 DEF IInv, TypeOK
  <2>1. ASSUME keys' = keys, \A s \in Sessions : stage'[s] = "gone" => stage[s] = "gone" PROVE FALSE
    BY <1>1, <2>0, <2>1 DEF NoDeadEntry
  <2>2. ASSUME NEW s \in Sessions, Delete(s) PROVE FALSE
    <3>1. PICK c \in Clients : keys'[c] # None /\ stage'[keys'[c]] = "gone"
      BY <1>1 DEF NoDeadEntry
    <3>2. keys'[c] = IF c = client[s] /\ keys[c] = s THEN None ELSE keys[c]
      BY <2>0, <2>2 DEF Delete
    <3>3. keys'[c] = keys[c] /\ keys[c] \in Sessions /\ keys[c] # s
      BY <2>0, <3>1, <3>2 DEF Own
    <3>4. stage'[keys[c]] = stage[keys[c]]
      BY <2>0, <2>2, <3>3 DEF Delete
    <3> QED
      BY <1>1, <3>1, <3>3, <3>4 DEF NoDeadEntry
  <2>3. ASSUME NEW s \in Sessions, Dial(s) PROVE FALSE
    <3>1. keys' = keys /\ stage' = [stage EXCEPT ![s] = "open"]
      BY <2>3 DEF Dial
    <3> QED
      BY <2>0, <2>1, <3>1
  <2>4. ASSUME NEW s \in Sessions,
               Lock(s) \/ Reply(s) \/ ReplyForwarded(s) \/ RunEnds(s) \/ RunExits(s)
               \/ Park(s) \/ Tick(s) \/ TimerCloses(s) \/ TimerExits(s)
        PROVE  FALSE
    <3>1. keys' = keys /\ stage' \in {stage, [stage EXCEPT ![s] = "shut"], [stage EXCEPT ![s] = "deleting"]}
      BY <2>4 DEF Lock, Reply, ReplyForwarded, RunEnds, RunExits, Park, Tick, TimerCloses, TimerExits, Shut
    <3> QED
      BY <2>0, <2>1, <3>1
  <2>5. ASSUME Forward \/ ForwardFails PROVE FALSE
    <3>1. keys' = keys /\ stage' \in {stage, [stage EXCEPT ![new] = "shut"]}
      BY <2>5 DEF Forward, ForwardFails, Shut
    <3> QED
      BY <2>0, <2>1, <3>1
  <2>6. ASSUME \/ \E c \in Clients : Receive(c)
               \/ ReceiveFails \/ Lookup \/ LookupRaces \/ ForwardClosed \/ DialFails
               \/ Close \/ UNCHANGED vars
        PROVE  FALSE
    <3>1. keys' = keys /\ stage' = stage
      BY <2>6 DEF Receive, ReceiveFails, Lookup, LookupRaces, ForwardClosed, DialFails, Close, vars,
                  sessionVars
    <3> QED
      BY <2>1, <3>1
  <2>7. Insert
    BY <1>1, <2>2, <2>3, <2>4, <2>5, <2>6 DEF Next, Serve, Timer
  <2>8. /\ serve = "inserting" /\ new \in Sessions /\ keys' = [keys EXCEPT ![cur] = new] /\ stage' = stage
    BY <2>0, <2>7 DEF Insert, sessionVars, Making
  <2>9. PICK c \in Clients : keys'[c] # None /\ stage'[keys'[c]] = "gone"
    BY <1>1 DEF NoDeadEntry
  <2>10. stage[new] = "gone"
    BY <1>1, <2>0, <2>8, <2>9 DEF NoDeadEntry
  <2> QED
    BY <2>7, <2>8, <2>10
<1>2. IInv /\ [Next]_vars =>
        [NoDeadEntry /\ ~NoDeadEntry' => serve = "inserting" /\ stage[new] = "gone" /\ Insert]_vars
  BY <1>1
<1> QED
  BY <1>2, Invariance, PTL DEF Spec, DeadOnlyInserted
=============================================================================
