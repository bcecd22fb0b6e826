----------------------------- MODULE UdpForward ----------------------------
(***************************************************************************)
(* internal/udp: a UDP port mapping.  One goroutine (Serve) reads the      *)
(* datagrams of all clients and keeps one session (remoteConn) for each    *)
(* client in a map; every session has a goroutine that reads the answers   *)
(* (run) and, when the timeout is more than a second, one that counts the  *)
(* ticks of a ten second ticker since the last datagram (timer).  Any of   *)
(* the three may close the session: the one that wins the compare-and-swap *)
(* shuts it and then removes it from the map under the mutex.  Serve looks *)
(* a client up without the mutex.                                          *)
(*                                                                         *)
(* A lookup during a removal is a data race on a Go map.  What the build   *)
(* can produce is modelled: the whole process ends (the runtime detects    *)
(* the concurrent access, at its discretion), or the lookup finds the old  *)
(* or the new map.                                                         *)
(***************************************************************************)
EXTENDS Naturals

CONSTANTS
  Clients,     \* client addresses
  Sessions,    \* session objects; one that is garbage is used again
  None,        \* no session
  Max,         \* ticks without a datagram before the timer closes (max)
  Timed,       \* u.timeout > time.Second
  ToNetwork,   \* opts.ToNetwork, one that New accepts
  MaxPackets,  \* bound: datagrams the clients send, in all
  MaxReplies   \* bound: datagrams that come back, in all

ASSUME BoundsAssumption == Max \in Nat /\ MaxPackets \in Nat /\ MaxReplies \in Nat
ASSUME TimedAssumption == Timed \in BOOLEAN
ASSUME NoneAssumption == None \notin Sessions
ASSUME ClientsAssumption == Clients # {}

\* What net.DialUDP takes.
UdpNetworks == {"udp", "udp4", "udp6"}

ASSUME ToNetworkAssumption == ToNetwork \in UdpNetworks \cup {""}

\* u.toNetwork: New checks and prints the default "udp" for a network that is
\* not given, and then keeps the option itself.
toNetwork == ToNetwork

VARIABLES
  keys,      \* u.keys: the session of each client
  stage,     \* "open", "shut" (done and socket closed), "deleting", "gone"
  closer,    \* the goroutine that won the compare-and-swap of Close
  client,    \* c.key
  run,       \* the goroutine of run
  timer,     \* the goroutine of the ticker
  ticks,     \* its counter n
  serve,     \* where Serve is
  cur,       \* the client of the datagram that Serve handles
  new,       \* the session that it found or made
  udpDone,   \* the mapping is closed
  fatal,     \* the runtime has ended the process
  sent, replies  \* datagrams so far

sessionVars == <<stage, closer, client, run, timer, ticks>>
serveVars == <<serve, cur, new>>
trafficVars == <<sent, replies>>
vars == <<keys, sessionVars, serveVars, udpDone, fatal, trafficVars>>

TypeOK ==
  /\ keys \in [Clients -> Sessions \cup {None}]
  /\ stage \in [Sessions -> {"open", "shut", "deleting", "gone"}]
  /\ closer \in [Sessions -> {"serve", "run", "timer"}]
  /\ client \in [Sessions -> Clients]
  /\ run \in [Sessions -> {"reading", "selecting", "closing", "exited"}]
  /\ timer \in [Sessions -> {"busy", "parked", "closing", "exited"}]
  /\ ticks \in [Sessions -> 0..Max]
  /\ serve \in {"reading", "lookup", "writing", "dialing", "inserting", "closing", "stopped"}
  /\ cur \in Clients
  /\ new \in Sessions \cup {None}
  /\ udpDone \in BOOLEAN
  /\ fatal \in BOOLEAN
  /\ sent \in 0..MaxPackets
  /\ replies \in 0..MaxReplies

\* The value of a variable that is not used yet.
SomeClient == CHOOSE c \in Clients : TRUE

Init ==
  /\ keys = [c \in Clients |-> None]
  /\ stage = [s \in Sessions |-> "gone"]
  /\ closer = [s \in Sessions |-> "run"]
  /\ client = [s \in Sessions |-> SomeClient]
  /\ run = [s \in Sessions |-> "exited"]
  /\ timer = [s \in Sessions |-> "exited"]
  /\ ticks = [s \in Sessions |-> 0]
  /\ serve = "reading"
  /\ cur = SomeClient
  /\ new = None
  /\ udpDone = FALSE
  /\ fatal = FALSE
  /\ sent = 0
  /\ replies = 0

-----------------------------------------------------------------------------
(* remoteConn.Close, by goroutine g.                                       *)

\* The compare-and-swap, close(c.done), c.c.Close() and ticker.Stop().  All
\* but the first caller return at once.
Shut(s, g) ==
  IF stage[s] = "open"
  THEN /\ stage' = [stage EXCEPT ![s] = "shut"]
       /\ closer' = [closer EXCEPT ![s] = g]
  ELSE UNCHANGED <<stage, closer>>

MutexFree == \A s \in Sessions : stage[s] # "deleting"

Lock(s) ==
  /\ stage[s] = "shut"
  /\ MutexFree
  /\ stage' = [stage EXCEPT ![s] = "deleting"]
  /\ UNCHANGED <<keys, closer, client, run, timer, ticks, serveVars, udpDone, fatal, trafficVars>>

\* The session leaves the map if the entry is still its own.
Delete(s) ==
  /\ stage[s] = "deleting"
  /\ stage' = [stage EXCEPT ![s] = "gone"]
  /\ keys' = [keys EXCEPT ![client[s]] = IF @ = s THEN None ELSE @]
  /\ UNCHANGED <<closer, client, run, timer, ticks, serveVars, udpDone, fatal, trafficVars>>

\* Close returns to goroutine g.
CloseReturns(s, g) == closer[s] # g \/ stage[s] = "gone"

-----------------------------------------------------------------------------
(* Serve.                                                                  *)

Receive(c) ==
  /\ serve = "reading"
  /\ ~udpDone /\ sent < MaxPackets
  /\ sent' = sent + 1
  /\ serve' = "lookup"
  /\ cur' = c
  /\ UNCHANGED <<keys, sessionVars, new, udpDone, fatal, replies>>

\* ReadFromUDP fails, because the mapping is closed or for any other reason: the
\* loop ends.
ReceiveFails ==
  /\ serve = "reading"
  /\ serve' = "stopped"
  /\ UNCHANGED <<keys, sessionVars, cur, new, udpDone, fatal, trafficVars>>

Lookup ==
  /\ serve = "lookup"
  /\ new' = keys[cur]
  /\ serve' = IF keys[cur] = None THEN "dialing" ELSE "writing"
  /\ UNCHANGED <<keys, sessionVars, cur, udpDone, fatal, trafficVars>>

\* The same lookup while another goroutine is inside delete.
LookupRaces ==
  /\ serve = "lookup"
  /\ \E s \in Sessions : stage[s] = "deleting" /\ keys[client[s]] = s
  /\ fatal' = TRUE
  /\ UNCHANGED <<keys, sessionVars, serveVars, udpDone, trafficVars>>

\* c.ch <- true meets the timer at its select.
Refreshed(s) ==
  /\ timer[s] = "parked"
  /\ timer' = [timer EXCEPT ![s] = "busy"]
  /\ ticks' = [ticks EXCEPT ![s] = 0]

\* One of the done channels is ready.
Stopped(s) == stage[s] # "open" \/ udpDone

\* The select of Write: a timer that waits is told, but for a done channel that is
\* ready as well and may be taken instead.
Refresh(s) ==
  \/ Refreshed(s)
  \/ /\ timer[s] # "parked" \/ Stopped(s)
     /\ UNCHANGED <<timer, ticks>>

Forward ==
  /\ serve = "writing"
  /\ stage[new] = "open"
  /\ Refresh(new)
  /\ serve' = "reading"
  /\ UNCHANGED <<keys, stage, closer, client, run, cur, new, udpDone, fatal, trafficVars>>

\* The socket is closed or reports an error: the datagram is dropped and
\* Serve closes the session itself.
ForwardFails ==
  /\ serve = "writing"
  /\ Shut(new, "serve")
  /\ serve' = "closing"
  /\ UNCHANGED <<keys, client, run, timer, ticks, cur, new, udpDone, fatal, trafficVars>>

ForwardClosed ==
  /\ serve = "closing"
  /\ CloseReturns(new, "serve")
  /\ serve' = "reading"
  /\ UNCHANGED <<keys, sessionVars, cur, new, udpDone, fatal, trafficVars>>

\* ResolveUDPAddr, DialUDP or the first write fails.
DialFails ==
  /\ serve = "dialing"
  /\ serve' = "reading"
  /\ UNCHANGED <<keys, sessionVars, cur, new, udpDone, fatal, trafficVars>>

\* Nothing refers to the session any more.
Garbage(s) ==
  /\ stage[s] = "gone" /\ run[s] = "exited" /\ timer[s] = "exited"
  /\ \A c \in Clients : keys[c] # s

\* The first datagram is sent and newRemoteConn starts the goroutines.
Dial(s) ==
  /\ serve = "dialing" /\ toNetwork \in UdpNetworks
  /\ Garbage(s)
  /\ stage' = [stage EXCEPT ![s] = "open"]
  /\ client' = [client EXCEPT ![s] = cur]
  /\ run' = [run EXCEPT ![s] = "reading"]
  /\ timer' = [timer EXCEPT ![s] = IF Timed THEN "busy" ELSE "exited"]
  /\ ticks' = [ticks EXCEPT ![s] = 0]
  /\ new' = s
  /\ serve' = "inserting"
  /\ UNCHANGED <<keys, closer, cur, udpDone, fatal, trafficVars>>

\* Mutant: the new session is not put in the map.
Insert_Missing ==
  /\ serve = "inserting"
  /\ MutexFree
  /\ serve' = "reading"
  /\ UNCHANGED <<keys, sessionVars, cur, new, udpDone, fatal, trafficVars>>

\* u.keys[key] = c, after the goroutines run and under the mutex.
Insert ==
  /\ serve = "inserting"
  /\ MutexFree
  /\ keys' = [keys EXCEPT ![cur] = new]
  /\ serve' = "reading"
  /\ UNCHANGED <<sessionVars, cur, new, udpDone, fatal, trafficVars>>

Serve ==
  \/ ReceiveFails \/ Lookup \/ LookupRaces \/ Forward \/ ForwardFails \/ ForwardClosed
  \/ DialFails \/ (\E s \in Sessions : Dial(s)) \/ Insert

-----------------------------------------------------------------------------
(* The goroutine of run.                                                   *)

Reply(s) ==
  /\ run[s] = "reading"
  /\ stage[s] = "open" /\ replies < MaxReplies
  /\ replies' = replies + 1
  /\ run' = [run EXCEPT ![s] = "selecting"]
  /\ UNCHANGED <<keys, stage, closer, client, timer, ticks, serveVars, udpDone, fatal, sent>>

\* The select of run, which passes the answer on unless it takes a done channel;
\* without a timer there is no select.  Also a mapping that is being closed may
\* still send the answer.
ReplyForwarded(s) ==
  /\ run[s] = "selecting"
  /\ \/ Refreshed(s)
     \/ /\ timer[s] # "parked" /\ (Timed => ~Stopped(s))
        /\ UNCHANGED <<timer, ticks>>
  /\ run' = [run EXCEPT ![s] = "reading"]
  /\ UNCHANGED <<keys, stage, closer, client, serveVars, udpDone, fatal, trafficVars>>

\* A read or write error (an unreachable port reports one), or one of the
\* done channels: run ends with its deferred Close.
RunEnds(s) ==
  /\ run[s] \in {"reading", "selecting"}
  /\ Shut(s, "run")
  /\ run' = [run EXCEPT ![s] = "closing"]
  /\ UNCHANGED <<keys, client, timer, ticks, serveVars, udpDone, fatal, trafficVars>>

RunExits(s) ==
  /\ run[s] = "closing"
  /\ CloseReturns(s, "run")
  /\ run' = [run EXCEPT ![s] = "exited"]
  /\ UNCHANGED <<keys, stage, closer, client, timer, ticks, serveVars, udpDone, fatal, trafficVars>>

-----------------------------------------------------------------------------
(* The goroutine of the ticker.                                            *)

Park(s) ==
  /\ timer[s] = "busy"
  /\ timer' = [timer EXCEPT ![s] = "parked"]
  /\ UNCHANGED <<keys, stage, closer, client, run, ticks, serveVars, udpDone, fatal, trafficVars>>

\* Mutant: the counter is compared after it is incremented.
Tick_Overruns(s) ==
  /\ timer[s] = "parked"
  /\ stage[s] = "open" /\ ticks[s] <= Max
  /\ ticks' = [ticks EXCEPT ![s] = @ + 1]
  /\ timer' = [timer EXCEPT ![s] = "busy"]
  /\ UNCHANGED <<keys, stage, closer, client, run, serveVars, udpDone, fatal, trafficVars>>

Tick(s) ==
  /\ timer[s] = "parked"
  /\ stage[s] = "open" /\ ticks[s] < Max
  /\ ticks' = [ticks EXCEPT ![s] = @ + 1]
  /\ timer' = [timer EXCEPT ![s] = "busy"]
  /\ UNCHANGED <<keys, stage, closer, client, run, serveVars, udpDone, fatal, trafficVars>>

\* Mutant: the timer waits for one tick more than it counts.
TimerCloses_Late(s) ==
  /\ timer[s] = "parked"
  /\ (stage[s] = "open" /\ ticks[s] > Max) \/ udpDone
  /\ Shut(s, "timer")
  /\ timer' = [timer EXCEPT ![s] = "closing"]
  /\ UNCHANGED <<keys, client, run, ticks, serveVars, udpDone, fatal, trafficVars>>

\* Mutant: the timer returns without closing when the mapping is closed.
TimerCloses_OnlyIdle(s) ==
  /\ timer[s] = "parked"
  /\ \/ /\ stage[s] = "open" /\ ticks[s] >= Max
        /\ Shut(s, "timer")
     \/ udpDone /\ UNCHANGED <<stage, closer>>
  /\ timer' = [timer EXCEPT ![s] = "closing"]
  /\ UNCHANGED <<keys, client, run, ticks, serveVars, udpDone, fatal, trafficVars>>

\* n >= max, or the mapping is closed.
TimerCloses(s) ==
  /\ timer[s] = "parked"
  /\ (stage[s] = "open" /\ ticks[s] >= Max) \/ udpDone
  /\ Shut(s, "timer")
  /\ timer' = [timer EXCEPT ![s] = "closing"]
  /\ UNCHANGED <<keys, client, run, ticks, serveVars, udpDone, fatal, trafficVars>>

\* <-c.done, or the return of Close.
TimerExits(s) ==
  /\ \/ timer[s] = "parked" /\ stage[s] # "open"
     \/ timer[s] = "closing" /\ CloseReturns(s, "timer")
  /\ timer' = [timer EXCEPT ![s] = "exited"]
  /\ UNCHANGED <<keys, stage, closer, client, run, ticks, serveVars, udpDone, fatal, trafficVars>>

Timer(s) == Park(s) \/ Tick(s) \/ TimerCloses(s) \/ TimerExits(s)

-----------------------------------------------------------------------------

Close ==
  /\ ~udpDone
  /\ udpDone' = TRUE
  /\ UNCHANGED <<keys, sessionVars, serveVars, fatal, trafficVars>>

Next ==
  /\ ~fatal
  /\ \/ \E c \in Clients : Receive(c)
     \/ Serve
     \/ \E s \in Sessions :
          Lock(s) \/ Delete(s) \/ Reply(s) \/ ReplyForwarded(s) \/ RunEnds(s) \/ RunExits(s) \/ Timer(s)
     \/ Close

(***************************************************************************)
(* Goroutines run and the ticker ticks as long as the process lives.  The  *)
(* network owes nothing: no datagram need come, and the read of a socket   *)
(* need not fail before it is closed.                                      *)
(***************************************************************************)
Fairness ==
  /\ WF_vars(~fatal /\ (serve # "reading" \/ udpDone) /\ Serve)
  /\ \A s \in Sessions :
       /\ WF_vars(~fatal /\ Timer(s))
       /\ WF_vars(~fatal /\ (Lock(s) \/ Delete(s)))
       /\ WF_vars(~fatal /\ (ReplyForwarded(s) \/ RunExits(s)))
       /\ WF_vars(~fatal /\ (stage[s] # "open" \/ run[s] = "selecting") /\ RunEnds(s))

Spec == Init /\ [][Next]_vars /\ Fairness

-----------------------------------------------------------------------------
(* Safety.                                                                 *)

\* A client never has two open sessions, and its open session is the one
\* that its next datagram finds, whoever is closing an earlier one.
OneReachableSession ==
  \A s \in Sessions :
    stage[s] = "open" =>
      IF serve = "inserting" /\ new = s THEN keys[client[s]] = None ELSE keys[client[s]] = s

\* A session that is completely closed is not in the map: the next datagram
\* of its client makes a new one.
NoDeadEntry == \A c \in Clients : keys[c] # None => stage[keys[c]] # "gone"

\* A mapping that was accepted forwards: what Serve dials for a new client is
\* a network that can be dialed.
DialCanSucceed == serve = "dialing" => toNetwork \in UdpNetworks

-----------------------------------------------------------------------------
(* Liveness, for a mapping with a timer.                                   *)

\* A session without traffic ends (the traffic of the model is bounded).
IdleSessionsEnd == \A s \in Sessions : stage[s] = "open" ~> stage[s] = "gone" \/ fatal

\* Closing the mapping ends every session, one still being made included,
\* and all its goroutines.
CloseEndsAll ==
  udpDone ~>
    \/ fatal
    \/ [](\A s \in Sessions : stage[s] = "gone" /\ run[s] = "exited" /\ timer[s] = "exited")
=============================================================================
