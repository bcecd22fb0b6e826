------------------------------ MODULE Startup ------------------------------
(***************************************************************************)
(* forwarding.NewApplication: it builds the dialers, the bridges, the      *)
(* listeners, the sniproxies and the udp mappings of the configuration, in *)
(* this order, and closes what it has built when one of them fails.        *)
(*                                                                         *)
(* network.Network is the registry through which they meet.  The dialer of *)
(* a pipe or of a portal waits in a list of the registry until a listener  *)
(* takes the name it dials, and so do its connections.  A key is a kind    *)
(* and a name; the map of the dialers, that of the pipes and that of the   *)
(* portals are one function, and the two lists are one set.                *)
(*                                                                         *)
(* The configuration is whatever the constructors are called with: each    *)
(* step chooses the options of the next item, or ends an array.            *)
(***************************************************************************)
EXTENDS Naturals

CONSTANTS
  Names,     \* tags of dialers, names of pipes, tags of portals
  MaxItems,  \* bound: items of the configuration
  MaxRoutes  \* bound: routes of an item

ASSUME MaxItemsAssumption == MaxItems \in Nat
ASSUME MaxRoutesAssumption == MaxRoutes \in Nat

Items == 1..MaxItems
Nothing == 0  \* no item

Dialers == {"dialer"} \X Names
Pipes == {"pipe"} \X Names
Portals == {"portal"} \X Names
Keys == Dialers \cup Pipes \cup Portals

Os == <<"os">>  \* an address of the operating system, tcp, unix or udp

\* A route of an item leads to a dialer, or is a portal of its own.
RouteLists == UNION {[1..k -> Dialers \cup Portals] : k \in 0..MaxRoutes}

Modes == {"dialer", "bridge", "basic", "http", "portal", "sniproxy", "udp"}

VARIABLES
  stage,    \* the array being built
  phase,    \* of NewApplication
  count,    \* the items placed so far
  mode,     \* what each item is
  addr,     \* where it dials or listens
  entry,    \* the item under each key of the maps
  waiting,  \* the items whose dialer is in a list of the registry
  target,   \* the listener a dialer was given: d.pipe or d.portal
  signals,  \* how often its channel d.done was closed
  built,    \* the items NewApplication knows of
  open      \* the items whose listening socket is open

vars == <<stage, phase, count, mode, addr, entry, waiting, target, signals, built, open>>

TypeOK ==
  /\ stage \in 1..5
  /\ phase \in {"building", "failing", "failed", "serving"}
  /\ count \in 0..MaxItems
  /\ mode \in [Items -> Modes \cup {"none"}]
  /\ addr \in [Items -> Pipes \cup Portals \cup {Os}]
  /\ entry \in [Keys -> Items \cup {Nothing}]
  /\ waiting \subseteq Items
  /\ target \in [Items -> Items \cup {Nothing}]
  /\ signals \in [Items -> 0..1]
  /\ built \subseteq Items
  /\ open \subseteq Items

Init ==
  /\ stage = 1 /\ phase = "building" /\ count = 0
  /\ mode = [i \in Items |-> "none"]
  /\ addr = [i \in Items |-> Os]
  /\ entry = [k \in Keys |-> Nothing]
  /\ waiting = {} /\ built = {} /\ open = {}
  /\ target = [i \in Items |-> Nothing]
  /\ signals = [i \in Items |-> 0]

-----------------------------------------------------------------------------
(* The arrays.                                                             *)

\* Mutant: the listeners are built before the bridges.
Stage_BridgesLate ==
  [dialer |-> 1, basic |-> 2, http |-> 2, portal |-> 2, bridge |-> 3, sniproxy |-> 4, udp |-> 5]

\* The array the items of a mode are in.
Stage ==
  [dialer |-> 1, bridge |-> 2, basic |-> 3, http |-> 3, portal |-> 3, sniproxy |-> 4, udp |-> 5]

\* The constructor of the next item, of mode m at address a, is called.
Place(m, a) ==
  /\ phase = "building" /\ stage = Stage[m] /\ count < MaxItems
  /\ count' = count + 1
  /\ mode' = [mode EXCEPT ![count + 1] = m]
  /\ addr' = [addr EXCEPT ![count + 1] = a]
  /\ UNCHANGED stage

\* The end of an array; after the last one the application serves.
EndArray ==
  /\ phase = "building"
  /\ IF stage < 5 THEN stage' = stage + 1 /\ UNCHANGED phase
                  ELSE phase' = "serving" /\ UNCHANGED stage
  /\ UNCHANGED <<count, mode, addr, entry, waiting, target, signals, built, open>>

\* A constructor fails before it has listened: an option that does not
\* parse, a dialer it does not find, a tag or an address that is taken.
Refused ==
  /\ phase = "building"
  /\ phase' = "failing"
  /\ UNCHANGED <<stage, count, mode, addr, entry, waiting, target, signals, built, open>>

\* Mutant: the sniproxies are not closed.
Cleanup_NotSniproxies ==
  /\ phase = "failing"
  /\ phase' = "failed"
  /\ open' = {i \in open : i \notin built \/ mode[i] = "sniproxy"}
  /\ UNCHANGED <<stage, count, mode, addr, entry, waiting, target, signals, built>>

\* NewApplication closes everything that was appended to an array.
Cleanup ==
  /\ phase = "failing"
  /\ phase' = "failed"
  /\ open' = open \ built
  /\ UNCHANGED <<stage, count, mode, addr, entry, waiting, target, signals, built>>

-----------------------------------------------------------------------------
(* Dialers and bridges, which dial through Network.Dialer.                 *)

\* The dialer of the item waits for its name, if it dials one.
Await(a) ==
  /\ waiting' = waiting \cup (IF a = Os THEN {} ELSE {count + 1})
  /\ built' = built \cup {count + 1}
  /\ UNCHANGED <<phase, target, signals, open>>

NewDialer(t, a) ==
  /\ Place("dialer", a)
  /\ entry[t] = Nothing
  /\ entry' = [entry EXCEPT ![t] = count + 1]
  /\ Await(a)

NewBridge(t, a) ==
  /\ Place("bridge", a)
  /\ entry[t] # Nothing
  /\ Await(a)
  /\ UNCHANGED entry

-----------------------------------------------------------------------------
(* Everything that listens.                                                *)

\* What the configuration gives an item of mode m.
WellFormed(m, a, rs) ==
  /\ m = "basic" => DOMAIN rs = {1} /\ rs[1] \in Dialers
  /\ m = "portal" => DOMAIN rs = {1} /\ rs[1] \in Portals
  /\ m = "sniproxy" => \A j \in DOMAIN rs : rs[j] \in Dialers
  /\ m = "udp" => a = Os /\ DOMAIN rs = {}

\* The dialer of route j does not exist, or its portal does already.
Bad(rs, j) ==
  IF rs[j] \in Dialers THEN entry[rs[j]] = Nothing
  ELSE entry[rs[j]] # Nothing \/ \E i \in DOMAIN rs : i < j /\ rs[i] = rs[j]

\* The portals made before the first bad route.
Made(rs) ==
  {rs[j] : j \in {k \in DOMAIN rs : \A i \in DOMAIN rs : i <= k => ~Bad(rs, i)}} \cap Portals

\* Mutant: the address is not compared, and the dialer stays in the list.
Bind_Everyone(ks) ==
  /\ entry' = [k \in Keys |-> IF k \in ks THEN count + 1 ELSE entry[k]]
  /\ target' = [i \in Items |-> IF i \in waiting /\ ks # {} THEN count + 1 ELSE target[i]]
  /\ signals' = [i \in Items |-> signals[i] + IF i \in waiting /\ ks # {} THEN 1 ELSE 0]
  /\ waiting' = waiting

\* The keys ks are given to the item: each dialer that waits for one of them
\* gets its listener, its channel is closed and it leaves the list.
Bind(ks) ==
  /\ entry' = [k \in Keys |-> IF k \in ks THEN count + 1 ELSE entry[k]]
  /\ target' = [i \in Items |-> IF i \in waiting /\ addr[i] \in ks THEN count + 1 ELSE target[i]]
  /\ signals' = [i \in Items |-> signals[i] + IF i \in waiting /\ addr[i] \in ks THEN 1 ELSE 0]
  /\ waiting' = {i \in waiting : addr[i] \notin ks}

\* The item listens, and its routes are made up to the first bad one.  A
\* basic listener looks for its dialer before it listens.
Listen(m, a, rs) ==
  /\ Place(m, a) /\ WellFormed(m, a, rs)
  /\ a \in Pipes => entry[a] = Nothing
  /\ m = "basic" => ~Bad(rs, 1)
  /\ Bind(({a} \cap Pipes) \cup Made(rs))

New(m, a, rs) ==
  /\ Listen(m, a, rs)
  /\ \A j \in DOMAIN rs : ~Bad(rs, j)
  /\ built' = built \cup {count + 1}
  /\ open' = open \cup {count + 1}
  /\ UNCHANGED phase

\* A constructor fails after it has listened: at a bad route, or for another
\* reason that only the modes with many routes know.  They close what they
\* opened; NewPortalListener does not.
Fails(m, a, rs) ==
  /\ Listen(m, a, rs)
  /\ (\E j \in DOMAIN rs : Bad(rs, j)) \/ m \in {"http", "sniproxy"}
  /\ phase' = "failing"
  /\ open' = IF m = "portal" THEN open \cup {count + 1} ELSE open
  /\ UNCHANGED built

Next ==
  \/ EndArray \/ Refused \/ Cleanup
  \/ \E t \in Dialers, a \in Pipes \cup Portals \cup {Os} : NewDialer(t, a) \/ NewBridge(t, a)
  \/ \E m \in Modes \ {"dialer", "bridge"}, a \in Pipes \cup {Os}, rs \in RouteLists :
       New(m, a, rs) \/ Fails(m, a, rs)

Spec == Init /\ [][Next]_vars

-----------------------------------------------------------------------------
(* Safety.                                                                 *)

Dials(i) == mode[i] \in {"dialer", "bridge"} /\ addr[i] # Os

\* A dialer of a pipe or of a portal has the listener of its name, and was
\* told so once, as soon as there is one; otherwise it is still waiting for
\* it.  None misses its listener by being made after it.
NamesResolved ==
  \A i \in Items : Dials(i) =>
    IF entry[addr[i]] = Nothing
    THEN i \in waiting /\ target[i] = Nothing /\ signals[i] = 0
    ELSE i \notin waiting /\ target[i] = entry[addr[i]] /\ signals[i] = 1

\* A startup that failed has closed every socket but one: that of a portal
\* listener whose tag was taken.
FailureCloses ==
  phase = "failed" => \A i \in open : i = count /\ mode[i] = "portal"
=============================================================================
