--------------------------- MODULE StartupProofs ---------------------------
(***************************************************************************)
(* Proofs about Startup for configurations of any size: its types, that    *)
(* every dialer of a pipe or of a portal finds its listener, and what a    *)
(* failed startup leaves open.                                             *)
(***************************************************************************)
EXTENDS Startup, TLAPS

-----------------------------------------------------------------------------
(* What the invariants rest on: the items that were not placed are blank,  *)
(* the registry has no listener before the third array, only dialers wait, *)
(* and an open socket belongs to an array or to the listener that failed.  *)

Blank(i) ==
  mode[i] = "none" /\ i \notin waiting /\ target[i] = Nothing /\ signals[i] = 0
  /\ i \notin built /\ i \notin open

Early == stage <= 2 => \A k \in Pipes \cup Portals : entry[k] = Nothing

Leftover(i) == phase \in {"failing", "failed"} /\ i = count /\ mode[i] = "portal"

IInv ==
  /\ TypeOK
  /\ NamesResolved
  /\ \A i \in Items : i > count => Blank(i)
  /\ Early
  /\ \A i \in waiting : Dials(i)
  /\ \A i \in open : i \in built \/ Leftover(i)
  /\ phase = "failed" => open \cap built = {}

\* The three kinds of keys are apart, and none is an address of the system.
LEMMA KeysApart ==
  /\ Dialers \cap (Pipes \cup Portals) = {}
  /\ Os \notin Keys
BY DEF Dialers, Pipes, Portals, Keys, Os

\* A listener is given keys that no listener had.
LEMMA KeysFree ==
  ASSUME NEW m, NEW a, NEW rs \in RouteLists, Listen(m, a, rs),
         NEW k \in ({a} \cap Pipes) \cup Made(rs)
  PROVE  k \in Pipes \cup Portals /\ entry[k] = Nothing
<1>1. CASE k \in {a} \cap Pipes
  BY <1>1 DEF Listen
<1>2. CASE k \in Made(rs)
  <2>1. PICK j \in DOMAIN rs : k = rs[j] /\ \A i \in DOMAIN rs : i <= j => ~Bad(rs, i)
    BY <1>2 DEF Made
  <2>2. j \in Nat
    BY MaxRoutesAssumption DEF RouteLists
  <2>3. k \in Portals /\ k \notin Dialers
    BY <1>2, KeysApart DEF Made
  <2>4. ~Bad(rs, j)
    BY <2>1, <2>2
  <2> QED
    BY <2>1, <2>3, <2>4 DEF Bad
<1> QED
  BY <1>1, <1>2

\* IInv holds before the first array.
LEMMA InitIInv == Init => IInv
BY MaxItemsAssumption
DEF Init, IInv, TypeOK, NamesResolved, Blank, Early, Leftover, Dials, Items, Keys, Nothing

\* A dialer or a bridge keeps IInv: no listener exists yet.
LEMMA AwaitIInv ==
  ASSUME IInv, NEW m \in {"dialer", "bridge"}, NEW a \in Pipes \cup Portals \cup {Os},
         Place(m, a), Await(a),
         entry' \in [Keys -> Items \cup {Nothing}],
         \A k \in Pipes \cup Portals : entry'[k] = entry[k]
  PROVE  IInv'
<1> DEFINE n == count + 1
<1>1. n \in Items /\ stage <= 2 /\ count \in Nat
  BY MaxItemsAssumption DEF IInv, TypeOK, Place, Stage, Items
<1>2. TypeOK'
  BY <1>1, MaxItemsAssumption DEF IInv, TypeOK, Place, Await, Items, Modes
<1>3. \A k \in Pipes \cup Portals : entry[k] = Nothing /\ entry'[k] = Nothing
  BY <1>1 DEF IInv, Early
<1>4. mode'[n] = m /\ addr'[n] = a /\ Blank(n)
  BY <1>1 DEF IInv, TypeOK, Place
<1>5. \A i \in Items : i # n => mode'[i] = mode[i] /\ addr'[i] = addr[i]
  BY <1>1 DEF IInv, TypeOK, Place
<1>6. NamesResolved'
  <2> SUFFICES ASSUME NEW i \in Items, Dials(i)'
               PROVE  i \in waiting' /\ target'[i] = Nothing /\ signals'[i] = 0
                      /\ entry'[addr'[i]] = Nothing
    BY DEF NamesResolved
  <2>1. addr'[i] \in Pipes \cup Portals
    BY <1>2 DEF TypeOK, Dials
  <2>2. CASE i = n
    BY <2>1, <2>2, <1>3, <1>4 DEF Await, Blank, Dials
  <2>3. CASE i # n
    <3>1. Dials(i) /\ addr[i] \in Pipes \cup Portals
      BY <2>1, <2>3, <1>5 DEF Dials
    <3> QED
      BY <3>1, <2>1, <2>3, <1>3, <1>5 DEF IInv, NamesResolved, Await
  <2> QED
    BY <2>2, <2>3
<1>7. \A i \in Items : i > count' => Blank(i)'
  BY <1>1, <1>5 DEF IInv, Blank, Place, Await, Items
<1>8. Early'
  BY <1>3 DEF Early
<1>9. ASSUME NEW i \in waiting' PROVE Dials(i)'
  <2>1. CASE i = n /\ a # Os
    BY <2>1, <1>4 DEF Dials
  <2>2. CASE i \in waiting
    <3>1. i \in Items /\ Dials(i) /\ i # n
      BY <2>2, <1>4 DEF IInv, TypeOK, Blank
    <3> QED
      BY <3>1, <1>5 DEF Dials
  <2> QED
    BY <1>9, <2>1, <2>2 DEF Await
<1>10. \A i \in open' : i \in built' \/ Leftover(i)'
  BY DEF IInv, Await, Place, Leftover
<1>11. phase' # "failed"
  BY DEF Await, Place
<1> QED
  BY <1>2, <1>6, <1>7, <1>8, <1>9, <1>10, <1>11 DEF IInv

\* So does an item that listens, whether its constructor fails or not.
LEMMA ListenIInv ==
  ASSUME IInv, NEW m \in Modes \ {"dialer", "bridge"}, NEW a \in Pipes \cup {Os},
         NEW rs \in RouteLists, New(m, a, rs) \/ Fails(m, a, rs)
  PROVE  IInv'
<1> DEFINE n == count + 1
           ks == ({a} \cap Pipes) \cup Made(rs)
<1>0. Listen(m, a, rs) /\ Place(m, a) /\ Bind(ks)
  BY DEF New, Fails, Listen
<1>1. n \in Items /\ stage > 2 /\ count \in Nat /\ stage' = stage /\ count' = n
  BY <1>0, MaxItemsAssumption DEF IInv, TypeOK, Place, Stage, Items, Modes
<1>2. \A k \in ks : k \in Pipes \cup Portals /\ entry[k] = Nothing
  BY <1>0, KeysFree
<1>3. mode'[n] = m /\ addr'[n] = a /\ Blank(n)
  BY <1>0, <1>1 DEF IInv, TypeOK, Place
<1>4. \A i \in Items : i # n => mode'[i] = mode[i] /\ addr'[i] = addr[i]
  BY <1>0, <1>1 DEF IInv, TypeOK, Place
<1>5. \A i \in waiting : i \in Items /\ Dials(i) /\ addr[i] \in Pipes \cup Portals
  BY DEF IInv, TypeOK, Dials
<1>6. \A i \in waiting : signals[i] = 0 /\ target[i] = Nothing
  BY <1>5 DEF IInv, NamesResolved
<1> HIDE DEF ks
<1>7. TypeOK'
  <2>1. entry' \in [Keys -> Items \cup {Nothing}]
    BY <1>0, <1>1 DEF IInv, TypeOK, Bind
  <2>2. waiting' \subseteq Items /\ target' \in [Items -> Items \cup {Nothing}]
    BY <1>0, <1>1 DEF IInv, TypeOK, Bind
  <2>3. signals' \in [Items -> 0..1]
    BY <1>0, <1>6 DEF IInv, TypeOK, Bind
  <2>4. mode' \in [Items -> Modes \cup {"none"}] /\ addr' \in [Items -> Pipes \cup Portals \cup {Os}]
    BY <1>0, <1>1 DEF IInv, TypeOK, Place
  <2>5. count' \in 0..MaxItems /\ stage' \in 1..5
    BY <1>1, MaxItemsAssumption DEF IInv, TypeOK, Items
  <2>6. phase' \in {"building", "failing", "failed", "serving"} /\ built' \subseteq Items /\ open' \subseteq Items
    BY <1>1 DEF IInv, TypeOK, New, Fails
  <2> QED
    BY <2>1, <2>2, <2>3, <2>4, <2>5, <2>6 DEF TypeOK
<1>8. NamesResolved'
  <2> SUFFICES ASSUME NEW i \in Items, Dials(i)'
               PROVE  IF entry'[addr'[i]] = Nothing
                      THEN i \in waiting' /\ target'[i] = Nothing /\ signals'[i] = 0
                      ELSE i \notin waiting' /\ target'[i] = entry'[addr'[i]] /\ signals'[i] = 1
    BY DEF NamesResolved
  <2>1. i # n
    BY <1>3 DEF Dials
  <2>2. Dials(i) /\ addr'[i] = addr[i] /\ addr[i] \in Keys
    BY <2>1, <1>4 DEF Dials, IInv, TypeOK, Keys
  <2>3. entry'[addr[i]] = IF addr[i] \in ks THEN n ELSE entry[addr[i]]
    BY <2>2, <1>0 DEF Bind
  <2>4. n # Nothing
    BY <1>1 DEF Items, Nothing
  <2>5. CASE addr[i] \in ks
    <3>1. i \in waiting /\ signals[i] = 0
      BY <2>2, <2>5, <1>2 DEF IInv, NamesResolved
    <3> QED
      BY <3>1, <2>2, <2>3, <2>4, <2>5, <1>0 DEF Bind
  <2>6. CASE addr[i] \notin ks
    <3>1. (i \in waiting' <=> i \in waiting) /\ target'[i] = target[i] /\ signals'[i] = signals[i]
      BY <2>6, <1>0 DEF Bind, IInv, TypeOK
    <3> QED
      BY <3>1, <2>2, <2>3, <2>6 DEF IInv, NamesResolved
  <2> QED
    BY <2>5, <2>6
<1>9. ASSUME NEW i \in Items, i > count' PROVE Blank(i)'
  <2>1. i > count /\ i # n
    BY <1>1, <1>9 DEF Items
  <2>2. Blank(i)
    BY <2>1 DEF IInv
  <2>3. i \notin waiting' /\ target'[i] = Nothing /\ signals'[i] = 0
    BY <2>2, <1>0 DEF Blank, Bind
  <2>4. i \notin built' /\ i \notin open'
    BY <2>1, <2>2 DEF Blank, New, Fails
  <2> QED
    BY <2>1, <2>2, <2>3, <2>4, <1>4 DEF Blank
<1>10. Early'
  BY <1>1 DEF Early, IInv, TypeOK
<1>11. \A i \in waiting' : Dials(i)'
  BY <1>0, <1>3, <1>4, <1>5 DEF Bind, Dials, Blank
<1>12. ASSUME NEW i \in open' PROVE i \in built' \/ Leftover(i)'
  <2>1. phase = "building"
    BY <1>0 DEF Place
  <2>2. \A j \in open : j \in built
    BY <2>1 DEF IInv, Leftover
  <2> QED
    BY <2>2, <1>1, <1>3, <1>12 DEF New, Fails, Leftover
<1>13. phase' # "failed"
  BY <1>0 DEF New, Fails, Place
<1> QED
  BY <1>7, <1>8, <1>9, <1>10, <1>11, <1>12, <1>13 DEF IInv

\* Every step keeps IInv.
LEMMA NextIInv == IInv /\ [Next]_vars => IInv'
<1> SUFFICES ASSUME IInv, [Next]_vars PROVE IInv'
  OBVIOUS
<1>1. CASE EndArray
  <2> USE <1>1 DEF EndArray, IInv
  <2>1. stage' \in 1..5 /\ (stage' <= 2 => stage <= 2)
    BY DEF TypeOK
  <2> QED
    BY <2>1 DEF TypeOK, NamesResolved, Blank, Early, Leftover, Dials
<1>2. CASE Refused
  BY <1>2 DEF Refused, IInv, TypeOK, NamesResolved, Blank, Early, Leftover, Dials
<1>3. CASE Cleanup
  BY <1>3 DEF Cleanup, IInv, TypeOK, NamesResolved, Blank, Early, Leftover, Dials
<1>4. ASSUME NEW t \in Dialers, NEW a \in Pipes \cup Portals \cup {Os},
             NewDialer(t, a) \/ NewBridge(t, a)
      PROVE  IInv'
  <2>1. t \in Keys /\ t \notin Pipes \cup Portals
    BY KeysApart DEF Keys
  <2>2. CASE NewDialer(t, a)
    <3>1. count + 1 \in Items
      BY <2>2, MaxItemsAssumption DEF NewDialer, Place, IInv, TypeOK, Items
    <3>2. entry' \in [Keys -> Items \cup {Nothing}] /\ \A k \in Pipes \cup Portals : entry'[k] = entry[k]
      BY <2>1, <2>2, <3>1 DEF NewDialer, IInv, TypeOK, Keys
    <3> QED
      BY <2>2, <3>2, AwaitIInv DEF NewDialer
  <2>3. CASE NewBridge(t, a)
    <3>1. entry' \in [Keys -> Items \cup {Nothing}]
      BY <2>3 DEF NewBridge, IInv, TypeOK
    <3> QED
      BY <2>3, <3>1, AwaitIInv DEF NewBridge
  <2> QED
    BY <1>4, <2>2, <2>3
<1>5. ASSUME NEW m \in Modes \ {"dialer", "bridge"}, NEW a \in Pipes \cup {Os},
             NEW rs \in RouteLists, New(m, a, rs) \/ Fails(m, a, rs)
      PROVE  IInv'
  BY <1>5, ListenIInv
<1>6. CASE UNCHANGED vars
  BY <1>6 DEF vars, IInv, TypeOK, NamesResolved, Blank, Early, Leftover, Dials
<1> QED
  BY <1>1, <1>2, <1>3, <1>4, <1>5, <1>6 DEF Next

LEMMA Invariance == Spec => []IInv
BY InitIInv, NextIInv, PTL DEF Spec

-----------------------------------------------------------------------------

\* Every variable keeps its type; no channel of a dialer is closed twice.
THEOREM TypeCorrect == Spec => []TypeOK
BY Invariance, PTL DEF IInv

\* Whatever the configuration, a dialer of a pipe or of a portal has the
\* listener of its name as soon as there is one (Network.listenPipe and
\* Network.NewPortal), because the dialers and the bridges come first.
THEOREM StartupNamesResolved == Spec => []NamesResolved
BY Invariance, PTL DEF IInv

\* A failed startup leaves no socket open but that of a portal listener
\* whose tag was taken (NewPortalListener).
THEOREM StartupFailureCloses == Spec => []FailureCloses
<1>1. IInv => FailureCloses
  BY DEF IInv, FailureCloses, Leftover
<1> QED
  BY <1>1, Invariance, PTL
=============================================================================
