------------------------------ MODULE Handoff ------------------------------
(***************************************************************************)
(* What every Connect of a dialer promises its caller: a call is answered  *)
(* once, with a stream or with an error, and a stream opened on behalf of  *)
(* the call is either given to the caller or released, never both and      *)
(* never neither.  The caller may be answered before the stream exists, so *)
(* the release of a late stream happens after the answer.                  *)
(***************************************************************************)
CONSTANT Calls

VARIABLES
  answer,   \* "none" before the call, "asked" while it waits, then the answer
  stream    \* the stream opened for the call

vars == <<answer, stream>>

TypeOK ==
  /\ answer \in [Calls -> {"none", "asked", "stream", "error"}]
  /\ stream \in [Calls -> {"absent", "inflight", "owned", "released"}]

Init ==
  /\ answer = [c \in Calls |-> "none"]
  /\ stream = [c \in Calls |-> "absent"]

Ask(c) ==
  /\ answer[c] = "none"
  /\ answer' = [answer EXCEPT ![c] = "asked"]
  /\ UNCHANGED stream

Open(c) ==
  /\ answer[c] \in {"asked", "error"}
  /\ stream[c] = "absent"
  /\ stream' = [stream EXCEPT ![c] = "inflight"]
  /\ UNCHANGED answer

Give(c) ==
  /\ answer[c] = "asked"
  /\ stream[c] = "inflight"
  /\ answer' = [answer EXCEPT ![c] = "stream"]
  /\ stream' = [stream EXCEPT ![c] = "owned"]

Refuse(c) ==
  /\ answer[c] = "asked"
  /\ answer' = [answer EXCEPT ![c] = "error"]
  /\ UNCHANGED stream

Release(c) ==
  /\ stream[c] = "inflight"
  /\ stream' = [stream EXCEPT ![c] = "released"]
  /\ UNCHANGED answer

Next == \E c \in Calls : Ask(c) \/ Open(c) \/ Give(c) \/ Refuse(c) \/ Release(c)

Spec == Init /\ [][Next]_vars

(***************************************************************************)
(* The promise of a dialer with a timeout: an asked call is answered, and  *)
(* a stream does not stay between the dialer and its caller.               *)
(***************************************************************************)
Prompt == \A c \in Calls : WF_vars(Give(c) \/ Refuse(c)) /\ WF_vars(Give(c) \/ Release(c))
=============================================================================
