------------------------------ MODULE HttpCall ------------------------------
(***************************************************************************)
(* What the relay promises the HTTP side of the asking node: a call that   *)
(* begins is answered or fails, once; it holds resources (a port, a lane,  *)
(* an entry of the pending table) only in between; and it always returns.  *)
(***************************************************************************)
CONSTANT Calls

VARIABLES
  phase,     \* of each call: idle, active, answered, done, failed
  holding    \* calls that hold a resource

vars == <<phase, holding>>

Live(c) == phase[c] \in {"active", "answered"}

Init == phase = [c \in Calls |-> "idle"] /\ holding = {}

Begin(c) ==
  /\ phase[c] = "idle"
  /\ phase' = [phase EXCEPT ![c] = "active"]
  /\ UNCHANGED holding

\* Resources come and go while the call lives.
Use(c) ==
  /\ Live(c)
  /\ holding' \in {holding \cup {c}, holding \ {c}}
  /\ UNCHANGED phase

\* The status line is there; the lane is given back.
Answer(c) ==
  /\ phase[c] = "active"
  /\ phase' = [phase EXCEPT ![c] = "answered"]
  /\ holding' \in {holding, holding \ {c}}

Fail(c) ==
  /\ phase[c] = "active"
  /\ phase' = [phase EXCEPT ![c] = "failed"]
  /\ holding' = holding \ {c}

Close(c) ==
  /\ phase[c] = "answered"
  /\ phase' = [phase EXCEPT ![c] = "done"]
  /\ holding' = holding \ {c}

Next == \E c \in Calls : Begin(c) \/ Use(c) \/ Answer(c) \/ Fail(c) \/ Close(c)

SafeSpec == Init /\ [][Next]_vars

Spec == SafeSpec /\ \A c \in Calls : WF_vars(Answer(c) \/ Fail(c)) /\ WF_vars(Close(c))
=============================================================================
