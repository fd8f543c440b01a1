----------------------------- MODULE PageCalls -----------------------------
(***************************************************************************)
(* What the management pages of gateway-ui share.  A page handler is an    *)
(* async function: it runs to its first await, and each later part runs    *)
(* when the answer of a fetch is in.  Between two parts anything else may  *)
(* run: another handler of the page, another page, the gateway.            *)
(*                                                                         *)
(* A page keeps its unfinished handlers in a function over Slots.  Each    *)
(* request is two moments: the gateway serves it, the page takes the       *)
(* answer.  A request may fail before or after it was served; the handler  *)
(* goes to its catch block and a request it left behind is still served    *)
(* ("left": nobody waits for the answer).                                  *)
(***************************************************************************)
EXTENDS Naturals, FiniteSets, Sequences

CONSTANTS
  Slots,      \* bound: handlers of one page unfinished at a time
  MaxClicks,  \* bound: buttons pressed and fields typed into, over all pages
  Nothing     \* a ref that holds no value yet (undefined)

ASSUME ClicksAssumption == MaxClicks \in Nat

VARIABLE clicks      \* what the operator has done so far

Click == clicks < MaxClicks /\ clicks' = clicks + 1

Idle == [op |-> "idle"]

NoCalls == [s \in Slots |-> Idle]

Free(calls) == {s \in Slots : calls[s] = Idle}

\* The handlers of one kind that the page waits for.
Waiting(calls, op) == {s \in Slots : calls[s].op = op}

Put(calls, s, call) == [calls EXCEPT ![s] = call]

\* request: not ok, or the connection broke.  The page stops waiting.
Leave(calls, s) == [calls EXCEPT ![s].op = "left"]

(***************************************************************************)
(* One request of a handler: not sent yet, sent with a body, read (served  *)
(* half way, where the gateway has no lock over its two halves), served.   *)
(***************************************************************************)
Unsent == [at |-> "unsent", with |-> Nothing]

Sent(body) == [at |-> "sent", with |-> body]

Read(found) == [at |-> "read", with |-> found]

Served(answer) == [at |-> "served", with |-> answer]

Maybe(values) == values \cup {Nothing}

\* The requests that carry such bodies, find such values half way and are
\* answered so; "tuned", "open" and "lost" are of SettingsPage.
Requests(bodies, found, answers) ==
  {Unsent} \cup [at : {"sent", "tuned"}, with : bodies] \cup [at : {"read", "open"}, with : found]
    \cup {[at |-> "lost", with |-> Nothing]} \cup [at : {"served"}, with : answers]

\* Array.prototype.filter: the entries of a list that are wanted, in their order.
AddWanted(kept, x, wanted) == IF x \in wanted THEN Append(kept, x) ELSE kept

Filtered(list, wanted) ==
  LET kept[n \in 0 .. Len(list)] == IF n = 0 THEN <<>> ELSE AddWanted(kept[n - 1], list[n], wanted)
  IN  kept[Len(list)]
=============================================================================
