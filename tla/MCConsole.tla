----------------------------- MODULE MCConsole -----------------------------
(***************************************************************************)
(* A console of two handlers at a time.  Slots are interchangeable; no     *)
(* other set is, because initial values are chosen from the others.        *)
(***************************************************************************)
EXTENDS Console, TLC

SlotSymmetry == Permutations(Slots)

\* One with room, one out of order.
TwoRtpRanges == {<<1, 4>>, <<3, 2>>}

FactoryDefaults == [keep |-> "default", access |-> "default", mbps |-> 4, limit |-> 3]

ThreeEntries == <<"failed", "running", "failed">>

\* Enough for two overlapping handlers and an edit between them on each route.
Clicks ==
  [settings |-> 4, nodes |-> 4, protection |-> 4, limits |-> 6, mapping |-> 4, resource |-> 4,
   lists |-> 4, monitor |-> 5, mock |-> 5, conversions |-> 0]

\* The one route of the run about the access logs.
ListClicks == [lists |-> 3]
=============================================================================
