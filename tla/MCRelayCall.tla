----------------------------- MODULE MCRelayCall -----------------------------
(* Calls for TLC: all are alike, so safety is checked up to permutation.    *)
EXTENDS RelayCall, TLC

CallSymmetry == Permutations(Calls)
=============================================================================
