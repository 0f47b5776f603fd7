---------------------------- MODULE MCSimTrading ----------------------------
(* The instances of SimTrading that TLC checks. *)
EXTENDS SimTrading, TLC

(* Order ids are interchangeable. *)
OrderSymmetry == Permutations(OrderIds)
=============================================================================
