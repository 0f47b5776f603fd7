---- MODULE MCTradingControls ----
(* Two orders that only differ in their keys, two instances of the bridge. *)
EXTENDS TradingControls
CONSTANTS o1, o2
TwoOrders == {o1, o2}
Twins     == {<<o1, o2>>, <<o2, o1>>}
====
