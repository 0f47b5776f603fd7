------------------------------ MODULE MCMarket ------------------------------
(***************************************************************************)
(* The simulated account, and the stored prices of an instrument.  Orders  *)
(* are filled at live quotes, so neither touches the tables of the other;  *)
(* each behaviour moves one of the two, and part says which.               *)
(***************************************************************************)
EXTENDS SimTrading, Ingestion, TLC

(* The window of the backfills, and the one of the bulk import. *)
MCRanges  == {<<1, 2>>}
MCImports == {<<2, 2>>}

(* Order ids are interchangeable, and so are threads that run a backfill. *)
MarketSymmetry == Permutations(OrderIds) \cup Permutations(Writers)

VARIABLE part

MarketInit == part \in {"account", "prices"} /\ Init /\ IngestInit

MarketNext ==
  /\ UNCHANGED part
  /\ \/ part = "account" /\ Next /\ UNCHANGED store
     \/ part = "prices" /\ IngestNext /\ UNCHANGED vars

(* SimTrading!Spec or Ingestion!IngestSpec *)
MarketSpec == MarketInit /\ [][MarketNext]_<<part, vars, store>>
=============================================================================
