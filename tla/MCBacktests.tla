---------------------------- MODULE MCBacktests ----------------------------
(***************************************************************************)
(* The queue of backtests and the matching of one, side by side: they      *)
(* share nothing but their result, so that each behaviour moves one of the *)
(* two and leaves the other where it began.                                *)
(***************************************************************************)
EXTENDS BacktestJobs

CONSTANTS
  Codes, Capital, Targets, MaxBars, FeeUnit, MinFee, TaxUnit

ASSUME CodesAssumption == IsFiniteSet(Codes)

VARIABLES
  part,      \* which of the two moves
  daily, capped, clock, barAt, price, cash, position, pending, filled

(* A bar that falls after its opening and has little volume, and one that *)
(* opens at its lower limit.                                               *)
Bars == {[open |-> 3, close |-> 3, blocked |-> {}, slip |-> 0, capacity |-> 2],
         [open |-> 2, close |-> 2, blocked |-> {"sell"}, slip |-> 0, capacity |-> 9]}

engine == <<daily, capped, clock, barAt, price, cash, position, pending, filled>>

E == INSTANCE BacktestEngine

BacktestsInit ==
  /\ part \in {"queue", "engine"} /\ Init /\ E!EngineInit
  /\ part = "queue" => daily /\ capped

BacktestsNext ==
  /\ UNCHANGED part
  /\ \/ part = "queue" /\ Next /\ UNCHANGED engine
     \/ part = "engine" /\ E!EngineNext /\ UNCHANGED vars

BacktestsSpec ==
  /\ BacktestsInit /\ [][BacktestsNext]_<<part, vars, engine>>
  /\ part = "queue" => Fairness

(* The properties of BacktestEngine. *)
OnNextBar   == E!OnNextBar
CashCovered == E!CashCovered
=============================================================================
