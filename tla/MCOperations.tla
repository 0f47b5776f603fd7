---------------------------- MODULE MCOperations ----------------------------
(***************************************************************************)
(* The scheduler of the workers, and what its jobs do: they deliver        *)
(* alarms, settle accounts, refresh live quotes and evaluate overrides.    *)
(* The jobs need of the election only that some worker runs them, and      *)
(* stand two of them beside each other; so each behaviour moves one of the *)
(* five components, and part says which.                                   *)
(***************************************************************************)
EXTENDS SchedulerLeader, Sequences, FiniteSets

CONSTANTS Alarms, Requests, Jobs, Tokens, MaxNoteFaults,
          Codes, OrderIds, Matchers, Prices, Quantities, InitialCash,
          FeeUnit, MinFee, TaxUnit, MaxDay, SpansMidnight,
          Kinds, FeedRequests, Sources, Hanging, PoolSize, MaxHangs, MaxQueue,
          Instruments, Allocations, Submitted, Markets, Slip, OverrideFeeUnit,
          OverrideMinFee, OverrideTaxUnit, MaxAttempts, MaxOverrideFaults

ASSUME NoteFaultsAssumption == MaxNoteFaults \in Nat
ASSUME NoneAssumption       == "none" \notin Alarms \cup Tokens
ASSUME ThreadsAssumption    == Requests \cap Jobs = {}
ASSUME SendersAssumption    == IsFiniteSet(Requests \cup Jobs)

VARIABLES part, notes, process, sent, noteFaults, day, book, queue,
          caller, waiting, behind, warm,
          override, materialised, attribution, attempt, evaluator, overrideFaults

noteVars == <<notes, process, sent, noteFaults>>
simVars  == <<day, book, queue>>
feedVars == <<caller, waiting, behind, warm>>
overrideVars == <<override, materialised, attribution, attempt, evaluator, overrideFaults>>

Notes == INSTANCE DecisionNotifications WITH faults <- noteFaults, MaxFaults <- MaxNoteFaults
Sim   == INSTANCE SimTrading
Feed  == INSTANCE MarketFeed WITH Requests <- FeedRequests, queue <- waiting, left <- behind

Behavior == INSTANCE BehaviorAttribution
  WITH InOrder <- Instruments, FeeUnit <- OverrideFeeUnit, MinFee <- OverrideMinFee,
       TaxUnit <- OverrideTaxUnit, worker <- evaluator, faults <- overrideFaults,
       MaxFaults <- MaxOverrideFaults

(* Of the override: each instrument has one place in the order; weights,   *)
(* quantities and prices are no negative numbers; an instrument opens      *)
(* within the limits of the day; and a sale within them pays its fees,     *)
(* which the code does not test.                                           *)
ASSUME AttributionAssumption ==
  /\ Instruments \in Seq(Behavior!AllCodes)
  /\ \A i, j \in DOMAIN Instruments : Instruments[i] = Instruments[j] => i = j
  /\ Slip \in Nat /\ OverrideMinFee \in Nat
  /\ OverrideFeeUnit \in Nat \ {0} /\ OverrideTaxUnit \in Nat \ {0}
  /\ \A d \in Allocations : /\ d.weights \in [Behavior!AllCodes -> Nat]
                            /\ d.cash \in Nat /\ d.held \in [Behavior!AllCodes -> Nat]
  /\ Submitted \subseteq [Behavior!AllCodes -> Nat]
  /\ \A m \in Markets, c \in Behavior!AllCodes :
       /\ m[c].open \in Nat \ {0} /\ m[c].capacity \in Nat
       /\ m[c].low \in Nat /\ m[c].high \in Nat
       /\ m[c].low <= m[c].open /\ m[c].open <= m[c].high
       /\ \A px \in m[c].low .. m[c].high, qty \in 1 .. m[c].capacity :
            Behavior!SellProceeds(px, qty) >= 0

(* The account has much of one instrument and little cash.  In the markets *)
(* both trade, or one opens at its limit, where the one cannot be sold or  *)
(* the other not be bought.                                                *)
TwoInstruments == <<"x", "y">>
OneDecision == {[weights |-> [x |-> 20, y |-> 20], cash |-> 17, held |-> [x |-> 30, y |-> 0]]}
TwoChoices  == {[x |-> 0, y |-> 20], [x |-> 20, y |-> 10]}
Bar(open, capacity) == [open |-> open, low |-> 5, high |-> 15, capacity |-> capacity]
ThreeMarkets == {[x |-> Bar(10, 2), y |-> Bar(10, 9)], [x |-> Bar(5, 9), y |-> Bar(10, 9)],
                 [x |-> Bar(10, 9), y |-> Bar(15, 9)]}

OperationsInit ==
  /\ part \in {"leader", "notes", "accounts", "feed", "overrides"}
  /\ Init /\ Notes!Init /\ Sim!Init /\ Feed!Init /\ Behavior!Init
  /\ part # "overrides" => override.action = "accept"

OperationsNext ==
  /\ UNCHANGED part
  /\ \/ part = "leader" /\ Next /\ UNCHANGED <<noteVars, simVars, feedVars, overrideVars>>
     \/ part = "notes" /\ Notes!Next /\ UNCHANGED <<vars, simVars, feedVars, overrideVars>>
     \/ part = "accounts" /\ Sim!Next /\ UNCHANGED <<vars, noteVars, feedVars, overrideVars>>
     \/ part = "feed" /\ Feed!Next /\ UNCHANGED <<vars, noteVars, simVars, overrideVars>>
     \/ part = "overrides" /\ Behavior!Next /\ UNCHANGED <<vars, noteVars, simVars, feedVars>>

(* The specification of that component, with its fairness. *)
OperationsSpec ==
  /\ OperationsInit /\ [][OperationsNext]_<<part, vars, noteVars, simVars, feedVars, overrideVars>>
  /\ WF_vars(part = "leader" /\ Pass)
  /\ \A w \in Workers : WF_vars(part = "leader" /\ Proceeds(w))
  /\ \A p \in Notes!Processes : WF_noteVars(part = "notes" /\ Notes!Proceeds(p))
  /\ \A p \in Notes!Processes, ch \in Notes!Channels :
       SF_noteVars(part = "notes" /\ Notes!NextChannel(p) = ch /\ Notes!CallSucceeds(p))
  /\ \A a \in Alarms :
       /\ WF_noteVars(part = "notes" /\ Notes!LeaseRunsOut(a) /\ Notes!Holder(a) = {})
       /\ WF_noteVars(part = "notes" /\ Notes!ComesDue(a))
  /\ WF_simVars(part = "accounts" /\ Sim!NextDay)
  /\ WF_simVars(part = "accounts" /\ Sim!SettleAccount)
  /\ WF_feedVars(part = "feed" /\ Feed!ThreadTakes)
  /\ \A c \in Feed!Callers : WF_feedVars(part = "feed" /\ Feed!Proceeds(c))
  /\ \A k \in Kinds : /\ WF_feedVars(part = "feed" /\ Feed!Begin(k))
                       /\ SF_feedVars(part = "feed" /\ caller[k].source = Sources /\ Feed!Answers(k))
  /\ WF_overrideVars(part = "overrides" /\ Behavior!BackoffEnds)
  /\ \A w \in Workers : /\ WF_overrideVars(part = "overrides" /\ Behavior!List(w))
                         /\ WF_overrideVars(part = "overrides" /\ Behavior!Continues(w))

(* SchedulerRuns, of the behaviors of the election: some worker always     *)
(* runs the scheduler again, after any finite number of failed calls, lost *)
(* keys, crashes and stalls: no key is held for ever.                      *)
SchedulerRunsAgain == part = "leader" => SchedulerRuns

(* The properties of DecisionNotifications, SimTrading and                 *)
(* BehaviorAttribution: each alarm is delivered in the end, twice only for *)
(* a fault, an order of an earlier day does not wait for ever, and an      *)
(* override is attributed or given up, and fairly when it is attributed.   *)
AlarmsDelivered      == Notes!AlarmsDelivered
OvernightOrdersEnd   == Sim!OvernightOrdersEnd
OverridesSettled     == Behavior!OverridesSettled
ComparisonsFair      == Behavior!ComparisonsFair

(* RefreshGoesOn, of the behaviors of the refresh jobs: they bring quotes  *)
(* again and again, although calls of the sources hang for ever.           *)
QuotesGoOn == part = "feed" => Feed!RefreshGoesOn
=============================================================================
