-------------------------- MODULE DecisionProtocol --------------------------
(***************************************************************************)
(* How a decision is computed: authoritative_allocation.preview turns the  *)
(* forecasts of the Champion into portfolio weights, and the actors of     *)
(* decision/protocol argue about them until the risk officer has the last  *)
(* word.  DecisionChain says when this happens and how it is stored; here  *)
(* only the values matter, so that every behaviour is one computation, one *)
(* actor at a time, over evidence that the initial state chooses.          *)
(*                                                                         *)
(* Probabilities, returns and drawdowns are in thousandths, weights and    *)
(* confidence in ten-thousandths; a division rounds down, where the code   *)
(* has floating-point numbers.  Texts, hashes and references are left out, *)
(* except whether a forecast has the hash of its features.                 *)
(*                                                                         *)
(* OpposedOnly is a faulty variant of the definition after it.             *)
(***************************************************************************)
EXTENDS Integers, FiniteSets, Sequences, Functions

CONSTANTS
  Codes,      \* the candidates and the instruments held
  Forecasts,  \* what the Champion may say of one of them
  Industries,
  Markets,    \* what the index and the breadth of the market may look like
  Holdings,   \* current weights of the positions
  Assets,     \* what the account may be worth
  Capital     \* capital_limit, and leverage_limit, of the risk profile

VARIABLES
  inputs,      \* the evidence of the computation
  stage,       \* the actor whose turn it is
  allocation,  \* what preview stored
  research, reviews, rounds, committee, officer    \* what the actors said

decision == <<inputs, stage, allocation, research, reviews, rounds, committee, officer>>

Nothing == [said |-> FALSE]

MaxSingleName   == 2000
MaxIndustry     == 3000
MaxStrategyRisk == 2500
MaxLoss         == 200

Least(a, b)    == IF a < b THEN a ELSE b
Greatest(a, b) == IF a > b THEN a ELSE b
SumOver(f, S)  == FoldFunctionOnSet(+, 0, f, S)

Evidence ==
  [forecast : [Codes -> Forecasts], industry : [Codes -> Industries], market : Markets,
   held : Holdings, assets : Assets, kill : BOOLEAN]

Undecided ==
  /\ stage = "preview" /\ rounds = <<>>
  /\ allocation = Nothing /\ research = Nothing /\ reviews = Nothing
  /\ committee = Nothing /\ officer = Nothing

DecisionInit == inputs \in Evidence /\ Undecided
-----------------------------------------------------------------------------
(* classify_market_regime *)
Regime ==
  LET m == inputs.market IN
  IF m.volatility >= 300 THEN "risk_off"
  ELSE IF m.trend >= 30 /\ m.breadth >= 550 THEN "bull"
  ELSE IF m.trend <= -30 /\ m.breadth <= 450 THEN "bear"
  ELSE "range"

(* The multiplier of the only category there is a proposal of, in percent. *)
Multiplier == [bull |-> 100, bear |-> 110, range |-> 100, risk_off |-> 25]

(* The high water mark is never below the capital limit. *)
Drawdown == IF inputs.kill THEN 200
            ELSE Greatest(0, ((Greatest(inputs.assets, Capital) - inputs.assets) * 1000)
                             \div Greatest(inputs.assets, Capital))

LossRate(c) == Greatest(0, -inputs.forecast[c].low)

Scaled(weights, limit) ==
  LET total == SumOver(weights, DOMAIN weights) IN
  IF total <= limit THEN weights
  ELSE [c \in DOMAIN weights |-> (weights[c] * limit) \div total]

Losses(weights) == [c \in DOMAIN weights |-> (weights[c] * LossRate(c)) \div 1000]

(* The one proposal: the edge of each forecast whose median is a gain.  The *)
(* pool of its category holds nothing else, so that it is scaled once.      *)
Sleeve ==
  Scaled([c \in Codes |->
            LET f == inputs.forecast[c] IN
            IF f.median > 0 THEN (Greatest(0, f.up - 500) * 2 * Multiplier[Regime]) \div 10
                            ELSE 0],
         MaxStrategyRisk)

SingleNames(weights) == [c \in Codes |-> Least(weights[c], MaxSingleName)]

ByIndustry(weights) ==
  [c \in Codes |->
     LET peers == {d \in Codes : inputs.industry[d] = inputs.industry[c]}
         total == SumOver(weights, peers)
     IN IF total > MaxIndustry THEN (weights[c] * MaxIndustry) \div total ELSE weights[c]]

(* The leverage of the profile doubles the capital. *)
MaxGross == 20000

WithinLoss(weights) ==
  LET loss == SumOver(Losses(weights), Codes) IN
  IF loss > MaxLoss
  THEN Scaled(weights, (SumOver(weights, Codes) * MaxLoss) \div loss) ELSE weights

Bounded == WithinLoss(Scaled(ByIndustry(SingleNames(Sleeve)), MaxGross))

Allocated(weights, state) ==
  [said |-> TRUE, weights |-> weights,
   amounts |-> [c \in DOMAIN weights |-> weights[c] * Capital],
   gross |-> SumOver(weights, DOMAIN weights),
   loss |-> Least(SumOver(Losses(weights), DOMAIN weights), MaxLoss),
   risk |-> state]

(* allocate_portfolio, as preview calls it *)
AllocatePortfolio ==
  CASE Drawdown >= 200 ->
         Allocated([c \in {d \in Codes : inputs.held[d] > 0} |-> 0], "force_reduce")
    [] Drawdown \in 180 .. 199 ->
         Allocated([c \in Codes |-> Least(Bounded[c], inputs.held[c])], "no_new_positions")
    [] Drawdown \in 150 .. 179 -> Allocated(Bounded, "warning")
    [] OTHER -> Allocated(Bounded, "normal")

Preview ==
  /\ stage = "preview" /\ stage' = "researcher"
  /\ allocation' = AllocatePortfolio
  /\ UNCHANGED <<inputs, research, reviews, rounds, committee, officer>>
-----------------------------------------------------------------------------
(* _prediction_map *)
ForecastsValid ==
  \A c \in Codes : LET f == inputs.forecast[c] IN
    f.up \in 0 .. 1000 /\ f.low <= f.median /\ f.median <= f.high

(* _validate_allocation *)
AllocationValid ==
  LET a == allocation IN
  /\ a.risk \in {"normal", "warning", "no_new_positions", "force_reduce"}
  /\ DOMAIN a.weights \subseteq Codes /\ DOMAIN a.amounts = DOMAIN a.weights
  /\ \A c \in DOMAIN a.weights : /\ a.weights[c] \in 0 .. MaxSingleName
                                 /\ a.amounts[c] = a.weights[c] * Capital
  /\ a.gross = SumOver(a.weights, DOMAIN a.weights) /\ a.gross <= MaxGross
  /\ a.loss \in 0 .. MaxLoss
  /\ \A i \in Industries :
       SumOver(a.weights, {c \in DOMAIN a.weights : inputs.industry[c] = i}) <= MaxIndustry

Target(c) == IF c \in DOMAIN allocation.weights THEN allocation.weights[c] ELSE 0

Claims ==
  [c \in Codes |->
     LET f == inputs.forecast[c] IN
     [direction |-> IF f.up > 500 THEN "up" ELSE "down", up |-> f.up, median |-> f.median,
      target |-> Target(c), hash |-> f.hash]]

(* A refusal is a ValueError, which ends the run. *)
Researcher ==
  /\ stage = "researcher"
  /\ IF ForecastsValid /\ AllocationValid
     THEN research' = Claims /\ stage' = "contrarian"
     ELSE stage' = "refused" /\ UNCHANGED research
  /\ UNCHANGED <<inputs, allocation, reviews, rounds, committee, officer>>

Concerns(f) ==
  {k \in {"tail", "risk_off", "edge", "zero"} :
     CASE k = "tail"     -> f.low < -20
       [] k = "risk_off" -> Regime = "risk_off"
       [] k = "edge"     -> f.up < 550
       [] k = "zero"     -> f.low <= 0 /\ f.high >= 0}

Reviews ==
  [c \in Codes |->
     LET f == inputs.forecast[c]
         concerns == Concerns(f)
     IN [direction |-> IF concerns # {} THEN "avoid" ELSE IF f.median > 0 THEN "up" ELSE "down",
         low |-> f.low, concerns |-> concerns, hash |-> f.hash,
         alternative |-> IF concerns # {} THEN 0
                         ELSE Least(1000, Greatest(0, (f.up - 550) * 5))]]

(* contrarian_blind sees the evidence, and nothing the researcher said. *)
ContrarianBlind ==
  /\ stage = "contrarian" /\ stage' = "examine"
  /\ reviews' = Reviews
  /\ UNCHANGED <<inputs, allocation, research, rounds, committee, officer>>

Gap(a, b) == Greatest(a - b, b - a)

(* To avoid is in conflict with up and with down. *)
OpposedOnly(claim, review) == {claim.direction, review.direction} = {"up", "down"}
Conflict(claim, review) == review.direction # claim.direction

Exchange(claim, review) ==
  LET conflict == Conflict(claim, review)
      mismatch == ~claim.hash \/ claim.hash # review.hash
      return   == Gap(claim.median, review.low) > 20
      position == Gap(claim.target, review.alternative) > 1000
  IN [conflict |-> conflict, mismatch |-> mismatch, return |-> return, position |-> position,
      resolved |-> ~(conflict \/ mismatch \/ return \/ position)]

(* cross_examine: the second round finds what the first one found. *)
CrossExamine ==
  /\ stage = "examine"
  /\ rounds' = Append(rounds, [c \in Codes |-> Exchange(research[c], reviews[c])])
  /\ stage' = IF Len(rounds') = 2 THEN "committee" ELSE "examine"
  /\ UNCHANGED <<inputs, allocation, research, reviews, committee, officer>>

Conflicts(c) == {r \in DOMAIN rounds : ~rounds[r][c].resolved}

Confidence(c) ==
  LET raw == 8 * Greatest(0, research[c].up - 500)
             + Least(3000, Greatest(0, research[c].median * 100))
             + Least(3000, (research[c].target * 3) \div 2)
  IN IF Conflicts(c) # {} THEN (raw * 4) \div 5 ELSE raw

Approves(c) == Confidence(c) >= 6000 /\ research[c].target > 0

Severe(c) ==
  \/ Confidence(c) < 6000
  \/ \E r \in Conflicts(c) : LET x == rounds[r][c] IN
       x.conflict \/ x.mismatch \/ x.return \/ x.position

(* A concern is adopted by a decision not to trade, and answered otherwise. *)
InvestmentCommittee ==
  /\ stage = "committee" /\ stage' = "officer"
  /\ committee' = [approved |-> {c \in Codes : Approves(c)},
                   answered |-> [c \in Codes |-> IF Approves(c) THEN reviews[c].concerns ELSE {}],
                   severe |-> {c \in Codes : Severe(c)}]
  /\ UNCHANGED <<inputs, allocation, research, reviews, rounds, officer>>

(* risk_officer *)
RiskOfficer ==
  /\ stage = "officer" /\ stage' = "done"
  /\ LET veto == \/ allocation.risk \in {"force_reduce", "no_new_positions"}
                 \/ committee.approved = {}
     IN officer' = [veto |-> veto, candidates |-> IF veto THEN {} ELSE committee.approved]
  /\ UNCHANGED <<inputs, allocation, research, reviews, rounds, committee>>

DecisionNext ==
  \/ Preview \/ Researcher \/ ContrarianBlind \/ CrossExamine \/ InvestmentCommittee
  \/ RiskOfficer

DecisionSpec == DecisionInit /\ [][DecisionNext]_decision
-----------------------------------------------------------------------------
(* The researcher checks every limit again that the allocation was built   *)
(* under: what preview stores under the profile and the positions it read  *)
(* is never refused.                                                       *)
AllocationAccepted == stage # "refused"

(* What the researcher lists as noTradeConditions nobody checks by name:   *)
(* neither the committee nor the officer looks at the probability or the   *)
(* median again.  They hold all the same.  A candidate that the officer    *)
(* lets pass is one with an edge, a positive median (the reason given when *)
(* an interval around zero is overruled) and a target, in a portfolio that *)
(* may still take positions.                                               *)
NoTradeConditionsHold ==
  stage = "done" =>
    \A c \in officer.candidates :
      /\ inputs.forecast[c].up > 500 /\ inputs.forecast[c].median > 0
      /\ allocation.weights[c] > 0 /\ Drawdown < 180

(* Whoever overrules the contrarian is heard of: an approved candidate the *)
(* contrarian had concerns about makes the disagreement a severe one, and  *)
(* the user is notified.                                                   *)
OverrulingIsSevere ==
  stage = "done" => \A c \in committee.approved :
    committee.answered[c] # {} => c \in committee.severe

DecisionSound == AllocationAccepted /\ NoTradeConditionsHold /\ OverrulingIsSevere
=============================================================================
