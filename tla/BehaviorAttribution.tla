------------------------ MODULE BehaviorAttribution ------------------------
(***************************************************************************)
(* What a user's override of a decision was worth: attribute_due_overrides *)
(* of services/evolution.py.  When the session after the decision has been *)
(* materialised, the weights of the strategy and those of the user are     *)
(* both filled at its prices, from the account that the decision saw, and  *)
(* the two results are kept side by side.                                  *)
(*                                                                         *)
(* Overrides have rows of their own, so the module follows one; the list   *)
(* of candidates, which ends after a hundred, is left out.  Each           *)
(* transaction is an action, and so is the evaluation between two of them. *)
(* Prices are an input of each evaluation: those of a day may be loaded    *)
(* anew, or be incomplete.  The time until the next attempt, an hour at    *)
(* most, is one bit.                                                       *)
(*                                                                         *)
(* Quantities are in lots of a hundred, prices per lot, weights in         *)
(* percent.  Hashes and flags are left out; evidence whose hash does not   *)
(* fit is like prices that are incomplete.  Of a row of attribution the    *)
(* prices are kept, which are part of its evidence: the rest of the row is *)
(* what Compared makes of them.                                            *)
(*                                                                         *)
(* FromOneAccount is a faulty variant of the definition after it; the      *)
(* specification does not use it.                                          *)
(***************************************************************************)
EXTENDS TradingRules, FiniteSetsExt, SequencesExt

CONSTANTS
  Workers,      \* processes that run the job
  InOrder,      \* the instruments, in the order of their codes
  Allocations,  \* decisions: their weights, and the account they saw
  Submitted,    \* weights a user may submit instead
  Markets,      \* what the bars of a day may say of each instrument
  Slip,         \* the slippage of a fill
  MaxAttempts,  \* the failures after which an override is given up
  MaxFaults     \* bound: crashes, and errors of the database

VARIABLES
  override,      \* the row in decision_overrides, with its decision
  materialised,  \* the next session after the decision has its snapshot
  attribution,   \* the prices of its rows in behavior_attributions
  attempt,       \* the row in behavior_attribution_attempts
  worker,        \* the local state of each process
  faults

behavior == <<override, materialised, attribution, attempt, worker, faults>>

None     == "none"
AllCodes == Range(InOrder)
Nothing  == [c \in AllCodes |-> 0]
Idle     == [pc |-> "idle", bars |-> {}]

Goes(w, pc) == worker' = [worker EXCEPT ![w].pc = pc]
Stop(w)     == worker' = [worker EXCEPT ![w] = Idle]
Fault       == faults < MaxFaults /\ faults' = faults + 1

(* The state that decision_room.override leaves behind. *)
Init ==
  /\ \E allocation \in Allocations, action \in {"accept", "reject", "modify"},
        weights \in Submitted \cup {Nothing} :
       /\ (action = "modify") = (weights # Nothing)
       /\ override = [action |-> action, weights |-> weights, allocation |-> allocation]
  /\ materialised = FALSE
  /\ attribution = {}
  /\ attempt = [status |-> None, attempts |-> 0, waiting |-> FALSE]
  /\ worker = [w \in Workers |-> Idle]
  /\ faults = 0
-----------------------------------------------------------------------------
(* _rebalance *)
Smaller(a, b) == IF a < b THEN a ELSE b
Larger(a, b)  == IF a < b THEN b ELSE a

Worth(start, bars)        == start.cash + MapThenSumSet(LAMBDA c : start.held[c] * bars[c].open, AllCodes)
Desired(worth, share, px) == (worth * share) \div (100 * (px + Slip))

WithFill(a, code, side, qty, price) ==
  [fills |-> Append(a.fills, [code |-> code, side |-> side, qty |-> qty, price |-> price]),
   cash  |-> IF side = "buy" THEN a.cash - BuyTotal(price, qty)
             ELSE a.cash + SellProceeds(price, qty),
   held  |-> [a.held EXCEPT ![code] = IF side = "buy" THEN @ + qty ELSE @ - qty]]

Sold(a, c, desired, bar) ==
  LET qty == Smaller(a.held[c] - desired, bar.capacity)
  IN  IF qty <= 0 \/ bar.open <= bar.low THEN a
      ELSE WithFill(a, c, "sell", qty, Larger(bar.low, bar.open - Slip))

(* As many lots as the cash pays for, with the commission. *)
Affordable(wanted, px, cash) == {n \in 1 .. wanted : BuyTotal(px, n) <= cash}

Bought(a, c, desired, bar) ==
  LET px  == Smaller(bar.high, bar.open + Slip)
      may == Affordable(Smaller(desired - a.held[c], bar.capacity), px, a.cash)
  IN  IF may = {} \/ bar.open >= bar.high THEN a
      ELSE WithFill(a, c, "buy", Max(may), px)

(* Sales come first, and pay for purchases; both in the order of codes. *)
Rebalance(start, targets, bars) ==
  LET worth      == Worth(start, bars)
      desired(c) == Desired(worth, targets[c], bars[c].open)
      before     == [cash |-> start.cash, held |-> start.held, fills |-> <<>>]
      sold       == FoldLeft(LAMBDA a, c : Sold(a, c, desired(c), bars[c]), before, InOrder)
  IN  FoldLeft(LAMBDA a, c : Bought(a, c, desired(c), bars[c]), sold, InOrder)
-----------------------------------------------------------------------------
(* _attribute_override_batch, for one override *)
Human(o) ==
  CASE o.action = "accept" -> o.allocation.weights
    [] o.action = "reject" -> Nothing
    [] o.action = "modify" -> o.weights

FromOneAccount(o, bars) ==
  LET strategy == Rebalance(o.allocation, o.allocation.weights, bars)
  IN  [bars |-> bars, strategy |-> strategy, human |-> Rebalance(strategy, Human(o), bars)]

Compared(o, bars) ==
  [bars     |-> bars,
   strategy |-> Rebalance(o.allocation, o.allocation.weights, bars),
   human    |-> Rebalance(o.allocation, Human(o), bars)]

(* It may have been attributed since it was listed; and it waits for the   *)
(* session after the decision without an attempt being counted.            *)
Read(w) ==
  /\ worker[w].pc = "listed"
  /\ IF attribution = {} /\ materialised THEN Goes(w, "evaluate") ELSE Stop(w)
  /\ UNCHANGED <<override, materialised, attribution, attempt, faults>>

Evaluate(w, bars) ==
  /\ worker[w].pc = "evaluate"
  /\ worker' = [worker EXCEPT ![w] = [pc |-> "save", bars |-> {bars}]]
  /\ UNCHANGED <<override, materialised, attribution, attempt, faults>>

(* The bars of one of the two days are incomplete. *)
EvidenceFails(w) ==
  /\ worker[w].pc = "evaluate" /\ Goes(w, "failed")
  /\ UNCHANGED <<override, materialised, attribution, attempt, faults>>

(* override_id is unique: a second row is an IntegrityError, and no matter.*)
Save(w) ==
  /\ worker[w].pc = "save"
  /\ IF attribution = {}
     THEN attribution' = worker[w].bars /\ Goes(w, "complete")
     ELSE UNCHANGED attribution /\ Stop(w)
  /\ UNCHANGED <<override, materialised, attempt, faults>>
-----------------------------------------------------------------------------
(* attribute_due_overrides *)
Candidate ==
  /\ attribution = {}
  /\ \/ attempt.status = None
     \/ attempt.status = "retry" /\ ~attempt.waiting

List(w) ==
  /\ worker[w].pc = "idle" /\ Candidate
  /\ Goes(w, "listed")
  /\ UNCHANGED <<override, materialised, attribution, attempt, faults>>

Complete(w) ==
  /\ worker[w].pc = "complete"
  /\ attempt' = IF attempt.status = None THEN attempt
                ELSE [attempt EXCEPT !.status = "completed"]
  /\ Stop(w)
  /\ UNCHANGED <<override, materialised, attribution, faults>>

DatabaseFails(w) ==
  /\ worker[w].pc \in {"listed", "evaluate", "save", "complete"} /\ Fault
  /\ Goes(w, "failed")
  /\ UNCHANGED <<override, materialised, attribution, attempt>>

(* Whatever has become of the override meanwhile. *)
Counted(row) ==
  IF row.attempts + 1 >= MaxAttempts
  THEN [row EXCEPT !.status = "failed", !.attempts = @ + 1]
  ELSE [status |-> "retry", attempts |-> row.attempts + 1, waiting |-> TRUE]

CountFailure(w) ==
  /\ worker[w].pc = "failed" /\ attempt' = Counted(attempt)
  /\ Stop(w)
  /\ UNCHANGED <<override, materialised, attribution, faults>>

(* The count fails as well, which is ignored (two processes may insert its *)
(* first row); or the process dies.                                        *)
GivesUp(w) ==
  /\ worker[w].pc # "idle" /\ Fault
  /\ Stop(w)
  /\ UNCHANGED <<override, materialised, attribution, attempt>>

BackoffEnds ==
  /\ attempt.waiting /\ attempt' = [attempt EXCEPT !.waiting = FALSE]
  /\ UNCHANGED <<override, materialised, attribution, worker, faults>>

NextSession ==
  /\ ~materialised /\ materialised' = TRUE
  /\ UNCHANGED <<override, attribution, attempt, worker, faults>>

Continues(w) ==
  \/ Read(w) \/ \E bars \in Markets : Evaluate(w, bars)
  \/ EvidenceFails(w) \/ Save(w) \/ Complete(w) \/ CountFailure(w)

Next ==
  \/ BackoffEnds \/ NextSession
  \/ \E w \in Workers : List(w) \/ Continues(w) \/ DatabaseFails(w) \/ GivesUp(w)

Spec == Init /\ [][Next]_behavior

(* The scheduler starts the job every day, and a process that lives goes   *)
(* on.  That the session after the decision is materialised, or that its   *)
(* bars are ever complete, is not assumed.                                 *)
Fairness ==
  /\ WF_behavior(BackoffEnds)
  /\ \A w \in Workers : WF_behavior(List(w)) /\ WF_behavior(Continues(w))

FairSpec == Spec /\ Fairness
-----------------------------------------------------------------------------
(* What the fills make of an account, one after the other. *)
After(start, fills) ==
  FoldLeft(LAMBDA a, f : WithFill(a, f.code, f.side, f.qty, f.price),
           [cash |-> start.cash, held |-> start.held, fills |-> <<>>], fills)

(* A result follows from its fills: no fill borrows money or sells what    *)
(* was not held, takes more than the volume allows, or is on a side that   *)
(* the price limit blocks; and what was bought is not sold on the same day.*)
Explained(start, bars, result) ==
  /\ result = After(start, result.fills)
  /\ \A i \in DOMAIN result.fills :
       LET f    == result.fills[i]
           bar  == bars[f.code]
           left == After(start, SubSeq(result.fills, 1, i))
       IN  /\ left.cash >= 0 /\ left.held[f.code] >= 0
           /\ f.qty \in 1 .. bar.capacity /\ f.price \in bar.low .. bar.high
           /\ bar.open # (IF f.side = "sell" THEN bar.low ELSE bar.high)
           /\ f.side = "sell" => \A j \in 1 .. i - 1 : result.fills[j].code # f.code

(* Both sides of the comparison start from the account of the decision, at *)
(* the same prices, so that what was accepted makes no difference, and     *)
(* what was rejected buys nothing.                                         *)
Fair(o, row) ==
  /\ Explained(o.allocation, row.bars, row.strategy)
  /\ Explained(o.allocation, row.bars, row.human)
  /\ o.action = "accept" => row.human = row.strategy
  /\ o.action = "reject" => \A i \in DOMAIN row.human.fills : row.human.fills[i].side = "sell"

(* Whatever override a row of attribution belongs to, whatever the prices: *)
(* the comparison that it stands for is fair.                              *)
ComparisonsFair == \A bars \in attribution : Fair(override, Compared(override, bars))

(* An override whose day has come is in the end attributed, by a fair      *)
(* comparison that stands, or given up after repeated failures, although   *)
(* two processes evaluate it, die, or meet prices that are incomplete.     *)
OverridesSettled ==
  materialised ~> \/ attribution # {} /\ ComparisonsFair
                  \/ attempt.status = "failed" /\ attempt.attempts >= MaxAttempts
=============================================================================
