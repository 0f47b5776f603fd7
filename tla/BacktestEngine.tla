--------------------------- MODULE BacktestEngine ---------------------------
(***************************************************************************)
(* The matching of a backtest: the event loop of backtest/engines/native,  *)
(* which backtest/full_a and the Backtrader adapter repeat, over the       *)
(* account of backtest/broker.                                             *)
(*                                                                         *)
(* One action is one bar of the clock: settle_t1, execute_open with the    *)
(* intents of earlier bars, then the strategy's intents for later ones.    *)
(* The data of a bar, which instruments have one, which are eligible, and  *)
(* what the strategy wants are inputs.  A daily run has one bar a day and  *)
(* may filter the universe; a minute run has several bars a day and does   *)
(* not.                                                                    *)
(*                                                                         *)
(* Quantities are in lots of a hundred, prices are per lot.  What a bar    *)
(* says of an instrument is its opening and closing price, the sides its   *)
(* price limit blocks at the open, the slippage left of a fill after the   *)
(* limit clamps it, and its volume as the lots one order may take; that is *)
(* zero when the volume is missing.  order_shares, which no strategy of    *)
(* the catalogue calls, avg_cost, the equity curve and the list of fills   *)
(* are left out; of the fills the sums per instrument remain.              *)
(*                                                                         *)
(* KeepsIntents is a faulty variant of the definition after it; the        *)
(* specification does not use it.                                          *)
(***************************************************************************)
EXTENDS TradingRules, FiniteSets, SequencesExt

CONSTANTS
  Codes,     \* instruments
  Capital,   \* initial_capital
  Bars,      \* what a bar may say of an instrument
  Targets,   \* target weights, in percent
  MaxBars    \* bound: bars of the clock

VARIABLES
  daily,     \* the frequency: one bar a day
  capped,    \* max_participation < 1: the volume of a bar limits an order
  clock,     \* bars so far
  barAt,     \* for each instrument, the clock at its last bar
  price,     \* _last_price
  cash,
  position,  \* what is held, and how much of it may be sold
  pending,   \* the intents that wait for a bar
  filled     \* the lots that were bought or sold, ever

engine == <<daily, capped, clock, barAt, price, cash, position, pending, filled>>

Nothing == [c \in Codes |-> 0]
NoBar   == [open |-> 0]
Traded(bars) == {c \in Codes : bars[c] # NoBar}

EngineInit ==
  /\ daily \in BOOLEAN /\ capped \in BOOLEAN /\ clock = 0
  /\ barAt = Nothing /\ price = Nothing /\ cash = Capital
  /\ position = [c \in Codes |-> [qty |-> 0, available |-> 0]]
  /\ pending = <<>>
  /\ filled = Nothing
-----------------------------------------------------------------------------
(* settle_t1: on a new day everything held may be sold. *)
SettleT1(held, newDay) ==
  IF newDay THEN [c \in Codes |-> [held[c] EXCEPT !.available = held[c].qty]] ELSE held

(* execute_open: the account is worth its cash and its positions at their  *)
(* opening or else their last price; every waiting intent whose instrument *)
(* has a bar becomes an order for the lots that are missing to its target. *)
Worth(bars) ==
  cash + MapThenSumSet(LAMBDA c : position[c].qty *
                         (IF c \in Traded(bars) THEN bars[c].open ELSE price[c]), Codes)

Delta(intent, bars) ==
  (Worth(bars) * intent.target) \div (100 * bars[intent.code].open) - position[intent.code].qty

Due(bars) == {i \in DOMAIN pending : pending[i].code \in Traded(bars)}

(* Sales first, then the smaller purchases: there is one such order. *)
Orders(bars) ==
  LET delta(i) == Delta(pending[i], bars)
      before(i, j) == delta(i) < delta(j) \/ (delta(i) = delta(j) /\ i < j)
  IN  {order \in SetToSeqs({i \in Due(bars) : delta(i) # 0}) :
         \A i, j \in DOMAIN order : i < j => before(order[i], order[j])}

Smaller(a, b) == IF a < b THEN a ELSE b

(* _fill on the account a, which is [cash, held, filled] *)
Affordable(px, money) == (money * FeeUnit) \div (px * (FeeUnit + 1))

Bought(a, c, lots, bar) ==
  LET px  == bar.open + bar.slip
      qty == IF BuyTotal(px, lots) <= a.cash THEN lots ELSE Affordable(px, a.cash)
  IN  IF qty <= 0 THEN a
      ELSE [a EXCEPT !.cash = @ - BuyTotal(px, qty), !.held[c].qty = @ + qty,
                     !.filled[c] = @ + qty]

Sold(a, c, lots, bar) ==
  LET px  == bar.open - bar.slip
      qty == Smaller(lots, a.held[c].available)
  IN  IF qty <= 0 THEN a
      ELSE [a EXCEPT !.cash = @ + SellProceeds(px, qty), !.filled[c] = @ + qty,
                     !.held[c] = [qty |-> @.qty - qty, available |-> @.available - qty]]

Fill(a, intent, delta, bars) ==
  LET c       == intent.code
      bar     == bars[c]
      cut(n)  == IF capped THEN Smaller(n, intent.capacity) ELSE n
  IN  CASE delta > 0 /\ "buy" \notin bar.blocked  -> Bought(a, c, cut(delta), bar)
        [] delta < 0 /\ "sell" \notin bar.blocked -> Sold(a, c, cut(-delta), bar)
        [] OTHER -> a

ExecuteOpen(held, bars, order) ==
  FoldLeft(LAMBDA a, i : Fill(a, pending[i], Delta(pending[i], bars), bars),
           [cash |-> cash, held |-> held, filled |-> filled], order)

KeepsIntents(bars) == pending
Waiting(bars) ==
  FoldLeft(LAMBDA left, i : IF i.code \in Traded(bars) THEN left ELSE Append(left, i),
           <<>>, pending)

(* submit_target_percent, with the volume of this bar as its capacity *)
Intent(c, target, bars) ==
  [code |-> c, target |-> target, at |-> clock + 1,
   capacity |-> IF c \in Traded(bars) THEN bars[c].capacity ELSE 0]

(* What is held and no longer eligible is to be sold; the strategy orders  *)
(* what it likes among the eligible instruments with a bar.                *)
Intents(held, eligible, wanted, bars) ==
  LET exits == {c \in Codes \ eligible : held[c].qty > 0} IN
  [i \in 1 .. Cardinality(exits) |-> Intent(SetToSeq(exits)[i], 0, bars)]
    \o [i \in 1 .. Cardinality(DOMAIN wanted) |->
          LET c == SetToSeq(DOMAIN wanted)[i] IN Intent(c, wanted[c], bars)]

Step(bars, newDay, eligible, wanted) ==
  \E order \in Orders(bars) :
  LET after == ExecuteOpen(SettleT1(position, newDay), bars, order)
  IN  /\ clock < MaxBars /\ clock' = clock + 1
      /\ cash' = after.cash /\ position' = after.held /\ filled' = after.filled
      /\ pending' = Waiting(bars) \o Intents(after.held, eligible, wanted, bars)
      /\ price' = [c \in Codes |-> IF c \in Traded(bars) THEN bars[c].close ELSE price[c]]
      /\ barAt' = [c \in Codes |-> IF c \in Traded(bars) THEN clock + 1 ELSE barAt[c]]
      /\ UNCHANGED <<daily, capped>>

Wishes(codes) == UNION {[some -> Targets] : some \in SUBSET codes}

EngineNext ==
  \E bars \in [Codes -> Bars \cup {NoBar}] :
    \/ /\ daily
       /\ \E eligible \in SUBSET Codes : \E wanted \in Wishes(eligible \cap Traded(bars)) :
            Step(bars, clock > 0, eligible, wanted)
    \/ /\ ~daily /\ Traded(bars) # {}
       /\ \E newDay \in BOOLEAN, wanted \in Wishes(Traded(bars)) :
            Step(bars, newDay /\ clock > 0, Codes, wanted)

EngineSpec == EngineInit /\ [][EngineNext]_engine
-----------------------------------------------------------------------------
(* No intent outlives the next bar of its instrument, and none is filled    *)
(* twice: a fill answers an intent that waited since the instrument's last *)
(* bar (execute_open).                                                     *)
OnNextBar ==
  [][\A c \in Codes : filled'[c] # filled[c] =>
       \E i \in DOMAIN pending : pending[i].code = c /\ pending[i].at >= barAt[c]]_engine

(* Purchases are cut to what the cash pays for (broker.py:205).            *)
CashCovered == cash >= 0
=============================================================================
