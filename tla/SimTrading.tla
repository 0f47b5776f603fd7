----------------------------- MODULE SimTrading -----------------------------
(***************************************************************************)
(* The simulated A-share account of one user: services/trading.py with the *)
(* fees of services/trading_rules.py.                                      *)
(*                                                                         *)
(* Every write operation of the service locks the account row, settles the *)
(* account for the current market day, changes orders and positions, and   *)
(* commits; it is one atomic action here.  What remains concurrent is what *)
(* the row lock does not cover: the wall clock, which a transaction reads  *)
(* more than once, and the matcher, which lists pending orders without any *)
(* lock and works through that list later.                                 *)
(*                                                                         *)
(* Money and shares are natural numbers in a unit of the instance.  Orders *)
(* are rows with an id; a fresh row has status "unused".  A market order   *)
(* is one without a limit price.  avg_cost, names and pushed messages are  *)
(* left out.  Position rows are never deleted, so a missing row is one of  *)
(* zero shares.                                                            *)
(*                                                                         *)
(* StaleADayLate and WholePositionCounts are faulty variants of the        *)
(* definition after each of them; the specification does not use them.     *)
(***************************************************************************)
EXTENDS Integers, FiniteSets, Total, TradingRules

CONSTANTS
  Codes,          \* instruments
  OrderIds,       \* ids of the orders ever placed: a bound of the instance
  Matchers,       \* matcher jobs: one per live worker process
  Prices,         \* positive prices an instrument may have
  Quantities,     \* whole-lot order sizes
  InitialCash,    \* INITIAL_CASH
  MaxDay,         \* bound of the clock
  SpansMidnight   \* TRUE: midnight may fall inside place_order

ASSUME SetsAssumption ==
  /\ IsFiniteSet(OrderIds)
  /\ Codes # {} /\ Quantities # {}
  /\ Prices \subseteq Nat \ {0}
  /\ Quantities \subseteq Nat \ {0}
ASSUME MoneyAssumption ==
  /\ InitialCash \in Nat /\ MinFee \in Nat
  /\ FeeUnit \in Nat \ {0} /\ TaxUnit \in Nat \ {0}
ASSUME ClockAssumption == MaxDay \in Nat /\ SpansMidnight \in BOOLEAN
(* A sale pays for its own fees: true of one lot from 0.06 yuan a share.   *)
ASSUME ProceedsAssumption ==
  \A px \in Prices, qty \in Quantities : SellProceeds(px, qty) >= 0

VARIABLES
  day,    \* market_today(): the Shanghai calendar date, from 1
  book,   \* the committed rows of the account
  queue   \* for each matcher, the listed orders it has still to try

vars == <<day, book, queue>>

Market == 0                         \* limit price of a market order (None)
Statuses == {"unused", "pending", "filled", "rejected", "cancelled"}
Sides == {"buy", "sell"}

Orders == [status : Statuses, side : Sides, code : Codes,
           limit : Prices \cup {Market}, qty : Quantities, frozen : Nat,
           tradeDate : Nat, fillPx : Nat, filledOn : Nat]

Books == [cash : Nat, frozenCash : Nat, lastSettle : Nat,
          qty : [Codes -> Nat], avail : [Codes -> Nat],
          orders : [OrderIds -> Orders]]

(* A quote: no executable snapshot (px = 0), or a price and the sides the  *)
(* daily price limits (or a missing previous close) keep from trading.     *)
NoQuote == [px |-> 0, blocked |-> {}]
Quotes  == {NoQuote} \cup [px : Prices, blocked : SUBSET Sides]

Pending(b) == {o \in OrderIds : b.orders[o].status = "pending"}
Frozen(b)  == [o \in OrderIds |-> b.orders[o].frozen]
-----------------------------------------------------------------------------
(* What an operation does to the rows it holds locked. *)

SetStatus(b, o, status) == [b EXCEPT !.orders[o].status = status]

StaleADayLate(order, today) == order.tradeDate + 1 < today
IsStaleDayOrder(order, today) == order.tradeDate < today

(* _settle: once per day, cancel the pending orders of earlier days with   *)
(* their frozen cash, and make all shares available.                       *)
Settled(b, today) ==
  LET stale    == {o \in Pending(b) : IsStaleDayOrder(b.orders[o], today)}
      released == Total(Frozen(b), stale)
  IN  IF b.lastSettle = today THEN b
      ELSE [b EXCEPT
              !.cash       = @ + released,
              !.frozenCash = @ - released,
              !.avail      = b.qty,
              !.lastSettle = today,
              !.orders     = [o \in OrderIds |->
                 IF o \in stale
                 THEN [b.orders[o] EXCEPT !.status = "cancelled", !.frozen = 0]
                 ELSE b.orders[o]]]

(* The guards of _fill and _freeze_pending: free cash, available shares.   *)
ShortOfCash(b, total) == b.cash < total

WholePositionCounts(b, c, n) == b.qty[c] < n
ShortOfShares(b, c, n) == b.avail[c] < n

Executed(b, o, px, today) ==
  [b EXCEPT !.orders[o].status = "filled", !.orders[o].fillPx = px,
            !.orders[o].filledOn = today]

FillBuy(b, o, px, today) ==
  LET order == b.orders[o]
      total == BuyTotal(px, order.qty)
  IN  IF ShortOfCash(b, total) THEN SetStatus(b, o, "rejected")
      ELSE Executed([b EXCEPT !.cash = @ - total, !.qty[order.code] = @ + order.qty],
                    o, px, today)

(* A sale is clipped at an empty position, and takes from the available    *)
(* shares only what no pending order has already taken.                    *)
FillSell(b, o, px, fromPending, today) ==
  LET order == b.orders[o]
      c     == order.code
      left  == IF b.qty[c] <= order.qty THEN 0 ELSE b.qty[c] - order.qty
  IN  IF ~fromPending /\ ShortOfShares(b, c, order.qty) THEN SetStatus(b, o, "rejected")
      ELSE Executed([b EXCEPT !.cash = @ + SellProceeds(px, order.qty),
                              !.qty[c] = left,
                              !.avail[c] = IF fromPending THEN @ ELSE @ - order.qty],
                    o, px, today)

Fill(b, o, px, fromPending, today) ==
  IF b.orders[o].side = "buy" THEN FillBuy(b, o, px, today)
  ELSE FillSell(b, o, px, fromPending, today)

FreezeAmount(limit, qty) == BuyTotal(limit, qty)

(* _freeze_pending: a waiting buy holds cash, a waiting sell holds shares. *)
FreezePending(b, o) ==
  LET order  == b.orders[o]
      frozen == FreezeAmount(order.limit, order.qty)
  IN  IF order.side = "buy"
      THEN IF ShortOfCash(b, frozen) THEN SetStatus(b, o, "rejected")
           ELSE [b EXCEPT !.cash = @ - frozen, !.frozenCash = @ + frozen,
                          !.orders[o].frozen = frozen]
      ELSE IF ShortOfShares(b, order.code, order.qty) THEN SetStatus(b, o, "rejected")
           ELSE [b EXCEPT !.avail[order.code] = @ - order.qty]

(* Give back the cash a pending buy holds. *)
Released(b, o) ==
  [b EXCEPT !.cash = @ + b.orders[o].frozen, !.frozenCash = @ - b.orders[o].frozen,
            !.orders[o].frozen = 0]

Cancelled(b, o) ==
  LET order == b.orders[o]
      freed == IF order.side = "buy" THEN Released(b, o)
               ELSE [b EXCEPT !.avail[order.code] = @ + order.qty]
  IN  SetStatus(freed, o, "cancelled")

Crosses(side, px, limit) == IF side = "buy" THEN px <= limit ELSE px >= limit

(* min(px, limit) for a buy, max(px, limit) for a sell. *)
FillPrice(side, px, limit) ==
  IF limit = Market \/ Crosses(side, px, limit) THEN px ELSE limit

NewOrder(side, code, limit, qty, tradeDate) ==
  [status |-> "pending", side |-> side, code |-> code, limit |-> limit, qty |-> qty,
   frozen |-> 0, tradeDate |-> tradeDate, fillPx |-> 0, filledOn |-> 0]

UnusedOrder ==
  [NewOrder("buy", CHOOSE c \in Codes : TRUE, Market, CHOOSE q \in Quantities : TRUE, 0)
     EXCEPT !.status = "unused"]

(* place_order after its settlement: a market order fills or is rejected,  *)
(* a limit order fills if the quote crosses it and otherwise waits.        *)
Placed(b, o, order, quote, today) ==
  LET added    == [b EXCEPT !.orders[o] = order]
      tradable == quote.px # 0 /\ order.side \notin quote.blocked
  IN  IF tradable /\ (order.limit = Market \/ Crosses(order.side, quote.px, order.limit))
      THEN Fill(added, o, FillPrice(order.side, quote.px, order.limit), FALSE, today)
      ELSE IF order.limit = Market THEN SetStatus(added, o, "rejected")
      ELSE FreezePending(added, o)

(* _try_match_pending_order.  A pass that finds no executable price, or a  *)
(* price short of the limit, ends without commit and loses its settlement; *)
(* one that finds the order gone or its side blocked commits it.           *)
Matched(b, o, quote, today) ==
  LET s     == Settled(b, today)
      order == s.orders[o]
      px    == FillPrice(order.side, quote.px, order.limit)
  IN  IF order.status # "pending" THEN s
      ELSE IF quote.px = 0 THEN b
      ELSE IF order.side \in quote.blocked THEN s
      ELSE IF ~Crosses(order.side, quote.px, order.limit) THEN b
      ELSE IF order.side = "buy" THEN Fill(Released(s, o), o, px, TRUE, today)
      ELSE Fill(s, o, px, TRUE, today)
-----------------------------------------------------------------------------
Init ==
  /\ day = 1
  /\ queue = [m \in Matchers |-> {}]
  /\ book = [cash |-> InitialCash, frozenCash |-> 0, lastSettle |-> 0,
             qty |-> [c \in Codes |-> 0], avail |-> [c \in Codes |-> 0],
             orders |-> [o \in OrderIds |-> UnusedOrder]]

(* place_order reads the date first to settle and again for the order's    *)
(* trade_date; the market is closed at midnight, so a placement that spans *)
(* it finds no executable quote.                                           *)
PlaceOrder(o) ==
  \E side \in Sides, code \in Codes, limit \in Prices \cup {Market}, qty \in Quantities,
     quote \in Quotes, later \in (IF SpansMidnight THEN {day, day + 1} ELSE {day}) :
    /\ book.orders[o].status = "unused"
    /\ later <= MaxDay
    /\ later # day => quote = NoQuote
    /\ book' = Placed(Settled(book, day), o, NewOrder(side, code, limit, qty, later),
                      quote, later)
    /\ day' = later
    /\ UNCHANGED queue

(* cancel_order does not settle. *)
CancelOrder(o) ==
  /\ book.orders[o].status = "pending"
  /\ book' = Cancelled(book, o)
  /\ UNCHANGED <<day, queue>>

(* settle_all_accounts, and the settlement of get_account / get_positions. *)
SettleAccount ==
  /\ book.lastSettle # day
  /\ book' = Settled(book, day)
  /\ UNCHANGED <<day, queue>>

(* try_match_pending lists the pending orders without a lock ... *)
ListPending(m) ==
  /\ queue[m] = {}
  /\ Pending(book) # {}
  /\ queue' = [queue EXCEPT ![m] = Pending(book)]
  /\ UNCHANGED <<day, book>>

(* ... and tries them one transaction at a time. *)
MatchOne(m, o) ==
  /\ o \in queue[m]
  /\ \E quote \in Quotes : book' = Matched(book, o, quote, day)
  /\ queue' = [queue EXCEPT ![m] = @ \ {o}]
  /\ UNCHANGED day

NextDay ==
  /\ day < MaxDay
  /\ day' = day + 1
  /\ UNCHANGED <<book, queue>>

Next ==
  \/ \E o \in OrderIds : PlaceOrder(o) \/ CancelOrder(o)
  \/ \E m \in Matchers : ListPending(m) \/ \E o \in OrderIds : MatchOne(m, o)
  \/ SettleAccount
  \/ NextDay

Spec == Init /\ [][Next]_vars

(* The clock runs and the daily settlement job runs every day. *)
FairSpec == Spec /\ WF_vars(NextDay) /\ WF_vars(SettleAccount)
-----------------------------------------------------------------------------
(* Types; in particular no operation overdraws cash, frozen cash or shares *)
(* (the guards of _fill and _freeze_pending are enough).                   *)
TypeOK ==
  /\ day \in Nat \ {0}
  /\ book \in Books
  /\ queue \in [Matchers -> SUBSET OrderIds]

(* The shares that pending sells of c hold, order by order. *)
Held(b, c) ==
  [o \in OrderIds |-> IF /\ b.orders[o].status = "pending"
                         /\ b.orders[o].side = "sell" /\ b.orders[o].code = c
                      THEN b.orders[o].qty ELSE 0]

(* The trades of c on one side, up to day d, in shares. *)
Traded(b, side, c, d) ==
  [o \in OrderIds |-> IF /\ b.orders[o].status = "filled" /\ b.orders[o].filledOn <= d
                         /\ b.orders[o].side = side /\ b.orders[o].code = c
                      THEN b.orders[o].qty ELSE 0]

(* What the trades of one side cost, or brought, in money. *)
Paid(b) ==
  [o \in OrderIds |-> IF b.orders[o].status = "filled" /\ b.orders[o].side = "buy"
                      THEN BuyTotal(b.orders[o].fillPx, b.orders[o].qty) ELSE 0]
Earned(b) ==
  [o \in OrderIds |-> IF b.orders[o].status = "filled" /\ b.orders[o].side = "sell"
                      THEN SellProceeds(b.orders[o].fillPx, b.orders[o].qty) ELSE 0]

(* The shares an account may still sell and those its pending sells hold   *)
(* never exceed its position: one share is promised to at most one sale.   *)
SharesReserved ==
  \A c \in Codes : book.avail[c] + Total(Held(book, c), OrderIds) <= book.qty[c]

(* The account's frozen cash is what its pending buys hold, each its limit *)
(* amount with commission, and no other order holds any: release by cancel,*)
(* settlement and match never lose or repeat an amount.                    *)
FrozenCashMatchesOrders ==
  /\ book.frozenCash = Total(Frozen(book), OrderIds)
  /\ \A o \in OrderIds :
       book.orders[o].frozen =
         IF o \in Pending(book) /\ book.orders[o].side = "buy"
         THEN BuyTotal(book.orders[o].limit, book.orders[o].qty) ELSE 0

(* Every pending order is backed by what it may need, and by nothing that  *)
(* is promised elsewhere.                                                  *)
OrdersBacked == SharesReserved /\ FrozenCashMatchesOrders

(* The trades account for everything.  Money is conserved: cash, frozen    *)
(* and free, is the initial cash less the cost of the bought trades plus   *)
(* the proceeds of the sold ones.  T+1: the shares sold up to any day were *)
(* bought before that day.                                                 *)
BooksBalance ==
  /\ book.cash + book.frozenCash + Total(Paid(book), OrderIds)
       = InitialCash + Total(Earned(book), OrderIds)
  /\ \A c \in Codes, d \in 1 .. day :
       Total(Traded(book, "sell", c, d), OrderIds)
         <= Total(Traded(book, "buy", c, d - 1), OrderIds)

(* A DAY order fills on its own trade date or never, however old the list  *)
(* the matcher works from.                                                 *)
NoOvernightFill ==
  \A o \in OrderIds :
    book.orders[o].status = "filled" => book.orders[o].filledOn = book.orders[o].tradeDate

(* A waiting order is never rejected: what it froze pays for its fill at   *)
(* any price that crosses its limit.                                       *)
PendingNeverRejected ==
  [][\A o \in Pending(book) : book'.orders[o].status # "rejected"]_vars

(* An order ends: pending orders of a day that is over leave the book. *)
OvernightOrdersEnd ==
  \A o \in OrderIds :
    (o \in Pending(book) /\ book.orders[o].tradeDate < MaxDay) ~> (o \notin Pending(book))
=============================================================================
