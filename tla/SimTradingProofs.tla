-------------------------- MODULE SimTradingProofs --------------------------
(***************************************************************************)
(* What holds of a simulated account for every set of instruments, prices, *)
(* order sizes, order ids and days.                                        *)
(*                                                                         *)
(* Each operation of the service is a function on the book, so the         *)
(* invariants are predicates on a book, there is one lemma per function,   *)
(* and the proof that a step keeps an invariant composes those lemmas.     *)
(* Inside an operation one order is in transit: it is pending but what it  *)
(* should hold is not held yet, or no longer.  Loose(b, o) says that of o  *)
(* and keeps the invariant for all other orders.                           *)
(*                                                                         *)
(* The second part is about shares.  What pending sells hold, with what    *)
(* may still be sold, never exceeds the position, as long as no placement  *)
(* spans midnight.  The invariant that makes it inductive is on dates:     *)
(* every pending order is of the day of the last settlement, so that a     *)
(* settlement on a later day cancels all of them before it makes the whole *)
(* position available.                                                     *)
(*                                                                         *)
(* The third part is about trades.  Each operation leaves them alone or    *)
(* adds one (Effect); the money and the shares the trades account for are  *)
(* sums over the orders, so that an added trade changes them by its own    *)
(* part.  T+1 follows because what may be sold was bought before the       *)
(* settled day, and no trade of that day adds to it.                       *)
(***************************************************************************)
EXTENDS SimTrading, FiniteSetTheorems, TLAPS

(* Laws of Total: it is a natural number, it splits over a partition, it   *)
(* depends only on the values of f on S, and it is zero where f is zero.   *)

(* The units at one point are as many as f counts there. *)
LEMMA UnitsAtPoint ==
  ASSUME NEW x, NEW n \in Nat
  PROVE  /\ IsFiniteSet({x} \X (1 .. n))
         /\ Cardinality({x} \X (1 .. n)) = n
<1>1. IsFiniteSet({x}) /\ Cardinality({x}) = 1
  BY FS_Singleton
<1>2. IsFiniteSet(1 .. n) /\ Cardinality(1 .. n) = n
  BY FS_Interval
<1>3. /\ IsFiniteSet({x} \X (1 .. n))
      /\ Cardinality({x} \X (1 .. n)) = Cardinality({x}) * Cardinality(1 .. n)
  <2>1. QED
    BY <1>1, <1>2, FS_Product, Zenon
<1>4. QED
  BY <1>1, <1>2, <1>3

(* The units of a finite set form a finite set, so that Total is a Nat. *)
LEMMA TotalType ==
  ASSUME NEW S, IsFiniteSet(S), NEW f, \A x \in S : f[x] \in Nat
  PROVE  IsFiniteSet(Units(f, S)) /\ Total(f, S) \in Nat
<1> DEFINE Parts == {{x} \X (1 .. f[x]) : x \in S}
           part  == [x \in S |-> {x} \X (1 .. f[x])]
<1>1. IsFiniteSet(Parts)
  <2>1. part \in Surjection(S, Parts)
    BY DEF Surjection
  <2>2. QED
    BY <2>1, FS_Surjection
<1>2. ASSUME NEW P \in Parts
      PROVE  IsFiniteSet(P)
  <2>1. PICK x \in S : P = {x} \X (1 .. f[x])
    OBVIOUS
  <2>2. f[x] \in Nat
    OBVIOUS
  <2>3. IsFiniteSet({x} \X (1 .. f[x]))
    BY <2>2, UnitsAtPoint
  <2>4. QED
    BY <2>1, <2>3
<1> HIDE DEF Parts
<1>3. IsFiniteSet(UNION Parts)
  BY <1>1, <1>2, FS_UNION
<1>4. Units(f, S) = UNION Parts
  BY DEF Units, Parts
<1>5. QED
  BY <1>3, <1>4, FS_CardinalityType DEF Total

(* Total depends only on the values of f on S. *)
LEMMA TotalSame ==
  ASSUME NEW S, NEW f, NEW g, \A x \in S : f[x] = g[x]
  PROVE  Total(f, S) = Total(g, S)
<1>1. {{x} \X (1 .. f[x]) : x \in S} = {{x} \X (1 .. g[x]) : x \in S}
  OBVIOUS
<1>2. QED
  BY <1>1 DEF Total, Units

(* Total splits over two disjoint sets. *)
LEMMA TotalUnion ==
  ASSUME NEW S, NEW T, IsFiniteSet(S), IsFiniteSet(T), S \cap T = {},
         NEW f, \A x \in S \cup T : f[x] \in Nat
  PROVE  Total(f, S \cup T) = Total(f, S) + Total(f, T)
<1>1. IsFiniteSet(Units(f, S)) /\ IsFiniteSet(Units(f, T))
  BY TotalType
<1>2. Units(f, S \cup T) = Units(f, S) \cup Units(f, T)
  BY DEF Units
<1>3. Units(f, S) \cap Units(f, T) = {}
  BY DEF Units
<1>4. Cardinality(Units(f, S) \cap Units(f, T)) = 0
  BY <1>3, FS_EmptySet
<1>5. Cardinality(Units(f, S)) \in Nat /\ Cardinality(Units(f, T)) \in Nat
  BY <1>1, FS_CardinalityType
<1>6. Cardinality(Units(f, S) \cup Units(f, T))
        = Cardinality(Units(f, S)) + Cardinality(Units(f, T))
            - Cardinality(Units(f, S) \cap Units(f, T))
  BY <1>1, FS_Union, Zenon
<1>7. Total(f, S) \in Nat /\ Total(f, T) \in Nat
  BY <1>5 DEF Total
<1>8. Total(f, S \cup T) = Total(f, S) + Total(f, T) - 0
  BY <1>2, <1>4, <1>6, Zenon DEF Total
<1>9. QED
  BY <1>7, <1>8

(* A zero function has a zero Total. *)
LEMMA TotalZero ==
  ASSUME NEW S, NEW f, \A x \in S : f[x] = 0
  PROVE  Total(f, S) = 0
<1>1. \A x \in S : 1 .. f[x] = {}
  OBVIOUS
<1>2. Units(f, S) = {}
  BY <1>1 DEF Units
<1>3. QED
  BY <1>2, FS_EmptySet DEF Total

(* Total over S is the value at a point of S plus Total over the rest. *)
LEMMA TotalSplit ==
  ASSUME NEW S, IsFiniteSet(S), NEW a \in S, NEW f, \A x \in S : f[x] \in Nat
  PROVE  /\ Total(f, S) = f[a] + Total(f, S \ {a})
         /\ Total(f, S \ {a}) \in Nat
<1>1. IsFiniteSet({a}) /\ IsFiniteSet(S \ {a})
  BY FS_Singleton, FS_Subset
<1>2. {a} \cup (S \ {a}) = S /\ {a} \cap (S \ {a}) = {}
  OBVIOUS
<1>3. Total(f, S) = Total(f, {a}) + Total(f, S \ {a})
  <2>1. \A x \in {a} \cup (S \ {a}) : f[x] \in Nat
    OBVIOUS
  <2>2. Total(f, {a} \cup (S \ {a})) = Total(f, {a}) + Total(f, S \ {a})
    BY <1>1, <1>2, <2>1, TotalUnion
  <2>3. QED
    BY <2>2, <1>2
<1>4. Units(f, {a}) = {a} \X (1 .. f[a])
  BY DEF Units
<1>5. Total(f, {a}) = f[a]
  BY <1>4, UnitsAtPoint DEF Total
<1>6. Total(f, S \ {a}) \in Nat
  BY <1>1, TotalType
<1>7. QED
  BY <1>3, <1>5, <1>6

(* Changing f at one point of S changes Total by the difference there. *)
LEMMA TotalUpdate ==
  ASSUME NEW S, IsFiniteSet(S), NEW a \in S, NEW f, NEW g,
         \A x \in S : f[x] \in Nat /\ g[x] \in Nat,
         \A x \in S \ {a} : f[x] = g[x]
  PROVE  /\ Total(g, S) + f[a] = Total(f, S) + g[a]
         /\ f[a] <= Total(f, S)
         /\ Total(f, S) \in Nat /\ Total(g, S) \in Nat
<1>1. Total(f, S) = f[a] + Total(f, S \ {a}) /\ Total(f, S \ {a}) \in Nat
  BY TotalSplit
<1>2. Total(g, S) = g[a] + Total(g, S \ {a}) /\ Total(g, S \ {a}) \in Nat
  BY TotalSplit
<1>3. Total(f, S \ {a}) = Total(g, S \ {a})
  BY TotalSame
<1>4. QED
  BY <1>1, <1>2, <1>3
-----------------------------------------------------------------------------

(* The frozen cash an order must have. *)
FrozenRule(b, o) ==
  b.orders[o].frozen =
    IF b.orders[o].status = "pending" /\ b.orders[o].side = "buy"
    THEN BuyTotal(b.orders[o].limit, b.orders[o].qty) ELSE 0

BookInv(b) ==
  /\ b \in Books
  /\ b.frozenCash = Total(Frozen(b), OrderIds)
  /\ \A o \in OrderIds : FrozenRule(b, o)
  /\ \A o \in OrderIds : b.orders[o].status = "pending" => b.orders[o].limit # Market

Loose(b, o) ==
  /\ b \in Books
  /\ b.frozenCash = Total(Frozen(b), OrderIds)
  /\ b.orders[o].status = "pending" /\ b.orders[o].frozen = 0
  /\ \A p \in OrderIds \ {o} : FrozenRule(b, p)
  /\ \A p \in OrderIds \ {o} : b.orders[p].status = "pending" => b.orders[p].limit # Market
-----------------------------------------------------------------------------
(* Rounding is monotone. *)
LEMMA RoundDivMonotone ==
  ASSUME NEW n \in Nat \ {0}, NEW a \in Nat, NEW b \in Nat, a <= b
  PROVE  /\ RoundDiv(a, n) \in Nat
         /\ RoundDiv(a, n) <= RoundDiv(b, n)
<1> DEFINE x == 2 * a + n
           y == 2 * b + n
           k == 2 * n
<1>1. x \in Nat /\ y \in Nat /\ k \in Nat \ {0} /\ x <= y
  OBVIOUS
<1> HIDE DEF x, y, k
<1>2. x \div k \in Nat /\ y \div k \in Nat
  BY <1>1
<1>3. x \div k <= y \div k
  BY <1>1
<1>4. QED
  BY <1>2, <1>3 DEF RoundDiv, x, y, k

(* A buy costs no more at a lower price. *)
LEMMA BuyTotalMonotone ==
  ASSUME NEW p \in Nat, NEW q \in Nat, NEW n \in Nat, p <= q
  PROVE  /\ BuyTotal(p, n) \in Nat
         /\ BuyTotal(p, n) <= BuyTotal(q, n)
<1> DEFINE x == p * n
           y == q * n
<1>1. x \in Nat /\ y \in Nat /\ x <= y
  OBVIOUS
<1> HIDE DEF x, y
<1>2. /\ RoundDiv(x, FeeUnit) \in Nat
      /\ RoundDiv(y, FeeUnit) \in Nat
      /\ RoundDiv(x, FeeUnit) <= RoundDiv(y, FeeUnit)
  BY <1>1, RoundDivMonotone, MoneyAssumption
<1>3. /\ Commission(x) \in Nat /\ Commission(y) \in Nat
      /\ Commission(x) <= Commission(y)
  BY <1>2, MoneyAssumption DEF Commission
<1>4. x + Commission(x) \in Nat /\ x + Commission(x) <= y + Commission(y)
  BY <1>1, <1>3
<1>5. BuyTotal(p, n) = x + Commission(x) /\ BuyTotal(q, n) = y + Commission(y)
  BY DEF BuyTotal, x, y
<1>6. QED
  BY <1>4, <1>5

LEMMA BuyTotalType ==
  ASSUME NEW p \in Nat, NEW n \in Nat
  PROVE  BuyTotal(p, n) \in Nat
BY BuyTotalMonotone

(* What a sale brings is a natural number. *)
LEMMA SellProceedsType ==
  ASSUME NEW p \in Prices, NEW n \in Quantities
  PROVE  SellProceeds(p, n) \in Nat
<1> DEFINE x == p * n
<1>1. x \in Nat
  BY SetsAssumption
<1> HIDE DEF x
<1>2. RoundDiv(x, FeeUnit) \in Nat /\ RoundDiv(x, TaxUnit) \in Nat
  BY <1>1, RoundDivMonotone, MoneyAssumption
<1>3. Commission(x) \in Nat /\ StampTax(x) \in Nat
  BY <1>2, MoneyAssumption DEF Commission, StampTax
<1>4. SellProceeds(p, n) \in Int
  BY <1>1, <1>3 DEF SellProceeds, x
<1>5. QED
  BY <1>4, ProceedsAssumption
-----------------------------------------------------------------------------
(* SetStatus changes one field of one order and keeps the types. *)
LEMMA SetStatusBooks ==
  ASSUME NEW b \in Books, NEW o \in OrderIds, NEW s \in Statuses
  PROVE  /\ SetStatus(b, o, s) \in Books
         /\ SetStatus(b, o, s)
              = [b EXCEPT !.orders = [b.orders EXCEPT ![o] = [b.orders[o] EXCEPT !.status = s]]]
<1> DEFINE x == [b.orders EXCEPT ![o] = [b.orders[o] EXCEPT !.status = s]]
<1>1. b.orders \in [OrderIds -> Orders]
  BY DEF Books
<1>2. x \in [OrderIds -> Orders]
  BY <1>1 DEF Orders
<1>3. SetStatus(b, o, s) = [b EXCEPT !.orders = x]
  BY DEF SetStatus
<1> HIDE DEF x
<1>4. [b EXCEPT !.orders = x] \in Books
  BY <1>2 DEF Books
<1>5. QED
  BY <1>3, <1>4 DEF x

(* An order in transit that ends without holding anything. *)
LEMMA SetStatusLoose ==
  ASSUME NEW b, NEW o \in OrderIds, Loose(b, o), NEW s \in Statuses \ {"pending"}
  PROVE  BookInv(SetStatus(b, o, s))
<1> DEFINE r == SetStatus(b, o, s)
<1>1. r \in Books
  <2>1. b \in Books /\ s \in Statuses
    BY DEF Loose
  <2>2. QED
    BY <2>1, SetStatusBooks
<1>2. r.frozenCash = b.frozenCash /\ Frozen(r) = Frozen(b)
  BY DEF Loose, SetStatus, Books, Orders, Frozen
<1>3. \A p \in OrderIds \ {o} : r.orders[p] = b.orders[p]
  BY DEF Loose, SetStatus, Books, Orders
<1>4. r.orders[o].status # "pending" /\ r.orders[o].frozen = 0
  BY DEF Loose, SetStatus, Books, Orders, Statuses
<1> HIDE DEF r
<1>5. BookInv(r)
  BY <1>1, <1>2, <1>3, <1>4 DEF Loose, BookInv, FrozenRule
<1>6. QED
  BY <1>5 DEF r

(* Giving back its frozen cash puts a pending buy in transit. *)
LEMMA ReleasedLoose ==
  ASSUME NEW b, NEW o \in OrderIds, BookInv(b), b.orders[o].status = "pending"
  PROVE  /\ Loose(Released(b, o), o)
         /\ Released(b, o).cash = b.cash + b.orders[o].frozen
         /\ \A p \in OrderIds \ {o} : Released(b, o).orders[p] = b.orders[p]
         /\ Released(b, o).orders[o] = [b.orders[o] EXCEPT !.frozen = 0]
         /\ Released(b, o).qty = b.qty /\ Released(b, o).avail = b.avail
         /\ Released(b, o).lastSettle = b.lastSettle
<1> DEFINE r == Released(b, o)
<1>1. b \in Books /\ b.orders \in [OrderIds -> Orders] /\ b.orders[o] \in Orders
  BY DEF BookInv, Books
<1>2. /\ r.cash = b.cash + b.orders[o].frozen
      /\ r.frozenCash = b.frozenCash - b.orders[o].frozen
      /\ r.orders = [b.orders EXCEPT ![o].frozen = 0]
      /\ r.qty = b.qty /\ r.avail = b.avail /\ r.lastSettle = b.lastSettle
  BY <1>1 DEF Released, Books
<1>3. \A p \in OrderIds : Frozen(b)[p] \in Nat /\ Frozen(r)[p] \in Nat
  BY <1>1, <1>2 DEF Frozen, Orders
<1>4. Frozen(r)[o] = 0 /\ \A p \in OrderIds \ {o} : Frozen(b)[p] = Frozen(r)[p]
  BY <1>1, <1>2 DEF Frozen, Orders
<1>5. /\ Total(Frozen(r), OrderIds) + Frozen(b)[o] = Total(Frozen(b), OrderIds) + 0
      /\ Frozen(b)[o] <= Total(Frozen(b), OrderIds)
      /\ Total(Frozen(b), OrderIds) \in Nat /\ Total(Frozen(r), OrderIds) \in Nat
  <2>1. \A p \in OrderIds : Frozen(b)[p] \in Nat /\ Frozen(r)[p] \in Nat
    BY <1>3
  <2>2. QED
    BY <1>3, <1>4, TotalUpdate, SetsAssumption
<1>6. Frozen(b)[o] = b.orders[o].frozen /\ b.orders[o].frozen \in Nat
  BY <1>1 DEF Frozen, Orders
<1>7. r.frozenCash = Total(Frozen(r), OrderIds) /\ r.frozenCash \in Nat
  BY <1>2, <1>5, <1>6 DEF BookInv
<1>8. r.orders \in [OrderIds -> Orders]
  BY <1>1, <1>2 DEF Orders
<1>9. r \in Books
  <2>1. r.cash \in Nat
    BY <1>1, <1>2, <1>6 DEF Books
  <2>2. r = [b EXCEPT !.cash = r.cash, !.frozenCash = r.frozenCash, !.orders = r.orders]
    BY <1>1, <1>2 DEF Released, Books
  <2> HIDE DEF r
  <2>3. QED
    BY <1>1, <1>7, <1>8, <2>1, <2>2 DEF Books
<1>10. \A p \in OrderIds \ {o} : r.orders[p] = b.orders[p]
  BY <1>1, <1>2
<1>11. r.orders[o] = [b.orders[o] EXCEPT !.frozen = 0]
  BY <1>1, <1>2
<1>12. r.orders[o].status = "pending" /\ r.orders[o].frozen = 0
  BY <1>1, <1>11 DEF Orders
<1> HIDE DEF r
<1>13. Loose(r, o)
  BY <1>7, <1>9, <1>10, <1>12 DEF Loose, BookInv, FrozenRule
<1>14. QED
  BY <1>2, <1>10, <1>11, <1>13 DEF r

(* Recording the trade ends the transit: a filled order holds nothing. *)
LEMMA ExecutedLoose ==
  ASSUME NEW b, NEW o \in OrderIds, Loose(b, o), NEW px \in Nat, NEW today \in Nat
  PROVE  /\ BookInv(Executed(b, o, px, today))
         /\ Executed(b, o, px, today)
              = [b EXCEPT !.orders = [b.orders EXCEPT ![o] =
                   [b.orders[o] EXCEPT !.status = "filled", !.fillPx = px, !.filledOn = today]]]
<1> DEFINE order == [b.orders[o] EXCEPT !.status = "filled", !.fillPx = px, !.filledOn = today]
           x == [b.orders EXCEPT ![o] = order]
           r == [b EXCEPT !.orders = x]
<1>1. b \in Books /\ b.orders \in [OrderIds -> Orders] /\ b.orders[o] \in Orders
  BY DEF Loose, Books
<1>2. order \in Orders /\ order.status = "filled" /\ order.frozen = 0
  BY <1>1 DEF Orders, Statuses, Loose
<1>3. Executed(b, o, px, today) = r
  BY <1>1 DEF Executed, Books, Orders
<1> HIDE DEF order
<1>4. x \in [OrderIds -> Orders] /\ x[o] = order /\ \A p \in OrderIds \ {o} : x[p] = b.orders[p]
  BY <1>1, <1>2
<1> HIDE DEF x
<1>5. r \in Books /\ r.orders = x /\ r.frozenCash = b.frozenCash
  BY <1>1, <1>4 DEF Books
<1> HIDE DEF r
<1>6. Frozen(r) = Frozen(b)
  BY <1>2, <1>4, <1>5 DEF Frozen, Loose
<1>7. BookInv(r)
  BY <1>2, <1>4, <1>5, <1>6 DEF Loose, BookInv, FrozenRule
<1>8. QED
  BY <1>3, <1>7 DEF r, x, order

(* Cash and shares may change while an order is in transit. *)
LEMMA SharesLoose ==
  ASSUME NEW b, NEW o \in OrderIds, Loose(b, o), NEW k \in Nat,
         NEW q \in [Codes -> Nat], NEW a \in [Codes -> Nat]
  PROVE  Loose([b EXCEPT !.cash = k, !.qty = q, !.avail = a], o)
<1> DEFINE r == [b EXCEPT !.cash = k, !.qty = q, !.avail = a]
<1>1. r \in Books /\ r.orders = b.orders /\ r.frozenCash = b.frozenCash
  BY DEF Loose, Books
<1> HIDE DEF r
<1>2. Frozen(r) = Frozen(b)
  BY <1>1 DEF Frozen
<1>3. Loose(r, o)
  BY <1>1, <1>2 DEF Loose, FrozenRule
<1>4. QED
  BY <1>3 DEF r

(* _fill keeps the invariant whether it succeeds or rejects. *)
LEMMA FillBuyInv ==
  ASSUME NEW b, NEW o \in OrderIds, Loose(b, o), NEW px \in Prices, NEW today \in Nat
  PROVE  BookInv(FillBuy(b, o, px, today))
<1> DEFINE order == b.orders[o]
           total == BuyTotal(px, order.qty)
           paid  == [b EXCEPT !.cash = @ - total, !.qty[order.code] = @ + order.qty]
<1>1. b \in Books /\ order \in Orders /\ order.qty \in Nat /\ order.code \in Codes /\ px \in Nat
  BY SetsAssumption DEF Loose, Books, Orders
<1>2. total \in Nat
  BY <1>1, BuyTotalType
<1>3. CASE b.cash < total
  BY <1>3, SetStatusLoose DEF FillBuy, ShortOfCash, Statuses
<1>4. CASE ~(b.cash < total)
  <2> DEFINE q == [b.qty EXCEPT ![order.code] = @ + order.qty]
             k == b.cash - total
  <2>1. q \in [Codes -> Nat] /\ k \in Nat /\ b.avail \in [Codes -> Nat]
    BY <1>1, <1>2, <1>4 DEF Books
  <2>2. paid = [b EXCEPT !.cash = k, !.qty = q, !.avail = b.avail]
    BY <1>1 DEF Books
  <2> HIDE DEF q, k, paid
  <2>3. Loose(paid, o)
    BY <2>1, <2>2, SharesLoose, Zenon
  <2>4. FillBuy(b, o, px, today) = Executed(paid, o, px, today)
    BY <1>4 DEF FillBuy, ShortOfCash, paid
  <2>5. px \in Nat
    BY <1>1
  <2>6. BookInv(Executed(paid, o, px, today))
    BY <2>3, <2>5, ExecutedLoose, Zenon
  <2>7. QED
    BY <2>4, <2>6, Zenon
<1>5. QED
  BY <1>3, <1>4

LEMMA FillSellInv ==
  ASSUME NEW b, NEW o \in OrderIds, Loose(b, o), NEW px \in Prices, NEW today \in Nat,
         NEW fromPending \in BOOLEAN
  PROVE  BookInv(FillSell(b, o, px, fromPending, today))
<1> DEFINE order == b.orders[o]
           c     == order.code
           left  == IF b.qty[c] <= order.qty THEN 0 ELSE b.qty[c] - order.qty
           sold  == [b EXCEPT !.cash = @ + SellProceeds(px, order.qty),
                              !.qty[c] = left,
                              !.avail[c] = IF fromPending THEN @ ELSE @ - order.qty]
<1>1. /\ b \in Books /\ order \in Orders /\ order.qty \in Quantities
      /\ order.qty \in Nat /\ order.code \in Codes /\ px \in Nat
  BY SetsAssumption DEF Loose, Books, Orders
<1>2. SellProceeds(px, order.qty) \in Nat
  BY <1>1, SellProceedsType
<1>3. CASE ~fromPending /\ b.avail[c] < order.qty
  BY <1>3, SetStatusLoose DEF FillSell, ShortOfShares, Statuses
<1>4. CASE ~(~fromPending /\ b.avail[c] < order.qty)
  <2> DEFINE q == [b.qty EXCEPT ![c] = left]
             a == [b.avail EXCEPT ![c] = IF fromPending THEN @ ELSE @ - order.qty]
             k == b.cash + SellProceeds(px, order.qty)
  <2>1. q \in [Codes -> Nat] /\ a \in [Codes -> Nat] /\ k \in Nat
    BY <1>1, <1>2, <1>4 DEF Books
  <2>2. sold = [b EXCEPT !.cash = k, !.qty = q, !.avail = a]
    BY <1>1 DEF Books
  <2> HIDE DEF q, a, k, sold
  <2>3. Loose(sold, o)
    BY <2>1, <2>2, SharesLoose, Zenon
  <2>4. FillSell(b, o, px, fromPending, today) = Executed(sold, o, px, today)
    BY <1>4 DEF FillSell, ShortOfShares, sold
  <2>5. px \in Nat
    BY <1>1
  <2>6. BookInv(Executed(sold, o, px, today))
    BY <2>3, <2>5, ExecutedLoose, Zenon
  <2>7. QED
    BY <2>4, <2>6, Zenon
<1>5. QED
  BY <1>3, <1>4

LEMMA FillInv ==
  ASSUME NEW b, NEW o \in OrderIds, Loose(b, o), NEW px \in Prices, NEW today \in Nat,
         NEW fromPending \in BOOLEAN
  PROVE  BookInv(Fill(b, o, px, fromPending, today))
BY FillBuyInv, FillSellInv DEF Fill

(* Freezing ends the transit: the order holds its amount, or is rejected. *)
LEMMA FreezePendingInv ==
  ASSUME NEW b, NEW o \in OrderIds, Loose(b, o), b.orders[o].limit # Market
  PROVE  BookInv(FreezePending(b, o))
<1> DEFINE order  == b.orders[o]
           frozen == FreezeAmount(order.limit, order.qty)
<1>1. /\ b \in Books /\ b.orders \in [OrderIds -> Orders] /\ order \in Orders
      /\ order.qty \in Nat /\ order.code \in Codes /\ order.limit \in Nat
      /\ order.frozen = 0 /\ order.status = "pending"
  BY SetsAssumption DEF Loose, Books, Orders, Market
<1>2. frozen \in Nat /\ frozen = BuyTotal(order.limit, order.qty)
  BY <1>1, BuyTotalType DEF FreezeAmount
<1>3. CASE order.side = "buy" /\ ~(b.cash < frozen)
  <2> DEFINE x == [b.orders EXCEPT ![o] = [b.orders[o] EXCEPT !.frozen = frozen]]
             k == b.cash - frozen
             z == b.frozenCash + frozen
             r == [b EXCEPT !.cash = k, !.frozenCash = z, !.orders = x]
  <2>1. FreezePending(b, o) = r
    BY <1>1, <1>3 DEF FreezePending, ShortOfCash, ShortOfShares, Books
  <2>2. k \in Nat /\ z \in Nat
    BY <1>1, <1>2, <1>3 DEF Books
  <2>3. /\ x \in [OrderIds -> Orders] /\ x[o] = [order EXCEPT !.frozen = frozen]
        /\ \A p \in OrderIds \ {o} : x[p] = b.orders[p]
    BY <1>1, <1>2 DEF Orders
  <2>4. /\ x[o].status = "pending" /\ x[o].frozen = frozen /\ x[o].limit = order.limit
        /\ x[o].side = "buy" /\ x[o].qty = order.qty
    BY <1>1, <1>3, <2>3 DEF Orders
  <2> HIDE DEF x, k
  <2>5. r \in Books /\ r.orders = x /\ r.frozenCash = z
    BY <1>1, <2>2, <2>3 DEF Books
  <2> HIDE DEF r, frozen
  <2>6. \A p \in OrderIds : Frozen(b)[p] \in Nat /\ Frozen(r)[p] \in Nat
    BY <1>1, <2>3, <2>5 DEF Frozen, Orders
  <2>7. /\ Frozen(b)[o] = 0 /\ Frozen(r)[o] = frozen
        /\ \A p \in OrderIds \ {o} : Frozen(b)[p] = Frozen(r)[p]
    BY <1>1, <2>3, <2>4, <2>5 DEF Frozen
  <2>8. /\ Total(Frozen(r), OrderIds) + 0 = Total(Frozen(b), OrderIds) + frozen
        /\ Total(Frozen(b), OrderIds) \in Nat /\ Total(Frozen(r), OrderIds) \in Nat
    BY <2>6, <2>7, TotalUpdate, SetsAssumption
  <2>9. r.frozenCash = Total(Frozen(r), OrderIds)
    BY <2>5, <2>8 DEF Loose
  <2>10. FrozenRule(r, o) /\ r.orders[o].limit # Market
    BY <1>2, <2>4, <2>5 DEF FrozenRule
  <2>11. \A p \in OrderIds \ {o} : FrozenRule(r, p)
    BY <2>3, <2>5 DEF Loose, FrozenRule
  <2>12. \A p \in OrderIds \ {o} : r.orders[p].status = "pending" => r.orders[p].limit # Market
    BY <2>3, <2>5 DEF Loose
  <2>13. BookInv(r)
    BY <2>5, <2>9, <2>10, <2>11, <2>12 DEF BookInv
  <2>14. QED
    BY <2>1, <2>13
<1>4. CASE order.side = "sell" /\ ~(b.avail[order.code] < order.qty)
  <2> DEFINE a == [b.avail EXCEPT ![order.code] = @ - order.qty]
             r == [b EXCEPT !.avail = a]
  <2>1. FreezePending(b, o) = r
    BY <1>1, <1>4 DEF FreezePending, ShortOfCash, ShortOfShares, Books
  <2>2. a \in [Codes -> Nat]
    BY <1>1, <1>4 DEF Books
  <2> HIDE DEF a
  <2>3. r \in Books /\ r.orders = b.orders /\ r.frozenCash = b.frozenCash
    BY <1>1, <2>2 DEF Books
  <2> HIDE DEF r
  <2>4. Frozen(r) = Frozen(b)
    BY <2>3 DEF Frozen
  <2>5. BookInv(r)
    BY <1>1, <1>4, <2>3, <2>4 DEF Loose, BookInv, FrozenRule
  <2>6. QED
    BY <2>1, <2>5
<1>5. CASE \/ order.side = "buy" /\ b.cash < frozen
           \/ order.side = "sell" /\ b.avail[order.code] < order.qty
  <2>1. FreezePending(b, o) = SetStatus(b, o, "rejected")
    BY <1>5 DEF FreezePending, ShortOfCash, ShortOfShares
  <2>2. QED
    BY <2>1, SetStatusLoose DEF Statuses
<1>6. order.side = "buy" \/ order.side = "sell"
  BY <1>1 DEF Orders, Sides
<1>7. QED
  BY <1>3, <1>4, <1>5, <1>6

(* Settlement keeps the invariant: the cash it releases is what the orders *)
(* it cancels held.                                                        *)
LEMMA SettledInv ==
  ASSUME NEW b, BookInv(b), NEW today \in Nat
  PROVE  /\ BookInv(Settled(b, today))
         /\ \A o \in OrderIds :
              Settled(b, today).orders[o] # b.orders[o] =>
                /\ b.orders[o].status = "pending" /\ b.orders[o].tradeDate < today
                /\ Settled(b, today).orders[o].status = "cancelled"
<1> DEFINE stale == {o \in Pending(b) : IsStaleDayOrder(b.orders[o], today)}
           released == Total(Frozen(b), stale)
           kept == OrderIds \ stale
           x == [o \in OrderIds |->
                   IF o \in stale
                   THEN [b.orders[o] EXCEPT !.status = "cancelled", !.frozen = 0]
                   ELSE b.orders[o]]
           k == b.cash + released
           z == b.frozenCash - released
           r == [b EXCEPT !.cash = k, !.frozenCash = z, !.avail = b.qty,
                          !.lastSettle = today, !.orders = x]
<1>1. b \in Books /\ b.orders \in [OrderIds -> Orders]
  BY DEF BookInv, Books
<1>2. CASE b.lastSettle = today
  BY <1>2 DEF Settled
<1>3. CASE b.lastSettle # today
  <2>1. Settled(b, today) = r
    BY <1>1, <1>3 DEF Settled, Books
  <2>2. stale \subseteq OrderIds /\ IsFiniteSet(stale) /\ IsFiniteSet(kept)
    BY SetsAssumption, FS_Subset DEF Pending
  <2>3. \A o \in OrderIds : Frozen(b)[o] \in Nat
    BY <1>1 DEF Frozen, Orders
  <2>4. /\ Total(Frozen(b), OrderIds) = released + Total(Frozen(b), kept)
        /\ released \in Nat /\ Total(Frozen(b), kept) \in Nat
    <3>1. stale \cup kept = OrderIds /\ stale \cap kept = {}
      BY <2>2
    <3> HIDE DEF stale, kept
    <3>2. Total(Frozen(b), stale \cup kept) = Total(Frozen(b), stale) + Total(Frozen(b), kept)
      BY <2>2, <2>3, <3>1, TotalUnion
    <3>3. \A o \in stale : Frozen(b)[o] \in Nat
      BY <2>3, <3>1
    <3>4. \A o \in kept : Frozen(b)[o] \in Nat
      BY <2>3, <3>1
    <3>5. Total(Frozen(b), stale) \in Nat /\ Total(Frozen(b), kept) \in Nat
      BY <2>2, <3>3, <3>4, TotalType
    <3>6. QED
      BY <3>1, <3>2, <3>5
  <2>5. x \in [OrderIds -> Orders]
    BY <1>1, ZenonT(90) DEF Orders, Statuses
  <2>6. /\ \A o \in stale : x[o].status = "cancelled" /\ x[o].frozen = 0
        /\ \A o \in kept : x[o] = b.orders[o]
    BY <1>1, <2>2 DEF Orders
  <2>7. k \in Nat /\ z \in Nat
    BY <1>1, <2>4 DEF Books, BookInv
  <2>8. /\ \A o \in stale : /\ o \in OrderIds /\ b.orders[o].status = "pending"
                           /\ b.orders[o].tradeDate < today
        /\ \A o \in OrderIds : o \in stale \/ o \in kept
    BY DEF Pending, IsStaleDayOrder
  <2> HIDE DEF x, k, released, stale, kept
  <2>9. r \in Books /\ r.orders = x /\ r.frozenCash = z
    BY <1>1, <2>5, <2>7 DEF Books
  <2> HIDE DEF r
  <2>10. Total(Frozen(r), OrderIds) = Total(Frozen(r), stale) + Total(Frozen(r), kept)
    <3>1. stale \cup kept = OrderIds /\ stale \cap kept = {}
      BY <2>2 DEF kept
    <3>2. \A o \in stale \cup kept : Frozen(r)[o] \in Nat
      BY <2>5, <2>9, <3>1 DEF Frozen, Orders
    <3>3. Total(Frozen(r), stale \cup kept) = Total(Frozen(r), stale) + Total(Frozen(r), kept)
      BY <2>2, <3>1, <3>2, TotalUnion
    <3>4. QED
      BY <3>1, <3>3
  <2>11. Total(Frozen(r), stale) = 0
    <3>1. \A o \in stale : Frozen(r)[o] = 0
      BY <2>2, <2>6, <2>9 DEF Frozen
    <3>2. QED
      BY <3>1, TotalZero
  <2>12. Total(Frozen(r), kept) = Total(Frozen(b), kept)
    <3>1. \A o \in kept : Frozen(r)[o] = Frozen(b)[o]
      BY <2>6, <2>9 DEF Frozen, kept
    <3>2. QED
      BY <3>1, TotalSame
  <2>13. r.frozenCash = Total(Frozen(r), OrderIds)
    BY <2>4, <2>9, <2>10, <2>11, <2>12 DEF z, BookInv
  <2>14. \A o \in OrderIds : FrozenRule(r, o)
    BY <2>6, <2>8, <2>9 DEF BookInv, FrozenRule
  <2>15. \A o \in OrderIds : r.orders[o].status = "pending" => r.orders[o].limit # Market
    BY <2>6, <2>8, <2>9 DEF BookInv
  <2>16. BookInv(r)
    BY <2>9, <2>13, <2>14, <2>15 DEF BookInv
  <2>17. QED
    BY <2>1, <2>6, <2>8, <2>9, <2>16
<1>4. QED
  BY <1>2, <1>3

(* cancel_order keeps the invariant. *)
LEMMA CancelledInv ==
  ASSUME NEW b, NEW o \in OrderIds, BookInv(b), b.orders[o].status = "pending"
  PROVE  BookInv(Cancelled(b, o))
<1> DEFINE order == b.orders[o]
<1>1. b \in Books /\ order \in Orders
  BY DEF BookInv, Books
<1>2. CASE order.side = "buy"
  <2>1. Loose(Released(b, o), o)
    BY ReleasedLoose
  <2>2. BookInv(SetStatus(Released(b, o), o, "cancelled"))
    BY <2>1, SetStatusLoose DEF Statuses
  <2>3. QED
    BY <1>2, <2>2 DEF Cancelled
<1>3. CASE order.side # "buy"
  <2> DEFINE a == [b.avail EXCEPT ![order.code] = @ + order.qty]
             r == [b EXCEPT !.cash = b.cash, !.qty = b.qty, !.avail = a]
  <2>0. order.qty \in Nat /\ order.code \in Codes
    BY <1>1, SetsAssumption DEF Orders
  <2>1. a \in [Codes -> Nat] /\ b.cash \in Nat /\ b.qty \in [Codes -> Nat]
    <3> HIDE DEF order
    <3>1. QED
      BY <1>1, <2>0 DEF Books
  <2>2. Loose(b, o)
    BY <1>1, <1>3 DEF BookInv, Loose, FrozenRule
  <2>3. Cancelled(b, o) = SetStatus(r, o, "cancelled")
    BY <1>1, <1>3 DEF Cancelled, Books
  <2> HIDE DEF a
  <2>4. Loose(r, o)
    BY <2>1, <2>2, SharesLoose, Zenon
  <2> HIDE DEF r
  <2>5. BookInv(SetStatus(r, o, "cancelled"))
    BY <2>4, SetStatusLoose DEF Statuses
  <2>6. QED
    BY <2>3, <2>5
<1>4. QED
  BY <1>2, <1>3

(* A new order starts in transit. *)
LEMMA AddedLoose ==
  ASSUME NEW b, NEW o \in OrderIds, BookInv(b), b.orders[o].status = "unused",
         NEW order \in Orders, order.status = "pending", order.frozen = 0
  PROVE  Loose([b EXCEPT !.orders[o] = order], o)
<1> DEFINE x == [b.orders EXCEPT ![o] = order]
           r == [b EXCEPT !.orders[o] = order]
<1>1. b \in Books /\ b.orders \in [OrderIds -> Orders]
  BY DEF BookInv, Books
<1>2. r = [b EXCEPT !.orders = x]
  BY <1>1 DEF Books
<1>3. x \in [OrderIds -> Orders] /\ x[o] = order /\ \A p \in OrderIds \ {o} : x[p] = b.orders[p]
  BY <1>1
<1> HIDE DEF x, r
<1>4. r \in Books /\ r.orders = x /\ r.frozenCash = b.frozenCash
  BY <1>1, <1>2, <1>3 DEF Books
<1>5. b.orders[o].frozen = 0
  BY DEF BookInv, FrozenRule
<1>6. Frozen(r) = Frozen(b)
  BY <1>3, <1>4, <1>5 DEF Frozen
<1>7. Loose(r, o)
  BY <1>3, <1>4, <1>6 DEF Loose, BookInv, FrozenRule
<1>8. QED
  BY <1>7 DEF r

(* The price of a trade is the quoted one. *)
LEMMA FillPriceQuoted ==
  ASSUME NEW side, NEW px, NEW limit, limit = Market \/ Crosses(side, px, limit)
  PROVE  FillPrice(side, px, limit) = px
BY DEF FillPrice

(* place_order keeps the invariant on each of its paths. *)
LEMMA PlacedInv ==
  ASSUME NEW b, NEW o \in OrderIds, BookInv(b), b.orders[o].status = "unused",
         NEW order \in Orders, order.status = "pending", order.frozen = 0,
         NEW quote \in Quotes, NEW today \in Nat
  PROVE  BookInv(Placed(b, o, order, quote, today))
<1> DEFINE added    == [b EXCEPT !.orders[o] = order]
           tradable == quote.px # 0 /\ order.side \notin quote.blocked
           fills == /\ tradable
                    /\ order.limit = Market \/ Crosses(order.side, quote.px, order.limit)
           px == FillPrice(order.side, quote.px, order.limit)
<1>1. Loose(added, o)
  BY AddedLoose
<1>2. added.orders[o] = order
  BY DEF BookInv, Books
<1> HIDE DEF added
<1>3. CASE fills
  <2>1. px \in Prices
    BY <1>3, FillPriceQuoted DEF Quotes, NoQuote
  <2> HIDE DEF px
  <2>2. BookInv(Fill(added, o, px, FALSE, today))
    BY <1>1, <2>1, FillInv
  <2>3. Placed(b, o, order, quote, today) = Fill(added, o, px, FALSE, today)
    BY <1>3 DEF Placed, added, px
  <2>4. QED
    BY <2>2, <2>3
<1>4. CASE ~fills /\ order.limit = Market
  <2>1. Placed(b, o, order, quote, today) = SetStatus(added, o, "rejected")
    BY <1>4 DEF Placed, added
  <2>2. QED
    BY <1>1, <2>1, SetStatusLoose DEF Statuses
<1>5. CASE ~fills /\ order.limit # Market
  <2>1. Placed(b, o, order, quote, today) = FreezePending(added, o)
    BY <1>5 DEF Placed, added
  <2>2. QED
    BY <1>1, <1>2, <1>5, <2>1, FreezePendingInv
<1>6. QED
  BY <1>3, <1>4, <1>5

(* What the operators on an order leave alone: every other order. *)
LEMMA FillFrame ==
  ASSUME NEW b, NEW o \in OrderIds, b \in Books, NEW px \in Prices,
         NEW fromPending \in BOOLEAN, NEW today \in Nat, NEW p \in OrderIds \ {o}
  PROVE  Fill(b, o, px, fromPending, today).orders[p] = b.orders[p]
BY DEF Fill, FillBuy, FillSell, Executed, SetStatus, Books

LEMMA FreezePendingFrame ==
  ASSUME NEW b, NEW o \in OrderIds, b \in Books
  PROVE  \A p \in OrderIds \ {o} : FreezePending(b, o).orders[p] = b.orders[p]
BY DEF FreezePending, SetStatus, Books

LEMMA PlacedFrame ==
  ASSUME NEW b, NEW o \in OrderIds, BookInv(b), b.orders[o].status = "unused",
         NEW order \in Orders, order.status = "pending", order.frozen = 0,
         NEW quote \in Quotes, NEW today \in Nat
  PROVE  \A p \in OrderIds \ {o} : Placed(b, o, order, quote, today).orders[p] = b.orders[p]
<1> DEFINE added == [b EXCEPT !.orders[o] = order]
<1>1. Loose(added, o)
  BY AddedLoose
<1>2. added \in Books /\ \A p \in OrderIds \ {o} : added.orders[p] = b.orders[p]
  BY <1>1 DEF Loose, BookInv, Books
<1> HIDE DEF added
<1>3. ASSUME NEW px \in Prices, NEW p \in OrderIds \ {o}
      PROVE  Fill(added, o, px, FALSE, today).orders[p] = added.orders[p]
  BY <1>2, FillFrame
<1>4. \A p \in OrderIds \ {o} : SetStatus(added, o, "rejected").orders[p] = added.orders[p]
  BY <1>2 DEF SetStatus, Books
<1>5. \A p \in OrderIds \ {o} : FreezePending(added, o).orders[p] = added.orders[p]
  BY <1>2, FreezePendingFrame
<1> DEFINE px == FillPrice(order.side, quote.px, order.limit)
           fills == /\ quote.px # 0 /\ order.side \notin quote.blocked
                    /\ order.limit = Market \/ Crosses(order.side, quote.px, order.limit)
<1>6. CASE fills
  <2>1. px \in Prices
    BY <1>6, FillPriceQuoted DEF Quotes, NoQuote
  <2>2. Placed(b, o, order, quote, today) = Fill(added, o, px, FALSE, today)
    BY <1>6 DEF Placed, added
  <2> HIDE DEF px
  <2>3. QED
    BY <1>2, <1>3, <2>1, <2>2
<1>7. CASE ~fills
  <2>1. \/ Placed(b, o, order, quote, today) = SetStatus(added, o, "rejected")
        \/ Placed(b, o, order, quote, today) = FreezePending(added, o)
    BY <1>7 DEF Placed, added
  <2>2. QED
    BY <1>2, <1>4, <1>5, <2>1
<1>8. QED
  BY <1>6, <1>7

LEMMA CancelledFrame ==
  ASSUME NEW b, NEW o \in OrderIds, b \in Books
  PROVE  /\ Cancelled(b, o).orders[o].status = "cancelled"
         /\ \A p \in OrderIds \ {o} : Cancelled(b, o).orders[p] = b.orders[p]
BY DEF Cancelled, Released, SetStatus, Books, Orders

(* A pending buy in transit whose frozen cash was given back can pay for a *)
(* fill at any price up to its limit.                                      *)
LEMMA MatchedBuyFills ==
  ASSUME NEW b, NEW o \in OrderIds, BookInv(b), b.orders[o].status = "pending",
         b.orders[o].side = "buy", NEW px \in Prices, px <= b.orders[o].limit,
         NEW today \in Nat
  PROVE  Fill(Released(b, o), o, px, TRUE, today).orders[o].status = "filled"
<1> DEFINE r == Released(b, o)
           order == r.orders[o]
<1>1. b \in Books /\ b.orders[o] \in Orders
  BY DEF BookInv, Books
<1>2. /\ Loose(r, o) /\ r.cash = b.cash + b.orders[o].frozen
      /\ order = [b.orders[o] EXCEPT !.frozen = 0]
  BY ReleasedLoose
<1>3. /\ order.side = "buy" /\ order.qty = b.orders[o].qty /\ order.qty \in Nat
      /\ b.orders[o].limit \in Nat /\ px \in Nat
  BY <1>1, <1>2, SetsAssumption DEF Orders, Market
<1>4. b.orders[o].frozen = BuyTotal(b.orders[o].limit, order.qty)
  BY <1>1, <1>3 DEF BookInv, FrozenRule
<1> HIDE DEF order
<1>5. BuyTotal(px, order.qty) \in Nat /\ BuyTotal(px, order.qty) <= b.orders[o].frozen
  BY <1>3, <1>4, BuyTotalMonotone
<1>6. b.cash \in Nat /\ b.orders[o].frozen \in Nat
  BY <1>1 DEF Books, Orders
<1>7. ~(r.cash < BuyTotal(px, order.qty))
  BY <1>2, <1>5, <1>6
<1> DEFINE paid == [r EXCEPT !.cash = @ - BuyTotal(px, order.qty),
                             !.qty[order.code] = @ + order.qty]
<1>8. Fill(r, o, px, TRUE, today) = Executed(paid, o, px, today)
  BY <1>3, <1>7 DEF Fill, FillBuy, ShortOfCash, order
<1>9. paid.orders = r.orders /\ r.orders \in [OrderIds -> Orders]
  BY <1>2 DEF Loose, Books
<1>10. Executed(paid, o, px, today).orders[o].status = "filled"
  BY <1>2, <1>9 DEF Executed, Orders, Loose, Books
<1>11. QED
  BY <1>8, <1>10

(* A sale from a waiting order is never rejected. *)
LEMMA MatchedSellFills ==
  ASSUME NEW b, NEW o \in OrderIds, b \in Books, b.orders[o].side # "buy",
         NEW px, NEW today
  PROVE  Fill(b, o, px, TRUE, today).orders[o].status = "filled"
BY DEF Fill, FillSell, Executed, Books, Orders

(* A pass of the matcher over one order keeps the invariant. *)
LEMMA MatchedInv ==
  ASSUME NEW b, NEW o \in OrderIds, BookInv(b), NEW quote \in Quotes, NEW today \in Nat
  PROVE  /\ BookInv(Matched(b, o, quote, today))
         /\ \A p \in OrderIds : b.orders[p].status = "pending" =>
              Matched(b, o, quote, today).orders[p].status # "rejected"
<1> DEFINE s == Settled(b, today)
           order == s.orders[o]
           px == FillPrice(order.side, quote.px, order.limit)
           r == Matched(b, o, quote, today)
<1>1. /\ BookInv(s)
      /\ \A p \in OrderIds : s.orders[p] # b.orders[p] => s.orders[p].status = "cancelled"
  BY SettledInv
<1>2. \A p \in OrderIds : b.orders[p].status = "pending" => s.orders[p].status # "rejected"
  BY <1>1
<1> HIDE DEF s
<1>3. s \in Books /\ order \in Orders /\ order.side \in Sides
  BY <1>1 DEF BookInv, Books, Orders
<1>4. CASE \/ order.status # "pending" \/ quote.px = 0 \/ order.side \in quote.blocked
           \/ ~Crosses(order.side, quote.px, order.limit)
  <2>1. r = s \/ r = b
    BY <1>4 DEF Matched, s
  <2>2. QED
    BY <1>1, <1>2, <2>1
<1>5. CASE /\ order.status = "pending" /\ quote.px # 0 /\ order.side \notin quote.blocked
           /\ Crosses(order.side, quote.px, order.limit)
  <2>1. px = quote.px /\ px \in Prices
    BY <1>5, FillPriceQuoted DEF Quotes, NoQuote
  <2>2. CASE order.side = "buy"
    <3> DEFINE t == Released(s, o)
               f == Fill(t, o, px, TRUE, today)
    <3>1. r = f
      BY <1>5, <2>2 DEF Matched, s
    <3>2. Loose(t, o) /\ \A p \in OrderIds \ {o} : t.orders[p] = s.orders[p]
      BY <1>1, <1>5, ReleasedLoose, ZenonT(90)
    <3>3. f.orders[o].status = "filled"
      <4>1. px <= s.orders[o].limit
        BY <1>5, <2>1, <2>2 DEF Crosses
      <4> HIDE DEF px
      <4>2. QED
        BY <1>1, <1>5, <2>1, <2>2, <4>1, MatchedBuyFills
    <3> HIDE DEF t, px
    <3>4. BookInv(f)
      BY <2>1, <3>2, FillInv
    <3>5. \A p \in OrderIds \ {o} : f.orders[p] = t.orders[p]
      <4>1. t \in Books
        BY <3>2 DEF Loose
      <4>2. QED
        BY <2>1, <4>1, FillFrame
    <3>6. QED
      BY <1>2, <3>1, <3>2, <3>3, <3>4, <3>5
  <2>3. CASE order.side # "buy"
    <3> DEFINE f == Fill(s, o, px, TRUE, today)
    <3>1. r = f
      BY <1>5, <2>3 DEF Matched, s
    <3>2. Loose(s, o)
      BY <1>1, <1>5, <2>3 DEF BookInv, Loose, FrozenRule
    <3>3. f.orders[o].status = "filled"
      BY <1>3, <2>3, MatchedSellFills
    <3> HIDE DEF px
    <3>4. BookInv(f)
      BY <2>1, <3>2, FillInv
    <3>5. \A p \in OrderIds \ {o} : f.orders[p] = s.orders[p]
      BY <1>3, <2>1, FillFrame
    <3>6. QED
      BY <1>2, <3>1, <3>3, <3>4, <3>5
  <2>4. QED
    BY <2>2, <2>3
<1>6. QED
  BY <1>4, <1>5
-----------------------------------------------------------------------------
(* The invariant of the account: types and the frozen cash. *)
IInv == TypeOK /\ BookInv(book)

LEMMA InitIInv == Init => IInv
<1> SUFFICES ASSUME Init
             PROVE  IInv
  OBVIOUS
<1>1. UnusedOrder \in Orders /\ UnusedOrder.status = "unused" /\ UnusedOrder.frozen = 0
  BY SetsAssumption DEF UnusedOrder, NewOrder, Orders, Statuses, Sides
<1>2. book.orders = [o \in OrderIds |-> UnusedOrder] /\ book.frozenCash = 0
  BY DEF Init
<1>3. book \in Books
  BY <1>1, MoneyAssumption DEF Init, Books
<1>4. \A o \in OrderIds : Frozen(book)[o] = 0
  BY <1>1, <1>2 DEF Frozen
<1>5. Total(Frozen(book), OrderIds) = 0
  BY <1>4, TotalZero
<1>6. BookInv(book)
  BY <1>1, <1>2, <1>3, <1>5 DEF BookInv, FrozenRule
<1>7. day \in Nat \ {0} /\ queue \in [Matchers -> SUBSET OrderIds]
  BY DEF Init
<1>8. QED
  BY <1>3, <1>6, <1>7 DEF IInv, TypeOK

(* A placement acts on the settled book, where its order is still unused. *)
LEMMA PlaceOrderInv ==
  ASSUME IInv, NEW o \in OrderIds, PlaceOrder(o)
  PROVE  /\ IInv'
         /\ \A p \in OrderIds : book.orders[p].status = "pending" =>
              book'.orders[p].status # "rejected"
<1>1. PICK side \in Sides, code \in Codes, limit \in Prices \cup {Market}, qty \in Quantities,
           quote \in Quotes, later \in {day, day + 1} :
        /\ book.orders[o].status = "unused"
        /\ book' = Placed(Settled(book, day), o, NewOrder(side, code, limit, qty, later),
                          quote, later)
        /\ day' = later /\ UNCHANGED queue
  BY DEF PlaceOrder
<1> DEFINE s == Settled(book, day)
           order == NewOrder(side, code, limit, qty, later)
<1>2. day \in Nat /\ later \in Nat \ {0} /\ BookInv(book)
  BY DEF IInv, TypeOK
<1>3. /\ BookInv(s) /\ s.orders[o] = book.orders[o]
      /\ \A p \in OrderIds : s.orders[p] # book.orders[p] => s.orders[p].status = "cancelled"
  BY <1>1, <1>2, SettledInv
<1>4. order \in Orders /\ order.status = "pending" /\ order.frozen = 0
  BY <1>2 DEF NewOrder, Orders, Statuses
<1> HIDE DEF s, order
<1>5. book' = Placed(s, o, order, quote, later)
  BY <1>1 DEF s, order
<1>6. BookInv(Placed(s, o, order, quote, later))
  BY <1>1, <1>2, <1>3, <1>4, PlacedInv
<1>7. \A p \in OrderIds \ {o} : book'.orders[p] = s.orders[p]
  BY <1>1, <1>2, <1>3, <1>4, <1>5, PlacedFrame
<1>8. book' \in Books /\ BookInv(book')
  BY <1>5, <1>6 DEF BookInv
<1>9. IInv'
  BY <1>1, <1>2, <1>8 DEF IInv, TypeOK
<1>10. QED
  BY <1>1, <1>3, <1>7, <1>9

LEMMA NextIInv ==
  ASSUME IInv, [Next]_vars
  PROVE  /\ IInv'
         /\ \A p \in OrderIds : book.orders[p].status = "pending" =>
              book'.orders[p].status # "rejected"
<1>1. /\ day \in Nat \ {0} /\ book \in Books /\ queue \in [Matchers -> SUBSET OrderIds]
      /\ BookInv(book)
  BY DEF IInv, TypeOK
<1>2. CASE UNCHANGED vars
  BY <1>1, <1>2 DEF vars, IInv, TypeOK
<1>3. ASSUME NEW o \in OrderIds, PlaceOrder(o)
      PROVE  /\ IInv'
             /\ \A p \in OrderIds : book.orders[p].status = "pending" =>
                  book'.orders[p].status # "rejected"
  BY <1>3, PlaceOrderInv
<1>4. ASSUME NEW o \in OrderIds, CancelOrder(o)
      PROVE  /\ IInv'
             /\ \A p \in OrderIds : book.orders[p].status = "pending" =>
                  book'.orders[p].status # "rejected"
  <2>1. book.orders[o].status = "pending" /\ book' = Cancelled(book, o) /\ UNCHANGED <<day, queue>>
    BY <1>4 DEF CancelOrder
  <2>2. BookInv(book')
    BY <1>1, <2>1, CancelledInv
  <2>3. \A p \in OrderIds : book'.orders[p].status # "pending" => 
                             p = o \/ book'.orders[p].status = book.orders[p].status
    BY <1>1, <2>1, CancelledFrame
  <2>4. book'.orders[o].status = "cancelled"
    BY <1>1, <2>1, CancelledFrame
  <2>5. QED
    BY <1>1, <2>1, <2>2, <2>3, <2>4 DEF IInv, TypeOK, BookInv
<1>5. CASE SettleAccount
  <2>1. book' = Settled(book, day) /\ UNCHANGED <<day, queue>>
    BY <1>5 DEF SettleAccount
  <2>2. /\ BookInv(book')
        /\ \A p \in OrderIds : book'.orders[p] # book.orders[p] =>
                                  book'.orders[p].status = "cancelled"
    BY <1>1, <2>1, SettledInv
  <2>3. QED
    BY <1>1, <2>1, <2>2 DEF IInv, TypeOK, BookInv
<1>6. ASSUME NEW m \in Matchers, ListPending(m)
      PROVE  IInv' /\ UNCHANGED book
  <2>1. UNCHANGED <<day, book>> /\ queue' = [queue EXCEPT ![m] = Pending(book)]
    BY <1>6 DEF ListPending
  <2>2. Pending(book) \subseteq OrderIds
    BY DEF Pending
  <2>3. QED
    BY <1>1, <2>1, <2>2 DEF IInv, TypeOK
<1>7. ASSUME NEW m \in Matchers, NEW o \in OrderIds, MatchOne(m, o)
      PROVE  /\ IInv'
             /\ \A p \in OrderIds : book.orders[p].status = "pending" =>
                  book'.orders[p].status # "rejected"
  <2>1. PICK quote \in Quotes : book' = Matched(book, o, quote, day)
    BY <1>7 DEF MatchOne
  <2>2. UNCHANGED day /\ queue' = [queue EXCEPT ![m] = @ \ {o}]
    BY <1>7 DEF MatchOne
  <2>3. /\ BookInv(book')
        /\ \A p \in OrderIds : book.orders[p].status = "pending" =>
                                  book'.orders[p].status # "rejected"
    BY <1>1, <2>1, MatchedInv
  <2>4. QED
    BY <1>1, <2>2, <2>3 DEF IInv, TypeOK, BookInv
<1>8. CASE NextDay
  BY <1>1, <1>8 DEF NextDay, IInv, TypeOK
<1>9. QED
  BY <1>2, <1>3, <1>4, <1>5, <1>6, <1>7, <1>8 DEF Next

(* Every value of an account has its type: no operation overdraws cash,    *)
(* frozen cash or shares, whatever the fees, prices and clock.             *)
THEOREM TypeCorrect == Spec => []TypeOK
<1>1. IInv /\ [Next]_vars => IInv'
  BY NextIInv
<1>2. IInv => TypeOK
  BY DEF IInv
<1>3. QED
  BY <1>1, <1>2, InitIInv, PTL DEF Spec

(* Frozen cash is what the pending buys hold (docstring lines 8 and 10 of  *)
(* services/trading.py), even when midnight falls inside a placement.      *)
THEOREM FrozenCashCorrect == Spec => []FrozenCashMatchesOrders
<1>1. IInv /\ [Next]_vars => IInv'
  BY NextIInv
<1>2. IInv => FrozenCashMatchesOrders
  BY DEF IInv, BookInv, FrozenRule, FrozenCashMatchesOrders, Pending
<1>3. QED
  BY <1>1, <1>2, InitIInv, PTL DEF Spec

(* No step rejects a waiting order: its frozen cash covers any fill that   *)
(* crosses its limit, because the commission is monotone in the amount.    *)
THEOREM WaitingOrderNeverRejected == Spec => PendingNeverRejected
<1>1. IInv /\ [Next]_vars => IInv'
  BY NextIInv
<1>2. IInv /\ [Next]_vars => [\A o \in Pending(book) : book'.orders[o].status # "rejected"]_vars
  BY NextIInv DEF Pending
<1>3. QED
  BY <1>1, <1>2, InitIInv, PTL DEF Spec, PendingNeverRejected
-----------------------------------------------------------------------------

(* The shares held for sales of c by the orders other than o. *)
Rest(b, c, o) == Total(Held(b, c), OrderIds \ {o})

SharesInv(b) == \A c \in Codes : b.avail[c] + Total(Held(b, c), OrderIds) <= b.qty[c]

(* An order in transit holds no shares: the others still fit. *)
SharesLeft(b, o) == \A c \in Codes : b.avail[c] + Rest(b, c, o) <= b.qty[c]

(* Dates: settled no later than d; a pending order is not of a day before  *)
(* the last settlement; a filled order filled on its own day.              *)
OrderDates(order, settle, d) ==
  /\ order.status = "pending" => settle <= order.tradeDate /\ order.tradeDate <= d
  /\ order.status = "filled" => order.filledOn = order.tradeDate

DatesInv(b, d) ==
  b.lastSettle <= d /\ \A o \in OrderIds : OrderDates(b.orders[o], b.lastSettle, d)

(* Every pending order is of the day of the last settlement. *)
SameDayInv(b) ==
  \A o \in OrderIds : b.orders[o].status = "pending" => b.orders[o].tradeDate = b.lastSettle

(* Two books that agree on the orders other than o. *)
SameOthers(b, r, o) == \A p \in OrderIds \ {o} : r.orders[p] = b.orders[p]
-----------------------------------------------------------------------------
(* What the pending sells hold is a sum of naturals ... *)
LEMMA HeldType ==
  ASSUME NEW b \in Books, NEW c \in Codes
  PROVE  \A o \in OrderIds : Held(b, c)[o] \in Nat
BY SetsAssumption DEF Held, Books, Orders

(* ... that splits into one order's part and the rest. *)
LEMMA HeldSplit ==
  ASSUME NEW b \in Books, NEW r \in Books, NEW o \in OrderIds, NEW c \in Codes,
         SameOthers(b, r, o)
  PROVE  /\ Total(Held(r, c), OrderIds) = Held(r, c)[o] + Rest(b, c, o)
         /\ Held(r, c)[o] \in Nat /\ Rest(b, c, o) \in Nat
         /\ Rest(r, c, o) = Rest(b, c, o)
<1>1. \A p \in OrderIds : Held(r, c)[p] \in Nat
  BY HeldType
<1>2. /\ Total(Held(r, c), OrderIds) = Held(r, c)[o] + Total(Held(r, c), OrderIds \ {o})
      /\ Total(Held(r, c), OrderIds \ {o}) \in Nat
  BY <1>1, TotalSplit, SetsAssumption
<1>3. \A p \in OrderIds \ {o} : Held(r, c)[p] = Held(b, c)[p]
  BY DEF Held, SameOthers
<1>4. Total(Held(r, c), OrderIds \ {o}) = Total(Held(b, c), OrderIds \ {o})
  BY <1>3, TotalSame
<1>5. QED
  BY <1>1, <1>2, <1>4 DEF Rest

(* An order that is not a pending sell of c holds none of its shares. *)
LEMMA HeldZero ==
  ASSUME NEW b, NEW o \in OrderIds, NEW c,
         b.orders[o].status # "pending" \/ b.orders[o].side # "sell" \/ b.orders[o].code # c
  PROVE  Held(b, c)[o] = 0
BY DEF Held

(* An order that leaves transit without holding shares. *)
LEMMA ClosedShares ==
  ASSUME NEW b \in Books, NEW r \in Books, NEW o \in OrderIds, SameOthers(b, r, o),
         r.orders[o].status # "pending" \/ r.orders[o].side = "buy",
         SharesLeft(r, o)
  PROVE  SharesInv(r)
<1> SUFFICES ASSUME NEW c \in Codes
             PROVE  r.avail[c] + Total(Held(r, c), OrderIds) <= r.qty[c]
  BY DEF SharesInv
<1>1. Held(r, c)[o] = 0
  BY HeldZero
<1>2. /\ Total(Held(r, c), OrderIds) = 0 + Rest(b, c, o) /\ Rest(b, c, o) \in Nat
      /\ Rest(r, c, o) = Rest(b, c, o)
  BY <1>1, HeldSplit
<1>3. r.avail[c] \in Nat /\ r.qty[c] \in Nat
  BY DEF Books
<1>4. QED
  BY <1>2, <1>3 DEF SharesLeft

(* Rejecting or cancelling an order in transit changes no shares. *)
LEMMA SetStatusShares ==
  ASSUME NEW b, NEW o \in OrderIds, Loose(b, o), NEW s \in Statuses \ {"pending"},
         SharesLeft(b, o)
  PROVE  SharesInv(SetStatus(b, o, s))
<1> DEFINE r == SetStatus(b, o, s)
<1>1. b \in Books /\ BookInv(r) /\ r \in Books
  BY SetStatusLoose DEF Loose, BookInv
<1>2. /\ r.orders[o].status = s /\ r.avail = b.avail /\ r.qty = b.qty
      /\ SameOthers(b, r, o)
  BY <1>1 DEF SetStatus, Books, Orders, SameOthers
<1> HIDE DEF r
<1>3. \A c \in Codes : Rest(r, c, o) = Rest(b, c, o)
  BY <1>1, <1>2, HeldSplit
<1>4. SharesLeft(r, o)
  BY <1>2, <1>3 DEF SharesLeft
<1>5. SharesInv(r)
  BY <1>1, <1>2, <1>4, ClosedShares
<1>6. QED
  BY <1>5 DEF r

(* A fill: a buy adds shares, a sale takes its own, available or held. *)
LEMMA FillBuyShares ==
  ASSUME NEW b, NEW o \in OrderIds, Loose(b, o), NEW px \in Prices, NEW today \in Nat,
         SharesLeft(b, o)
  PROVE  SharesInv(FillBuy(b, o, px, today))
<1> DEFINE r == FillBuy(b, o, px, today)
           order == b.orders[o]
<1>1. b \in Books /\ order.qty \in Nat /\ order.code \in Codes
  BY SetsAssumption DEF Loose, Books, Orders
<1>2. BookInv(r) /\ r \in Books
  BY FillBuyInv DEF BookInv
<1>3. CASE ShortOfCash(b, BuyTotal(px, order.qty))
  BY <1>3, SetStatusShares DEF FillBuy, Statuses
<1>4. CASE ~ShortOfCash(b, BuyTotal(px, order.qty))
  <2>1. /\ r.orders[o].status = "filled" /\ r.avail = b.avail
        /\ r.qty = [b.qty EXCEPT ![order.code] = @ + order.qty]
        /\ SameOthers(b, r, o)
    BY <1>1, <1>4 DEF FillBuy, Executed, Books, Orders, SameOthers
  <2> HIDE DEF r, order
  <2>2. \A c \in Codes : Rest(r, c, o) = Rest(b, c, o) /\ Rest(b, c, o) \in Nat
    BY <1>1, <1>2, <2>1, HeldSplit
  <2>3. \A c \in Codes : b.qty[c] \in Nat /\ b.avail[c] \in Nat /\ r.qty[c] >= b.qty[c]
    BY <1>1, <2>1 DEF Books
  <2>4. r.qty \in [Codes -> Nat]
    BY <1>2 DEF Books
  <2>5. SharesLeft(r, o)
    BY <2>1, <2>2, <2>3, <2>4 DEF SharesLeft
  <2>6. QED
    BY <1>1, <1>2, <2>1, <2>5, ClosedShares DEF r
<1>5. QED
  BY <1>3, <1>4

LEMMA FillSellShares ==
  ASSUME NEW b, NEW o \in OrderIds, Loose(b, o), NEW px \in Prices, NEW today \in Nat,
         NEW fromPending \in BOOLEAN, b.orders[o].side # "buy",
         IF fromPending THEN SharesInv(b) ELSE SharesLeft(b, o)
  PROVE  SharesInv(FillSell(b, o, px, fromPending, today))
<1> DEFINE r == FillSell(b, o, px, fromPending, today)
           order == b.orders[o]
           code == order.code
           n == order.qty
           left == IF b.qty[code] <= n THEN 0 ELSE b.qty[code] - n
<1>1. /\ b \in Books /\ n \in Nat /\ code \in Codes
      /\ order.status = "pending" /\ order.side = "sell"
  BY SetsAssumption DEF Loose, Books, Orders, Sides
<1>2. BookInv(r) /\ r \in Books
  BY FillSellInv DEF BookInv
<1>3. CASE ~fromPending /\ ShortOfShares(b, code, n)
  BY <1>3, SetStatusShares DEF FillSell, Statuses
<1>4. CASE ~(~fromPending /\ ShortOfShares(b, code, n))
  <2>1. /\ r.orders[o].status = "filled"
        /\ r.avail = [b.avail EXCEPT ![code] = IF fromPending THEN @ ELSE @ - n]
        /\ r.qty = [b.qty EXCEPT ![code] = left]
        /\ SameOthers(b, r, o)
    BY <1>1, <1>4, SMTT(60) DEF FillSell, Executed, Books, Orders, SameOthers
  <2>2. /\ Held(b, code)[o] = n
        /\ \A c \in Codes \ {code} : Held(b, c)[o] = 0
    BY <1>1 DEF Held
  <2>3. b.qty \in [Codes -> Nat] /\ b.avail \in [Codes -> Nat]
    BY <1>1 DEF Books
  <2> HIDE DEF r, code, n, order
  <2>4. \A c \in Codes : Rest(r, c, o) = Rest(b, c, o) /\ Rest(b, c, o) \in Nat
    BY <1>1, <1>2, <2>1, HeldSplit
  <2>5. \A c \in Codes : Total(Held(b, c), OrderIds) = Held(b, c)[o] + Rest(b, c, o)
    BY <1>1, HeldSplit DEF SameOthers
  <2>6. \A c \in Codes \ {code} : b.avail[c] + Rest(b, c, o) <= b.qty[c]
    BY <2>2, <2>4, <2>5 DEF SharesInv, SharesLeft
  <2>7. \A c \in Codes \ {code} : r.avail[c] = b.avail[c] /\ r.qty[c] = b.qty[c]
    BY <2>1, <2>3
  <2>8. r.avail[code] + Rest(b, code, o) <= r.qty[code]
    <3>1. CASE fromPending
      <4>1. b.avail[code] + n + Rest(b, code, o) <= b.qty[code]
        BY <1>1, <2>2, <2>3, <2>4, <2>5, <3>1 DEF SharesInv
      <4>2. r.avail[code] = b.avail[code] /\ r.qty[code] = left
        BY <1>1, <2>1, <2>3, <3>1
      <4>3. b.avail[code] \in Nat /\ b.qty[code] \in Nat /\ Rest(b, code, o) \in Nat
        BY <1>1, <2>3, <2>4
      <4>4. QED
        BY <1>1, <4>1, <4>2, <4>3
    <3>2. CASE ~fromPending
      <4>1. b.avail[code] + Rest(b, code, o) <= b.qty[code]
        BY <1>1, <3>2 DEF SharesLeft
      <4>2. r.avail[code] = b.avail[code] - n /\ r.qty[code] = left /\ ~(b.avail[code] < n)
        BY <1>1, <1>4, <2>1, <2>3, <3>2 DEF ShortOfShares
      <4>3. b.avail[code] \in Nat /\ b.qty[code] \in Nat /\ Rest(b, code, o) \in Nat
        BY <1>1, <2>3, <2>4
      <4>4. QED
        BY <1>1, <4>1, <4>2, <4>3
    <3>3. QED
      BY <3>1, <3>2
  <2>9. SharesLeft(r, o)
    BY <2>4, <2>6, <2>7, <2>8 DEF SharesLeft
  <2>10. QED
    BY <1>1, <1>2, <2>1, <2>9, ClosedShares DEF r
<1>5. QED
  BY <1>3, <1>4

(* Freezing: a waiting sell moves its shares from available to held. *)
LEMMA FreezePendingShares ==
  ASSUME NEW b, NEW o \in OrderIds, Loose(b, o), b.orders[o].limit # Market,
         SharesLeft(b, o)
  PROVE  SharesInv(FreezePending(b, o))
<1> DEFINE r == FreezePending(b, o)
           order == b.orders[o]
           code == order.code
           n == order.qty
<1>1. /\ b \in Books /\ n \in Nat /\ code \in Codes
      /\ order.status = "pending" /\ order.side \in {"buy", "sell"}
  BY SetsAssumption DEF Loose, Books, Orders, Sides
<1>2. BookInv(r) /\ r \in Books
  BY FreezePendingInv DEF BookInv
<1>3. CASE r = SetStatus(b, o, "rejected")
  BY <1>3, SetStatusShares DEF Statuses
<1>4. CASE order.side = "buy" /\ ~ShortOfCash(b, FreezeAmount(order.limit, n))
  <2>1. /\ r.orders[o].side = "buy" /\ r.avail = b.avail /\ r.qty = b.qty
        /\ SameOthers(b, r, o)
    BY <1>1, <1>4 DEF FreezePending, Books, Orders, SameOthers
  <2> HIDE DEF r
  <2>2. \A c \in Codes : Rest(r, c, o) = Rest(b, c, o)
    BY <1>1, <1>2, <2>1, HeldSplit
  <2>3. SharesLeft(r, o)
    BY <2>1, <2>2 DEF SharesLeft
  <2>4. QED
    BY <1>1, <1>2, <2>1, <2>3, ClosedShares DEF r
<1>5. CASE order.side = "sell" /\ ~ShortOfShares(b, code, n)
  <2>1. /\ r.orders = b.orders /\ r.qty = b.qty
        /\ r.avail = [b.avail EXCEPT ![code] = @ - n]
    BY <1>1, <1>5 DEF FreezePending, Books
  <2>2. Held(r, code)[o] = n /\ \A c \in Codes \ {code} : Held(r, c)[o] = 0
    BY <1>1, <1>5, <2>1 DEF Held
  <2>3. b.qty \in [Codes -> Nat] /\ b.avail \in [Codes -> Nat]
    BY <1>1 DEF Books
  <2> HIDE DEF r, code, n, order
  <2>4. \A c \in Codes : /\ Total(Held(r, c), OrderIds) = Held(r, c)[o] + Rest(b, c, o)
                         /\ Rest(b, c, o) \in Nat
    BY <1>1, <1>2, <2>1, HeldSplit DEF SameOthers
  <2>5. ASSUME NEW c \in Codes
        PROVE  r.avail[c] + Total(Held(r, c), OrderIds) <= r.qty[c]
    <3>1. b.avail[c] + Rest(b, c, o) <= b.qty[c]
      BY DEF SharesLeft
    <3>2. CASE c = code
      BY <1>1, <2>1, <2>2, <2>3, <2>4, <3>1, <3>2
    <3>3. CASE c # code
      BY <1>1, <2>1, <2>2, <2>3, <2>4, <3>1, <3>3
    <3>4. QED
      BY <3>2, <3>3
  <2>6. QED
    BY <2>5 DEF SharesInv, r
<1>6. \/ r = SetStatus(b, o, "rejected")
      \/ order.side = "buy" /\ ~ShortOfCash(b, FreezeAmount(order.limit, n))
      \/ order.side = "sell" /\ ~ShortOfShares(b, code, n)
  BY <1>1 DEF FreezePending
<1>7. QED
  BY <1>3, <1>4, <1>5, <1>6

(* Settlement leaves no pending order of an earlier day ... *)
LEMMA SettledDates ==
  ASSUME NEW b, BookInv(b), NEW today \in Nat, DatesInv(b, today)
  PROVE  /\ DatesInv(Settled(b, today), today)
         /\ Settled(b, today).lastSettle = today
<1> DEFINE r == Settled(b, today)
<1>1. b \in Books /\ b.lastSettle \in Nat
  BY DEF BookInv, Books
<1>2. CASE b.lastSettle = today
  BY <1>2 DEF Settled
<1>3. CASE b.lastSettle # today
  <2>1. r.lastSettle = today
    BY <1>1, <1>3 DEF Settled, Books
  <2>2. ASSUME NEW o \in OrderIds
        PROVE  OrderDates(r.orders[o], today, today)
    <3> DEFINE order == b.orders[o]
    <3>1. /\ order.status \in Statuses /\ order.tradeDate \in Nat
          /\ order = [order EXCEPT !.status = order.status]
          /\ [order EXCEPT !.status = "cancelled", !.frozen = 0].status = "cancelled"
      BY <1>1 DEF Books, Orders
    <3>2. OrderDates(order, b.lastSettle, today)
      BY DEF DatesInv
    <3>3. CASE order.status = "pending" /\ order.tradeDate < today
      <4>1. r.orders[o] = [order EXCEPT !.status = "cancelled", !.frozen = 0]
        BY <1>1, <1>3, <3>3 DEF Settled, Pending, IsStaleDayOrder, Books
      <4>2. QED
        BY <3>1, <4>1 DEF OrderDates
    <3>4. CASE ~(order.status = "pending" /\ order.tradeDate < today)
      <4>1. r.orders[o] = order
        BY <1>1, <1>3, <3>4 DEF Settled, Pending, IsStaleDayOrder, Books
      <4> HIDE DEF order, r
      <4>2. QED
        BY <3>1, <3>2, <3>4, <4>1 DEF OrderDates
    <3>5. QED
      BY <3>3, <3>4
  <2> HIDE DEF r
  <2>3. DatesInv(r, today)
    BY <2>1, <2>2 DEF DatesInv
  <2>4. QED
    BY <2>1, <2>3 DEF r
<1>4. QED
  BY <1>2, <1>3

(* ... and so, when pending orders are of the last settled day, none at    *)
(* all before it makes the whole position available.                       *)
LEMMA SettledShares ==
  ASSUME NEW b, BookInv(b), SharesInv(b), NEW today \in Nat, DatesInv(b, today),
         SameDayInv(b)
  PROVE  SharesInv(Settled(b, today)) /\ SameDayInv(Settled(b, today))
<1> DEFINE r == Settled(b, today)
<1>1. b \in Books /\ b.lastSettle \in Nat
  BY DEF BookInv, Books
<1>2. BookInv(r)
  BY SettledInv
<1>3. CASE b.lastSettle = today
  BY <1>3 DEF Settled
<1>4. CASE b.lastSettle # today
  <2>1. r.avail = b.qty /\ r.qty = b.qty
    BY <1>1, <1>4 DEF Settled, Books
  <2>2. ASSUME NEW o \in OrderIds
        PROVE  r.orders[o].status # "pending"
    <3>1. b.lastSettle < today
      BY <1>1, <1>4 DEF DatesInv
    <3>2. CASE b.orders[o].status = "pending"
      <4>1. b.orders[o].tradeDate < today
        BY <3>1, <3>2 DEF SameDayInv
      <4>2. r.orders[o] = [b.orders[o] EXCEPT !.status = "cancelled", !.frozen = 0]
        BY <1>1, <1>4, <3>2, <4>1 DEF Settled, Pending, IsStaleDayOrder, Books
      <4>3. QED
        BY <1>1, <4>2 DEF Books, Orders
    <3>3. CASE b.orders[o].status # "pending"
      <4>1. r.orders[o] = b.orders[o]
        BY <1>1, <1>4, <3>3 DEF Settled, Pending, Books
      <4>2. QED
        BY <3>3, <4>1
    <3>4. QED
      BY <3>2, <3>3
  <2> HIDE DEF r
  <2>3. \A c \in Codes : r.avail[c] = r.qty[c] /\ r.qty[c] \in Nat
    BY <1>2, <2>1 DEF BookInv, Books
  <2>4. \A c \in Codes : \A o \in OrderIds : Held(r, c)[o] = 0
    BY <2>2 DEF Held
  <2>5. \A c \in Codes : Total(Held(r, c), OrderIds) = 0
    BY <2>4, TotalZero
  <2>6. SharesInv(r)
    BY <2>3, <2>5 DEF SharesInv
  <2>7. SameDayInv(r)
    BY <2>2 DEF SameDayInv
  <2>8. QED
    BY <2>6, <2>7 DEF r
<1>5. QED
  BY <1>3, <1>4

(* An order not held as a sale leaves room for itself. *)
LEMMA ShareRoom ==
  ASSUME NEW b \in Books, NEW o \in OrderIds, SharesInv(b)
  PROVE  SharesLeft(b, o)
<1> SUFFICES ASSUME NEW c \in Codes
             PROVE  b.avail[c] + Rest(b, c, o) <= b.qty[c]
  BY DEF SharesLeft
<1>1. /\ Total(Held(b, c), OrderIds) = Held(b, c)[o] + Rest(b, c, o)
      /\ Held(b, c)[o] \in Nat /\ Rest(b, c, o) \in Nat
  BY HeldSplit DEF SameOthers
<1>2. b.avail[c] \in Nat /\ b.qty[c] \in Nat
  BY DEF Books
<1>3. QED
  BY <1>1, <1>2 DEF SharesInv

(* The same shares and orders, but for the frozen cash of one of them. *)
LEMMA ReleasedShares ==
  ASSUME NEW b, NEW o \in OrderIds, BookInv(b), b.orders[o].status = "pending",
         SharesInv(b)
  PROVE  SharesLeft(Released(b, o), o)
<1> DEFINE r == Released(b, o)
<1>1. /\ Loose(r, o) /\ SameOthers(b, r, o) /\ r.qty = b.qty /\ r.avail = b.avail
  BY ReleasedLoose DEF SameOthers
<1>2. b \in Books /\ r \in Books
  BY <1>1 DEF Loose, BookInv
<1> HIDE DEF r
<1>3. \A c \in Codes : Rest(r, c, o) = Rest(b, c, o)
  BY <1>1, <1>2, HeldSplit
<1>4. SharesLeft(b, o)
  BY <1>2, ShareRoom
<1>5. SharesLeft(r, o)
  BY <1>1, <1>3, <1>4 DEF SharesLeft
<1>6. QED
  BY <1>5 DEF r

(* cancel_order gives a waiting sell's shares back. *)
LEMMA CancelledShares ==
  ASSUME NEW b, NEW o \in OrderIds, BookInv(b), b.orders[o].status = "pending",
         SharesInv(b)
  PROVE  SharesInv(Cancelled(b, o))
<1> DEFINE order == b.orders[o]
           code == order.code
           n == order.qty
           r == Cancelled(b, o)
<1>0. b \in Books
  BY DEF BookInv
<1>1. n \in Nat /\ code \in Codes /\ order.side \in {"buy", "sell"} /\ b \in Books
  BY <1>0, SetsAssumption DEF Books, Orders, Sides
<1>8. BookInv(r)
  BY CancelledInv
<1>9. r \in Books
  BY <1>8 DEF BookInv
<1>2. CASE order.side = "buy"
  <2>1. Loose(Released(b, o), o) /\ SharesLeft(Released(b, o), o)
    BY ReleasedLoose, ReleasedShares
  <2>2. SharesInv(SetStatus(Released(b, o), o, "cancelled"))
    BY <2>1, SetStatusShares DEF Statuses
  <2>3. QED
    BY <1>2, <2>2 DEF Cancelled
<1>3. CASE order.side = "sell"
  <2>1. r.qty = b.qty /\ r.avail = [b.avail EXCEPT ![code] = @ + n]
    BY <1>1, <1>3 DEF Cancelled, SetStatus, Books
  <2>9. r.orders[o].status = "cancelled" /\ SameOthers(b, r, o)
    BY <1>0, CancelledFrame DEF SameOthers
  <2>2. Held(b, code)[o] = n /\ \A c \in Codes \ {code} : Held(b, c)[o] = 0
    BY <1>1, <1>3 DEF Held
  <2>3. b.qty \in [Codes -> Nat] /\ b.avail \in [Codes -> Nat]
    BY <1>1 DEF Books
  <2> HIDE DEF r, code, n, order
  <2>4. \A c \in Codes : /\ Total(Held(b, c), OrderIds) = Held(b, c)[o] + Rest(b, c, o)
                         /\ Rest(b, c, o) \in Nat
    BY <1>1, HeldSplit DEF SameOthers
  <2>5. \A c \in Codes : Rest(r, c, o) = Rest(b, c, o)
    BY <1>1, <1>9, <2>9, HeldSplit
  <2>6. ASSUME NEW c \in Codes
        PROVE  r.avail[c] + Rest(r, c, o) <= r.qty[c]
    <3>1. b.avail[c] + Held(b, c)[o] + Rest(b, c, o) <= b.qty[c]
      BY <1>1, <2>2, <2>3, <2>4 DEF SharesInv
    <3>2. CASE c = code
      BY <1>1, <2>1, <2>2, <2>3, <2>4, <2>5, <3>1, <3>2
    <3>3. CASE c # code
      BY <1>1, <2>1, <2>2, <2>3, <2>4, <2>5, <3>1, <3>3
    <3>4. QED
      BY <3>2, <3>3
  <2>7. SharesLeft(r, o)
    BY <2>6 DEF SharesLeft
  <2>8. QED
    BY <1>1, <1>9, <2>9, <2>7, ClosedShares DEF r
<1>4. QED
  BY <1>1, <1>2, <1>3

LEMMA PlacedShares ==
  ASSUME NEW b, NEW o \in OrderIds, BookInv(b), b.orders[o].status = "unused", SharesInv(b),
         NEW order \in Orders, order.status = "pending", order.frozen = 0,
         NEW quote \in Quotes, NEW today \in Nat
  PROVE  SharesInv(Placed(b, o, order, quote, today))
<1> DEFINE added == [b EXCEPT !.orders[o] = order]
           px == FillPrice(order.side, quote.px, order.limit)
           fills == /\ quote.px # 0 /\ order.side \notin quote.blocked
                    /\ order.limit = Market \/ Crosses(order.side, quote.px, order.limit)
<1>1. Loose(added, o) /\ b \in Books
  BY AddedLoose DEF BookInv
<1>2. /\ added.orders[o] = order /\ SameOthers(b, added, o)
      /\ added.qty = b.qty /\ added.avail = b.avail
  BY DEF BookInv, Books, SameOthers
<1> HIDE DEF added
<1>3. SharesLeft(added, o)
  <2>1. added \in Books
    BY <1>1 DEF Loose
  <2>2. \A c \in Codes : Rest(added, c, o) = Rest(b, c, o)
    BY <1>1, <1>2, <2>1, HeldSplit
  <2>3. SharesLeft(b, o)
    BY <1>1, ShareRoom
  <2>4. QED
    BY <1>2, <2>2, <2>3 DEF SharesLeft
<1>4. CASE fills
  <2>1. px \in Prices
    BY <1>4, FillPriceQuoted DEF Quotes, NoQuote
  <2> HIDE DEF px
  <2>2. SharesInv(FillBuy(added, o, px, today))
    BY <1>1, <1>3, <2>1, FillBuyShares
  <2>3. order.side # "buy" => SharesInv(FillSell(added, o, px, FALSE, today))
    BY <1>1, <1>2, <1>3, <2>1, FillSellShares
  <2>4. Placed(b, o, order, quote, today) = Fill(added, o, px, FALSE, today)
    BY <1>4 DEF Placed, added, px
  <2>5. SharesInv(Fill(added, o, px, FALSE, today))
    BY <1>2, <2>2, <2>3 DEF Fill
  <2>6. QED
    BY <2>4, <2>5
<1>5. CASE ~fills /\ order.limit = Market
  <2>1. Placed(b, o, order, quote, today) = SetStatus(added, o, "rejected")
    BY <1>5 DEF Placed, added
  <2>2. QED
    BY <1>1, <1>3, <2>1, SetStatusShares DEF Statuses
<1>6. CASE ~fills /\ order.limit # Market
  <2>1. Placed(b, o, order, quote, today) = FreezePending(added, o)
    BY <1>6 DEF Placed, added
  <2>2. QED
    BY <1>1, <1>2, <1>3, <1>6, <2>1, FreezePendingShares
<1>7. QED
  BY <1>4, <1>5, <1>6

LEMMA MatchedShares ==
  ASSUME NEW b, NEW o \in OrderIds, BookInv(b), SharesInv(b), NEW quote \in Quotes,
         NEW today \in Nat, DatesInv(b, today), SameDayInv(b)
  PROVE  SharesInv(Matched(b, o, quote, today))
<1> DEFINE s == Settled(b, today)
           order == s.orders[o]
           px == FillPrice(order.side, quote.px, order.limit)
           r == Matched(b, o, quote, today)
<1>1. BookInv(s) /\ SharesInv(s)
  BY SettledInv, SettledShares
<1> HIDE DEF s
<1>2. CASE \/ order.status # "pending" \/ quote.px = 0 \/ order.side \in quote.blocked
           \/ ~Crosses(order.side, quote.px, order.limit)
  <2>1. r = s \/ r = b
    BY <1>2 DEF Matched, s
  <2>2. QED
    BY <1>1, <2>1
<1>3. CASE /\ order.status = "pending" /\ quote.px # 0 /\ order.side \notin quote.blocked
           /\ Crosses(order.side, quote.px, order.limit)
  <2>1. px \in Prices
    BY <1>3, FillPriceQuoted DEF Quotes, NoQuote
  <2>2. CASE order.side = "buy"
    <3> DEFINE t == Released(s, o)
    <3>0. /\ Loose(t, o) /\ SharesLeft(t, o)
          /\ t.orders[o] = [order EXCEPT !.frozen = 0]
      BY <1>1, <1>3, ReleasedLoose, ReleasedShares
    <3>1. t.orders[o].side = "buy"
      BY <1>1, <2>2, <3>0 DEF BookInv, Books, Orders
    <3>2. r = Fill(t, o, px, TRUE, today)
      BY <1>3, <2>2 DEF Matched, s
    <3> HIDE DEF t, px
    <3>3. SharesInv(FillBuy(t, o, px, today))
      BY <2>1, <3>0, FillBuyShares
    <3>4. QED
      BY <3>1, <3>2, <3>3 DEF Fill
  <2>3. CASE order.side # "buy"
    <3>1. Loose(s, o)
      BY <1>1, <1>3, <2>3 DEF BookInv, Loose, FrozenRule
    <3>2. r = Fill(s, o, px, TRUE, today)
      BY <1>3, <2>3 DEF Matched, s
    <3> HIDE DEF px
    <3>3. SharesInv(FillSell(s, o, px, TRUE, today))
      BY <1>1, <2>1, <2>3, <3>1, FillSellShares
    <3>4. QED
      BY <2>3, <3>2, <3>3 DEF Fill
  <2>4. QED
    BY <2>2, <2>3
<1>4. QED
  BY <1>2, <1>3
-----------------------------------------------------------------------------
(* The dates.  No operation but a settlement moves the last settlement,    *)
(* and an order keeps its trade date.                                      *)
LEMMA SetStatusFrame ==
  ASSUME NEW b \in Books, NEW o \in OrderIds, NEW status
  PROVE  /\ SetStatus(b, o, status).lastSettle = b.lastSettle
         /\ SetStatus(b, o, status).orders[o].status = status
         /\ SetStatus(b, o, status).orders[o].tradeDate = b.orders[o].tradeDate
BY DEF SetStatus, Books, Orders

LEMMA FillBuyDates ==
  ASSUME NEW b \in Books, NEW o \in OrderIds, NEW px \in Prices, NEW today \in Nat
  PROVE  /\ FillBuy(b, o, px, today).lastSettle = b.lastSettle
         /\ FillBuy(b, o, px, today).orders[o].status \in {"filled", "rejected"}
         /\ FillBuy(b, o, px, today).orders[o].status = "filled" =>
              FillBuy(b, o, px, today).orders[o].filledOn = today
         /\ FillBuy(b, o, px, today).orders[o].tradeDate = b.orders[o].tradeDate
<1>1. FillBuy(b, o, px, today).lastSettle = b.lastSettle
  BY DEF FillBuy, Executed, SetStatus, Books
<1>2. CASE ShortOfCash(b, BuyTotal(px, b.orders[o].qty))
  BY <1>1, <1>2, SetStatusFrame DEF FillBuy
<1>3. CASE ~ShortOfCash(b, BuyTotal(px, b.orders[o].qty))
  <2>1. FillBuy(b, o, px, today).orders
          = [b.orders EXCEPT ![o] = [@ EXCEPT !.status = "filled", !.fillPx = px,
                                              !.filledOn = today]]
    BY <1>3 DEF FillBuy, Executed, Books
  <2>2. QED
    BY <1>1, <2>1 DEF Books, Orders
<1>4. QED
  BY <1>2, <1>3

LEMMA FillSellDates ==
  ASSUME NEW b \in Books, NEW o \in OrderIds, NEW px \in Prices,
         NEW fromPending \in BOOLEAN, NEW today \in Nat
  PROVE  /\ FillSell(b, o, px, fromPending, today).lastSettle = b.lastSettle
         /\ FillSell(b, o, px, fromPending, today).orders[o].status \in {"filled", "rejected"}
         /\ FillSell(b, o, px, fromPending, today).orders[o].status = "filled" =>
              FillSell(b, o, px, fromPending, today).orders[o].filledOn = today
         /\ FillSell(b, o, px, fromPending, today).orders[o].tradeDate = b.orders[o].tradeDate
<1> DEFINE short == ~fromPending /\ ShortOfShares(b, b.orders[o].code, b.orders[o].qty)
<1>1. FillSell(b, o, px, fromPending, today).lastSettle = b.lastSettle
  BY DEF FillSell, Executed, SetStatus, Books
<1>2. CASE short
  BY <1>1, <1>2, SetStatusFrame DEF FillSell
<1>3. CASE ~short
  <2>1. FillSell(b, o, px, fromPending, today).orders
          = [b.orders EXCEPT ![o] = [@ EXCEPT !.status = "filled", !.fillPx = px,
                                              !.filledOn = today]]
    BY <1>3, ZenonT(90) DEF FillSell, Executed, Books
  <2>2. QED
    BY <1>1, <2>1 DEF Books, Orders
<1>4. QED
  BY <1>2, <1>3

LEMMA FillDates ==
  ASSUME NEW b \in Books, NEW o \in OrderIds, NEW px \in Prices,
         NEW fromPending \in BOOLEAN, NEW today \in Nat
  PROVE  /\ Fill(b, o, px, fromPending, today).lastSettle = b.lastSettle
         /\ Fill(b, o, px, fromPending, today).orders[o].status \in {"filled", "rejected"}
         /\ Fill(b, o, px, fromPending, today).orders[o].status = "filled" =>
              Fill(b, o, px, fromPending, today).orders[o].filledOn = today
         /\ Fill(b, o, px, fromPending, today).orders[o].tradeDate = b.orders[o].tradeDate
BY FillBuyDates, FillSellDates DEF Fill

LEMMA FreezePendingDates ==
  ASSUME NEW b \in Books, NEW o \in OrderIds, b.orders[o].status = "pending"
  PROVE  /\ FreezePending(b, o).lastSettle = b.lastSettle
         /\ FreezePending(b, o).orders[o].status # "filled"
         /\ FreezePending(b, o).orders[o].tradeDate = b.orders[o].tradeDate
<1>1. FreezePending(b, o).lastSettle = b.lastSettle
  BY DEF FreezePending, SetStatus, Books
<1>2. \/ FreezePending(b, o) = SetStatus(b, o, "rejected")
      \/ FreezePending(b, o).orders = b.orders
      \/ FreezePending(b, o).orders =
           [b.orders EXCEPT ![o] = [@ EXCEPT
              !.frozen = FreezeAmount(b.orders[o].limit, b.orders[o].qty)]]
  BY DEF FreezePending, Books
<1>3. QED
  BY <1>1, <1>2, SetStatusFrame DEF Books, Orders

(* place_order: what becomes of the new order. *)
LEMMA PlacedDates ==
  ASSUME NEW b, NEW o \in OrderIds, BookInv(b), b.orders[o].status = "unused",
         NEW order \in Orders, order.status = "pending", order.frozen = 0,
         NEW quote \in Quotes, NEW today \in Nat
  PROVE  /\ Placed(b, o, order, quote, today).lastSettle = b.lastSettle
         /\ Placed(b, o, order, quote, today).orders[o].status = "filled" =>
              Placed(b, o, order, quote, today).orders[o].filledOn = today
         /\ Placed(b, o, order, quote, today).orders[o].tradeDate = order.tradeDate
<1> DEFINE added == [b EXCEPT !.orders[o] = order]
           px == FillPrice(order.side, quote.px, order.limit)
           fills == /\ quote.px # 0 /\ order.side \notin quote.blocked
                    /\ order.limit = Market \/ Crosses(order.side, quote.px, order.limit)
<1>1. added \in Books
  BY AddedLoose DEF Loose
<1>2. added.orders[o] = order /\ added.lastSettle = b.lastSettle
  BY DEF BookInv, Books
<1> HIDE DEF added
<1>3. CASE fills
  <2>1. px \in Prices
    BY <1>3, FillPriceQuoted DEF Quotes, NoQuote
  <2>2. Placed(b, o, order, quote, today) = Fill(added, o, px, FALSE, today)
    BY <1>3 DEF Placed, added
  <2> HIDE DEF px
  <2>3. /\ Fill(added, o, px, FALSE, today).lastSettle = added.lastSettle
        /\ Fill(added, o, px, FALSE, today).orders[o].status = "filled" =>
             Fill(added, o, px, FALSE, today).orders[o].filledOn = today
        /\ Fill(added, o, px, FALSE, today).orders[o].tradeDate = added.orders[o].tradeDate
    BY <1>1, <2>1, FillDates, ZenonT(60)
  <2>4. QED
    BY <1>2, <2>2, <2>3
<1>4. CASE ~fills /\ order.limit = Market
  <2>1. Placed(b, o, order, quote, today) = SetStatus(added, o, "rejected")
    BY <1>4 DEF Placed, added
  <2>2. QED
    BY <1>1, <1>2, <2>1, SetStatusFrame
<1>5. CASE ~fills /\ order.limit # Market
  <2>1. Placed(b, o, order, quote, today) = FreezePending(added, o)
    BY <1>5 DEF Placed, added
  <2>2. QED
    BY <1>1, <1>2, <2>1, FreezePendingDates
<1>6. QED
  BY <1>3, <1>4, <1>5

(* A placement on day d, whose later reads see day `later`, keeps dates    *)
(* good; if both days are the same, pending orders are of the settled day. *)
LEMMA PlacedDatesInv ==
  ASSUME NEW b, NEW o \in OrderIds, BookInv(b), b.orders[o].status = "unused",
         NEW order \in Orders, order.status = "pending", order.frozen = 0,
         NEW quote \in Quotes, NEW d \in Nat, NEW later \in Nat, d <= later,
         order.tradeDate = later, DatesInv(b, d), b.lastSettle = d
  PROVE  /\ DatesInv(Placed(b, o, order, quote, later), later)
         /\ d = later /\ SameDayInv(b) => SameDayInv(Placed(b, o, order, quote, later))
<1> DEFINE r == Placed(b, o, order, quote, later)
<1>1. /\ r.lastSettle = d
      /\ r.orders[o].status = "filled" => r.orders[o].filledOn = later
      /\ r.orders[o].tradeDate = later
  BY PlacedDates
<1>2. \A p \in OrderIds \ {o} : r.orders[p] = b.orders[p] /\ b.orders[p].tradeDate \in Nat
  BY PlacedFrame DEF BookInv, Books, Orders
<1> HIDE DEF r
<1>3. OrderDates(r.orders[o], d, later)
  BY <1>1 DEF OrderDates
<1>4. ASSUME NEW p \in OrderIds \ {o}
      PROVE  OrderDates(r.orders[p], d, later)
  BY <1>2 DEF DatesInv, OrderDates
<1>5. DatesInv(r, later)
  BY <1>1, <1>3, <1>4 DEF DatesInv
<1>6. ASSUME d = later, SameDayInv(b)
      PROVE  SameDayInv(r)
  BY <1>1, <1>2, <1>6 DEF SameDayInv
<1>7. QED
  BY <1>5, <1>6 DEF r

LEMMA CancelledDatesInv ==
  ASSUME NEW b, NEW o \in OrderIds, BookInv(b), b.orders[o].status = "pending",
         NEW d \in Nat, DatesInv(b, d)
  PROVE  /\ DatesInv(Cancelled(b, o), d)
         /\ SameDayInv(b) => SameDayInv(Cancelled(b, o))
<1> DEFINE r == Cancelled(b, o)
<1>1. b \in Books
  BY DEF BookInv
<1>2. /\ r.orders[o].status = "cancelled"
      /\ \A p \in OrderIds \ {o} : r.orders[p] = b.orders[p]
  BY <1>1, CancelledFrame
<1>3. r.lastSettle = b.lastSettle
  BY <1>1 DEF Cancelled, Released, SetStatus, Books
<1> HIDE DEF r
<1>4. DatesInv(r, d) /\ (SameDayInv(b) => SameDayInv(r))
  BY <1>2, <1>3 DEF DatesInv, OrderDates, SameDayInv
<1>5. QED
  BY <1>4 DEF r

(* A pass of the matcher: a fill is of an order of today. *)
LEMMA MatchedDatesInv ==
  ASSUME NEW b, NEW o \in OrderIds, BookInv(b), NEW quote \in Quotes,
         NEW today \in Nat, DatesInv(b, today),
         SpansMidnight \/ (SharesInv(b) /\ SameDayInv(b))
  PROVE  /\ DatesInv(Matched(b, o, quote, today), today)
         /\ ~SpansMidnight => SameDayInv(Matched(b, o, quote, today))
<1> DEFINE s == Settled(b, today)
           order == s.orders[o]
           px == FillPrice(order.side, quote.px, order.limit)
           r == Matched(b, o, quote, today)
<1>1. BookInv(s) /\ DatesInv(s, today) /\ s.lastSettle = today
  BY SettledInv, SettledDates
<1>2. ~SpansMidnight => SameDayInv(s)
  BY SettledShares
<1> HIDE DEF s
<1>3. CASE \/ order.status # "pending" \/ quote.px = 0 \/ order.side \in quote.blocked
           \/ ~Crosses(order.side, quote.px, order.limit)
  <2>1. r = s \/ r = b
    BY <1>3 DEF Matched, s
  <2>2. QED
    BY <1>1, <1>2, <2>1
<1>4. CASE /\ order.status = "pending" /\ quote.px # 0 /\ order.side \notin quote.blocked
           /\ Crosses(order.side, quote.px, order.limit)
  <2> DEFINE t == IF order.side = "buy" THEN Released(s, o) ELSE s
  <2>1. px \in Prices
    BY <1>4, FillPriceQuoted DEF Quotes, NoQuote
  <2>2. r = Fill(t, o, px, TRUE, today)
    BY <1>4 DEF Matched, s
  <2>3. /\ t \in Books /\ t.lastSettle = today
        /\ t.orders[o].tradeDate = order.tradeDate
        /\ \A p \in OrderIds \ {o} : t.orders[p] = s.orders[p]
    <3>1. CASE order.side = "buy"
      <4>1. /\ Loose(t, o) /\ t.lastSettle = s.lastSettle
            /\ t.orders[o] = [order EXCEPT !.frozen = 0]
            /\ \A p \in OrderIds \ {o} : t.orders[p] = s.orders[p]
        BY <1>1, <1>4, <3>1, ReleasedLoose
      <4>2. [order EXCEPT !.frozen = 0].tradeDate = order.tradeDate
        BY <1>1 DEF BookInv, Books, Orders
      <4>3. t \in Books
        BY <4>1 DEF Loose
      <4>4. QED
        BY <1>1, <4>1, <4>2, <4>3
    <3>2. CASE order.side # "buy"
      <4>1. t = s
        BY <3>2
      <4>2. QED
        BY <1>1, <4>1 DEF BookInv
    <3>3. QED
      BY <3>1, <3>2
  <2>4. order.tradeDate = today
    <3>1. order.tradeDate \in Nat
      BY <1>1 DEF BookInv, Books, Orders
    <3>2. QED
      BY <1>1, <1>4, <3>1 DEF DatesInv, OrderDates
  <2> HIDE DEF t, px
  <2>5. /\ r.lastSettle = today
        /\ r.orders[o].status \in {"filled", "rejected"}
        /\ r.orders[o].status = "filled" => r.orders[o].filledOn = today
        /\ r.orders[o].tradeDate = today
    <3>1. /\ Fill(t, o, px, TRUE, today).lastSettle = t.lastSettle
          /\ Fill(t, o, px, TRUE, today).orders[o].status \in {"filled", "rejected"}
          /\ Fill(t, o, px, TRUE, today).orders[o].status = "filled" =>
               Fill(t, o, px, TRUE, today).orders[o].filledOn = today
          /\ Fill(t, o, px, TRUE, today).orders[o].tradeDate = t.orders[o].tradeDate
      BY <2>1, <2>3, FillDates, ZenonT(60)
    <3>2. QED
      BY <2>2, <2>3, <2>4, <3>1
  <2>6. \A p \in OrderIds \ {o} : r.orders[p] = s.orders[p]
    <3>1. \A p \in OrderIds \ {o} : Fill(t, o, px, TRUE, today).orders[p] = t.orders[p]
      BY <2>1, <2>3, FillFrame, ZenonT(60)
    <3>2. QED
      BY <2>2, <2>3, <3>1
  <2> HIDE DEF r
  <2>7. DatesInv(r, today)
    BY <1>1, <2>5, <2>6 DEF DatesInv, OrderDates
  <2>8. ~SpansMidnight => SameDayInv(r)
    BY <1>1, <1>2, <2>5, <2>6 DEF SameDayInv
  <2>9. QED
    BY <2>7, <2>8 DEF r
<1>5. QED
  BY <1>3, <1>4
-----------------------------------------------------------------------------
(* The inductive invariant: types and frozen cash, dates, and, if midnight *)
(* never falls inside a placement, shares.                                 *)
SharesIInv ==
  /\ IInv
  /\ DatesInv(book, day)
  /\ ~SpansMidnight => SharesInv(book) /\ SameDayInv(book)

LEMMA InitShares == Init => SharesIInv
<1> SUFFICES ASSUME Init
             PROVE  SharesIInv
  OBVIOUS
<1>1. IInv
  BY InitIInv
<1>2. /\ book.orders = [o \in OrderIds |-> UnusedOrder] /\ book.lastSettle = 0 /\ day = 1
      /\ book.qty = [c \in Codes |-> 0] /\ book.avail = [c \in Codes |-> 0]
  BY DEF Init
<1>3. UnusedOrder.status = "unused"
  BY DEF UnusedOrder, NewOrder
<1>4. DatesInv(book, day) /\ SameDayInv(book)
  BY <1>2, <1>3 DEF DatesInv, OrderDates, SameDayInv
<1>5. \A c \in Codes : \A o \in OrderIds : Held(book, c)[o] = 0
  BY <1>2, <1>3 DEF Held
<1>6. \A c \in Codes : Total(Held(book, c), OrderIds) = 0
  BY <1>5, TotalZero
<1>7. SharesInv(book)
  BY <1>2, <1>6 DEF SharesInv
<1>8. QED
  BY <1>1, <1>4, <1>7 DEF SharesIInv

LEMMA PlaceOrderShares ==
  ASSUME SharesIInv, NEW o \in OrderIds, PlaceOrder(o)
  PROVE  /\ DatesInv(book', day')
         /\ ~SpansMidnight => SharesInv(book') /\ SameDayInv(book')
<1>1. PICK side \in Sides, code \in Codes, limit \in Prices \cup {Market}, qty \in Quantities,
           quote \in Quotes, later \in {day, day + 1} :
        /\ ~SpansMidnight => later = day
        /\ book.orders[o].status = "unused"
        /\ book' = Placed(Settled(book, day), o, NewOrder(side, code, limit, qty, later),
                          quote, later)
        /\ day' = later
  BY DEF PlaceOrder
<1> DEFINE s == Settled(book, day)
           order == NewOrder(side, code, limit, qty, later)
<1>2. day \in Nat /\ later \in Nat /\ day <= later /\ BookInv(book) /\ DatesInv(book, day)
  BY DEF SharesIInv, IInv, TypeOK
<1>3. /\ BookInv(s) /\ s.orders[o] = book.orders[o]
      /\ DatesInv(s, day) /\ s.lastSettle = day
  BY <1>1, <1>2, SettledInv, SettledDates
<1>4. ~SpansMidnight => SharesInv(s) /\ SameDayInv(s)
  BY <1>2, SettledShares DEF SharesIInv
<1>5. /\ order \in Orders /\ order.status = "pending" /\ order.frozen = 0
      /\ order.tradeDate = later
  BY <1>2 DEF NewOrder, Orders, Statuses
<1> HIDE DEF s, order
<1>6. book' = Placed(s, o, order, quote, later)
  BY <1>1 DEF s, order
<1>7. /\ DatesInv(Placed(s, o, order, quote, later), later)
      /\ day = later /\ SameDayInv(s) => SameDayInv(Placed(s, o, order, quote, later))
  BY <1>1, <1>2, <1>3, <1>5, PlacedDatesInv
<1>8. SharesInv(s) => SharesInv(Placed(s, o, order, quote, later))
  BY <1>1, <1>2, <1>3, <1>5, PlacedShares
<1>9. QED
  BY <1>1, <1>4, <1>6, <1>7, <1>8

LEMMA NextShares == SharesIInv /\ [Next]_vars => SharesIInv'
<1> SUFFICES ASSUME SharesIInv, [Next]_vars
             PROVE  SharesIInv'
  OBVIOUS
<1> DEFINE Good == /\ DatesInv(book', day')
                   /\ ~SpansMidnight => SharesInv(book') /\ SameDayInv(book')
<1>1. /\ IInv' /\ day \in Nat /\ BookInv(book) /\ DatesInv(book, day)
      /\ SpansMidnight \/ (SharesInv(book) /\ SameDayInv(book))
  BY NextIInv DEF SharesIInv, IInv, TypeOK
<1>2. ASSUME UNCHANGED <<book, day>>
      PROVE  Good
  BY <1>1, <1>2
<1>3. ASSUME NEW o \in OrderIds, PlaceOrder(o)
      PROVE  Good
  BY <1>3, PlaceOrderShares
<1>4. ASSUME NEW o \in OrderIds, CancelOrder(o)
      PROVE  Good
  <2>1. book.orders[o].status = "pending" /\ book' = Cancelled(book, o) /\ UNCHANGED day
    BY <1>4 DEF CancelOrder
  <2>2. QED
    BY <1>1, <2>1, CancelledShares, CancelledDatesInv
<1>5. ASSUME SettleAccount
      PROVE  Good
  <2>1. book' = Settled(book, day) /\ UNCHANGED day
    BY <1>5 DEF SettleAccount
  <2>2. QED
    BY <1>1, <2>1, SettledShares, SettledDates
<1>6. ASSUME NEW m \in Matchers, NEW o \in OrderIds, MatchOne(m, o)
      PROVE  Good
  <2>1. PICK quote \in Quotes : book' = Matched(book, o, quote, day)
    BY <1>6 DEF MatchOne
  <2>2. UNCHANGED day
    BY <1>6 DEF MatchOne
  <2>3. DatesInv(book', day) /\ (~SpansMidnight => SameDayInv(book'))
    BY <1>1, <2>1, MatchedDatesInv
  <2>4. ~SpansMidnight => SharesInv(book')
    BY <1>1, <2>1, MatchedShares
  <2>5. QED
    BY <2>2, <2>3, <2>4
<1>7. ASSUME NextDay
      PROVE  Good
  <2>1. day' = day + 1 /\ book' = book
    BY <1>7 DEF NextDay
  <2>2. book.lastSettle \in Nat /\ \A o \in OrderIds : book.orders[o].tradeDate \in Nat
    BY <1>1 DEF BookInv, Books, Orders
  <2>3. DatesInv(book, day + 1)
    BY <1>1, <2>2 DEF DatesInv, OrderDates
  <2>4. QED
    BY <1>1, <2>1, <2>3
<1>8. ASSUME NEW m \in Matchers, ListPending(m)
      PROVE  UNCHANGED <<book, day>>
  BY <1>8 DEF ListPending
<1> HIDE DEF Good
<1>9. Good
  BY <1>2, <1>3, <1>4, <1>5, <1>6, <1>7, <1>8 DEF Next, vars
<1>10. QED
  BY <1>1, <1>9 DEF Good, SharesIInv, DatesInv, SharesInv, SameDayInv, OrderDates, Held

(* No share is promised to two sales: available shares and those that      *)
(* pending sells hold never exceed the position, unless midnight falls     *)
(* inside place_order (lines 164 and 322 of services/trading.py).          *)
THEOREM SharesReservedCorrect == ~SpansMidnight => (Spec => []SharesReserved)
<1> SUFFICES ASSUME ~SpansMidnight
             PROVE  Spec => []SharesReserved
  OBVIOUS
<1>1. SharesIInv => SharesReserved
  BY DEF SharesIInv, SharesInv, SharesReserved
<1>2. QED
  BY <1>1, InitShares, NextShares, PTL DEF Spec

(* Every pending order is backed by shares or cash that are promised to no *)
(* other, unless midnight falls inside a placement.                        *)
THEOREM OrdersBackedCorrect == ~SpansMidnight => (Spec => []OrdersBacked)
<1> SUFFICES ASSUME ~SpansMidnight
             PROVE  Spec => []OrdersBacked
  OBVIOUS
<1>1. Spec => []SharesReserved
  BY SharesReservedCorrect
<1>2. SharesReserved /\ FrozenCashMatchesOrders => OrdersBacked
  BY DEF OrdersBacked
<1>3. QED
  BY <1>1, <1>2, FrozenCashCorrect, PTL

(* A DAY order fills on its trade date or never, whatever list the matcher *)
(* works from and even when midnight falls inside a placement.             *)
THEOREM NoOvernightFillCorrect == Spec => []NoOvernightFill
<1>1. SharesIInv => NoOvernightFill
  BY DEF SharesIInv, DatesInv, OrderDates, NoOvernightFill
<1>2. QED
  BY <1>1, InitShares, NextShares, PTL DEF Spec
-----------------------------------------------------------------------------
(* The trades of an account against its money and shares. *)

(* Cash, free and frozen, and the shares that may be or are to be sold. *)
Money(b)       == b.cash + b.frozenCash
Promised(b, c) == b.avail[c] + Total(Held(b, c), OrderIds)

Filled(b, o) == b.orders[o].status = "filled"

(* An operation on the account either leaves the trades and their money    *)
(* alone, or adds one trade, of order o at price px.                       *)
NoTrade(b, r) ==
  /\ Money(r) = Money(b)
  /\ \A o \in OrderIds : Filled(b, o) \/ Filled(r, o) => r.orders[o] = b.orders[o]

Trade(b, r, o, px, today) ==
  /\ SameOthers(b, r, o) /\ ~Filled(b, o) /\ Filled(r, o)
  /\ r.orders[o].fillPx = px /\ r.orders[o].filledOn = today
  /\ IF r.orders[o].side = "buy"
     THEN Money(r) + BuyTotal(px, r.orders[o].qty) = Money(b)
     ELSE Money(r) = Money(b) + SellProceeds(px, r.orders[o].qty)

(* The same for the shares. *)
NoShares(b, r) ==
  /\ r.qty = b.qty /\ r.lastSettle = b.lastSettle
  /\ \A c \in Codes : Promised(r, c) = Promised(b, c)

Shares(b, r, o) ==
  LET order == r.orders[o]
  IN  /\ r.lastSettle = b.lastSettle
      /\ \A c \in Codes \ {order.code} :
           r.qty[c] = b.qty[c] /\ Promised(r, c) = Promised(b, c)
      /\ IF order.side = "buy"
         THEN /\ r.qty[order.code] = b.qty[order.code] + order.qty
              /\ Promised(r, order.code) = Promised(b, order.code)
         ELSE /\ r.qty[order.code] + order.qty = b.qty[order.code]
              /\ Promised(r, order.code) + order.qty = Promised(b, order.code)

(* Money is conserved. *)
MoneyInv(b) ==
  Money(b) + Total(Paid(b), OrderIds) = InitialCash + Total(Earned(b), OrderIds)

(* Up to day d, of c: the shares sold and those bought. *)
SoldBy(b, c, d)   == Total(Traded(b, "sell", c, d), OrderIds)
BoughtBy(b, c, d) == Total(Traded(b, "buy", c, d), OrderIds)

(* Every trade is of a settled day; the position is what was bought and    *)
(* not sold; what may be sold, or is being sold, was bought before the     *)
(* settled day; and so for the sales of each day.                          *)
TradeDays(b) == \A o \in OrderIds : Filled(b, o) => b.orders[o].filledOn <= b.lastSettle
PositionInv(b) ==
  \A c \in Codes : b.qty[c] + SoldBy(b, c, b.lastSettle) = BoughtBy(b, c, b.lastSettle)
SellableInv(b) ==
  \A c \in Codes : Promised(b, c) + SoldBy(b, c, b.lastSettle) <= BoughtBy(b, c, b.lastSettle - 1)
PastInv(b) ==
  \A c \in Codes, d \in Nat \ {0} : SoldBy(b, c, d) <= BoughtBy(b, c, d - 1)

TradesInv(b) == TradeDays(b) /\ PositionInv(b) /\ SellableInv(b) /\ PastInv(b)
-----------------------------------------------------------------------------
(* Total grows with its function. *)
LEMMA TotalMonotone ==
  ASSUME NEW S, IsFiniteSet(S), NEW f, NEW g,
         \A x \in S : f[x] \in Nat /\ g[x] \in Nat /\ f[x] <= g[x]
  PROVE  Total(f, S) <= Total(g, S)
<1>1. Units(f, S) \subseteq Units(g, S)
  <2>1. \A x \in S : {x} \X (1 .. f[x]) \subseteq {x} \X (1 .. g[x])
    OBVIOUS
  <2>2. QED
    BY <2>1 DEF Units
<1>2. IsFiniteSet(Units(g, S))
  BY TotalType
<1>3. QED
  BY <1>1, <1>2, FS_Subset DEF Total

(* What the sums of trades are made of. *)
LEMMA TradedType ==
  ASSUME NEW b \in Books, NEW side, NEW c, NEW d
  PROVE  \A o \in OrderIds : Traded(b, side, c, d)[o] \in Nat
BY SetsAssumption DEF Traded, Books, Orders

LEMMA TradedTotal ==
  ASSUME NEW b \in Books, NEW side, NEW c, NEW d
  PROVE  Total(Traded(b, side, c, d), OrderIds) \in Nat
<1>1. \A o \in OrderIds : Traded(b, side, c, d)[o] \in Nat
  BY TradedType
<1>2. QED
  BY <1>1, TotalType, SetsAssumption

(* Books with the same trades have the same sums. *)
LEMMA SameTrades ==
  ASSUME NEW b, NEW r,
         \A o \in OrderIds : Filled(b, o) \/ Filled(r, o) => r.orders[o] = b.orders[o]
  PROVE  /\ Total(Paid(r), OrderIds) = Total(Paid(b), OrderIds)
         /\ Total(Earned(r), OrderIds) = Total(Earned(b), OrderIds)
         /\ \A side, c, d : Total(Traded(r, side, c, d), OrderIds)
                              = Total(Traded(b, side, c, d), OrderIds)
<1>1. \A o \in OrderIds : Paid(r)[o] = Paid(b)[o]
  BY DEF Filled, Paid
<1>2. \A o \in OrderIds : Earned(r)[o] = Earned(b)[o]
  BY DEF Filled, Earned
<1>3. ASSUME NEW side, NEW c, NEW d
      PROVE  Total(Traded(r, side, c, d), OrderIds) = Total(Traded(b, side, c, d), OrderIds)
  <2>1. \A o \in OrderIds : Traded(r, side, c, d)[o] = Traded(b, side, c, d)[o]
    BY DEF Filled, Traded
  <2>2. QED
    BY <2>1, TotalSame
<1>4. Total(Paid(r), OrderIds) = Total(Paid(b), OrderIds)
  BY <1>1, TotalSame
<1>5. Total(Earned(r), OrderIds) = Total(Earned(b), OrderIds)
  BY <1>2, TotalSame
<1>6. QED
  BY <1>3, <1>4, <1>5

(* After the last trade the sums stand still. *)
LEMMA SettledTrades ==
  ASSUME NEW b \in Books, TradeDays(b), NEW side, NEW c, NEW d \in Nat, NEW e \in Nat,
         b.lastSettle <= d, b.lastSettle <= e
  PROVE  Total(Traded(b, side, c, d), OrderIds) = Total(Traded(b, side, c, e), OrderIds)
<1>1. \A o \in OrderIds : b.orders[o].filledOn \in Nat /\ b.lastSettle \in Nat
  BY DEF Books, Orders
<1>2. \A o \in OrderIds : Traded(b, side, c, d)[o] = Traded(b, side, c, e)[o]
  BY <1>1 DEF Traded, TradeDays, Filled
<1>3. QED
  BY <1>2, TotalSame

LEMMA TradedMonotone ==
  ASSUME NEW b \in Books, NEW side, NEW c, NEW d \in Int, NEW e \in Int, d <= e
  PROVE  Total(Traded(b, side, c, d), OrderIds) <= Total(Traded(b, side, c, e), OrderIds)
<1>1. \A o \in OrderIds : /\ Traded(b, side, c, d)[o] \in Nat
                          /\ Traded(b, side, c, e)[o] \in Nat
  BY TradedType
<1>2. \A o \in OrderIds : b.orders[o].filledOn \in Nat /\ b.orders[o].qty \in Nat
  BY SetsAssumption DEF Books, Orders
<1>3. \A o \in OrderIds : Traded(b, side, c, d)[o] <= Traded(b, side, c, e)[o]
  BY <1>2 DEF Traded
<1>4. QED
  BY <1>1, <1>3, TotalMonotone, SetsAssumption
-----------------------------------------------------------------------------
(* Money: what a trade costs or brings is what the sums count. *)
LEMMA MoneyTypes ==
  ASSUME NEW b \in Books, \A o \in OrderIds : Filled(b, o) => b.orders[o].fillPx \in Prices
  PROVE  \A o \in OrderIds : Paid(b)[o] \in Nat /\ Earned(b)[o] \in Nat
<1> SUFFICES ASSUME NEW o \in OrderIds
             PROVE  Paid(b)[o] \in Nat /\ Earned(b)[o] \in Nat
  OBVIOUS
<1>1. b.orders[o].qty \in Quantities /\ b.orders[o].qty \in Nat
  BY SetsAssumption DEF Books, Orders
<1>2. CASE Filled(b, o)
  <2>1. b.orders[o].fillPx \in Prices /\ b.orders[o].fillPx \in Nat
    BY <1>2, SetsAssumption
  <2>2. /\ BuyTotal(b.orders[o].fillPx, b.orders[o].qty) \in Nat
        /\ SellProceeds(b.orders[o].fillPx, b.orders[o].qty) \in Nat
    BY <1>1, <2>1, BuyTotalType, SellProceedsType
  <2>3. QED
    BY <2>2 DEF Paid, Earned
<1>3. CASE ~Filled(b, o)
  BY <1>3 DEF Paid, Earned, Filled
<1>4. QED
  BY <1>2, <1>3

Priced(b) == \A o \in OrderIds : Filled(b, o) => b.orders[o].fillPx \in Prices

LEMMA NoTradeMoney ==
  ASSUME NEW b \in Books, NEW r \in Books, NoTrade(b, r), Priced(b), MoneyInv(b)
  PROVE  Priced(r) /\ MoneyInv(r)
<1>1. Priced(r)
  BY DEF Priced, NoTrade, Filled
<1>2. /\ Total(Paid(r), OrderIds) = Total(Paid(b), OrderIds)
      /\ Total(Earned(r), OrderIds) = Total(Earned(b), OrderIds)
  BY SameTrades DEF NoTrade
<1>3. QED
  BY <1>1, <1>2 DEF MoneyInv, NoTrade

LEMMA TradeMoney ==
  ASSUME NEW b \in Books, NEW r \in Books, NEW o \in OrderIds, NEW px \in Prices, NEW today,
         Trade(b, r, o, px, today), Priced(b), MoneyInv(b)
  PROVE  Priced(r) /\ MoneyInv(r)
<1>1. Priced(r)
  <2>1. \A p \in OrderIds \ {o} : Filled(r, p) => r.orders[p].fillPx \in Prices
    BY DEF Priced, Trade, SameOthers, Filled
  <2>2. r.orders[o].fillPx \in Prices
    BY DEF Trade
  <2>3. QED
    BY <2>1, <2>2 DEF Priced
<1>2. \A p \in OrderIds : /\ Paid(b)[p] \in Nat /\ Earned(b)[p] \in Nat
                          /\ Paid(r)[p] \in Nat /\ Earned(r)[p] \in Nat
  BY <1>1, MoneyTypes DEF Priced
<1>3. \A p \in OrderIds \ {o} : Paid(b)[p] = Paid(r)[p] /\ Earned(b)[p] = Earned(r)[p]
  BY DEF Trade, SameOthers, Paid, Earned
<1>4. Paid(b)[o] = 0 /\ Earned(b)[o] = 0
  BY DEF Trade, Filled, Paid, Earned
<1>5. /\ Total(Paid(r), OrderIds) + Paid(b)[o] = Total(Paid(b), OrderIds) + Paid(r)[o]
      /\ Total(Paid(b), OrderIds) \in Nat /\ Total(Paid(r), OrderIds) \in Nat
  <2>1. /\ \A p \in OrderIds : Paid(b)[p] \in Nat /\ Paid(r)[p] \in Nat
        /\ \A p \in OrderIds \ {o} : Paid(b)[p] = Paid(r)[p]
    BY <1>2, <1>3
  <2>2. QED
    BY <2>1, TotalUpdate, SetsAssumption
<1>6. /\ Total(Earned(r), OrderIds) + Earned(b)[o] = Total(Earned(b), OrderIds) + Earned(r)[o]
      /\ Total(Earned(b), OrderIds) \in Nat /\ Total(Earned(r), OrderIds) \in Nat
  <2>1. /\ \A p \in OrderIds : Earned(b)[p] \in Nat /\ Earned(r)[p] \in Nat
        /\ \A p \in OrderIds \ {o} : Earned(b)[p] = Earned(r)[p]
    BY <1>2, <1>3
  <2>2. QED
    BY <2>1, TotalUpdate, SetsAssumption
<1>7. Money(b) \in Nat /\ Money(r) \in Nat /\ InitialCash \in Nat
  BY MoneyAssumption DEF Money, Books
<1>8. CASE r.orders[o].side = "buy"
  <2>1. Paid(r)[o] = BuyTotal(px, r.orders[o].qty) /\ Earned(r)[o] = 0
    BY <1>8 DEF Trade, Filled, Paid, Earned
  <2>2. Money(r) + Paid(r)[o] = Money(b)
    BY <1>8, <2>1 DEF Trade
  <2> QED
    BY <1>1, <1>2, <1>4, <1>5, <1>6, <1>7, <2>1, <2>2 DEF MoneyInv
<1>9. CASE r.orders[o].side # "buy"
  <2>1. r.orders[o].side = "sell"
    BY <1>9 DEF Books, Orders, Sides
  <2>2. Earned(r)[o] = SellProceeds(px, r.orders[o].qty) /\ Paid(r)[o] = 0
    BY <2>1 DEF Trade, Filled, Paid, Earned
  <2>3. Money(r) = Money(b) + Earned(r)[o]
    BY <1>9, <2>2 DEF Trade
  <2> QED
    BY <1>1, <1>2, <1>4, <1>5, <1>6, <1>7, <2>2, <2>3 DEF MoneyInv
<1>10. QED
  BY <1>8, <1>9
-----------------------------------------------------------------------------
(* Shares.  An operation without a trade keeps what is said of them.       *)
LEMMA NoTradeShares ==
  ASSUME NEW b \in Books, NEW r \in Books, NoTrade(b, r), NoShares(b, r), TradesInv(b)
  PROVE  TradesInv(r)
<1>1. \A side, c, d : Total(Traded(r, side, c, d), OrderIds)
                        = Total(Traded(b, side, c, d), OrderIds)
  BY SameTrades DEF NoTrade
<1>2. /\ r.qty = b.qty /\ r.lastSettle = b.lastSettle
      /\ \A c \in Codes : Promised(r, c) = Promised(b, c)
  BY DEF NoShares
<1>3. TradeDays(r)
  BY <1>2 DEF TradesInv, TradeDays, NoTrade, Filled
<1>4. PositionInv(r) /\ SellableInv(r) /\ PastInv(r)
  <2>1. \A c, d : SoldBy(r, c, d) = SoldBy(b, c, d) /\ BoughtBy(r, c, d) = BoughtBy(b, c, d)
    BY <1>1 DEF SoldBy, BoughtBy
  <2>2. PositionInv(r)
    BY <1>2, <2>1 DEF TradesInv, PositionInv
  <2>3. SellableInv(r)
    BY <1>2, <2>1 DEF TradesInv, SellableInv
  <2>4. PastInv(r)
    BY <2>1 DEF TradesInv, PastInv
  <2>5. QED
    BY <2>2, <2>3, <2>4
<1>5. QED
  BY <1>3, <1>4 DEF TradesInv

(* One more trade adds its shares to the sums of its side and instrument,  *)
(* from its day on.                                                        *)
LEMMA TradeSums ==
  ASSUME NEW b \in Books, NEW r \in Books, NEW o \in OrderIds, NEW px, NEW today \in Nat,
         Trade(b, r, o, px, today), NEW side, NEW c, NEW d \in Int
  PROVE  LET order == r.orders[o]
         IN  Total(Traded(r, side, c, d), OrderIds)
               = Total(Traded(b, side, c, d), OrderIds)
                   + IF side = order.side /\ c = order.code /\ today <= d
                     THEN order.qty ELSE 0
<1>1. \A p \in OrderIds : Traded(b, side, c, d)[p] \in Nat /\ Traded(r, side, c, d)[p] \in Nat
  BY TradedType
<1>2. \A p \in OrderIds \ {o} : Traded(b, side, c, d)[p] = Traded(r, side, c, d)[p]
  BY DEF Trade, SameOthers, Traded
<1>3. Traded(b, side, c, d)[o] = 0
  BY DEF Trade, Filled, Traded
<1>4. /\ Total(Traded(r, side, c, d), OrderIds) + Traded(b, side, c, d)[o]
           = Total(Traded(b, side, c, d), OrderIds) + Traded(r, side, c, d)[o]
      /\ Total(Traded(b, side, c, d), OrderIds) \in Nat
      /\ Total(Traded(r, side, c, d), OrderIds) \in Nat
  BY <1>1, <1>2, TotalUpdate, SetsAssumption
<1>5. Traded(r, side, c, d)[o] = IF /\ side = r.orders[o].side /\ c = r.orders[o].code
                                    /\ today <= d
                                 THEN r.orders[o].qty ELSE 0
  BY DEF Trade, Filled, Traded
<1>6. Traded(r, side, c, d)[o] \in Nat
  BY <1>1
<1>7. Total(Traded(r, side, c, d), OrderIds)
        = Total(Traded(b, side, c, d), OrderIds) + Traded(r, side, c, d)[o]
  BY <1>3, <1>4, <1>6
<1>8. QED
  BY <1>5, <1>7

LEMMA PromisedType ==
  ASSUME NEW b \in Books, NEW c \in Codes
  PROVE  Promised(b, c) \in Nat /\ b.qty[c] \in Nat /\ b.avail[c] \in Nat
<1>1. \A o \in OrderIds : Held(b, c)[o] \in Nat
  BY HeldType
<1>2. Total(Held(b, c), OrderIds) \in Nat
  BY <1>1, TotalType, SetsAssumption
<1>3. b.qty[c] \in Nat /\ b.avail[c] \in Nat
  BY DEF Books
<1>4. QED
  BY <1>2, <1>3 DEF Promised

(* A trade of the settled day: shares bought today cannot be sold today,   *)
(* because what may be sold does not grow.                                 *)
LEMMA TradeShares ==
  ASSUME NEW b \in Books, NEW r \in Books, NEW o \in OrderIds, NEW px,
         Trade(b, r, o, px, b.lastSettle), Shares(b, r, o), TradesInv(b)
  PROVE  TradesInv(r)
<1> DEFINE order == r.orders[o]
           today == b.lastSettle
<1>1. /\ today \in Nat /\ order.qty \in Nat /\ order.code \in Codes
      /\ order.side \in {"buy", "sell"} /\ r.lastSettle = today
  BY SetsAssumption DEF Books, Orders, Sides, Shares
<1>2. TradeDays(r)
  <2>1. \A p \in OrderIds \ {o} : Filled(r, p) => r.orders[p].filledOn <= today
    BY DEF TradesInv, TradeDays, Trade, SameOthers, Filled
  <2>2. r.orders[o].filledOn <= today
    BY <1>1 DEF Trade
  <2>3. QED
    BY <1>1, <2>1, <2>2 DEF TradeDays
<1>3. ASSUME NEW c \in Codes, NEW d \in Int
      PROVE  /\ SoldBy(r, c, d) = SoldBy(b, c, d)
                  + IF order.side = "sell" /\ c = order.code /\ today <= d
                    THEN order.qty ELSE 0
             /\ BoughtBy(r, c, d) = BoughtBy(b, c, d)
                  + IF order.side = "buy" /\ c = order.code /\ today <= d
                    THEN order.qty ELSE 0
             /\ SoldBy(b, c, d) \in Nat /\ BoughtBy(b, c, d) \in Nat
             /\ SoldBy(r, c, d) \in Nat /\ BoughtBy(r, c, d) \in Nat
  <2>1. /\ SoldBy(b, c, d) \in Nat /\ BoughtBy(b, c, d) \in Nat
        /\ SoldBy(r, c, d) \in Nat /\ BoughtBy(r, c, d) \in Nat
    BY TradedTotal DEF SoldBy, BoughtBy
  <2>2. SoldBy(r, c, d) = SoldBy(b, c, d)
          + IF "sell" = order.side /\ c = order.code /\ today <= d THEN order.qty ELSE 0
    BY <1>1, TradeSums DEF SoldBy
  <2>3. BoughtBy(r, c, d) = BoughtBy(b, c, d)
          + IF "buy" = order.side /\ c = order.code /\ today <= d THEN order.qty ELSE 0
    BY <1>1, TradeSums DEF BoughtBy
  <2>4. QED
    BY <2>1, <2>2, <2>3
<1>4. \A c \in Codes : /\ Promised(b, c) \in Nat /\ b.qty[c] \in Nat
                       /\ Promised(r, c) \in Nat /\ r.qty[c] \in Nat
  BY PromisedType
<1>5. /\ \A c \in Codes \ {order.code} :
           r.qty[c] = b.qty[c] /\ Promised(r, c) = Promised(b, c)
      /\ order.side = "buy" =>
           /\ r.qty[order.code] = b.qty[order.code] + order.qty
           /\ Promised(r, order.code) = Promised(b, order.code)
      /\ order.side = "sell" =>
           /\ r.qty[order.code] + order.qty = b.qty[order.code]
           /\ Promised(r, order.code) + order.qty = Promised(b, order.code)
  BY DEF Shares
<1> HIDE DEF order, today
<1>6. PositionInv(r)
  <2> SUFFICES ASSUME NEW c \in Codes
               PROVE  r.qty[c] + SoldBy(r, c, today) = BoughtBy(r, c, today)
    BY <1>1 DEF PositionInv
  <2>1. b.qty[c] + SoldBy(b, c, today) = BoughtBy(b, c, today)
    BY DEF TradesInv, PositionInv, today
  <2>2. CASE c # order.code
    <3>1. SoldBy(r, c, today) = SoldBy(b, c, today) /\ BoughtBy(r, c, today) = BoughtBy(b, c, today)
      BY <1>1, <1>3, <2>2
    <3>2. r.qty[c] = b.qty[c]
      BY <1>5, <2>2
    <3>3. QED
      BY <2>1, <3>1, <3>2
  <2>3. CASE c = order.code /\ order.side = "buy"
    <3>1. SoldBy(r, c, today) = SoldBy(b, c, today)
      BY <1>1, <1>3, <2>3
    <3>2. BoughtBy(r, c, today) = BoughtBy(b, c, today) + order.qty
      BY <1>1, <1>3, <2>3
    <3>3. r.qty[c] = b.qty[c] + order.qty
      BY <1>5, <2>3
    <3>4. SoldBy(b, c, today) \in Nat /\ BoughtBy(b, c, today) \in Nat
      BY <1>1, <1>3
    <3>5. QED
      BY <1>1, <1>4, <2>1, <3>1, <3>2, <3>3, <3>4
  <2>4. CASE c = order.code /\ order.side = "sell"
    <3>1. SoldBy(r, c, today) = SoldBy(b, c, today) + order.qty
      BY <1>1, <1>3, <2>4
    <3>2. BoughtBy(r, c, today) = BoughtBy(b, c, today)
      BY <1>1, <1>3, <2>4
    <3>3. r.qty[c] + order.qty = b.qty[c]
      BY <1>5, <2>4
    <3>4. SoldBy(b, c, today) \in Nat /\ BoughtBy(b, c, today) \in Nat
      BY <1>1, <1>3
    <3>5. QED
      BY <1>1, <1>4, <2>1, <3>1, <3>2, <3>3, <3>4
  <2>5. QED
    BY <1>1, <2>2, <2>3, <2>4
<1>7. \A c \in Codes : Promised(r, c) + SoldBy(r, c, today) <= BoughtBy(r, c, today - 1)
  <2> SUFFICES ASSUME NEW c \in Codes
               PROVE  Promised(r, c) + SoldBy(r, c, today) <= BoughtBy(r, c, today - 1)
    OBVIOUS
  <2>1. Promised(b, c) + SoldBy(b, c, today) <= BoughtBy(b, c, today - 1)
    BY DEF TradesInv, SellableInv, today
  <2>2. BoughtBy(r, c, today - 1) = BoughtBy(b, c, today - 1) /\ BoughtBy(b, c, today - 1) \in Nat
    BY <1>1, <1>3
  <2>3. Promised(r, c) + SoldBy(r, c, today) = Promised(b, c) + SoldBy(b, c, today)
    BY <1>1, <1>3, <1>4, <1>5
  <2>4. QED
    BY <2>1, <2>2, <2>3
<1>8. PastInv(r)
  <2> SUFFICES ASSUME NEW c \in Codes, NEW d \in Nat \ {0}
               PROVE  SoldBy(r, c, d) <= BoughtBy(r, c, d - 1)
    BY DEF PastInv
  <2>1. CASE d < today
    <3>1. SoldBy(b, c, d) <= BoughtBy(b, c, d - 1)
      BY DEF TradesInv, PastInv
    <3>2. SoldBy(r, c, d) = SoldBy(b, c, d) /\ BoughtBy(r, c, d - 1) = BoughtBy(b, c, d - 1)
      BY <1>1, <1>3, <2>1
    <3>3. QED
      BY <3>1, <3>2
  <2>2. CASE today <= d
    <3>1. SoldBy(r, c, d) = SoldBy(r, c, today)
      BY <1>1, <1>2, <2>2, SettledTrades DEF SoldBy
    <3>2. BoughtBy(r, c, today - 1) <= BoughtBy(r, c, d - 1)
      BY <1>1, <2>2, TradedMonotone DEF BoughtBy
    <3>3. /\ Promised(r, c) + SoldBy(r, c, today) <= BoughtBy(r, c, today - 1)
          /\ Promised(r, c) \in Nat
      BY <1>4, <1>7
    <3>4. /\ SoldBy(r, c, today) \in Nat /\ BoughtBy(r, c, today - 1) \in Nat
          /\ BoughtBy(r, c, d - 1) \in Nat
      <4>1. today \in Int /\ today - 1 \in Int /\ d - 1 \in Int
        BY <1>1
      <4>2. QED
        BY <1>3, <4>1
    <3>5. QED
      BY <3>1, <3>2, <3>3, <3>4
  <2>3. QED
    BY <1>1, <2>1, <2>2
<1>9. SellableInv(r)
  BY <1>1, <1>7 DEF SellableInv
<1>10. QED
  BY <1>2, <1>6, <1>8, <1>9 DEF TradesInv

(* A settlement on a later day: nothing is held, and all that was bought   *)
(* before may be sold.                                                     *)
LEMMA SettlementShares ==
  ASSUME NEW b \in Books, NEW r \in Books, NoTrade(b, r), TradesInv(b),
         b.lastSettle < r.lastSettle, r.qty = b.qty,
         \A c \in Codes : Promised(r, c) = r.qty[c]
  PROVE  TradesInv(r)
<1> DEFINE past == b.lastSettle
           today == r.lastSettle
<1>1. past \in Nat /\ today \in Nat /\ today - 1 \in Nat /\ past <= today - 1
  BY DEF Books
<1>2. \A side, c, d : Total(Traded(r, side, c, d), OrderIds)
                        = Total(Traded(b, side, c, d), OrderIds)
  BY SameTrades DEF NoTrade
<1>3. \A c, d : SoldBy(r, c, d) = SoldBy(b, c, d) /\ BoughtBy(r, c, d) = BoughtBy(b, c, d)
  BY <1>2 DEF SoldBy, BoughtBy
<1>4. \A o \in OrderIds : Filled(b, o) => b.orders[o].filledOn <= past
  BY DEF TradesInv, TradeDays
<1>5. \A o \in OrderIds : Filled(r, o) => r.orders[o].filledOn \in Nat /\ r.orders[o].filledOn <= past
  <2>1. \A o \in OrderIds : r.orders[o].filledOn \in Nat
    BY DEF Books, Orders
  <2>2. QED
    BY <1>4, <2>1 DEF NoTrade, Filled
<1>6. TradeDays(r)
  BY <1>1, <1>5 DEF TradeDays
<1>7. ASSUME NEW c \in Codes, NEW d \in Nat, past <= d
      PROVE  /\ SoldBy(b, c, d) = SoldBy(b, c, past) /\ BoughtBy(b, c, d) = BoughtBy(b, c, past)
             /\ SoldBy(b, c, past) \in Nat /\ BoughtBy(b, c, past) \in Nat
  <2>1. SoldBy(b, c, d) = SoldBy(b, c, past)
    BY <1>1, <1>7, SettledTrades DEF SoldBy, TradesInv
  <2>2. BoughtBy(b, c, d) = BoughtBy(b, c, past)
    BY <1>1, <1>7, SettledTrades DEF BoughtBy, TradesInv
  <2>3. QED
    BY <2>1, <2>2, TradedTotal DEF SoldBy, BoughtBy
<1>8. \A c \in Codes : b.qty[c] + SoldBy(b, c, past) = BoughtBy(b, c, past)
  BY DEF TradesInv, PositionInv
<1> HIDE DEF past, today
<1>9. /\ \A c \in Codes : SoldBy(b, c, today) = SoldBy(b, c, past)
      /\ \A c \in Codes : BoughtBy(b, c, today) = BoughtBy(b, c, past)
      /\ \A c \in Codes : BoughtBy(b, c, today - 1) = BoughtBy(b, c, past)
      /\ \A c \in Codes : SoldBy(b, c, past) \in Nat /\ BoughtBy(b, c, past) \in Nat
  BY <1>1, <1>7
<1>10. PositionInv(r)
  BY <1>3, <1>8, <1>9 DEF PositionInv, today
<1>11. SellableInv(r)
  <2> SUFFICES ASSUME NEW c \in Codes
               PROVE  Promised(r, c) + SoldBy(r, c, today) <= BoughtBy(r, c, today - 1)
    BY DEF SellableInv, today
  <2>1. Promised(r, c) = b.qty[c] /\ b.qty[c] \in Nat
    BY PromisedType
  <2>2. QED
    BY <1>3, <1>8, <1>9, <2>1
<1>12. PastInv(r)
  BY <1>3 DEF TradesInv, PastInv
<1>13. QED
  BY <1>6, <1>10, <1>11, <1>12 DEF TradesInv
-----------------------------------------------------------------------------
(* The operations.  What is promised of c, with one order's part apart.    *)
LEMMA PromisedSplit ==
  ASSUME NEW b \in Books, NEW r \in Books, NEW o \in OrderIds, NEW c \in Codes,
         SameOthers(b, r, o)
  PROVE  /\ Promised(b, c) = b.avail[c] + Held(b, c)[o] + Rest(b, c, o)
         /\ Promised(r, c) = r.avail[c] + Held(r, c)[o] + Rest(b, c, o)
         /\ Held(b, c)[o] \in Nat /\ Held(r, c)[o] \in Nat /\ Rest(b, c, o) \in Nat
         /\ b.avail[c] \in Nat /\ r.avail[c] \in Nat
<1>1. /\ Total(Held(r, c), OrderIds) = Held(r, c)[o] + Rest(b, c, o)
      /\ Held(r, c)[o] \in Nat /\ Rest(b, c, o) \in Nat
  BY HeldSplit
<1>2. /\ Total(Held(b, c), OrderIds) = Held(b, c)[o] + Rest(b, c, o)
      /\ Held(b, c)[o] \in Nat
  BY HeldSplit DEF SameOthers
<1>3. b.avail[c] \in Nat /\ r.avail[c] \in Nat
  BY DEF Books
<1>4. QED
  BY <1>1, <1>2, <1>3 DEF Promised

(* The shares of order o in itself: available, or held by it. *)
Own(b, c, o) == b.avail[c] + Held(b, c)[o]

LEMMA NoSharesRule ==
  ASSUME NEW b \in Books, NEW r \in Books, NEW o \in OrderIds, SameOthers(b, r, o),
         r.qty = b.qty, r.lastSettle = b.lastSettle,
         \A c \in Codes : Own(r, c, o) = Own(b, c, o)
  PROVE  NoShares(b, r)
<1> SUFFICES ASSUME NEW c \in Codes
             PROVE  Promised(r, c) = Promised(b, c)
  BY DEF NoShares
<1>1. QED
  BY PromisedSplit DEF Own

LEMMA NoTradeRule ==
  ASSUME NEW b, NEW r, NEW o \in OrderIds, SameOthers(b, r, o),
         Money(r) = Money(b), ~Filled(b, o), ~Filled(r, o)
  PROVE  NoTrade(b, r)
BY DEF NoTrade, SameOthers

LEMMA SharesRule ==
  ASSUME NEW b \in Books, NEW r \in Books, NEW o \in OrderIds, SameOthers(b, r, o),
         r.lastSettle = b.lastSettle, r.orders[o].code \in Codes, r.orders[o].qty \in Nat,
         \A c \in Codes \ {r.orders[o].code} :
           r.qty[c] = b.qty[c] /\ Own(r, c, o) = Own(b, c, o),
         IF r.orders[o].side = "buy"
         THEN /\ r.qty[r.orders[o].code] = b.qty[r.orders[o].code] + r.orders[o].qty
              /\ Own(r, r.orders[o].code, o) = Own(b, r.orders[o].code, o)
         ELSE /\ r.qty[r.orders[o].code] + r.orders[o].qty = b.qty[r.orders[o].code]
              /\ Own(r, r.orders[o].code, o) + r.orders[o].qty = Own(b, r.orders[o].code, o)
  PROVE  Shares(b, r, o)
<1> DEFINE code == r.orders[o].code
           n == r.orders[o].qty
<1>1. \A c \in Codes : /\ Promised(b, c) = Own(b, c, o) + Rest(b, c, o)
                       /\ Promised(r, c) = Own(r, c, o) + Rest(b, c, o)
                       /\ Own(b, c, o) \in Nat /\ Own(r, c, o) \in Nat
                       /\ Rest(b, c, o) \in Nat
  BY PromisedSplit DEF Own
<1>2. code \in Codes /\ n \in Nat
  OBVIOUS
<1>3. \A c \in Codes \ {code} : Promised(r, c) = Promised(b, c)
  BY <1>1
<1>4. CASE r.orders[o].side = "buy"
  <2>1. Promised(r, code) = Promised(b, code)
    BY <1>1, <1>2, <1>4
  <2>2. QED
    BY <1>3, <1>4, <2>1 DEF Shares
<1>5. CASE r.orders[o].side # "buy"
  <2>1. Own(r, code, o) + n = Own(b, code, o)
    BY <1>5
  <2> HIDE DEF code, n
  <2>2. Promised(r, code) + n = Promised(b, code)
    BY <1>1, <1>2, <2>1
  <2>3. QED
    BY <1>3, <1>5, <2>2 DEF Shares, code, n
<1>6. QED
  BY <1>4, <1>5

(* A fill in transit. *)
Recorded(b, r, o, px, today) ==
  r.orders = [b.orders EXCEPT ![o] = [b.orders[o] EXCEPT
                !.status = "filled", !.fillPx = px, !.filledOn = today]]

LEMMA FillBuyEffect ==
  ASSUME NEW b \in Books, NEW o \in OrderIds, NEW px \in Prices, NEW today \in Nat,
         ~ShortOfCash(b, BuyTotal(px, b.orders[o].qty))
  PROVE  LET r == FillBuy(b, o, px, today)
             order == b.orders[o]
         IN  /\ Recorded(b, r, o, px, today)
             /\ Money(r) + BuyTotal(px, order.qty) = Money(b)
             /\ r.qty = [b.qty EXCEPT ![order.code] = @ + order.qty]
             /\ r.avail = b.avail /\ r.lastSettle = b.lastSettle
<1> DEFINE r == FillBuy(b, o, px, today)
           order == b.orders[o]
           paid == [b EXCEPT !.cash = @ - BuyTotal(px, order.qty), !.qty[order.code] = @ + order.qty]
<1>1. r = Executed(paid, o, px, today)
  BY DEF FillBuy
<1>2. /\ paid.cash = b.cash - BuyTotal(px, order.qty) /\ paid.frozenCash = b.frozenCash
      /\ paid.qty = [b.qty EXCEPT ![order.code] = @ + order.qty]
      /\ paid.avail = b.avail /\ paid.lastSettle = b.lastSettle /\ paid.orders = b.orders
      /\ paid = [paid EXCEPT !.cash = paid.cash]
  BY DEF Books
<1>3. b.orders \in [OrderIds -> Orders] /\ paid \in [DOMAIN b -> {paid[k] : k \in DOMAIN b}]
  BY DEF Books
<1>4. /\ DOMAIN paid = {"cash", "frozenCash", "lastSettle", "qty", "avail", "orders"}
  BY DEF Books
<1> HIDE DEF paid
<1>5. /\ r.cash = paid.cash /\ r.frozenCash = paid.frozenCash /\ r.qty = paid.qty
      /\ r.avail = paid.avail /\ r.lastSettle = paid.lastSettle
  BY <1>1, <1>2, <1>4 DEF Executed
<1>6. Recorded(b, r, o, px, today)
  <2>1. r.orders = [b.orders EXCEPT ![o] = [@ EXCEPT !.status = "filled", !.fillPx = px,
                                                     !.filledOn = today]]
    BY DEF FillBuy, Executed, Books
  <2> HIDE DEF r
  <2>2. QED
    BY <1>3, <2>1 DEF Recorded
<1>7. b.cash \in Nat /\ b.frozenCash \in Nat /\ BuyTotal(px, order.qty) \in Nat
  <2>1. px \in Nat /\ order.qty \in Nat
    BY SetsAssumption DEF Books, Orders
  <2>2. QED
    BY <2>1, BuyTotalType DEF Books
<1>8. Money(r) + BuyTotal(px, order.qty) = Money(b)
  BY <1>2, <1>5, <1>7 DEF Money
<1>9. QED
  BY <1>2, <1>5, <1>6, <1>8

LEMMA FillSellEffect ==
  ASSUME NEW b \in Books, NEW o \in OrderIds, NEW px \in Prices, NEW today \in Nat,
         NEW fromPending \in BOOLEAN,
         fromPending \/ ~ShortOfShares(b, b.orders[o].code, b.orders[o].qty)
  PROVE  LET r == FillSell(b, o, px, fromPending, today)
             order == b.orders[o]
         IN  /\ Recorded(b, r, o, px, today)
             /\ Money(r) = Money(b) + SellProceeds(px, order.qty)
             /\ r.qty = [b.qty EXCEPT ![order.code] =
                           IF b.qty[order.code] <= order.qty THEN 0
                           ELSE b.qty[order.code] - order.qty]
             /\ r.avail = IF fromPending THEN b.avail
                          ELSE [b.avail EXCEPT ![order.code] = @ - order.qty]
             /\ r.lastSettle = b.lastSettle
<1> DEFINE r == FillSell(b, o, px, fromPending, today)
           order == b.orders[o]
           c == order.code
           left == IF b.qty[c] <= order.qty THEN 0 ELSE b.qty[c] - order.qty
           sold == [b EXCEPT !.cash = @ + SellProceeds(px, order.qty),
                             !.qty[c] = left,
                             !.avail[c] = IF fromPending THEN @ ELSE @ - order.qty]
<1>1. r = Executed(sold, o, px, today)
  BY DEF FillSell
<1>2. b.orders \in [OrderIds -> Orders] /\ b.avail \in [Codes -> Nat] /\ c \in Codes
  BY DEF Books, Orders
<1> HIDE DEF left
<1>3. /\ sold.cash = b.cash + SellProceeds(px, order.qty) /\ sold.frozenCash = b.frozenCash
      /\ sold.qty = [b.qty EXCEPT ![c] = left]
      /\ sold.lastSettle = b.lastSettle /\ sold.orders = b.orders
      /\ DOMAIN sold = {"cash", "frozenCash", "lastSettle", "qty", "avail", "orders"}
  BY DEF Books
<1>4. sold.avail = IF fromPending THEN b.avail ELSE [b.avail EXCEPT ![c] = @ - order.qty]
  BY <1>2 DEF Books
<1> HIDE DEF sold, c
<1>5. /\ r.cash = sold.cash /\ r.frozenCash = sold.frozenCash /\ r.qty = sold.qty
      /\ r.avail = sold.avail /\ r.lastSettle = sold.lastSettle
  BY <1>1, <1>3 DEF Executed
<1>6. Recorded(b, r, o, px, today)
  <2>1. r.orders = [b.orders EXCEPT ![o] = [@ EXCEPT !.status = "filled", !.fillPx = px,
                                                     !.filledOn = today]]
    BY ZenonT(90) DEF FillSell, Executed, Books
  <2> HIDE DEF r
  <2>2. QED
    BY <1>2, <2>1 DEF Recorded
<1>7. b.cash \in Nat /\ b.frozenCash \in Nat /\ SellProceeds(px, order.qty) \in Nat
  <2>1. order.qty \in Quantities
    BY DEF Books, Orders
  <2>2. QED
    BY <2>1, SellProceedsType DEF Books
<1>8. Money(r) = Money(b) + SellProceeds(px, order.qty)
  BY <1>3, <1>5, <1>7 DEF Money
<1>9. QED
  BY <1>3, <1>4, <1>5, <1>6, <1>8 DEF left, c

(* What an operation on order o does to the trades and the shares. *)
Effect(b, r, o, today) ==
  \/ NoTrade(b, r) /\ NoShares(b, r)
  \/ \E px \in Prices : Trade(b, r, o, px, today) /\ (SharesInv(b) => Shares(b, r, o))

(* An order that ends without a trade and holds nothing any more. *)
LEMMA ClosedEffect ==
  ASSUME NEW b \in Books, NEW t \in Books, NEW o \in OrderIds, NEW today,
         NEW s \in {"rejected", "cancelled"},
         SameOthers(b, t, o), Money(t) = Money(b), t.qty = b.qty,
         t.lastSettle = b.lastSettle, ~Filled(b, o),
         \A c \in Codes : t.avail[c] = Own(b, c, o)
  PROVE  Effect(b, SetStatus(t, o, s), o, today)
<1> DEFINE r == SetStatus(t, o, s)
<1>1. r \in Books
  BY SetStatusBooks DEF Statuses
<1>2. /\ r.orders[o].status = s /\ SameOthers(t, r, o) /\ Money(r) = Money(t)
      /\ r.qty = t.qty /\ r.avail = t.avail /\ r.lastSettle = t.lastSettle
  BY DEF SetStatus, Books, Orders, SameOthers, Money
<1> HIDE DEF r
<1>3. SameOthers(b, r, o) /\ ~Filled(r, o)
  BY <1>2 DEF SameOthers, Filled
<1>4. \A c \in Codes : Own(r, c, o) = Own(b, c, o)
  <2>1. \A c \in Codes : Held(r, c)[o] = 0 /\ r.avail[c] \in Nat
    BY <1>1, <1>2 DEF Held, Books
  <2>2. QED
    BY <1>2, <2>1 DEF Own
<1>5. NoTrade(b, r) /\ NoShares(b, r)
  BY <1>1, <1>2, <1>3, <1>4, NoTradeRule, NoSharesRule
<1>6. QED
  BY <1>5 DEF Effect, r

(* Recording a trade makes it one. *)
LEMMA RecordedTrade ==
  ASSUME NEW b \in Books, NEW t \in Books, NEW r, NEW o \in OrderIds, NEW px, NEW today,
         SameOthers(b, t, o), Recorded(t, r, o, px, today)
  PROVE  /\ SameOthers(b, r, o) /\ Filled(r, o)
         /\ r.orders[o].fillPx = px /\ r.orders[o].filledOn = today
         /\ r.orders[o].side = t.orders[o].side /\ r.orders[o].code = t.orders[o].code
         /\ r.orders[o].qty = t.orders[o].qty
         /\ \A c : Held(r, c)[o] = 0
<1>1. r.orders = [t.orders EXCEPT ![o] = [t.orders[o] EXCEPT
                   !.status = "filled", !.fillPx = px, !.filledOn = today]]
  BY DEF Recorded
<1>2. t.orders \in [OrderIds -> Orders] /\ t.orders[o] \in Orders
  BY DEF Books
<1>3. SameOthers(b, r, o)
  BY <1>1, <1>2 DEF SameOthers
<1>4. r.orders[o] = [t.orders[o] EXCEPT !.status = "filled", !.fillPx = px, !.filledOn = today]
  BY <1>1, <1>2
<1>5. /\ r.orders[o].status = "filled"
      /\ r.orders[o].fillPx = px /\ r.orders[o].filledOn = today
      /\ r.orders[o].side = t.orders[o].side /\ r.orders[o].code = t.orders[o].code
      /\ r.orders[o].qty = t.orders[o].qty
  BY <1>2, <1>4 DEF Orders
<1>6. \A c : Held(r, c)[o] = 0
  BY <1>5 DEF Held
<1>7. QED
  BY <1>3, <1>5, <1>6 DEF Filled

LEMMA BuyEffect ==
  ASSUME NEW b \in Books, NEW t, NEW o \in OrderIds, NEW px \in Prices, NEW today \in Nat,
         Loose(t, o), SameOthers(b, t, o), Money(t) = Money(b), t.qty = b.qty,
         t.avail = b.avail, t.lastSettle = b.lastSettle, ~Filled(b, o),
         t.orders[o].side = "buy", \A c \in Codes : Held(b, c)[o] = 0
  PROVE  Effect(b, FillBuy(t, o, px, today), o, today)
<1> DEFINE r == FillBuy(t, o, px, today)
           order == t.orders[o]
<1>1. t \in Books /\ r \in Books /\ order.qty \in Nat /\ order.code \in Codes
  <2>1. t \in Books
    BY DEF Loose
  <2>2. BookInv(r)
    BY FillBuyInv
  <2>3. QED
    BY <2>1, <2>2, SetsAssumption DEF BookInv, Books, Orders
<1>2. \A c \in Codes : b.avail[c] \in Nat /\ b.qty[c] \in Nat
  BY DEF Books
<1>3. CASE ShortOfCash(t, BuyTotal(px, order.qty))
  <2>1. r = SetStatus(t, o, "rejected")
    BY <1>3 DEF FillBuy
  <2>2. \A c \in Codes : t.avail[c] = Own(b, c, o)
    BY <1>2 DEF Own
  <2>3. QED
    BY <1>1, <2>1, <2>2, ClosedEffect
<1>4. CASE ~ShortOfCash(t, BuyTotal(px, order.qty))
  <2>1. /\ Recorded(t, r, o, px, today)
        /\ Money(r) + BuyTotal(px, order.qty) = Money(t)
        /\ r.qty = [t.qty EXCEPT ![order.code] = @ + order.qty]
        /\ r.avail = t.avail /\ r.lastSettle = t.lastSettle
    BY <1>1, <1>4, FillBuyEffect
  <2> HIDE DEF r
  <2>2. /\ SameOthers(b, r, o) /\ Filled(r, o)
        /\ r.orders[o].fillPx = px /\ r.orders[o].filledOn = today
        /\ r.orders[o].side = "buy" /\ r.orders[o].code = order.code
        /\ r.orders[o].qty = order.qty
        /\ \A c : Held(r, c)[o] = 0
    BY <1>1, <2>1, RecordedTrade
  <2>3. Trade(b, r, o, px, today)
    BY <2>1, <2>2 DEF Trade
  <2>4. \A c \in Codes : Own(r, c, o) = Own(b, c, o)
    BY <1>2, <2>1, <2>2 DEF Own
  <2> HIDE DEF order
  <2>5. /\ r.qty[order.code] = b.qty[order.code] + order.qty
        /\ \A c \in Codes \ {order.code} : r.qty[c] = b.qty[c]
    BY <1>1, <2>1 DEF Books
  <2>6. Shares(b, r, o)
    BY <1>1, <2>1, <2>2, <2>4, <2>5, SharesRule
  <2>7. QED
    BY <2>3, <2>6 DEF Effect, r
<1>5. QED
  BY <1>3, <1>4

(* A sale takes its shares from the available ones, or those it held. *)
LEMMA SellEffect ==
  ASSUME NEW b \in Books, NEW t, NEW o \in OrderIds, NEW px \in Prices, NEW today \in Nat,
         NEW fromPending \in BOOLEAN,
         Loose(t, o), SameOthers(b, t, o), Money(t) = Money(b), t.qty = b.qty,
         t.avail = b.avail, t.lastSettle = b.lastSettle, ~Filled(b, o),
         t.orders[o].side = "sell",
         \A c \in Codes : Held(b, c)[o] = IF fromPending /\ c = t.orders[o].code
                                          THEN t.orders[o].qty ELSE 0
  PROVE  Effect(b, FillSell(t, o, px, fromPending, today), o, today)
<1> DEFINE r == FillSell(t, o, px, fromPending, today)
           order == t.orders[o]
           code == order.code
           n == order.qty
<1>1. t \in Books /\ r \in Books /\ n \in Nat /\ code \in Codes
  <2>1. t \in Books
    BY DEF Loose
  <2>2. BookInv(r)
    BY FillSellInv
  <2>3. QED
    BY <2>1, <2>2, SetsAssumption DEF BookInv, Books, Orders
<1>2. \A c \in Codes : b.avail[c] \in Nat /\ b.qty[c] \in Nat
  BY DEF Books
<1>3. CASE ~fromPending /\ ShortOfShares(t, code, n)
  <2>1. r = SetStatus(t, o, "rejected")
    BY <1>3 DEF FillSell
  <2>2. \A c \in Codes : t.avail[c] = Own(b, c, o)
    BY <1>2, <1>3 DEF Own
  <2>3. QED
    BY <1>1, <2>1, <2>2, ClosedEffect
<1>4. CASE ~(~fromPending /\ ShortOfShares(t, code, n))
  <2>1. /\ Recorded(t, r, o, px, today)
        /\ Money(r) = Money(t) + SellProceeds(px, n)
        /\ r.qty = [t.qty EXCEPT ![code] = IF t.qty[code] <= n THEN 0 ELSE t.qty[code] - n]
        /\ r.avail = IF fromPending THEN t.avail ELSE [t.avail EXCEPT ![code] = @ - n]
        /\ r.lastSettle = t.lastSettle
    BY <1>1, <1>4, FillSellEffect
  <2> HIDE DEF r
  <2>2. /\ SameOthers(b, r, o) /\ Filled(r, o)
        /\ r.orders[o].fillPx = px /\ r.orders[o].filledOn = today
        /\ r.orders[o].side = "sell" /\ r.orders[o].code = code
        /\ r.orders[o].qty = n
        /\ \A c : Held(r, c)[o] = 0
    BY <1>1, <2>1, RecordedTrade
  <2>3. Trade(b, r, o, px, today)
    BY <2>1, <2>2 DEF Trade
  <2>4. \A c \in Codes : Held(b, c)[o] = IF fromPending /\ c = code THEN n ELSE 0
    OBVIOUS
  <2>5. ~fromPending => n <= b.avail[code]
    BY <1>1, <1>2, <1>4 DEF ShortOfShares
  <2>6. b.qty \in [Codes -> Nat] /\ b.avail \in [Codes -> Nat]
    BY DEF Books
  <2> HIDE DEF order, code, n
  <2>7. /\ \A c \in Codes \ {code} : r.qty[c] = b.qty[c] /\ r.avail[c] = b.avail[c]
        /\ r.avail[code] = IF fromPending THEN b.avail[code] ELSE b.avail[code] - n
        /\ r.qty[code] = IF b.qty[code] <= n THEN 0 ELSE b.qty[code] - n
    BY <1>1, <2>1, <2>6
  <2>8. /\ \A c \in Codes \ {code} : Own(r, c, o) = Own(b, c, o)
        /\ Own(r, code, o) + n = Own(b, code, o)
    BY <1>1, <1>2, <2>2, <2>4, <2>5, <2>7 DEF Own
  <2>9. ASSUME SharesInv(b)
        PROVE  Shares(b, r, o)
    <3>1. b.avail[code] + Total(Held(b, code), OrderIds) <= b.qty[code]
      BY <1>1, <2>9 DEF SharesInv
    <3>2. /\ Total(Held(b, code), OrderIds) = Held(b, code)[o] + Rest(b, code, o)
          /\ Rest(b, code, o) \in Nat
      BY <1>1, HeldSplit DEF SameOthers
    <3>3. n <= b.qty[code]
      BY <1>1, <1>2, <2>4, <2>5, <3>1, <3>2
    <3>4. r.qty[code] + n = b.qty[code]
      BY <1>1, <1>2, <2>7, <3>3
    <3>5. QED
      BY <1>1, <2>1, <2>2, <2>7, <2>8, <3>4, SharesRule
  <2>10. QED
    BY <2>3, <2>9 DEF Effect, r
<1>5. QED
  BY <1>3, <1>4

(* Freezing moves cash or shares; it makes no trade. *)
LEMMA FreezeEffect ==
  ASSUME NEW b \in Books, NEW t, NEW o \in OrderIds, NEW today \in Nat,
         Loose(t, o), t.orders[o].limit # Market,
         SameOthers(b, t, o), Money(t) = Money(b), t.qty = b.qty,
         t.avail = b.avail, t.lastSettle = b.lastSettle, ~Filled(b, o),
         \A c \in Codes : Held(b, c)[o] = 0
  PROVE  Effect(b, FreezePending(t, o), o, today)
<1> DEFINE r == FreezePending(t, o)
           order == t.orders[o]
           code == order.code
           n == order.qty
           frozen == FreezeAmount(order.limit, n)
<1>1. /\ t \in Books /\ r \in Books /\ n \in Nat /\ code \in Codes
      /\ order.status = "pending" /\ order.side \in {"buy", "sell"}
  <2>1. t \in Books /\ order.status = "pending"
    BY DEF Loose
  <2>2. BookInv(r)
    BY FreezePendingInv
  <2>3. QED
    BY <2>1, <2>2, SetsAssumption DEF BookInv, Books, Orders, Sides
<1>2. /\ b.avail \in [Codes -> Nat] /\ t.cash \in Nat /\ t.frozenCash \in Nat
      /\ \A c \in Codes : b.avail[c] \in Nat
  BY <1>1 DEF Books
<1>3. CASE r = SetStatus(t, o, "rejected")
  <2>1. \A c \in Codes : t.avail[c] = Own(b, c, o)
    BY <1>2 DEF Own
  <2>2. QED
    BY <1>1, <1>3, <2>1, ClosedEffect
<1>4. CASE order.side = "buy" /\ ~ShortOfCash(t, frozen)
  <2>1. /\ r.cash = t.cash - frozen /\ r.frozenCash = t.frozenCash + frozen
        /\ r.qty = t.qty /\ r.avail = t.avail /\ r.lastSettle = t.lastSettle
        /\ r.orders = [t.orders EXCEPT ![o].frozen = frozen]
    BY <1>1, <1>4 DEF FreezePending, Books
  <2>2. frozen \in Nat
    <3>1. order.limit \in Nat
      BY <1>1, SetsAssumption DEF Books, Orders, Market
    <3>2. QED
      BY <1>1, <3>1, BuyTotalType DEF FreezeAmount
  <2> HIDE DEF frozen, r
  <2>3. Money(r) = Money(b)
    BY <1>2, <2>1, <2>2 DEF Money
  <2>4. /\ r.orders[o].status = "pending" /\ r.orders[o].side = "buy"
        /\ SameOthers(b, r, o)
    BY <1>1, <1>4, <2>1 DEF Books, Orders, SameOthers
  <2>5. \A c \in Codes : Own(r, c, o) = Own(b, c, o)
    BY <1>2, <2>1, <2>4 DEF Own, Held
  <2>6. NoTrade(b, r) /\ NoShares(b, r)
    BY <1>1, <2>1, <2>3, <2>4, <2>5, NoTradeRule, NoSharesRule DEF Filled
  <2>7. QED
    BY <2>6 DEF Effect, r
<1>5. CASE order.side = "sell" /\ ~ShortOfShares(t, code, n)
  <2>1. /\ r.cash = t.cash /\ r.frozenCash = t.frozenCash /\ r.orders = t.orders
        /\ r.qty = t.qty /\ r.lastSettle = t.lastSettle
        /\ r.avail = [t.avail EXCEPT ![code] = @ - n]
    BY <1>1, <1>5 DEF FreezePending, Books
  <2> HIDE DEF r
  <2>2. SameOthers(b, r, o) /\ r.orders[o].status = "pending" /\ Money(r) = Money(b)
    BY <1>1, <2>1 DEF SameOthers, Money
  <2>3. Held(r, code)[o] = n /\ \A c \in Codes \ {code} : Held(r, c)[o] = 0
    BY <1>1, <1>5, <2>1 DEF Held
  <2> HIDE DEF code, n
  <2>4. \A c \in Codes : Own(r, c, o) = Own(b, c, o)
    BY <1>1, <1>2, <2>1, <2>3 DEF Own
  <2>5. NoTrade(b, r) /\ NoShares(b, r)
    BY <1>1, <2>1, <2>2, <2>4, NoTradeRule, NoSharesRule DEF Filled
  <2>6. QED
    BY <2>5 DEF Effect, r
<1>6. \/ r = SetStatus(t, o, "rejected")
      \/ order.side = "buy" /\ ~ShortOfCash(t, frozen)
      \/ order.side = "sell" /\ ~ShortOfShares(t, code, n)
  BY <1>1 DEF FreezePending
<1>7. QED
  BY <1>3, <1>4, <1>5, <1>6

LEMMA PlacedEffect ==
  ASSUME NEW b, NEW o \in OrderIds, BookInv(b), b.orders[o].status = "unused",
         NEW order \in Orders, order.status = "pending", order.frozen = 0,
         NEW quote \in Quotes, NEW today \in Nat
  PROVE  Effect(b, Placed(b, o, order, quote, today), o, today)
<1> DEFINE added == [b EXCEPT !.orders[o] = order]
           px == FillPrice(order.side, quote.px, order.limit)
           fills == /\ quote.px # 0 /\ order.side \notin quote.blocked
                    /\ order.limit = Market \/ Crosses(order.side, quote.px, order.limit)
<1>1. Loose(added, o) /\ b \in Books /\ added \in Books
  <2>1. Loose(added, o)
    BY AddedLoose
  <2>2. b \in Books
    BY DEF BookInv
  <2> HIDE DEF added
  <2>3. QED
    BY <2>1, <2>2 DEF Loose
<1>2. /\ added.orders[o] = order /\ SameOthers(b, added, o) /\ Money(added) = Money(b)
      /\ added.qty = b.qty /\ added.avail = b.avail /\ added.lastSettle = b.lastSettle
  BY <1>1 DEF Books, SameOthers, Money
<1>3. /\ ~Filled(b, o) /\ order.side \in {"buy", "sell"}
      /\ \A c \in Codes : Held(b, c)[o] = 0 /\ b.avail[c] \in Nat
  BY <1>1 DEF Filled, Held, Orders, Sides, Books
<1> HIDE DEF added
<1>4. CASE fills
  <2>1. px \in Prices
    BY <1>4, FillPriceQuoted DEF Quotes, NoQuote
  <2>2. Placed(b, o, order, quote, today) = Fill(added, o, px, FALSE, today)
    BY <1>4 DEF Placed, added
  <2> HIDE DEF px
  <2>3. CASE order.side = "buy"
    <3>1. Effect(b, FillBuy(added, o, px, today), o, today)
      BY <1>1, <1>2, <1>3, <2>1, <2>3, BuyEffect
    <3>2. QED
      BY <1>2, <2>2, <2>3, <3>1 DEF Fill
  <2>4. CASE order.side = "sell"
    <3>1. Effect(b, FillSell(added, o, px, FALSE, today), o, today)
      BY <1>1, <1>2, <1>3, <2>1, <2>4, SellEffect
    <3>2. QED
      BY <1>2, <2>2, <2>4, <3>1 DEF Fill
  <2>5. QED
    BY <1>3, <2>3, <2>4
<1>5. CASE ~fills /\ order.limit = Market
  <2>1. Placed(b, o, order, quote, today) = SetStatus(added, o, "rejected")
    BY <1>5 DEF Placed, added
  <2>2. \A c \in Codes : added.avail[c] = Own(b, c, o)
    BY <1>2, <1>3 DEF Own
  <2>3. Effect(b, SetStatus(added, o, "rejected"), o, today)
    BY <1>1, <1>2, <1>3, <2>2, ClosedEffect
  <2>4. QED
    BY <2>1, <2>3
<1>6. CASE ~fills /\ order.limit # Market
  <2>1. Placed(b, o, order, quote, today) = FreezePending(added, o)
    BY <1>6 DEF Placed, added
  <2>2. QED
    BY <1>1, <1>2, <1>3, <1>6, <2>1, FreezeEffect
<1>7. QED
  BY <1>4, <1>5, <1>6

(* Giving back what a pending buy holds. *)
LEMMA ReleasedMoney ==
  ASSUME NEW b, NEW o \in OrderIds, BookInv(b), b.orders[o].status = "pending"
  PROVE  Money(Released(b, o)) = Money(b)
<1>1. b \in Books
  BY DEF BookInv
<1>2. /\ b.cash \in Nat /\ b.frozenCash \in Nat /\ b.orders[o].frozen \in Nat
      /\ Released(b, o).cash = b.cash + b.orders[o].frozen
      /\ Released(b, o).frozenCash = b.frozenCash - b.orders[o].frozen
  BY <1>1 DEF Released, Books, Orders
<1>3. QED
  BY <1>2 DEF Money

LEMMA CancelledEffect ==
  ASSUME NEW b, NEW o \in OrderIds, BookInv(b), b.orders[o].status = "pending",
         NEW today
  PROVE  Effect(b, Cancelled(b, o), o, today)
<1> DEFINE order == b.orders[o]
           code == order.code
           n == order.qty
<1>1. /\ b \in Books /\ n \in Nat /\ code \in Codes /\ order.side \in {"buy", "sell"}
      /\ b.avail \in [Codes -> Nat] /\ \A c \in Codes : b.avail[c] \in Nat
  BY SetsAssumption DEF BookInv, Books, Orders, Sides
<1>2. ~Filled(b, o)
  BY DEF Filled
<1>3. CASE order.side = "buy"
  <2> DEFINE t == Released(b, o)
  <2>1. /\ Loose(t, o) /\ SameOthers(b, t, o)
        /\ t.qty = b.qty /\ t.avail = b.avail /\ t.lastSettle = b.lastSettle
    BY ReleasedLoose DEF SameOthers
  <2>2. t \in Books /\ Money(t) = Money(b)
    BY <2>1, ReleasedMoney DEF Loose
  <2>3. \A c \in Codes : t.avail[c] = Own(b, c, o)
    BY <1>1, <1>3, <2>1 DEF Own, Held
  <2>4. Cancelled(b, o) = SetStatus(t, o, "cancelled")
    BY <1>3 DEF Cancelled
  <2> HIDE DEF t
  <2>5. QED
    BY <1>1, <1>2, <2>1, <2>2, <2>3, <2>4, ClosedEffect
<1>4. CASE order.side = "sell"
  <2> DEFINE t == [b EXCEPT !.avail[code] = @ + n]
  <2>1. /\ t.orders = b.orders /\ t.qty = b.qty /\ t.lastSettle = b.lastSettle
        /\ Money(t) = Money(b) /\ t.avail = [b.avail EXCEPT ![code] = @ + n]
    BY <1>1 DEF Books, Money
  <2>2. t \in Books
    <3> DEFINE a == [b.avail EXCEPT ![code] = @ + n]
    <3>1. a \in [Codes -> Nat]
      <4> HIDE DEF code, n
      <4>1. QED
        BY <1>1
    <3>2. t = [b EXCEPT !.avail = a]
      BY <1>1 DEF Books
    <3> HIDE DEF a, t
    <3>3. QED
      BY <1>1, <3>1, <3>2 DEF Books
  <2>3. Held(b, code)[o] = n /\ \A c \in Codes \ {code} : Held(b, c)[o] = 0
    BY <1>1, <1>4 DEF Held
  <2>4. Cancelled(b, o) = SetStatus(t, o, "cancelled")
    BY <1>4 DEF Cancelled
  <2>5. SameOthers(b, t, o)
    BY <2>1 DEF SameOthers
  <2> HIDE DEF t, code, n
  <2>6. \A c \in Codes : t.avail[c] = Own(b, c, o)
    BY <1>1, <2>1, <2>3 DEF Own
  <2>7. QED
    BY <1>1, <1>2, <2>1, <2>2, <2>4, <2>5, <2>6, ClosedEffect
<1>5. QED
  BY <1>1, <1>3, <1>4

(* A pass of the matcher over an order of the settled book s. *)
LEMMA MatchedEffect ==
  ASSUME NEW b, NEW o \in OrderIds, BookInv(b), NEW quote \in Quotes, NEW today \in Nat
  PROVE  \/ Matched(b, o, quote, today) = b
         \/ Matched(b, o, quote, today) = Settled(b, today)
         \/ Effect(Settled(b, today), Matched(b, o, quote, today), o, today)
<1> DEFINE s == Settled(b, today)
           order == s.orders[o]
           px == FillPrice(order.side, quote.px, order.limit)
           r == Matched(b, o, quote, today)
<1>1. BookInv(s)
  BY SettledInv
<1> HIDE DEF s
<1>2. CASE \/ order.status # "pending" \/ quote.px = 0 \/ order.side \in quote.blocked
           \/ ~Crosses(order.side, quote.px, order.limit)
  BY <1>2 DEF Matched, s
<1>3. CASE /\ order.status = "pending" /\ quote.px # 0 /\ order.side \notin quote.blocked
           /\ Crosses(order.side, quote.px, order.limit)
  <2>1. px \in Prices
    BY <1>3, FillPriceQuoted DEF Quotes, NoQuote
  <2>2. /\ s \in Books /\ ~Filled(s, o) /\ order.side \in {"buy", "sell"}
        /\ order \in Orders
    BY <1>1, <1>3 DEF BookInv, Books, Orders, Sides, Filled
  <2>3. CASE order.side = "buy"
    <3> DEFINE t == Released(s, o)
    <3>1. /\ Loose(t, o) /\ SameOthers(s, t, o) /\ Money(t) = Money(s)
          /\ t.qty = s.qty /\ t.avail = s.avail /\ t.lastSettle = s.lastSettle
          /\ t.orders[o] = [order EXCEPT !.frozen = 0]
      BY <1>1, <1>3, ReleasedLoose, ReleasedMoney DEF SameOthers
    <3>2. t.orders[o].side = "buy"
      BY <2>2, <2>3, <3>1 DEF Orders
    <3>3. \A c \in Codes : Held(s, c)[o] = 0
      BY <2>3 DEF Held
    <3>4. r = Fill(t, o, px, TRUE, today)
      BY <1>3, <2>3 DEF Matched, s
    <3> HIDE DEF t, px
    <3>5. Effect(s, FillBuy(t, o, px, today), o, today)
      BY <2>1, <2>2, <3>1, <3>2, <3>3, BuyEffect
    <3>6. QED
      BY <3>2, <3>4, <3>5 DEF Fill, s
  <2>4. CASE order.side = "sell"
    <3>1. Loose(s, o) /\ SameOthers(s, s, o)
      BY <1>1, <1>3, <2>4 DEF BookInv, Loose, FrozenRule, SameOthers
    <3>2. \A c \in Codes : Held(s, c)[o] = IF TRUE /\ c = order.code THEN order.qty ELSE 0
      BY <1>3, <2>4 DEF Held
    <3>3. r = Fill(s, o, px, TRUE, today)
      BY <1>3, <2>4 DEF Matched, s
    <3> HIDE DEF px
    <3>4. Effect(s, FillSell(s, o, px, TRUE, today), o, today)
      BY <2>1, <2>2, <2>4, <3>1, <3>2, SellEffect
    <3>5. QED
      BY <2>4, <3>3, <3>4 DEF Fill, s
  <2>5. QED
    BY <2>2, <2>3, <2>4
<1>4. QED
  BY <1>2, <1>3

(* A settlement makes no trade; on a new day it makes all shares available.*)
LEMMA SettledEffect ==
  ASSUME NEW b, BookInv(b), NEW today \in Nat
  PROVE  /\ NoTrade(b, Settled(b, today))
         /\ Settled(b, today).qty = b.qty
         /\ b.lastSettle = today => Settled(b, today) = b
         /\ b.lastSettle # today =>
              Settled(b, today).avail = b.qty /\ Settled(b, today).lastSettle = today
<1> DEFINE r == Settled(b, today)
           stale == {o \in Pending(b) : IsStaleDayOrder(b.orders[o], today)}
           released == Total(Frozen(b), stale)
<1>1. b \in Books /\ b.cash \in Nat /\ b.frozenCash \in Nat
  BY DEF BookInv, Books
<1>2. CASE b.lastSettle = today
  <2>1. r = b
    BY <1>2 DEF Settled
  <2>2. QED
    BY <1>2, <2>1 DEF NoTrade
<1>3. CASE b.lastSettle # today
  <2>1. /\ r.cash = b.cash + released /\ r.frozenCash = b.frozenCash - released
        /\ r.avail = b.qty /\ r.qty = b.qty /\ r.lastSettle = today
        /\ r.orders = [o \in OrderIds |->
             IF o \in stale THEN [b.orders[o] EXCEPT !.status = "cancelled", !.frozen = 0]
             ELSE b.orders[o]]
    BY <1>1, <1>3 DEF Settled, Books
  <2>2. released \in Nat
    <3>1. IsFiniteSet(stale) /\ stale \subseteq OrderIds
      BY SetsAssumption, FS_Subset DEF Pending
    <3>2. \A o \in stale : Frozen(b)[o] \in Nat
      BY <1>1, <3>1 DEF Frozen, Books, Orders
    <3>3. QED
      BY <3>1, <3>2, TotalType
  <2>3. \A o \in stale : b.orders[o].status = "pending"
    BY DEF Pending
  <2>4. \A o \in OrderIds : b.orders[o] \in Orders
    BY <1>1 DEF Books
  <2> HIDE DEF r, stale, released
  <2>5. Money(r) = Money(b)
    <3>1. r.cash = b.cash + released /\ r.frozenCash = b.frozenCash - released
      BY <2>1
    <3>2. \A x, y, z \in Nat : (x + z) + (y - z) = x + y
      OBVIOUS
    <3>3. (b.cash + released) + (b.frozenCash - released) = b.cash + b.frozenCash
      BY <1>1, <2>2, <3>2, Zenon
    <3>4. QED
      BY <3>1, <3>3, Zenon DEF Money
  <2>6. ASSUME NEW o \in OrderIds, Filled(b, o) \/ Filled(r, o)
        PROVE  r.orders[o] = b.orders[o]
    <3>1. CASE o \in stale
      <4>1. r.orders[o].status = "cancelled"
        BY <2>1, <2>4, <3>1 DEF Orders
      <4>2. QED
        BY <2>3, <2>6, <3>1, <4>1 DEF Filled
    <3>2. CASE o \notin stale
      BY <2>1, <3>2
    <3>3. QED
      BY <3>1, <3>2
  <2>7. QED
    BY <1>3, <2>1, <2>5, <2>6 DEF NoTrade, r
<1>4. QED
  BY <1>2, <1>3
-----------------------------------------------------------------------------
(* The inductive invariant.  Money is conserved always; shares, if midnight*)
(* never falls inside a placement, so that every trade is of a day that is *)
(* settled.                                                                *)
TradesBalance(b) == Priced(b) /\ MoneyInv(b)

BooksIInv ==
  /\ SharesIInv
  /\ TradesBalance(book)
  /\ ~SpansMidnight => TradesInv(book)

LEMMA EffectMoney ==
  ASSUME NEW b \in Books, NEW r \in Books, NEW o \in OrderIds, NEW today,
         Effect(b, r, o, today), TradesBalance(b)
  PROVE  TradesBalance(r)
BY NoTradeMoney, TradeMoney DEF Effect, TradesBalance

LEMMA EffectShares ==
  ASSUME NEW b \in Books, NEW r \in Books, NEW o \in OrderIds,
         Effect(b, r, o, b.lastSettle), SharesInv(b), TradesInv(b)
  PROVE  TradesInv(r)
BY NoTradeShares, TradeShares DEF Effect

LEMMA SettledBalance ==
  ASSUME NEW b, BookInv(b), NEW today \in Nat, TradesBalance(b)
  PROVE  TradesBalance(Settled(b, today))
<1>1. b \in Books /\ Settled(b, today) \in Books /\ NoTrade(b, Settled(b, today))
  BY SettledInv, SettledEffect DEF BookInv
<1>2. QED
  BY <1>1, NoTradeMoney DEF TradesBalance

LEMMA SettledSales ==
  ASSUME NEW b, BookInv(b), NEW today \in Nat, DatesInv(b, today), SharesInv(b),
         SameDayInv(b), TradesInv(b)
  PROVE  TradesInv(Settled(b, today))
<1> DEFINE r == Settled(b, today)
<1>1. b \in Books /\ r \in Books
  BY SettledInv DEF BookInv
<1>2. CASE b.lastSettle = today
  BY <1>2, SettledEffect
<1>3. CASE b.lastSettle # today
  <2>1. /\ NoTrade(b, r) /\ r.qty = b.qty /\ r.avail = b.qty /\ r.lastSettle = today
        /\ SharesInv(r)
    BY <1>3, SettledEffect, SettledShares
  <2>2. b.lastSettle < today
    BY <1>1, <1>3 DEF DatesInv, Books
  <2> HIDE DEF r
  <2>3. ASSUME NEW c \in Codes
        PROVE  Promised(r, c) = r.qty[c]
    <3>1. r.qty[c] + Total(Held(r, c), OrderIds) <= r.qty[c]
      BY <2>1 DEF SharesInv
    <3>2. r.qty[c] \in Nat
      BY <1>1 DEF Books
    <3>3. Total(Held(r, c), OrderIds) \in Nat
      <4>1. \A o \in OrderIds : Held(r, c)[o] \in Nat
        BY <1>1, HeldType
      <4>2. QED
        BY <4>1, TotalType, SetsAssumption
    <3>4. QED
      BY <2>1, <3>1, <3>2, <3>3 DEF Promised
  <2>4. QED
    BY <1>1, <2>1, <2>2, <2>3, SettlementShares DEF r
<1>4. QED
  BY <1>2, <1>3

LEMMA InitBooks == Init => BooksIInv
<1> SUFFICES ASSUME Init
             PROVE  BooksIInv
  OBVIOUS
<1>1. SharesIInv /\ book \in Books
  BY InitShares DEF SharesIInv, IInv, TypeOK
<1>2. /\ book.orders = [o \in OrderIds |-> UnusedOrder] /\ book.lastSettle = 0
      /\ book.cash = InitialCash /\ book.frozenCash = 0
      /\ book.qty = [c \in Codes |-> 0] /\ book.avail = [c \in Codes |-> 0]
  BY DEF Init
<1>3. \A o \in OrderIds : book.orders[o].status = "unused"
  BY <1>2 DEF UnusedOrder, NewOrder
<1>4. \A o \in OrderIds : ~Filled(book, o)
  BY <1>3 DEF Filled
<1>5. Total(Paid(book), OrderIds) = 0 /\ Total(Earned(book), OrderIds) = 0
  <2>1. \A o \in OrderIds : Paid(book)[o] = 0
    BY <1>3 DEF Paid
  <2>2. \A o \in OrderIds : Earned(book)[o] = 0
    BY <1>3 DEF Earned
  <2>3. QED
    BY <2>1, <2>2, TotalZero
<1>6. TradesBalance(book)
  BY <1>2, <1>4, <1>5, MoneyAssumption DEF TradesBalance, Priced, MoneyInv, Money
<1>7. ASSUME NEW side, NEW c, NEW d
      PROVE  Total(Traded(book, side, c, d), OrderIds) = 0
  <2>1. \A o \in OrderIds : Traded(book, side, c, d)[o] = 0
    BY <1>3 DEF Traded
  <2>2. QED
    BY <2>1, TotalZero
<1>8. \A c, d : SoldBy(book, c, d) = 0 /\ BoughtBy(book, c, d) = 0
  BY <1>7 DEF SoldBy, BoughtBy
<1>9. \A c \in Codes : Promised(book, c) = 0 /\ book.qty[c] = 0
  <2>1. \A c \in Codes : \A o \in OrderIds : Held(book, c)[o] = 0
    BY <1>3 DEF Held
  <2>2. \A c \in Codes : Total(Held(book, c), OrderIds) = 0
    BY <2>1, TotalZero
  <2>3. QED
    BY <1>2, <2>2 DEF Promised
<1>10. TradesInv(book)
  BY <1>4, <1>8, <1>9 DEF TradesInv, TradeDays, PositionInv, SellableInv, PastInv
<1>11. QED
  BY <1>1, <1>6, <1>10 DEF BooksIInv

LEMMA PlaceOrderTrades ==
  ASSUME BooksIInv, NEW o \in OrderIds, PlaceOrder(o), book' \in Books
  PROVE  /\ TradesBalance(book')
         /\ ~SpansMidnight => TradesInv(book')
<1>1. PICK side \in Sides, code \in Codes, limit \in Prices \cup {Market}, qty \in Quantities,
           quote \in Quotes, later \in {day, day + 1} :
        /\ ~SpansMidnight => later = day
        /\ book.orders[o].status = "unused"
        /\ book' = Placed(Settled(book, day), o, NewOrder(side, code, limit, qty, later),
                          quote, later)
        /\ day' = later
  BY DEF PlaceOrder
<1> DEFINE s == Settled(book, day)
           order == NewOrder(side, code, limit, qty, later)
<1>2. /\ day \in Nat /\ later \in Nat /\ BookInv(book) /\ DatesInv(book, day)
      /\ TradesBalance(book)
  BY DEF BooksIInv, SharesIInv, IInv, TypeOK
<1>3. /\ BookInv(s) /\ s.orders[o] = book.orders[o] /\ s.lastSettle = day
      /\ TradesBalance(s)
  BY <1>1, <1>2, SettledInv, SettledDates, SettledBalance
<1>4. s \in Books
  BY <1>3 DEF BookInv
<1>5. ~SpansMidnight => SharesInv(s) /\ TradesInv(s)
  BY <1>2, SettledShares, SettledSales DEF BooksIInv, SharesIInv
<1>6. order \in Orders /\ order.status = "pending" /\ order.frozen = 0
  BY <1>2 DEF NewOrder, Orders, Statuses
<1> HIDE DEF s, order
<1>7. Effect(s, book', o, later)
  <2>1. Effect(s, Placed(s, o, order, quote, later), o, later)
    BY <1>1, <1>2, <1>3, <1>6, PlacedEffect
  <2>2. QED
    BY <1>1, <2>1 DEF s, order
<1>8. TradesBalance(book')
  BY <1>3, <1>4, <1>7, EffectMoney
<1>9. ASSUME ~SpansMidnight
      PROVE  TradesInv(book')
  <2>1. later = s.lastSettle
    BY <1>1, <1>3, <1>9
  <2>2. QED
    BY <1>4, <1>5, <1>7, <1>9, <2>1, EffectShares
<1>10. QED
  BY <1>8, <1>9

LEMMA MatchOneTrades ==
  ASSUME BooksIInv, NEW m \in Matchers, NEW o \in OrderIds, MatchOne(m, o), book' \in Books
  PROVE  /\ TradesBalance(book')
         /\ ~SpansMidnight => TradesInv(book')
<1>1. PICK quote \in Quotes : book' = Matched(book, o, quote, day)
  BY DEF MatchOne
<1> DEFINE s == Settled(book, day)
<1>2. /\ day \in Nat /\ BookInv(book) /\ DatesInv(book, day) /\ TradesBalance(book)
      /\ ~SpansMidnight => SharesInv(book) /\ SameDayInv(book) /\ TradesInv(book)
  BY DEF BooksIInv, SharesIInv, IInv, TypeOK
<1>3. BookInv(s) /\ s.lastSettle = day /\ TradesBalance(s)
  BY <1>2, SettledInv, SettledDates, SettledBalance
<1>4. s \in Books
  BY <1>3 DEF BookInv
<1>5. ~SpansMidnight => SharesInv(s) /\ TradesInv(s)
  BY <1>2, SettledShares, SettledSales
<1>6. book' = book \/ book' = s \/ Effect(s, book', o, day)
  BY <1>1, <1>2, MatchedEffect
<1> HIDE DEF s
<1>7. CASE book' = book
  BY <1>2, <1>7
<1>8. CASE book' = s
  BY <1>3, <1>5, <1>8
<1>9. CASE Effect(s, book', o, day)
  BY <1>3, <1>4, <1>5, <1>9, EffectMoney, EffectShares
<1>10. QED
  BY <1>6, <1>7, <1>8, <1>9

LEMMA NextBooks == BooksIInv /\ [Next]_vars => BooksIInv'
<1> SUFFICES ASSUME BooksIInv, [Next]_vars
             PROVE  BooksIInv'
  OBVIOUS
<1> DEFINE Good == /\ TradesBalance(book')
                   /\ ~SpansMidnight => TradesInv(book')
<1>1. SharesIInv'
  BY NextShares DEF BooksIInv
<1>2. book' \in Books
  BY <1>1 DEF SharesIInv, IInv, TypeOK
<1>3. /\ day \in Nat /\ BookInv(book) /\ DatesInv(book, day) /\ TradesBalance(book)
      /\ ~SpansMidnight => SharesInv(book) /\ SameDayInv(book) /\ TradesInv(book)
  BY DEF BooksIInv, SharesIInv, IInv, TypeOK
<1>4. book \in Books
  BY <1>3 DEF BookInv
<1>5. ASSUME UNCHANGED book
      PROVE  Good
  BY <1>3, <1>5
<1>6. ASSUME NEW o \in OrderIds, PlaceOrder(o)
      PROVE  Good
  BY <1>2, <1>6, PlaceOrderTrades
<1>7. ASSUME NEW o \in OrderIds, CancelOrder(o)
      PROVE  Good
  <2>1. book.orders[o].status = "pending" /\ book' = Cancelled(book, o)
    BY <1>7 DEF CancelOrder
  <2>2. Effect(book, book', o, book.lastSettle)
    BY <1>3, <2>1, CancelledEffect
  <2>3. QED
    BY <1>2, <1>3, <1>4, <2>2, EffectMoney, EffectShares
<1>8. ASSUME SettleAccount
      PROVE  Good
  <2>1. book' = Settled(book, day)
    BY <1>8 DEF SettleAccount
  <2>2. QED
    BY <1>3, <2>1, SettledBalance, SettledSales
<1>9. ASSUME NEW m \in Matchers, NEW o \in OrderIds, MatchOne(m, o)
      PROVE  Good
  BY <1>2, <1>9, MatchOneTrades
<1>10. ASSUME NEW m \in Matchers, ListPending(m)
      PROVE  UNCHANGED book
  BY <1>10 DEF ListPending
<1>11. ASSUME NextDay
      PROVE  UNCHANGED book
  BY <1>11 DEF NextDay
<1> HIDE DEF Good
<1>12. Good
  BY <1>5, <1>6, <1>7, <1>8, <1>9, <1>10, <1>11 DEF Next, vars
<1>13. QED
  BY <1>1, <1>12
     DEF Good, BooksIInv, TradesBalance, Priced, MoneyInv, Money, TradesInv, TradeDays,
         PositionInv, SellableInv, PastInv, SoldBy, BoughtBy, Promised, Filled

(* Money is conserved whatever the prices, the order of placements, passes *)
(* of the matcher, cancellations and settlements, and wherever midnight    *)
(* falls: no operation of services/trading.py makes or loses any.          *)
THEOREM MoneyConserved == Spec => []MoneyInv(book)
<1>1. BooksIInv => MoneyInv(book)
  BY DEF BooksIInv, TradesBalance
<1>2. QED
  BY <1>1, InitBooks, NextBooks, PTL DEF Spec

(* The trades account for the money and the shares of the account, and no  *)
(* share is sold on the day it was bought (T+1), unless midnight falls     *)
(* inside a placement.                                                     *)
THEOREM BooksBalanceCorrect == ~SpansMidnight => (Spec => []BooksBalance)
<1> SUFFICES ASSUME ~SpansMidnight
             PROVE  Spec => []BooksBalance
  OBVIOUS
<1>1. ASSUME BooksIInv
      PROVE  BooksBalance
  <2>1. day \in Nat \ {0} /\ MoneyInv(book) /\ PastInv(book)
    BY <1>1 DEF BooksIInv, SharesIInv, IInv, TypeOK, TradesBalance, TradesInv
  <2>2. \A d \in 1 .. day : d \in Nat \ {0}
    BY <2>1
  <2>3. \A c \in Codes, d \in 1 .. day : SoldBy(book, c, d) <= BoughtBy(book, c, d - 1)
    BY <2>1, <2>2 DEF PastInv
  <2>4. QED
    BY <2>1, <2>3 DEF BooksBalance, MoneyInv, Money, SoldBy, BoughtBy
<1>2. QED
  BY <1>1, InitBooks, NextBooks, PTL DEF Spec
=============================================================================
