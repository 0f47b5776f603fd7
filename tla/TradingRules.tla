---------------------------- MODULE TradingRules ----------------------------
(***************************************************************************)
(* The fees of services/trading_rules.py, which the simulated account and  *)
(* the backtest share.  Money is a whole number of some unit; the stamp    *)
(* tax is the one in force on every day of the instance.                   *)
(***************************************************************************)
EXTENDS Integers

CONSTANTS
  FeeUnit,   \* 1 / COMMISSION_RATE
  MinFee,    \* COMMISSION_MIN
  TaxUnit    \* 1 / STAMP_TAX_RATE_CURRENT

(* To the nearest, as round(x, 2). *)
RoundDiv(a, n) == (2 * a + n) \div (2 * n)

Commission(amount) ==
  LET rated == RoundDiv(amount, FeeUnit) IN IF rated < MinFee THEN MinFee ELSE rated

StampTax(amount) == RoundDiv(amount, TaxUnit)

BuyTotal(px, qty)     == px * qty + Commission(px * qty)
SellProceeds(px, qty) == px * qty - Commission(px * qty) - StampTax(px * qty)
=============================================================================
