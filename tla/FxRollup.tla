------------------------------ MODULE FxRollup ------------------------------
(***************************************************************************)
(* What GET /api/transactions shows of a row in UAH: the rate carried        *)
(* forward by the LATERAL join of ROLLUP_SQL (db/transaction_repo.py), the   *)
(* amount and the stale flag of rollup (services/fx_rollup.py).  Its label   *)
(* fx_source decides nothing and is left out.                                *)
(* Nothing of it is stored: it is computed from fx_rates on every read.      *)
(*                                                                           *)
(* Amounts are minor units, a rate is a fraction num / den (NUMERIC(18, 8)   *)
(* in the table), currencies are ISO 4217 numbers and days are numbers.      *)
(* Products of more than 28 digits, where Decimal itself would round, are    *)
(* beyond the columns' use and not modelled.                                 *)
(***************************************************************************)
EXTENDS Integers

UAH == 980

(* No row joined.                                                            *)
Null == -1000000000

(* ROLLUP_SQL: WHERE rate_date <= attributed_day ORDER BY rate_date DESC     *)
(* LIMIT 1, over the days that have a rate.                                  *)
Carried(days, day) ==
  IF \E d \in days : d <= day
    THEN CHOOSE d \in days : d <= day /\ \A e \in days : e <= day => e <= d
    ELSE Null

(* n / d to the nearest integer, ties to the even one: ROUND_HALF_EVEN.      *)
HalfEven(n, d) ==
  LET q == n \div d
      r == n % d
  IN IF 2 * r < d \/ (2 * r = d /\ q % 2 = 0) THEN q ELSE q + 1

(* (amount_minor / 100) * rate, quantized to the kopeck.                     *)
UahMinor(amount, rate) == HalfEven(amount * rate.num, rate.den)

(* rateDate is Carried of the rates of the row's currency.                   *)
FxStale(currency, rateDate, day) ==
  currency # UAH /\ (rateDate = Null \/ rateDate < day)

=============================================================================
