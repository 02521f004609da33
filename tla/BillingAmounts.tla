---------------------------- MODULE BillingAmounts ----------------------------
(***************************************************************************)
(* The money arithmetic of the billing: what the office quotes for a tax   *)
(* year (routes/compute.py), what is still owed on a billing row           *)
(* (calculate_current_billing_amounts of billing_service.py), and how a    *)
(* receipt's penalty or discount is split over its years, three times:     *)
(* when it is posted, when it is read back in Python and in SQL            *)
(* (payment_adjustments.py).                                               *)
(*                                                                         *)
(* Amounts are whole centavos and not negative, as a posting demands;      *)
(* rates are hundredths of a percent; decimal arithmetic is exact up to    *)
(* quantize.  A month counts from the December before the tax year, 0, so  *)
(* that January is 1: discounts end with a month and penalties are         *)
(* charged by the month.                                                   *)
(***************************************************************************)
EXTENDS Integers

Most(x, y) == IF x >= y THEN x ELSE y
Least(x, y) == IF x <= y THEN x ELSE y
Abs(x) == IF x >= 0 THEN x ELSE -x

(* quantize(ROUND_HALF_UP) of the quotient n / d.                          *)
HalfUp(n, d) == (2 * n + d) \div (2 * d)

-----------------------------------------------------------------------------
(* A total split over count years; the shares are in tax year order.       *)

(* Every year's share before the centavos of the difference are given out. *)
Base(total, count) == HalfUp(total, count)
Remainder(total, count) == total - count * Base(total, count)
Cent(x) == IF x > 0 THEN 1 ELSE -1

(* split_amount_across_years: one centavo a turn, round and round, until   *)
(* the difference is used up.                                              *)
split_amount_across_years(total, count) ==
    LET difference == Remainder(total, count)
        after[n \in 0 .. Abs(difference)] ==
            IF n = 0 THEN [i \in 1 .. count |-> Base(total, count)]
            ELSE [after[n - 1] EXCEPT ![((n - 1) % count) + 1] = @ + Cent(difference)]
    IN  after[Abs(difference)]

(* equal_adjustment_shares: the first |remainder| shares get a centavo;    *)
(* there must be that many.                                                *)
equal_adjustment_shares(total, count) ==
    LET remainder == Remainder(total, count)
    IN  [i \in 1 .. count |-> Base(total, count)
            + (IF i <= Abs(remainder) THEN Cent(remainder) ELSE 0)]

(* Mutant: ranks are counted from one.                                     *)
AdjustmentShareFromOne(total, count, rank) ==
    Base(total, count) +
        (IF rank + 1 < Abs(Remainder(total, count)) THEN Cent(Remainder(total, count)) ELSE 0)

(* allocated_adjustment_expr: the share of the link that has rank others   *)
(* of its receipt before it.                                               *)
AdjustmentShare(total, count, rank) ==
    Base(total, count) +
        (IF rank < Abs(Remainder(total, count)) THEN Cent(Remainder(total, count)) ELSE 0)

-----------------------------------------------------------------------------
(* Quotes and balances.  A policy has the rates basic, sef and penalty.    *)

AtRate(rate, amount) == HalfUp(amount * rate, 10000)

(* payment_discount_terms: in advance, until March, later.                 *)
DiscountRate(month) ==
    IF month <= 0 THEN 2000 ELSE IF month <= 3 THEN 1000 ELSE 0

(* annual_penalty_months                                                   *)
PenaltyMonths(month) == Least(36, Most(0, month))

(* basic and SEF tax, each rounded.                                        *)
Tax(policy, assessed) == AtRate(policy.basic, assessed) + AtRate(policy.sef, assessed)

(* compute_payment: what the form is filled with.                          *)
Quote(policy, assessed, month) ==
    LET tax == Tax(policy, assessed)
        discount == AtRate(DiscountRate(month), tax)
        penalty == IF DiscountRate(month) > 0 THEN 0
                   ELSE AtRate(policy.penalty * PenaltyMonths(month), tax)
    IN  [paid |-> tax - discount + penalty, penalty |-> penalty, discount |-> discount]

(* tax_principal: the tax of the two rates together, rounded once.         *)
Principal(policy, assessed) == AtRate(policy.basic + policy.sef, assessed)

(* remaining_principal, given what receipts paid, and the penalty and      *)
(* discount recorded on them.                                              *)
Remaining(policy, assessed, receipts) ==
    LET credit == Most(0, receipts.paid + receipts.discount - receipts.penalty)
    IN  Most(0, Principal(policy, assessed) - credit)

(* calculate_current_billing_amounts: the balance in a month.              *)
Balance(policy, assessed, receipts, month) ==
    LET accrued == AtRate(policy.penalty * PenaltyMonths(month),
                          Remaining(policy, assessed, receipts))
        due == Principal(policy, assessed) + receipts.penalty + accrued - receipts.discount
    IN  Most(0, due - receipts.paid)

=============================================================================
