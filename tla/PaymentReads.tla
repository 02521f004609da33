----------------------------- MODULE PaymentReads -----------------------------
(***************************************************************************)
(* What the reports read from the rows PaymentLedger keeps: the penalty    *)
(* (or discount) of a billing row, as the sum over the receipts linked to  *)
(* it.  _billing_effective_amount_exprs and recalculate_billing_balances   *)
(* take a receipt's share of the year, get_property_billing_history (the   *)
(* statement, the delinquency notice, the tax bill) its whole penalty.     *)
(*                                                                         *)
(* A receipt's penalty plays no part in what PaymentLedger does, so it is  *)
(* no variable: adj gives each payment one, and the properties are about   *)
(* every adj.  A receipt that has one is refused when one of its years     *)
(* receives nothing, so the linked rows are the years it was split over    *)
(* when it was posted.                                                     *)
(***************************************************************************)
EXTENDS PaymentLedger

CONSTANT MaxAdjustment   \* bound: the penalty of a receipt

ASSUME ReadsAssumption == MaxAdjustment \in Nat

Adjustments == [Payments -> 0 .. MaxAdjustment]

(* The payment_billings rows of a bill and of a payment.                   *)
Linked(b) == {p \in Payments : b \in BilledBy(alloc[p])}
Rank(p, b) == Cardinality({c \in BilledBy(alloc[p]) : c < b})

(* allocated_adjustment_expr for the link of p and b.                      *)
LinkShare(total, p, b) == AdjustmentShare(total, Cardinality(BilledBy(alloc[p])), Rank(p, b))

EffectivePenalty(adj, b) ==
    Total([p \in Payments |-> LinkShare(adj[p], p, b)], Linked(b))

HistoryPenalty(adj, b) == Total(adj, Linked(b))

-----------------------------------------------------------------------------
(* The shares that the queries read back from a receipt's links, whatever  *)
(* postings, edits and deletions made of them, add up to its penalty, and  *)
(* are those the posting split it into.                                    *)
AdjustmentsKeepEveryCent ==
    \A p \in Payments, total \in 0 .. MaxAdjustment :
        LET years == BilledBy(alloc[p])
            posted == split_amount_across_years(total, Cardinality(years))
        IN  years # {} =>
              /\ Total([b \in Bills |-> LinkShare(total, p, b)], years) = total
              /\ \A b \in years : LinkShare(total, p, b) = posted[Rank(p, b) + 1]

(* "Split once across the linked billing rows, in tax-year/id order,       *)
(* instead of repeating the receipt total on every row": the statement     *)
(* shows the penalty that the balances are computed with.                  *)
StatementSplitsReceipts ==
    \A adj \in Adjustments, b \in Bills : HistoryPenalty(adj, b) = EffectivePenalty(adj, b)
=============================================================================
