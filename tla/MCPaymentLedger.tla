--------------------------- MODULE MCPaymentLedger ---------------------------
(* PaymentLedger with two billing years, and the arithmetic of             *)
(* BillingAmounts over bounded inputs.                                     *)
EXTENDS PaymentReads, TLC

TwoYears == <<1, 2>>
Symmetry == Permutations(Requests) \cup Permutations(Keys)

(* The two splits that are written in Python agree.                        *)
ASSUME SplitsAgree ==
    \A total \in 0 .. 60, count \in 1 .. 7 :
        split_amount_across_years(total, count) = equal_adjustment_shares(total, count)

(* A receipt of the quoted amount settles a year in whole pesos, and the   *)
(* year stays settled.                                                     *)
ASSUME QuotesSettle ==
    LET policy == [basic |-> 100, sef |-> 100, penalty |-> 200]
    IN  \A pesos \in 0 .. 60, month \in -2 .. 40, later \in {-1, 0, 1, 12, 40} :
            Balance(policy, 100 * pesos, Quote(policy, 100 * pesos, month), later) = 0
=============================================================================
