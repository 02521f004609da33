---------------------------- MODULE MCRcdReport ----------------------------
(* RcdReport with one clerk, two officers, booklets of two receipts, and   *)
(* StockRows for every stock of two booklets of four.                      *)
EXTENDS RcdReport, TLC

CONSTANTS o1, o2

a == 5
u == 6

MCAmounts == {a, u}
MCUnclear == {u}
MCReceipts ==
    {[or |-> 2, day |-> 1, amount |-> a], [or |-> 2, day |-> 2, amount |-> a],
     [or |-> 1, day |-> 2, amount |-> u], [or |-> 3, day |-> 2, amount |-> a]}
MCRegistrable ==
    {[owner |-> o2, first |-> 2, issued |-> 1], [owner |-> o2, first |-> 3, issued |-> 2]}
MCPolicies == <<[basic |-> 1, sef |-> 1], [basic |-> 1, sef |-> 3]>>
MCKnown == {o1}
MCBooks == {[owner |-> o1, first |-> 1, issued |-> 1]}
=============================================================================
