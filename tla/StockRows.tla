----------------------------- MODULE StockRows -----------------------------
(***************************************************************************)
(* How the daily report groups receipts and stock into printed rows: the   *)
(* ranges of collected receipts at the end of build_daily_rcd, and the     *)
(* stock rows at the end of build_stock_review.                            *)
(*                                                                         *)
(* Both walk the serials upwards, booklet by booklet.  A stock row has     *)
(* room for one run of each column, and the workbook prints only that one, *)
(* so a bucket must never hold two.  More than Capacity rows are refused.  *)
(*                                                                         *)
(* Booklet b has the serials (b - 1) * PrintLen + 1 .. b * PrintLen, next  *)
(* to each other, which is where a boundary could be bridged.  Opening and *)
(* received stock differ only in the column they are printed in (a booklet *)
(* has one or the other); cancelled receipts are issued and not collected. *)
(***************************************************************************)
EXTENDS Integers, Sequences, FiniteSets, SequencesExt, FiniteSetsExt

CONSTANTS
    PrintBooks, PrintLen,  \* booklets printed, and receipts of each
    Capacity               \* stock rows of the office form (6)

ASSUME StockAssumption == {PrintBooks, PrintLen, Capacity} \subseteq Nat \ {0}

Printable == 1 .. PrintBooks * PrintLen
BookOf(s) == (s - 1) \div PrintLen

(* A loop over the serials of S, the lowest first: the highest comes last. *)
Ascending(Step(_, _), start, S) ==
    MapThenFoldSet(LAMBDA s, walk : Step(walk, s), start, LAMBDA s : s, Max, S)

-----------------------------------------------------------------------------
(* The ranges of the collections.                                          *)

Continues(ranges, s) ==
    /\ ranges # <<>>
    /\ BookOf(Last(ranges).to) = BookOf(s)
    /\ Last(ranges).to + 1 = s

(* One receipt of the loop.                                                *)
Group(ranges, s) ==
    IF Continues(ranges, s)
    THEN [ranges EXCEPT ![Len(ranges)].to = s, ![Len(ranges)].count = @ + 1]
    ELSE Append(ranges, [from |-> s, to |-> s, count |-> 1])

Ranges(paid) == Ascending(Group, <<>>, paid)

-----------------------------------------------------------------------------
(* The stock rows.                                                         *)

Phase(issued, s) == IF s \in issued THEN "issued" ELSE "ending"

(* Mutant: a row takes every serial of a run of stock.                     *)
StartsAtGaps(walk, s, phase) ==
    walk.buckets = <<>> \/ BookOf(walk.previous) # BookOf(s) \/ walk.previous + 1 # s

(* Before a booklet's first serial previous is None.                       *)
StartsBucket(walk, s, phase) ==
    \/ walk.buckets = <<>> \/ BookOf(walk.previous) # BookOf(s)
    \/ walk.previous + 1 # s
    \/ phase # walk.last /\ phase \in walk.seen

(* One serial of the loop.                                                 *)
Visit(walk, s, phase) ==
    LET starts == StartsBucket(walk, s, phase)
    IN  [buckets |-> IF starts THEN Append(walk.buckets, {s})
                     ELSE [walk.buckets EXCEPT ![Len(walk.buckets)] = @ \union {s}],
         seen |-> (IF starts THEN {} ELSE walk.seen) \union {phase},
         previous |-> s, last |-> phase]

Entered == [buckets |-> <<>>, seen |-> {}, previous |-> 0, last |-> "none"]

Buckets(stock, issued) ==
    LET Step(walk, s) == Visit(walk, s, Phase(issued, s))
    IN  Ascending(Step, Entered, stock).buckets

(* items[0] of the _segments of a set of serials of one booklet.           *)
FirstSegment(S) ==
    IF S = {} THEN {}
    ELSE Min(S) .. Min({t \in S : t + 1 \notin S})

Row(bucket, issued) ==
    [opening |-> FirstSegment(bucket), issued |-> FirstSegment(bucket \intersect issued),
     ending |-> FirstSegment(bucket \ issued)]

StockRows(stock, issued) ==
    LET buckets == Buckets(stock, issued)
    IN  [i \in DOMAIN buckets |-> Row(buckets[i], issued)]

-----------------------------------------------------------------------------
(* What the printed report must say.                                       *)

(* The ranges of the collections sheet are the maximal runs of collected   *)
(* receipts within a booklet, with their number: none bridges a missing    *)
(* receipt or a boundary, none is split.                                   *)
RangesAreTheReceipts ==
    \A paid \in SUBSET Printable :
        ToSet(Ranges(paid)) =
            {[from |-> p[1], to |-> p[2], count |-> p[2] - p[1] + 1] : p \in
                {p \in paid \X paid :
                    /\ p[1] <= p[2] /\ p[1] .. p[2] \subseteq paid
                    /\ BookOf(p[1]) = BookOf(p[2])
                    /\ \A s \in {p[1] - 1, p[2] + 1} \intersect paid :
                           BookOf(s) # BookOf(p[1])}}

(* Each column of the rows holds exactly the given serials, none twice.    *)
Prints(column, serials) ==
    /\ UNION ToSet(column) = serials
    /\ \A i, j \in DOMAIN column : i # j => column[i] \intersect column[j] = {}

(* Serials that one row can print.                                         *)
IsRun(S) == S = {} \/ S = Min(S) .. Max(S)
OneRow(S, issued) ==
    /\ IsRun(S) /\ IsRun(S \intersect issued) /\ IsRun(S \ issued)
    /\ \A s, t \in S : BookOf(s) = BookOf(t)

(* There is a division of the stock into n rows: where they start.         *)
Divides(starts, stock, issued) ==
    \A s \in stock :
        LET before == {a \in starts : a <= s}
        IN  /\ before # {}
            /\ OneRow({t \in stock : t >= Max(before) /\ \A a \in starts : a > s => t < a}, issued)

(* What is printed in each column is exactly the reviewed stock, no serial *)
(* twice and none lost though only the first run of each column of a row   *)
(* is printed; every single row balances, not only the totals; and a form  *)
(* is refused for want of rows only when no division of the stock fits.    *)
StockRowsBalance ==
    \A stock \in SUBSET Printable : \A issued \in SUBSET stock :
        LET rows == StockRows(stock, issued)
            Column(c) == [i \in DOMAIN rows |-> rows[i][c]]
        IN  /\ Prints(Column("opening"), stock)
            /\ Prints(Column("issued"), issued)
            /\ Prints(Column("ending"), stock \ issued)
            /\ \A i \in DOMAIN rows :
                   rows[i].opening = rows[i].issued \union rows[i].ending
            /\ Len(rows) > Capacity =>
                   \A n \in 0 .. Capacity : \A starts \in kSubset(n, stock) :
                       ~Divides(starts, stock, issued)
=============================================================================
