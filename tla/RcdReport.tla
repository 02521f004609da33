----------------------------- MODULE RcdReport -----------------------------
(***************************************************************************)
(* The RCD register and the daily report: rcd_register_service.py,         *)
(* daily_rcd_service.py, routes/daily_rcd.py, utils/rcd_stock.py and the   *)
(* window of ui/rcd_daily.py.                                              *)
(*                                                                         *)
(* A clerk selects an officer and a day, loads a preview of the receipts   *)
(* that officer's booklets account for, reviews the stock of unused        *)
(* receipts against it, and exports.  The server builds the report again   *)
(* and refuses if its signature is not the preview's.  Meanwhile booklets  *)
(* are registered, payments posted, edited and deleted, rates changed.     *)
(*                                                                         *)
(* An export or a registration is one transaction: its reads are of the    *)
(* snapshot fixed when it begins, except those of the register's control   *)
(* row and of overlapping booklets, which lock; at its end it appends an   *)
(* audit event, which fails if another was committed since (AuditChain).   *)
(* Edits and deletions of payments append one too, postings and changes of *)
(* rates do not (PaymentLedger; update_tax_policy).                        *)
(*                                                                         *)
(* Abstractions.  A registration reads what it decides on under the        *)
(* register's lock and ends with its audit event: one step.  So is a       *)
(* preview: a change while its answer travels makes it as stale as one     *)
(* after, and an answer for another selection is not shown.  Only an       *)
(* export has a state in between.  Receipts have one prefix;               *)
(* receipt_serial maps every printed width of a serial to one number and   *)
(* the searches look for every width.  Receipts are of one tax year,       *)
(* without penalty or discount; Unclear are the amounts that do not agree  *)
(* with their allocations.  The handover concerns only what is entered.    *)
(***************************************************************************)
EXTENDS Integers, Sequences, FiniteSets, Functions, BillingAmounts, StockRows

CONSTANTS
    Clerks,      \* daily RCD windows
    Officers,    \* collecting officers there may be
    NSerials,    \* serials of receipts are 1 .. NSerials
    BookLen,     \* receipts of a booklet (50)
    NDays,       \* days are 1 .. NDays
    Amounts, Unclear,  \* in centavos
    Policies,    \* the tax policy after each change of rates
    None,        \* no payment, preview, review, export
    Known,       \* officers registered before the run starts
    Books,       \* booklets registered before the run starts
    Receipts,    \* bound: payments posted or edited to
    Registrable, \* bound: booklets registered
    MaxPay,      \* bound: payment ids
    MaxAudit,    \* bound: audited commits
    MaxLegs,     \* bound: checks on one receipt
    MaxCancelled \* bound: cancelled receipts in one review

Serials == 1 .. NSerials
Days == 1 .. NDays
Payments == 1 .. MaxPay
Receipt == [or : Serials, day : Days, amount : Amounts]
Booklet == [owner : Officers, first : 1 .. NSerials + 1 - BookLen, issued : Days]
SerialsOf(b) == b.first .. b.first + BookLen - 1

ASSUME RcdAssumption ==
    /\ {NSerials, NDays, BookLen} \subseteq Nat \ {0} /\ BookLen <= NSerials
    /\ {MaxPay, MaxAudit, MaxLegs, MaxCancelled} \subseteq Nat
    /\ Amounts \subseteq Nat \ {0} /\ Unclear \subseteq Amounts
    /\ Policies \in Seq([basic : Nat, sef : Nat \ {0}]) /\ Policies # <<>>
    /\ Known \subseteq Officers
    /\ Receipts \subseteq Receipt /\ Registrable \subseteq Booklet
    /\ Books \subseteq {b \in Booklet : b.owner \in Known}
    /\ \A a, b \in Books : SerialsOf(a) \cap SerialsOf(b) # {} => a = b

VARIABLES
    officers, books,  \* the register
    row,      \* payments: [or, day, amount] or None
    nextP,    \* next payment id
    rates,    \* the tax policy: Policies[rates]
    audits,   \* audited commits: the head of the audit chain
    touched,  \* history: edits and deletions of each receipt's payments
    sel,      \* each window's selection
    preview, review,  \* what it shows, and the stock review of it
    job,      \* the export it waits for
    exports   \* history: the reports exported

register == <<officers, books>>
ledger == <<row, nextP, touched>>
window == <<sel, preview, review>>
rcdVars == <<register, ledger, rates, audits, window, job, exports>>

RcdInit ==
    /\ officers = Known /\ books = Books
    /\ row = [p \in Payments |-> None] /\ nextP = 1
    /\ rates = 1 /\ audits = 0
    /\ touched = [s \in Serials |-> 0]
    /\ sel \in [Clerks -> [officer : Known, day : Days]]
    /\ preview = [c \in Clerks |-> None]
    /\ review = [c \in Clerks |-> None]
    /\ job = [c \in Clerks |-> None]
    /\ exports = {}

-----------------------------------------------------------------------------
(* build_daily_rcd.                                                        *)

Rows(P) == {p \in P : row[p] # None}
DayRows(day) == {p \in Rows(Payments) : row[p].day = day}
Candidates(p) == {b \in books : row[p].or \in SerialsOf(b)}
Assigned(p) == Cardinality(Candidates(p)) = 1

Owner(p) == (CHOOSE b \in Candidates(p) : TRUE).owner
Issued(p) == (CHOOSE b \in Candidates(p) : TRUE).issued

(* Assigned rows of the day; those of the officer's booklets.              *)
Dated(day) == {p \in DayRows(day) : Assigned(p) /\ Issued(p) <= day}
Own(officer, day) == {p \in Dated(day) : Owner(p) = officer}

(* Mutant: the other dates of a receipt are not searched.                  *)
ReusedUnsearched(day) == {}

(* Rows of other days with a receipt of an assigned row of this day.       *)
Reused(day) ==
    {q \in Rows(Payments) :
        row[q].day # day /\ \E p \in DayRows(day) : Assigned(p) /\ row[p].or = row[q].or}

(* BOOKLET_ASSIGNMENT_REQUIRED or OR_BEFORE_BOOKLET_ISSUE;                 *)
(* RECEIPT_REVIEW_REQUIRED; OR_HAS_DIFFERENT_PAYMENT_DATES.                *)
HasIssues(officer, day) ==
    \/ Dated(day) # DayRows(day)
    \/ \E p \in Own(officer, day) : row[p].amount \in Unclear
    \/ Reused(day) # {}

Listing(P) == {[id |-> p, or |-> row[p].or, amount |-> row[p].amount] : p \in P}

(* Every registration adds one.                                            *)
revision == Cardinality(officers) + Cardinality(books)

Report(s) ==
    [scope |-> s, policy |-> Policies[rates],
     receipts |-> Listing({p \in Own(s.officer, s.day) : row[p].amount \notin Unclear}),
     issues |-> HasIssues(s.officer, s.day),
     stock |-> {b \in books : b.owner = s.officer /\ b.issued <= s.day},
     signature |-> <<s, revision, books, Listing(DayRows(s.day)), Reused(s.day), rates>>]

-----------------------------------------------------------------------------
(* The checks of build_remittance_review: legs are the amounts of the      *)
(* checks on one receipt, in the order they were entered.                  *)

(* _receipt_components                                                     *)
BasicOf(policy, amount) == HalfUp(amount * policy.basic, policy.basic + policy.sef)

Used(legs, i) == FoldFunctionOnSet(+, 0, legs, 1 .. i)

Legs(amount) ==
    {legs \in UNION {[1 .. n -> 1 .. amount] : n \in 1 .. MaxLegs} :
        Used(legs, Len(legs)) <= amount}

AssignedBasic(policy, amount, used) == HalfUp(used * BasicOf(policy, amount), amount)

(* Mutant: every check is rounded by itself.                               *)
BasicPartAlone(policy, amount, legs, i) == AssignedBasic(policy, amount, legs[i])

(* basic_part: cumulative rounding.                                        *)
BasicPart(policy, amount, legs, i) ==
    AssignedBasic(policy, amount, Used(legs, i)) - AssignedBasic(policy, amount, Used(legs, i - 1))

-----------------------------------------------------------------------------
(* build_stock_review and validate_stock_history.                          *)

Union(bs) == UNION {SerialsOf(b) : b \in bs}
Paid(report) == {x.or : x \in report.receipts}
Available(stock) == stock.opening \cup Union(stock.received)

(* Opening stock is of booklets issued before the day, received booklets   *)
(* were issued on it; every recorded receipt comes from one of them and no *)
(* cancelled one is recorded.                                              *)
StockReviews(report) ==
    LET day == report.scope.day
        old == Union({b \in report.stock : b.issued < day})
        new == {b \in report.stock : b.issued = day}
    IN  {s \in [opening : SUBSET old, received : SUBSET new, cancelled : SUBSET Serials] :
            /\ Paid(report) \subseteq Available(s)
            /\ s.cancelled \subseteq Available(s) \ Paid(report)
            /\ Cardinality(s.cancelled) <= MaxCancelled}

(* Payments that contradict the declared stock of the day: of a cancelled  *)
(* receipt, or of a receipt said to be unused before it.                   *)
Conflicts(stock, day) ==
    {p \in Rows(Payments) :
        row[p].or \in Available(stock) /\ (row[p].or \in stock.cancelled \/ row[p].day < day)}

-----------------------------------------------------------------------------
(* The window.                                                             *)

Idle(c) == job[c] = None

(* _invalidate.                                                            *)
Invalidate(c) ==
    /\ preview' = [preview EXCEPT ![c] = None]
    /\ review' = [review EXCEPT ![c] = None]

Select(c, s) ==
    /\ s # sel[c] /\ s.officer \in officers
    /\ sel' = [sel EXCEPT ![c] = s]
    /\ Invalidate(c)
    /\ UNCHANGED <<register, ledger, rates, audits, job, exports>>

(* _load_preview and loaded.                                               *)
Load(c) ==
    /\ Idle(c)
    /\ preview' = [preview EXCEPT ![c] = Report(sel[c])]
    /\ review' = [review EXCEPT ![c] = None]
    /\ UNCHANGED <<register, ledger, rates, audits, sel, job, exports>>

(* _update_export.                                                         *)
Exportable(c) ==
    /\ Idle(c)
    /\ preview[c] # None
    /\ preview[c].scope = sel[c] /\ ~preview[c].issues

(* _edit_remittance.  of is history: the preview it was made for.          *)
Review(c) ==
    /\ Exportable(c)
    /\ \E s \in StockReviews(preview[c]) :
          review' = [review EXCEPT ![c] = [stock |-> s, of |-> preview[c].signature]]
    /\ UNCHANGED <<register, ledger, rates, audits, sel, preview, job, exports>>

-----------------------------------------------------------------------------
(* Exports.                                                                *)

(* Mutant: the signature is not compared.                                  *)
UnchangedAlways(report, shown) == TRUE

Unchanged(report, shown) == report.signature = shown.signature

(* _export and export_reviewed_daily up to the audit event.                *)
AskExport(c) ==
    LET report == Report(sel[c])
    IN  /\ Exportable(c) /\ review[c] # None
        /\ Unchanged(report, preview[c])
        /\ ~report.issues
        /\ review[c].stock \in StockReviews(report)
        /\ Conflicts(review[c].stock, sel[c].day) = {}
        /\ job' = [job EXCEPT ![c] =
              [seen |-> audits, nextP |-> nextP, touched |-> touched,
               report |-> report, review |-> review[c]]]
        /\ UNCHANGED <<register, ledger, rates, audits, window, exports>>

(* Mutant: the event is appended to whatever head there is.                *)
HeadSeenAlways(c) == TRUE

(* log_action's comparison.                                                *)
HeadSeen(c) == job[c].seen = audits

Audited ==
    /\ audits < MaxAudit
    /\ audits' = audits + 1

Finish(c) == job' = [job EXCEPT ![c] = None]

(* The audit event and the commit.                                         *)
Export(c) ==
    /\ ~Idle(c)
    /\ HeadSeen(c)
    /\ Audited
    /\ exports' = exports \cup
          {[scope |-> job[c].report.scope, receipts |-> Paid(job[c].report),
            touched |-> job[c].touched]}
    /\ Finish(c)
    /\ UNCHANGED <<register, ledger, rates, window>>

(* The audit event fails, or anything else: the window shows an error and  *)
(* is otherwise unchanged.                                                 *)
Fail(c) ==
    /\ ~Idle(c)
    /\ Finish(c)
    /\ UNCHANGED <<register, ledger, rates, audits, window, exports>>

-----------------------------------------------------------------------------
(* Registrations.                                                          *)

(* The window loads the register again and invalidates its preview, unless *)
(* an answer is lost on the way.                                           *)
Registered(c) ==
    /\ Idle(c)
    /\ Audited
    /\ Invalidate(c) \/ UNCHANGED <<preview, review>>
    /\ UNCHANGED <<ledger, rates, sel, job, exports>>

RegisterOfficer(c, o) ==
    /\ o \notin officers
    /\ officers' = officers \cup {o}
    /\ Registered(c)
    /\ UNCHANGED books

(* Mutant: only the officer's own booklets are compared.                   *)
OverlapsOwn(b) == \E x \in books : x.owner = b.owner /\ SerialsOf(x) \cap SerialsOf(b) # {}

(* start_serial <= end and end_serial >= start.                            *)
Overlaps(b) ==
    \E x \in books : x.first <= b.first + BookLen - 1 /\ x.first + BookLen - 1 >= b.first

RegisterBooklet(c, b) ==
    /\ b.owner \in officers
    /\ ~Overlaps(b)
    /\ books' = books \cup {b}
    /\ Registered(c)
    /\ UNCHANGED officers

-----------------------------------------------------------------------------
(* The rest of the office, as the report sees it.                          *)

Others == UNCHANGED <<register, window, job, exports>>

Post(x) ==
    /\ nextP <= MaxPay
    /\ row' = [row EXCEPT ![nextP] = x]
    /\ nextP' = nextP + 1
    /\ Others
    /\ UNCHANGED <<touched, rates, audits>>

(* Edit to x, or delete, x = None; audited.                                *)
Change(p, x) ==
    /\ row[p] \notin {None, x}
    /\ Audited
    /\ row' = [row EXCEPT ![p] = x]
    /\ touched' = [s \in Serials |->
          touched[s] + (IF s = row[p].or \/ (x # None /\ s = x.or) THEN 1 ELSE 0)]
    /\ Others
    /\ UNCHANGED <<nextP, rates>>

(* update_tax_policy.                                                      *)
SetRates ==
    /\ rates < Len(Policies)
    /\ rates' = rates + 1
    /\ Others
    /\ UNCHANGED <<ledger, audits>>

RcdNext ==
    \/ \E c \in Clerks :
          \/ \E s \in [officer : Officers, day : Days] : Select(c, s)
          \/ Load(c) \/ Review(c)
          \/ AskExport(c) \/ Export(c) \/ Fail(c)
          \/ \E o \in Officers : RegisterOfficer(c, o)
          \/ \E b \in Registrable : RegisterBooklet(c, b)
    \/ \E x \in Receipts : Post(x)
    \/ \E p \in Payments, x \in Receipts \cup {None} : Change(p, x)
    \/ SetRates

RcdSpec == RcdInit /\ [][RcdNext]_rcdVars

-----------------------------------------------------------------------------
(* Types of all variables.                                               *)
RcdTypeOK ==
    /\ officers \subseteq Officers
    /\ books \subseteq Booklet
    /\ row \in [Payments -> Receipt \cup {None}]
    /\ nextP \in 1 .. MaxPay + 1
    /\ rates \in DOMAIN Policies /\ audits \in Nat
    /\ touched \in [Serials -> Nat]
    /\ sel \in [Clerks -> [officer : officers, day : Days]]
    /\ \A c \in Clerks :
          job[c] # None => job[c].seen \in Nat /\ job[c].report.scope.day \in Days

(* A receipt once exported stays in exactly one booklet, of the officer it *)
(* was exported for: no later registration makes it ambiguous or somebody  *)
(* else's, whichever transactions overlap.                                 *)
ExportedStayAccounted ==
    \A e \in exports : \A s \in e.receipts :
        \E b \in books :
            /\ b.owner = e.scope.officer
            /\ {x \in books : s \in SerialsOf(x)} = {b}

(* Reports of two days list one receipt only if a payment of it was edited *)
(* or deleted between them: postings alone never make it so, not even when *)
(* they overlap the exports.                                               *)
OneDayPerReceipt ==
    \A e, f \in exports : \A s \in e.receipts \cap f.receipts :
        e.scope.day # f.scope.day => e.touched[s] # f.touched[s]

Exporting(c) == ~Idle(c) /\ job'[c] = None /\ audits' # audits

(* What is exported is what the clerk had on the screen when reviewing.    *)
ExportedAsReviewed ==
    [][\A c \in Clerks :
          Exporting(c) => job[c].report.signature = job[c].review.of]_rcdVars

(* The payments and stock of a report are those of the register and the    *)
(* ledger now, but for payments posted since its export began.             *)
Current(report, nextSeen) ==
    LET scope == report.scope
    IN  /\ report.receipts = Listing({p \in Own(scope.officer, scope.day) : p < nextSeen})
        /\ report.stock =
              {b \in books : b.owner = scope.officer /\ b.issued <= scope.day}

(* No payment but such a one contradicts the declared stock: uses a        *)
(* cancelled receipt, or one that was available before the day.            *)
Uncontradicted(stock, day, nextSeen) ==
    \A p \in Rows(Payments) :
        \/ p >= nextSeen
        \/ row[p].or \notin Available(stock)
        \/ row[p].or \notin stock.cancelled /\ row[p].day >= day

(* When an export commits, only a payment posted since it began can be     *)
(* missing from the report it releases or contradict the stock the report  *)
(* declares, whatever was edited, deleted and registered meanwhile.        *)
ExportMissesOnlyPostings ==
    [][\A c \in Clerks :
          Exporting(c) =>
             /\ Current(job[c].report, job[c].nextP)
             /\ Uncontradicted(job[c].review.stock, job[c].report.scope.day, job[c].nextP)]_rcdVars

(* However a listed receipt is covered by checks, each check's two parts   *)
(* are amounts, no fund gets more in checks than was collected for it, and *)
(* checks that cover the receipt add up to exactly its fund portions.      *)
ChecksKeepEveryCent ==
    [][\A c \in Clerks :
          Exporting(c) =>
             LET policy == job[c].report.policy
             IN  \A x \in job[c].report.receipts : \A legs \in Legs(x.amount) :
                    LET basic == [i \in DOMAIN legs |-> BasicPart(policy, x.amount, legs, i)]
                        checks == Used(legs, Len(legs))
                        inBasic == Used(basic, Len(legs))
                    IN  /\ \A i \in DOMAIN legs : basic[i] \in 0 .. legs[i]
                        /\ inBasic <= BasicOf(policy, x.amount)
                        /\ checks - inBasic <= x.amount - BasicOf(policy, x.amount)]_rcdVars

(* When a report is released, its ranges and stock rows print what was     *)
(* collected and reviewed, whatever the stock was: nothing is lost,        *)
(* bridged or refused without need, and every row balances.                *)
PrintedAsReviewed ==
    [][\A c \in Clerks : Exporting(c) => RangesAreTheReceipts /\ StockRowsBalance]_rcdVars

-----------------------------------------------------------------------------
(* A claim the code does not keep.                                         *)

(* docs/DAILY_RPT_RCD.md:171-172: "A saved payment under any date blocks a *)
(* proposed zero-collection cancellation".                                 *)
CancelledHasNoPayment ==
    [][\A c \in Clerks :
          Exporting(c) =>
             \A p \in Rows(Payments) : row[p].or \notin job[c].review.stock.cancelled]_rcdVars
-----------------------------------------------------------------------------
(* The inductive invariant behind the safety properties.                   *)

Windows ==
    /\ preview = [c \in Clerks |-> preview[c]] /\ review = [c \in Clerks |-> review[c]]
    /\ job = [c \in Clerks |-> job[c]]

LedgerInv == \A p \in Rows(Payments) : p < nextP

(* Registered booklets do not overlap, whoever registered them.            *)
BooksInv == \A a, b \in books : SerialsOf(a) \cap SerialsOf(b) # {} => a = b

(* A review is of the preview on the screen.                               *)
ReviewInv == \A c \in Clerks : review[c] # None => review[c].of = preview[c].signature

(* An export is of what was reviewed.  As long as no audited change was    *)
(* committed since it began, its report is current and its stock           *)
(* uncontradicted, but for what was posted.                                *)
JobInv ==
    \A c \in Clerks : ~Idle(c) =>
        /\ job[c].seen \in Nat /\ job[c].seen <= audits
        /\ job[c].nextP \in Nat /\ job[c].nextP <= nextP
        /\ job[c].report.scope.day \in Days
        /\ job[c].report.signature = job[c].review.of
        /\ HeadSeen(c) =>
              /\ Current(job[c].report, job[c].nextP)
              /\ Uncontradicted(job[c].review.stock, job[c].report.scope.day, job[c].nextP)

(* Reports that were exported, or may yet be.                              *)
Release(j) == [scope |-> j.report.scope, receipts |-> Paid(j.report), touched |-> j.touched]
Releases == exports \cup {Release(job[c]) : c \in {d \in Clerks : ~Idle(d)}}

(* Each receipt is in one booklet, of the officer.                         *)
AccountedFor(e) ==
    \A s \in e.receipts :
        \E b \in books : b.owner = e.scope.officer /\ {x \in books : s \in SerialsOf(x)} = {b}

(* Until a payment of a receipt is edited or deleted, the receipt has one  *)
(* on the report's day.                                                    *)
StillDated(e) ==
    /\ e.receipts \subseteq Serials /\ e.touched \in [Serials -> Nat]
    /\ \A s \in e.receipts :
          /\ e.touched[s] <= touched[s]
          /\ e.touched[s] = touched[s] => \E p \in DayRows(e.scope.day) : row[p].or = s

Compatible(e, f) ==
    \A s \in e.receipts \cap f.receipts :
        e.scope.day # f.scope.day => e.touched[s] # f.touched[s]

ReleaseInv ==
    /\ \A e \in Releases : AccountedFor(e) /\ StillDated(e)
    /\ \A e, f \in Releases : Compatible(e, f)

RcdInv ==
    /\ RcdTypeOK /\ Windows
    /\ LedgerInv /\ BooksInv /\ ReviewInv /\ JobInv /\ ReleaseInv
=============================================================================
