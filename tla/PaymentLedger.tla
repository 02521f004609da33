---------------------------- MODULE PaymentLedger ----------------------------
(***************************************************************************)
(* Payments, their allocations to billing years, and the amount_paid kept  *)
(* on each billing row: _sync_financial_records (posting, from             *)
(* property_service.py), update_payment_record and delete_payment_record   *)
(* (payment_service.py), sync_payment_billings and                         *)
(* recalculate_billing_balances (billing_service.py).                      *)
(*                                                                         *)
(* Each of them runs in one transaction.  Rows it changes are read with    *)
(* FOR UPDATE, which locks them and returns the newest committed values;   *)
(* the sums recalculate_billing_balances writes back are plain reads, of   *)
(* the snapshot fixed when the request's user was looked up, plus the      *)
(* transaction's own changes.  Edits and deletions append an audit event   *)
(* (AuditChain: only a session whose snapshot has the newest event may);   *)
(* postings do not.                                                        *)
(*                                                                         *)
(* Abstractions.  One property, whose billing rows exist.  A receipt's OR  *)
(* number, date and years are one key.  Penalty and discount are stored    *)
(* with the payment and read back by PaymentReads.  The row locks of one   *)
(* operation are taken at once: the only current values it uses are those  *)
(* of rows it has locked, and a deadlock ends in InnoDB's rollback of one  *)
(* side, which Rollback may do at any time.                                *)
(***************************************************************************)
EXTENDS Integers, FiniteSets, Functions, BillingAmounts

CONSTANTS
    Requests, NoReq,  \* sessions; no session
    Keys, NoKey,      \* receipt keys; none: no such payment row
    MaxPay,           \* bound: payment ids
    NPosted,          \* payments posted before the run starts
    Due,              \* total_amount of each billing row, in tax year order
    MaxAmount,        \* bound: amount of a payment
    Posting, Editing, Deleting,   \* which operations the run performs
    MaxCommit         \* bound: audited commits

Payments == 1 .. MaxPay
Bills == DOMAIN Due
Zero == [b \in Bills |-> 0]

(* The sum of f over the set S.                                            *)
Total(f, S) == FoldFunctionOnSet(+, 0, f, S)

ASSUME LedgerAssumption ==
    /\ NoReq \notin Requests /\ NoKey \notin Keys
    /\ MaxPay \in Nat /\ NPosted \in 0 .. MaxPay
    /\ MaxAmount \in Nat /\ MaxCommit \in Nat
    /\ Bills # {} /\ IsFiniteSet(Bills) /\ Bills \subseteq Int
    /\ \A b \in Bills : Due[b] \in Nat
    /\ {Posting, Editing, Deleting} \subseteq BOOLEAN

VARIABLES
    key,      \* receipt key of each payment row, NoKey when there is none
    alloc,    \* payment_billings: the amount each payment has on each bill
    paid,     \* property_billings.amount_paid
    nextP,    \* next payment id
    audits,   \* audited commits so far: the head of the audit chain
    lockB,    \* who holds the lock on a billing row
    lockP,    \* who holds the lock on a payment row and its links
    lockA,    \* who holds the lock on the audit chain head
    pc,
    seen,     \* the chain head in the session's snapshot
    vkey, valloc,  \* key and alloc as the session's plain reads see them
    own,      \* payment rows the session wrote
    dirty     \* billing rows whose amount_paid the session rewrote

committed == <<key, alloc, paid, audits>>
locks == <<lockB, lockP, lockA>>
vars == <<committed, nextP, locks, pc, seen, vkey, valloc, own, dirty>>

BilledBy(a) == {b \in Bills : a[b] > 0}
Column(al, b) == [p \in Payments |-> al[p][b]]

Allocations == {a \in [Bills -> 0 .. MaxAmount] : BilledBy(a) # {}}

Init ==
    /\ key \in [Payments -> Keys \cup {NoKey}]
    /\ \A p \in Payments : key[p] # NoKey <=> p <= NPosted
    /\ \A p, q \in 1 .. NPosted : key[p] = key[q] => p = q
    /\ \E a \in [1 .. NPosted -> Allocations] :
          alloc = [p \in Payments |-> IF p <= NPosted THEN a[p] ELSE Zero]
    /\ paid = [b \in Bills |-> Total(Column(alloc, b), Payments)]
    /\ nextP = NPosted + 1
    /\ audits = 0
    /\ lockB = [b \in Bills |-> NoReq]
    /\ lockP = [p \in Payments |-> NoReq]
    /\ lockA = NoReq
    /\ pc = [r \in Requests |-> "idle"]
    /\ seen = [r \in Requests |-> 0]
    /\ vkey = [r \in Requests |-> key]
    /\ valloc = [r \in Requests |-> alloc]
    /\ own = [r \in Requests |-> {}]
    /\ dirty = [r \in Requests |-> {}]

-----------------------------------------------------------------------------
(* get_current_user's SELECT opens the transaction and fixes its snapshot. *)
Begin(r) ==
    /\ pc[r] = "idle"
    /\ pc' = [pc EXCEPT ![r] = "open"]
    /\ seen' = [seen EXCEPT ![r] = audits]
    /\ vkey' = [vkey EXCEPT ![r] = key]
    /\ valloc' = [valloc EXCEPT ![r] = alloc]
    /\ UNCHANGED <<committed, nextP, locks, own, dirty>>

Free(lock, r) == lock \in {NoReq, r}

TakeBills(r, bs) ==
    /\ \A b \in bs : Free(lockB[b], r)
    /\ lockB' = [b \in Bills |-> IF b \in bs THEN r ELSE lockB[b]]

(* find_duplicate_payment: a plain read.                                   *)
Duplicate(r, p, k) == \E q \in Payments \ {p} : vkey[r][q] = k

(* uq_payments_property_or_tax_year_date: an insert or update waits for an *)
(* uncommitted row with the same key and fails on a committed one.         *)
Unique(r, p, k) ==
    \A q \in Payments \ {p} :
        /\ key[q] # k
        /\ \A o \in Requests \ {r} : q \in own[o] => vkey[o][q] # k

(* The session's row p becomes (k, a) and the balances of bs are summed    *)
(* again, from what the session sees.                                      *)
Stage(r, p, k, a, bs) ==
    /\ vkey' = [vkey EXCEPT ![r][p] = k]
    /\ valloc' = [valloc EXCEPT ![r][p] = a]
    /\ own' = [own EXCEPT ![r] = @ \cup {p}]
    /\ dirty' = [dirty EXCEPT ![r] = @ \cup bs]

(* allocate_payment_amount: years in order, each up to its total amount.   *)
Greedy(amount, ys) ==
    LET before(b) == {c \in ys : c < b}
        left(b) == amount - Total(Due, before(b))
    IN  [b \in Bills |-> IF b \in ys /\ left(b) > 0 THEN Least(Due[b], left(b)) ELSE 0]

(* Post a payment over the years ys: lock their billing rows, insert the   *)
(* payment, insert its links, which must add up to the amount, and sum the *)
(* balances of the rows that received something.  No audit event.          *)
Post(r, k, amount, ys) ==
    LET a == Greedy(amount, ys)
    IN  /\ Posting
        /\ pc[r] = "open"
        /\ nextP <= MaxPay
        /\ TakeBills(r, ys)
        /\ ~Duplicate(r, nextP, k) /\ Unique(r, nextP, k)
        /\ Total(a, Bills) = amount
        /\ nextP' = nextP + 1
        /\ lockP' = [lockP EXCEPT ![nextP] = r]
        /\ Stage(r, nextP, k, a, BilledBy(a))
        /\ pc' = [pc EXCEPT ![r] = "staged"]
        /\ UNCHANGED <<committed, lockA, seen>>

(* Mutant: the event is appended to whatever head there is.                *)
AuditedAnyHead(r) == Free(lockA, r) /\ lockA' = r

(* log_action: the audit chain's row lock and head comparison; a mismatch  *)
(* raises and the request is rolled back.                                  *)
Audited(r) ==
    /\ Free(lockA, r)
    /\ seen[r] = audits
    /\ lockA' = r

LockPayment(r, p) ==
    /\ key[p] # NoKey
    /\ Free(lockP[p], r)
    /\ lockP' = [lockP EXCEPT ![p] = r]

(* update_payment_record: one year only; the old links go, the old row's   *)
(* balance is summed, the new link comes, the new row's balance is summed. *)
Edit(r, p, k, amount, b) ==
    LET a == [Zero EXCEPT ![b] = amount]
    IN  /\ Editing
        /\ pc[r] = "open"
        /\ LockPayment(r, p)
        /\ Cardinality(BilledBy(alloc[p])) <= 1
        /\ ~Duplicate(r, p, k) /\ Unique(r, p, k)
        /\ TakeBills(r, BilledBy(alloc[p]) \cup {b})
        /\ Audited(r)
        /\ Stage(r, p, k, a, BilledBy(alloc[p]) \cup {b})
        /\ pc' = [pc EXCEPT ![r] = "staged"]
        /\ UNCHANGED <<committed, nextP, seen>>

(* delete_payment_record; a batch deletes several before it commits.       *)
Delete(r, p) ==
    /\ Deleting
    /\ pc[r] \in {"open", "batch"}
    /\ LockPayment(r, p)
    /\ p \notin own[r]
    /\ TakeBills(r, BilledBy(alloc[p]))
    /\ Audited(r)
    /\ Stage(r, p, NoKey, Zero, BilledBy(alloc[p]))
    /\ pc' = [pc EXCEPT ![r] = "batch"]
    /\ UNCHANGED <<committed, nextP, seen>>

Release(r) ==
    /\ pc' = [pc EXCEPT ![r] = "idle"]
    /\ own' = [own EXCEPT ![r] = {}]
    /\ dirty' = [dirty EXCEPT ![r] = {}]
    /\ lockB' = [b \in Bills |-> IF lockB[b] = r THEN NoReq ELSE lockB[b]]
    /\ lockP' = [p \in Payments |-> IF lockP[p] = r THEN NoReq ELSE lockP[p]]
    /\ lockA' = IF lockA = r THEN NoReq ELSE lockA

(* What recalculate_billing_balances wrote: SUM over the links the session *)
(* sees.                                                                   *)
Recalculated(r, b) == Total(Column(valloc[r], b), Payments)

Commit(r) ==
    /\ pc[r] \in {"staged", "batch"}
    /\ lockA = r => audits < MaxCommit
    /\ key' = [p \in Payments |-> IF p \in own[r] THEN vkey[r][p] ELSE key[p]]
    /\ alloc' = [p \in Payments |-> IF p \in own[r] THEN valloc[r][p] ELSE alloc[p]]
    /\ paid' = [b \in Bills |-> IF b \in dirty[r] THEN Recalculated(r, b) ELSE paid[b]]
    /\ audits' = IF lockA = r THEN audits + 1 ELSE audits
    /\ Release(r)
    /\ UNCHANGED <<nextP, seen, vkey, valloc>>

(* A check that fails, a rejected audit event, a lock timeout, a deadlock, *)
(* a lost connection.                                                      *)
Rollback(r) ==
    /\ pc[r] # "idle"
    /\ Release(r)
    /\ UNCHANGED <<committed, nextP, seen, vkey, valloc>>

Next ==
    \E r \in Requests :
        \/ Begin(r)
        \/ \E k \in Keys, amount \in 1 .. MaxAmount :
              \/ \E ys \in SUBSET Bills \ {{}} : Post(r, k, amount, ys)
              \/ \E p \in Payments, b \in Bills : Edit(r, p, k, amount, b)
        \/ \E p \in Payments : Delete(r, p)
        \/ Commit(r)
        \/ Rollback(r)

Spec == Init /\ [][Next]_vars

-----------------------------------------------------------------------------
(* Types of all variables.                                                 *)
TypeOK ==
    /\ key \in [Payments -> Keys \cup {NoKey}]
    /\ alloc \in [Payments -> [Bills -> Nat]]
    /\ paid \in [Bills -> Nat]
    /\ nextP \in 1 .. MaxPay + 1
    /\ audits \in Nat
    /\ lockB \in [Bills -> Requests \cup {NoReq}]
    /\ lockP \in [Payments -> Requests \cup {NoReq}]
    /\ lockA \in Requests \cup {NoReq}
    /\ pc \in [Requests -> {"idle", "open", "staged", "batch"}]
    /\ seen \in [Requests -> Nat]
    /\ vkey \in [Requests -> [Payments -> Keys \cup {NoKey}]]
    /\ valloc \in [Requests -> [Payments -> [Bills -> Nat]]]
    /\ own \in [Requests -> SUBSET Payments]
    /\ dirty \in [Requests -> SUBSET Bills]

(* Every billing row's amount_paid is the sum of the allocations to it,    *)
(* whatever sessions overlapped.                                           *)
LedgerBalanced ==
    \A b \in Bills : paid[b] = Total(Column(alloc, b), Payments)

(* The session's plain reads missed a commit that changed what others      *)
(* allocate to b; its plain reads missed a payment posted to b.            *)
MissedAllocation(r, b) == \E p \in Payments \ own[r] : valloc[r][p][b] # alloc[p][b]
MissedPosting(r, b) ==
    \E p \in Payments \ own[r] : vkey[r][p] = NoKey /\ alloc[p][b] > 0

(* A balance goes wrong only around a posting: when a posting commits that *)
(* missed another session's allocations, or an edit or deletion commits    *)
(* that missed a posting.  Edits and deletions among themselves, and any   *)
(* operation that overlaps no other, leave every balance exact.            *)
BalanceErrsOnlyAroundPostings ==
    [][\A b \in Bills :
          /\ paid[b] = Total(Column(alloc, b), Payments)
          /\ paid'[b] # Total(Column(alloc', b), Payments)
          => \E r \in Requests :
                /\ pc[r] \in {"staged", "batch"} /\ pc'[r] = "idle"
                /\ b \in dirty[r]
                /\ IF lockA = r THEN MissedPosting(r, b) ELSE MissedAllocation(r, b)]_vars

(* One receipt key, one payment, although the check for a duplicate reads  *)
(* an old snapshot.                                                        *)
NoDuplicateReceipt ==
    \A p, q \in Payments : key[p] = key[q] /\ key[p] # NoKey => p = q

(* While one session has rewritten a billing row's amount_paid, no other   *)
(* has, whichever of the three operations they perform.                    *)
OneWriterPerBill ==
    \A r, q \in Requests : r # q => dirty[r] \cap dirty[q] = {}
-----------------------------------------------------------------------------
(* The inductive invariant behind these properties.                        *)

(* Functions of the right domains; that amounts are numbers needs no       *)
(* induction together with the rest.                                       *)
IsAllocation(a) ==
    /\ a = [b \in Bills |-> a[b]]
    /\ \A b \in Bills : a[b] = 0 \/ a[b] > 0

IsTable(t) ==
    /\ t = [p \in Payments |-> t[p]]
    /\ \A p \in Payments : IsAllocation(t[p])

ShapeInv ==
    /\ key \in [Payments -> Keys \cup {NoKey}]
    /\ IsTable(alloc)
    /\ nextP \in 1 .. MaxPay + 1
    /\ audits \in Nat
    /\ lockB \in [Bills -> Requests \cup {NoReq}]
    /\ lockP \in [Payments -> Requests \cup {NoReq}]
    /\ lockA \in Requests \cup {NoReq}
    /\ pc \in [Requests -> {"idle", "open", "staged", "batch"}]
    /\ seen \in [Requests -> Nat]
    /\ vkey \in [Requests -> [Payments -> Keys \cup {NoKey}]]
    /\ valloc = [r \in Requests |-> valloc[r]]
    /\ \A r \in Requests : IsTable(valloc[r])
    /\ own \in [Requests -> SUBSET Payments]
    /\ dirty \in [Requests -> SUBSET Bills]

(* What a session wrote it has locked, and the chain it appends to has the *)
(* head of its snapshot.                                                   *)
HoldInv ==
    \A r \in Requests :
        /\ \A b \in dirty[r] : lockB[b] = r
        /\ \A p \in own[r] : lockP[p] = r
        /\ pc[r] \in {"idle", "open"} => own[r] = {} /\ dirty[r] = {} /\ lockA # r
        /\ seen[r] <= audits
        /\ lockA = r => seen[r] = audits

(* A row that does not exist has no links; an id not given out is nowhere. *)
FreshInv ==
    \A p \in Payments :
        /\ key[p] = NoKey => alloc[p] = Zero
        /\ p >= nextP =>
              key[p] = NoKey /\ lockP[p] = NoReq /\ \A r \in Requests : vkey[r][p] = NoKey

(* A session without an audit event has posted a payment, which no other   *)
(* session has seen.                                                       *)
PostedInv ==
    \A r \in Requests : \A p \in own[r] :
        lockA # r => key[p] = NoKey /\ \A q \in Requests \ {r} : vkey[q][p] = NoKey

(* While the chain head is that of its snapshot a session misses nothing   *)
(* but postings; the bills it has not summed again it has not changed.     *)
ViewInv ==
    \A r \in Requests, p \in Payments :
        /\ vkey[r][p] = NoKey => valloc[r][p] = Zero
        /\ pc[r] # "idle" /\ seen[r] = audits /\ p \notin own[r] /\ vkey[r][p] # NoKey =>
              key[p] = vkey[r][p] /\ alloc[p] = valloc[r][p]
        /\ p \in own[r] =>
              \A b \in Bills \ dirty[r] : valloc[r][p][b] = alloc[p][b]

(* No two rows, committed or pending, get one receipt key.                 *)
UniqueInv ==
    \A r \in Requests : \A p \in own[r] :
        vkey[r][p] # NoKey => Unique(r, p, vkey[r][p]) /\ \A q \in own[r] \ {p} : vkey[r][q] # vkey[r][p]

LedgerInv ==
    /\ ShapeInv /\ HoldInv /\ FreshInv /\ PostedInv /\ ViewInv /\ UniqueInv
    /\ NoDuplicateReceipt
=============================================================================
