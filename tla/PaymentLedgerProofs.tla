------------------------- MODULE PaymentLedgerProofs -------------------------
(***************************************************************************)
(* Proofs about PaymentLedger: for every number of sessions, payments and  *)
(* billing rows, one receipt key names one payment, one session at a time  *)
(* rewrites a balance, and a balance goes wrong only around a posting.     *)
(* For the last no proof looks into Total: two sums are equal when what is *)
(* summed is.  Then about amounts: they stay numbers, an allocation pays   *)
(* its years in order, and adjustments are read back to the centavo.       *)
(***************************************************************************)
EXTENDS PaymentReads, BillingAmountsProofs

LEMMA InitInv == Init => LedgerInv
<1> SUFFICES ASSUME Init PROVE LedgerInv
  OBVIOUS
<1> USE LedgerAssumption
<1>1. Zero = [b \in Bills |-> Zero[b]] /\ \A b \in Bills : Zero[b] = 0
  BY DEF Zero
<1>2. IsTable(alloc)
  <2>1. PICK a \in [1 .. NPosted -> Allocations] :
          alloc = [p \in Payments |-> IF p <= NPosted THEN a[p] ELSE Zero]
    BY DEF Init
  <2>2. \A x \in Allocations : IsAllocation(x)
    BY DEF Allocations, IsAllocation
  <2>3. \A p \in Payments : p <= NPosted => p \in 1 .. NPosted
    BY DEF Payments
  <2>4. \A p \in Payments : IsAllocation(alloc[p])
    BY <2>1, <2>2, <2>3, <1>1 DEF IsAllocation
  <2>5. alloc = [p \in Payments |-> alloc[p]]
    BY <2>1
  <2> QED BY <2>4, <2>5 DEF IsTable
<1>3. \A p \in Payments : key[p] = NoKey => alloc[p] = Zero
  BY DEF Init
<1>4. ShapeInv
  <2>1. nextP \in 1 .. MaxPay + 1
    BY DEF Init
  <2> QED BY <1>2, <2>1 DEF Init, ShapeInv
<1>5. HoldInv
  BY DEF Init, HoldInv
<1>6. FreshInv
  <2>1. \A p \in Payments : p >= nextP => key[p] = NoKey
    BY DEF Init, Payments
  <2> QED BY <1>3, <2>1 DEF Init, FreshInv
<1>7. PostedInv /\ UniqueInv
  BY DEF Init, PostedInv, UniqueInv
<1>8. ViewInv
  BY <1>3 DEF Init, ViewInv
<1>9. NoDuplicateReceipt
  BY DEF Init, NoDuplicateReceipt, Payments
<1> QED BY <1>4, <1>5, <1>6, <1>7, <1>8, <1>9 DEF LedgerInv

-----------------------------------------------------------------------------
(* Locks are exclusive.                                                    *)
LEMMA OwnersDiffer ==
  ASSUME HoldInv, NEW r \in Requests, NEW q \in Requests, r # q
  PROVE  own[r] \cap own[q] = {} /\ dirty[r] \cap dirty[q] = {}
BY DEF HoldInv

(* The snapshot of a new transaction.                                      *)
LEMMA BeginPreserves ==
  ASSUME LedgerInv, NEW r \in Requests, Begin(r)
  PROVE  LedgerInv'
<1> USE DEF LedgerInv
<1>1. /\ pc[r] = "idle" /\ pc' = [pc EXCEPT ![r] = "open"]
      /\ seen' = [seen EXCEPT ![r] = audits]
      /\ vkey' = [vkey EXCEPT ![r] = key]
      /\ valloc' = [valloc EXCEPT ![r] = alloc]
      /\ UNCHANGED <<key, alloc, audits, nextP, lockB, lockP, lockA, own, dirty>>
  BY DEF Begin, committed, locks
<1>2. own[r] = {} /\ dirty[r] = {} /\ lockA # r
  BY <1>1 DEF HoldInv
<1>3. \A q \in Requests : /\ pc'[q] = IF q = r THEN "open" ELSE pc[q]
                          /\ seen'[q] = IF q = r THEN audits ELSE seen[q]
                          /\ vkey'[q] = IF q = r THEN key ELSE vkey[q]
                          /\ valloc'[q] = IF q = r THEN alloc ELSE valloc[q]
  BY <1>1 DEF ShapeInv
<1>4. ShapeInv'
  <2>1. valloc' = [q \in Requests |-> valloc'[q]]
    BY <1>1 DEF ShapeInv
  <2>2. IsTable(alloc)' /\ \A q \in Requests : IsTable(valloc'[q])
    BY <1>1, <1>3 DEF ShapeInv
  <2> QED BY <1>1, <2>1, <2>2 DEF ShapeInv
<1>5. HoldInv'
  BY <1>1, <1>2, <1>3 DEF HoldInv, ShapeInv
<1>6. FreshInv'
  BY <1>1, <1>3 DEF FreshInv
<1>7. PostedInv'
  BY <1>1, <1>2, <1>3 DEF PostedInv
<1>8. ViewInv'
  BY <1>1, <1>2, <1>3 DEF ViewInv, FreshInv
<1>9. UniqueInv'
  BY <1>1, <1>2, <1>3 DEF UniqueInv, Unique
<1>10. NoDuplicateReceipt'
  BY <1>1 DEF NoDuplicateReceipt
<1> QED BY <1>4, <1>5, <1>6, <1>7, <1>8, <1>9, <1>10

(* The new values of a staged row.                                         *)
LEMMA StageFacts ==
  ASSUME ShapeInv, NEW r \in Requests, NEW p \in Payments, NEW k, NEW a, NEW bs,
         Stage(r, p, k, a, bs)
  PROVE  /\ \A q \in Requests, o \in Payments :
              /\ o \in own'[q] <=> o \in own[q] \/ (q = r /\ o = p)
              /\ vkey'[q][o] = IF q = r /\ o = p THEN k ELSE vkey[q][o]
              /\ valloc'[q][o] = IF q = r /\ o = p THEN a ELSE valloc[q][o]
         /\ \A q \in Requests, b \in Bills :
              b \in dirty'[q] <=> b \in dirty[q] \/ (q = r /\ b \in bs)
BY DEF ShapeInv, Stage, IsTable

LEMMA StageShape ==
  ASSUME ShapeInv, NEW r \in Requests, NEW p \in Payments, NEW k \in Keys \cup {NoKey},
         NEW a, IsAllocation(a), NEW bs \in SUBSET Bills, Stage(r, p, k, a, bs)
  PROVE  /\ vkey' \in [Requests -> [Payments -> Keys \cup {NoKey}]]
         /\ valloc' = [q \in Requests |-> valloc'[q]]
         /\ \A q \in Requests : IsTable(valloc'[q])
         /\ own' \in [Requests -> SUBSET Payments]
         /\ dirty' \in [Requests -> SUBSET Bills]
<1>1. /\ vkey' \in [Requests -> [Payments -> Keys \cup {NoKey}]]
      /\ own' \in [Requests -> SUBSET Payments]
      /\ dirty' \in [Requests -> SUBSET Bills]
  BY DEF ShapeInv, Stage
<1>2. valloc' = [q \in Requests |-> valloc'[q]]
  BY DEF ShapeInv, Stage
<1>3. \A q \in Requests : IsTable(valloc'[q])
  <2> SUFFICES ASSUME NEW q \in Requests PROVE IsTable(valloc'[q])
    OBVIOUS
  <2>1. valloc'[q] = IF q = r THEN [valloc[r] EXCEPT ![p] = a] ELSE valloc[q]
    BY DEF ShapeInv, Stage
  <2>2. IsTable(valloc[q]) /\ IsTable(valloc[r])
    BY DEF ShapeInv
  <2>3. valloc'[q] = [o \in Payments |-> valloc'[q][o]]
    BY <2>1, <2>2 DEF IsTable
  <2>4. \A o \in Payments : IsAllocation(valloc'[q][o])
    <3>1. \A o \in Payments : valloc'[q][o] \in {a, valloc[q][o]}
      BY <2>1, <2>2 DEF IsTable
    <3> QED BY <2>2, <3>1 DEF IsTable
  <2> QED BY <2>3, <2>4 DEF IsTable
<1> QED BY <1>1, <1>2, <1>3

(* A row is staged: its lock is taken, and either the chain head is locked *)
(* too or the row is new.                                                  *)
LEMMA StagePreserves ==
  ASSUME LedgerInv, NEW r \in Requests, NEW p \in Payments, NEW k \in Keys \cup {NoKey},
         NEW a, IsAllocation(a), NEW bs \in SUBSET Bills, NEW ys \in SUBSET Bills,
         NEW s \in {"staged", "batch"},
         Stage(r, p, k, a, bs), TakeBills(r, ys), bs \subseteq ys,
         Free(lockP[p], r), lockP' = [lockP EXCEPT ![p] = r],
         pc[r] \in {"open", "batch"}, pc' = [pc EXCEPT ![r] = s],
         UNCHANGED <<key, alloc, paid, audits, seen>>,
         nextP' \in 1 .. MaxPay + 1, nextP <= nextP', p < nextP',
         k # NoKey => own[r] = {} /\ Unique(r, p, k),
         k = NoKey => a = Zero,
         \A b \in Bills \ bs : a[b] = alloc[p][b],
         \/ Audited(r)
         \/ /\ lockA' = lockA /\ lockA # r /\ own[r] = {}
            /\ key[p] = NoKey /\ \A q \in Requests : vkey[q][p] = NoKey
  PROVE  LedgerInv'
<1> USE DEF LedgerInv
<1>1. /\ \A q \in Requests, o \in Payments :
           /\ o \in own'[q] <=> o \in own[q] \/ (q = r /\ o = p)
           /\ vkey'[q][o] = IF q = r /\ o = p THEN k ELSE vkey[q][o]
           /\ valloc'[q][o] = IF q = r /\ o = p THEN a ELSE valloc[q][o]
      /\ \A q \in Requests, b \in Bills :
           b \in dirty'[q] <=> b \in dirty[q] \/ (q = r /\ b \in bs)
  <2>1. ShapeInv
    OBVIOUS
  <2> QED
    BY ONLY <2>1, r \in Requests, p \in Payments, Stage(r, p, k, a, bs), StageFacts
<1>2. /\ \A b \in Bills : lockB'[b] = IF b \in ys THEN r ELSE lockB[b]
      /\ \A b \in ys : lockB[b] \in {NoReq, r}
      /\ \A o \in Payments : lockP'[o] = IF o = p THEN r ELSE lockP[o]
      /\ lockP[p] \in {NoReq, r}
      /\ \A q \in Requests : pc'[q] = IF q = r THEN s ELSE pc[q]
  BY DEF TakeBills, Free, ShapeInv
<1>3. lockA \in {NoReq, r} \/ lockA' = lockA
  BY DEF Audited, Free
<1>4. NoReq \notin Requests /\ NoKey \notin Keys
  BY LedgerAssumption
<1>5. \A q \in Requests \ {r} : p \notin own[q]
  BY <1>2, <1>4 DEF HoldInv
<1>6. ShapeInv'
  <2>1. lockB' \in [Bills -> Requests \cup {NoReq}] /\ lockP' \in [Payments -> Requests \cup {NoReq}]
    BY DEF TakeBills, ShapeInv
  <2>2. lockA' \in Requests \cup {NoReq}
    BY DEF Audited, ShapeInv
  <2>3. pc' \in [Requests -> {"idle", "open", "staged", "batch"}]
    BY DEF ShapeInv
  <2>4. IsTable(alloc)'
    BY DEF ShapeInv
  <2> QED BY <2>1, <2>2, <2>3, <2>4, StageShape DEF ShapeInv
<1>7. HoldInv'
  <2>1. \A q \in Requests, b \in Bills : b \in dirty'[q] => lockB'[b] = q
    BY <1>1, <1>2, <1>4 DEF HoldInv
  <2>2. \A q \in Requests, o \in Payments : o \in own'[q] => lockP'[o] = q
    BY <1>1, <1>2, <1>5 DEF HoldInv
  <2>3. \A q \in Requests : pc'[q] \in {"idle", "open"} =>
                               own'[q] = {} /\ dirty'[q] = {} /\ lockA' # q
    <3> SUFFICES ASSUME NEW q \in Requests, pc'[q] \in {"idle", "open"}
                 PROVE  own'[q] = {} /\ dirty'[q] = {} /\ lockA' # q
      OBVIOUS
    <3>1. q # r /\ pc[q] \in {"idle", "open"}
      BY <1>2
    <3>2. own[q] = {} /\ dirty[q] = {} /\ lockA # q
      BY <3>1 DEF HoldInv
    <3>3. own'[q] \subseteq Payments /\ dirty'[q] \subseteq Bills
      BY <1>6 DEF ShapeInv
    <3>4. own'[q] = {} /\ dirty'[q] = {}
      BY <3>1, <3>2, <3>3, <1>1
    <3>5. lockA' # q
      BY <3>1, <3>2 DEF Audited
    <3> QED BY <3>4, <3>5
  <2>4. \A q \in Requests : lockA' = q => seen[q] = audits
    BY DEF HoldInv, Audited
  <2>5. \A q \in Requests : own'[q] \subseteq Payments /\ dirty'[q] \subseteq Bills
    BY <1>6 DEF ShapeInv
  <2> QED BY <2>1, <2>2, <2>3, <2>4, <2>5 DEF HoldInv
<1>8. FreshInv'
  <2> SUFFICES ASSUME NEW o \in Payments, o >= nextP'
               PROVE  key[o] = NoKey /\ lockP'[o] = NoReq /\ \A q \in Requests : vkey'[q][o] = NoKey
    BY DEF FreshInv
  <2>1. o # p /\ o >= nextP
    BY DEF Payments, ShapeInv
  <2> QED BY <2>1, <1>1, <1>2 DEF FreshInv
<1>9. PostedInv'
  <2> SUFFICES ASSUME NEW q \in Requests, NEW o \in Payments, o \in own'[q], lockA' # q,
                      NEW t \in Requests, t # q
               PROVE  key[o] = NoKey /\ vkey'[t][o] = NoKey
    <3>1. \A q \in Requests : own'[q] \subseteq Payments
      BY <1>6 DEF ShapeInv
    <3>2. ASSUME NEW q \in Requests, NEW o \in own'[q], lockA' # q
          PROVE  key[o] = NoKey
      <4>1. o \in Payments
        BY <3>1, <3>2
      <4>2. CASE q = r
        <5>1. own[r] = {} /\ key[p] = NoKey
          BY <3>2, <4>2 DEF Audited
        <5> QED BY <3>2, <4>1, <4>2, <5>1, <1>1
      <4>3. CASE q # r
        <5>1. o \in own[q] /\ lockA # q
          BY <3>2, <4>1, <4>3, <1>1, <1>3, <1>4
        <5> QED BY <5>1 DEF PostedInv
      <4> QED BY <4>2, <4>3
    <3> QED BY <3>1, <3>2 DEF PostedInv
  <2>1. CASE q = r
    <3>1. o = p /\ key[p] = NoKey /\ vkey[t][p] = NoKey
      BY <2>1, <1>1 DEF Audited
    <3> QED BY <3>1, <2>1, <1>1
  <2>2. CASE q # r
    <3>1. o \in own[q] /\ o # p /\ lockA # q
      BY <2>2, <1>1, <1>3, <1>4, <1>5
    <3> QED BY <3>1, <1>1 DEF PostedInv
  <2> QED BY <2>1, <2>2
<1>10. ViewInv'
  <2> SUFFICES ASSUME NEW q \in Requests, NEW o \in Payments
               PROVE  /\ vkey'[q][o] = NoKey => valloc'[q][o] = Zero
                      /\ pc'[q] # "idle" /\ seen[q] = audits /\ o \notin own'[q] /\ vkey'[q][o] # NoKey =>
                            key[o] = vkey'[q][o] /\ alloc[o] = valloc'[q][o]
                      /\ o \in own'[q] =>
                            \A b \in Bills \ dirty'[q] : valloc'[q][o][b] = alloc[o][b]
    BY DEF ViewInv
  <2>1. CASE q = r /\ o = p
    BY <2>1, <1>1
  <2>2. CASE ~(q = r /\ o = p)
    <3>1. /\ vkey'[q][o] = vkey[q][o] /\ valloc'[q][o] = valloc[q][o]
          /\ o \in own'[q] <=> o \in own[q]
          /\ pc'[q] # "idle" => pc[q] # "idle"
      BY <2>2, <1>1, <1>2
    <3>2. \A b \in Bills : b \notin dirty'[q] => b \notin dirty[q]
      BY <1>1
    <3> QED BY <3>1, <3>2 DEF ViewInv
  <2> QED BY <2>1, <2>2
<1>11. UniqueInv'
  <2> SUFFICES ASSUME NEW q \in Requests, NEW o \in own'[q], vkey'[q][o] # NoKey
               PROVE  /\ \A x \in Payments \ {o} :
                           /\ key[x] # vkey'[q][o]
                           /\ \A t \in Requests \ {q} : x \in own'[t] => vkey'[t][x] # vkey'[q][o]
                      /\ \A x \in own'[q] \ {o} : vkey'[q][x] # vkey'[q][o]
    BY DEF UniqueInv, Unique
  <2>1. own'[q] \subseteq Payments /\ o \in Payments
    BY <1>6 DEF ShapeInv
  <2>2. CASE q = r /\ o = p
    <3>1. k # NoKey /\ vkey'[q][o] = k /\ own[r] = {} /\ \A x \in own'[q] : x = p
      BY <2>1, <2>2, <1>1
    <3>2. \A x \in Payments \ {p} :
            /\ key[x] # k
            /\ \A t \in Requests \ {r} : x \in own[t] => vkey[t][x] # k
      BY <3>1 DEF Unique
    <3> QED BY <3>1, <3>2, <2>2, <1>1
  <2>3. CASE ~(q = r /\ o = p)
    <3>1. vkey'[q][o] = vkey[q][o] /\ o \in own[q]
      BY <2>1, <2>3, <1>1
    <3>2. /\ \A x \in Payments \ {o} :
               /\ key[x] # vkey[q][o]
               /\ \A t \in Requests \ {q} : x \in own[t] => vkey[t][x] # vkey[q][o]
          /\ \A x \in own[q] \ {o} : vkey[q][x] # vkey[q][o]
      BY <3>1 DEF UniqueInv, Unique
    <3>3. k # NoKey => q # r /\ vkey[q][o] # k
      <4> SUFFICES ASSUME k # NoKey PROVE q # r /\ vkey[q][o] # k
        OBVIOUS
      <4>1. own[r] = {} /\ Unique(r, p, k)
        OBVIOUS
      <4>2. q # r
        BY <4>1, <3>1
      <4>3. o # p
        BY <4>2, <3>1, <1>5
      <4> QED BY <4>1, <4>2, <4>3, <3>1, <2>1 DEF Unique
    <3>4. k # vkey[q][o]
      BY <3>1, <3>3
    <3> QED BY <3>1, <3>2, <3>4, <2>1, <1>1
  <2> QED BY <2>2, <2>3
<1>12. NoDuplicateReceipt'
  BY DEF NoDuplicateReceipt
<1> QED BY <1>6, <1>7, <1>8, <1>9, <1>10, <1>11, <1>12

-----------------------------------------------------------------------------
(* The three operations that stage a row.                                  *)

(* What allocate_payment_amount gives to a bill that is not listed as      *)
(* having received something is nothing.                                   *)
LEMMA GreedyFacts ==
  ASSUME NEW amount, NEW ys
  PROVE  IsAllocation(Greedy(amount, ys))
         /\ BilledBy(Greedy(amount, ys)) \in SUBSET Bills
         /\ BilledBy(Greedy(amount, ys)) \subseteq ys
         /\ \A b \in Bills \ BilledBy(Greedy(amount, ys)) : Greedy(amount, ys)[b] = 0
<1> DEFINE left(b) == amount - Total(Due, {c \in ys : c < b})
<1>1. Greedy(amount, ys) =
        [b \in Bills |-> IF b \in ys /\ left(b) > 0 THEN Least(Due[b], left(b)) ELSE 0]
  BY DEF Greedy
<1> HIDE DEF left
<1>2. \A b \in Bills : Due[b] = 0 \/ Due[b] > 0
  BY LedgerAssumption
<1>3. \A b \in Bills : Greedy(amount, ys)[b] = 0 \/ Greedy(amount, ys)[b] > 0
  BY <1>1, <1>2 DEF Least
<1>4. \A b \in Bills : b \notin ys => Greedy(amount, ys)[b] = 0
  BY <1>1
<1> QED BY <1>1, <1>3, <1>4 DEF IsAllocation, BilledBy

LEMMA PostPreserves ==
  ASSUME LedgerInv, NEW r \in Requests, NEW k \in Keys, NEW amount \in 1 .. MaxAmount,
         NEW ys \in SUBSET Bills, Post(r, k, amount, ys)
  PROVE  LedgerInv'
<1> DEFINE a == Greedy(amount, ys)
           bs == BilledBy(a)
<1>1. /\ pc[r] = "open" /\ nextP <= MaxPay
      /\ TakeBills(r, ys)
      /\ Unique(r, nextP, k)
      /\ nextP' = nextP + 1
      /\ lockP' = [lockP EXCEPT ![nextP] = r]
      /\ Stage(r, nextP, k, a, bs)
      /\ pc' = [pc EXCEPT ![r] = "staged"]
      /\ UNCHANGED <<key, alloc, paid, audits, seen, lockA>>
  BY DEF Post, committed
<1>2. IsAllocation(a) /\ bs \in SUBSET Bills /\ bs \subseteq ys /\ \A b \in Bills \ bs : a[b] = 0
  BY GreedyFacts
<1> HIDE DEF a, bs
<1>3. nextP \in Payments /\ nextP' \in 1 .. MaxPay + 1 /\ nextP <= nextP' /\ nextP < nextP'
  BY <1>1, LedgerAssumption DEF LedgerInv, ShapeInv, Payments
<1>4. /\ key[nextP] = NoKey /\ lockP[nextP] = NoReq /\ alloc[nextP] = Zero
      /\ \A q \in Requests : vkey[q][nextP] = NoKey
  BY <1>3 DEF LedgerInv, FreshInv, Payments
<1>5. own[r] = {} /\ lockA # r
  BY <1>1 DEF LedgerInv, HoldInv
<1>6. \A b \in Bills \ bs : a[b] = alloc[nextP][b]
  BY <1>2, <1>4 DEF Zero
<1>7. k \in Keys \cup {NoKey} /\ k # NoKey
  BY LedgerAssumption
<1>8. Free(lockP[nextP], r)
  BY <1>4 DEF Free
<1>9. lockA' = lockA
  BY <1>1
<1>10. UNCHANGED <<key, alloc, paid, audits, seen>>
  BY <1>1
<1>11. /\ lockA' = lockA /\ lockA # r /\ own[r] = {}
       /\ key[nextP] = NoKey /\ \A q \in Requests : vkey[q][nextP] = NoKey
  BY <1>4, <1>5, <1>9
<1>12. pc[r] \in {"open", "batch"} /\ "staged" \in {"staged", "batch"}
  BY <1>1
<1>13. (k # NoKey => own[r] = {} /\ Unique(r, nextP, k)) /\ (k = NoKey => a = Zero)
  BY <1>1, <1>5, <1>7
<1>14. /\ Stage(r, nextP, k, a, bs) /\ TakeBills(r, ys)
       /\ lockP' = [lockP EXCEPT ![nextP] = r] /\ pc' = [pc EXCEPT ![r] = "staged"]
  BY <1>1
<1> QED
  BY ONLY ZenonT(30), LedgerInv, r \in Requests, ys \in SUBSET Bills, <1>2, <1>3, <1>6, <1>7, <1>8,
          <1>10, <1>11, <1>12, <1>13, <1>14, StagePreserves

LEMMA EditPreserves ==
  ASSUME LedgerInv, NEW r \in Requests, NEW p \in Payments, NEW k \in Keys,
         NEW amount \in 1 .. MaxAmount, NEW b \in Bills, Edit(r, p, k, amount, b)
  PROVE  LedgerInv'
<1> DEFINE a == [Zero EXCEPT ![b] = amount]
           bs == BilledBy(alloc[p]) \cup {b}
<1>1. /\ pc[r] = "open"
      /\ key[p] # NoKey /\ Free(lockP[p], r) /\ lockP' = [lockP EXCEPT ![p] = r]
      /\ Unique(r, p, k)
      /\ TakeBills(r, bs)
      /\ Audited(r)
      /\ Stage(r, p, k, a, bs)
      /\ pc' = [pc EXCEPT ![r] = "staged"]
      /\ UNCHANGED <<key, alloc, paid, audits, nextP, seen>>
  BY DEF Edit, LockPayment, committed
<1>2. IsAllocation(a) /\ \A c \in Bills \ {b} : a[c] = 0
  BY DEF IsAllocation, Zero
<1>3. \A c \in Bills \ BilledBy(alloc[p]) : alloc[p][c] = 0
  BY DEF LedgerInv, ShapeInv, IsTable, IsAllocation, BilledBy
<1>4. bs \in SUBSET Bills /\ bs \subseteq bs /\ \A c \in Bills \ bs : a[c] = alloc[p][c]
  BY <1>2, <1>3 DEF BilledBy
<1> HIDE DEF a, bs
<1>5. nextP' \in 1 .. MaxPay + 1 /\ nextP <= nextP' /\ p < nextP'
  BY <1>1 DEF LedgerInv, ShapeInv, FreshInv, Payments
<1>6. own[r] = {}
  BY <1>1 DEF LedgerInv, HoldInv
<1>7. k \in Keys \cup {NoKey} /\ k # NoKey
  BY LedgerAssumption
<1>8. UNCHANGED <<key, alloc, paid, audits, seen>>
  BY <1>1
<1> QED
  BY ONLY ZenonT(30), LedgerInv, r \in Requests, p \in Payments, <1>1, <1>2, <1>4, <1>5, <1>6, <1>7,
          <1>8, StagePreserves

LEMMA DeletePreserves ==
  ASSUME LedgerInv, NEW r \in Requests, NEW p \in Payments, Delete(r, p)
  PROVE  LedgerInv'
<1> DEFINE bs == BilledBy(alloc[p])
<1>1. /\ pc[r] \in {"open", "batch"}
      /\ key[p] # NoKey /\ Free(lockP[p], r) /\ lockP' = [lockP EXCEPT ![p] = r]
      /\ TakeBills(r, bs)
      /\ Audited(r)
      /\ Stage(r, p, NoKey, Zero, bs)
      /\ pc' = [pc EXCEPT ![r] = "batch"]
      /\ UNCHANGED <<key, alloc, paid, audits, nextP, seen>>
  BY DEF Delete, LockPayment, committed
<1>2. IsAllocation(Zero)
  BY DEF IsAllocation, Zero
<1>3. bs \in SUBSET Bills /\ bs \subseteq bs /\ \A c \in Bills \ bs : Zero[c] = alloc[p][c]
  BY DEF LedgerInv, ShapeInv, IsTable, IsAllocation, BilledBy, Zero
<1> HIDE DEF bs
<1>4. nextP' \in 1 .. MaxPay + 1 /\ nextP <= nextP' /\ p < nextP'
  BY <1>1 DEF LedgerInv, ShapeInv, FreshInv, Payments
<1>5. NoKey \in Keys \cup {NoKey}
  OBVIOUS
<1>6. UNCHANGED <<key, alloc, paid, audits, seen>>
  BY <1>1
<1> QED
  BY ONLY LedgerInv, r \in Requests, p \in Payments, <1>1, <1>2, <1>3, <1>4, <1>5, <1>6,
          StagePreserves

-----------------------------------------------------------------------------
(* The end of a transaction.                                               *)
LEMMA ReleaseFacts ==
  ASSUME ShapeInv, NEW r \in Requests, Release(r)
  PROVE  /\ \A q \in Requests :
              /\ pc'[q] = IF q = r THEN "idle" ELSE pc[q]
              /\ own'[q] = IF q = r THEN {} ELSE own[q]
              /\ dirty'[q] = IF q = r THEN {} ELSE dirty[q]
              /\ lockA' = q <=> q # r /\ lockA = q
         /\ \A b \in Bills : lockB'[b] = IF lockB[b] = r THEN NoReq ELSE lockB[b]
         /\ \A p \in Payments : lockP'[p] = IF lockP[p] = r THEN NoReq ELSE lockP[p]
         /\ lockB' \in [Bills -> Requests \cup {NoReq}]
         /\ lockP' \in [Payments -> Requests \cup {NoReq}]
         /\ lockA' \in Requests \cup {NoReq}
         /\ pc' \in [Requests -> {"idle", "open", "staged", "batch"}]
         /\ own' \in [Requests -> SUBSET Payments]
         /\ dirty' \in [Requests -> SUBSET Bills]
BY LedgerAssumption DEF ShapeInv, Release

LEMMA RollbackPreserves ==
  ASSUME LedgerInv, NEW r \in Requests, Rollback(r)
  PROVE  LedgerInv'
<1> USE DEF LedgerInv
<1>1. Release(r) /\ UNCHANGED <<key, alloc, audits, nextP, seen, vkey, valloc>>
  BY DEF Rollback, committed
<1>2. /\ \A q \in Requests :
           /\ pc'[q] = IF q = r THEN "idle" ELSE pc[q]
           /\ own'[q] = IF q = r THEN {} ELSE own[q]
           /\ dirty'[q] = IF q = r THEN {} ELSE dirty[q]
           /\ lockA' = q <=> q # r /\ lockA = q
      /\ \A b \in Bills : lockB'[b] = IF lockB[b] = r THEN NoReq ELSE lockB[b]
      /\ \A p \in Payments : lockP'[p] = IF lockP[p] = r THEN NoReq ELSE lockP[p]
  BY <1>1, ReleaseFacts
<1>3. ShapeInv'
  <2>1. IsTable(alloc)' /\ \A q \in Requests : IsTable(valloc[q])'
    BY <1>1 DEF ShapeInv, IsTable, IsAllocation
  <2> QED BY <1>1, <2>1, ReleaseFacts DEF ShapeInv
<1>4. HoldInv'
  BY <1>1, <1>2 DEF HoldInv, ShapeInv
<1>5. FreshInv'
  BY <1>1, <1>2, LedgerAssumption DEF FreshInv
<1>6. PostedInv'
  BY <1>1, <1>2 DEF PostedInv
<1>7. ViewInv'
  BY <1>1, <1>2 DEF ViewInv
<1>8. UniqueInv'
  BY <1>1, <1>2 DEF UniqueInv, Unique
<1>9. NoDuplicateReceipt'
  BY <1>1 DEF NoDuplicateReceipt
<1> QED BY <1>3, <1>4, <1>5, <1>6, <1>7, <1>8, <1>9

LEMMA CommitFacts ==
  ASSUME ShapeInv, NEW r \in Requests, Commit(r)
  PROVE  /\ pc[r] \in {"staged", "batch"} /\ Release(r)
         /\ key' = [p \in Payments |-> IF p \in own[r] THEN vkey[r][p] ELSE key[p]]
         /\ alloc' = [p \in Payments |-> IF p \in own[r] THEN valloc[r][p] ELSE alloc[p]]
         /\ audits' = IF lockA = r THEN audits + 1 ELSE audits
         /\ UNCHANGED <<nextP, seen, vkey, valloc>>
BY DEF Commit

LEMMA CommitPreserves ==
  ASSUME LedgerInv, NEW r \in Requests, Commit(r)
  PROVE  LedgerInv'
<1> USE DEF LedgerInv
<1>1. /\ pc[r] \in {"staged", "batch"} /\ Release(r)
      /\ key' = [p \in Payments |-> IF p \in own[r] THEN vkey[r][p] ELSE key[p]]
      /\ alloc' = [p \in Payments |-> IF p \in own[r] THEN valloc[r][p] ELSE alloc[p]]
      /\ audits' = IF lockA = r THEN audits + 1 ELSE audits
      /\ UNCHANGED <<nextP, seen, vkey, valloc>>
  BY CommitFacts
<1>2. /\ \A q \in Requests :
           /\ pc'[q] = IF q = r THEN "idle" ELSE pc[q]
           /\ own'[q] = IF q = r THEN {} ELSE own[q]
           /\ dirty'[q] = IF q = r THEN {} ELSE dirty[q]
           /\ lockA' = q <=> q # r /\ lockA = q
      /\ \A b \in Bills : lockB'[b] = IF lockB[b] = r THEN NoReq ELSE lockB[b]
      /\ \A p \in Payments : lockP'[p] = IF lockP[p] = r THEN NoReq ELSE lockP[p]
  BY <1>1, ReleaseFacts
<1>3. \A p \in Payments : /\ key'[p] = IF p \in own[r] THEN vkey[r][p] ELSE key[p]
                          /\ alloc'[p] = IF p \in own[r] THEN valloc[r][p] ELSE alloc[p]
  BY <1>1
<1>4. \A q \in Requests \ {r} : \A p \in own[q] : p \notin own[r] /\ p \in Payments
  BY OwnersDiffer DEF ShapeInv
<1>5. audits \in Nat /\ \A q \in Requests : seen[q] \in Nat
  BY DEF ShapeInv
<1>6. ShapeInv'
  <2>1. \A p \in Payments : IsAllocation(alloc'[p])
    <3>1. \A p \in Payments : IsAllocation(alloc[p]) /\ IsAllocation(valloc[r][p])
      BY DEF ShapeInv, IsTable
    <3> QED BY <3>1, <1>3
  <2>2. alloc' = [p \in Payments |-> alloc'[p]]
    BY <1>1
  <2>3. IsTable(alloc)' /\ \A q \in Requests : IsTable(valloc[q])'
    BY <2>1, <2>2, <1>1 DEF ShapeInv, IsTable, IsAllocation
  <2>4. key' \in [Payments -> Keys \cup {NoKey}] /\ audits' \in Nat
    BY <1>1 DEF ShapeInv
  <2> QED BY <1>1, <2>3, <2>4, ReleaseFacts DEF ShapeInv
<1>7. HoldInv'
  <2>1. \A q \in Requests : seen'[q] <= audits' /\ (lockA' = q => seen'[q] = audits')
    BY <1>1, <1>2, <1>5 DEF HoldInv
  <2> QED BY <1>2, <2>1 DEF HoldInv, ShapeInv
<1>8. FreshInv'
  <2> SUFFICES ASSUME NEW p \in Payments
               PROVE  /\ key'[p] = NoKey => alloc'[p] = Zero
                      /\ p >= nextP => key'[p] = NoKey /\ lockP'[p] = NoReq
                                       /\ \A q \in Requests : vkey[q][p] = NoKey
    BY <1>1 DEF FreshInv
  <2>1. key'[p] = NoKey => alloc'[p] = Zero
    BY <1>3 DEF FreshInv, ViewInv
  <2>2. p >= nextP => p \notin own[r]
    BY LedgerAssumption DEF FreshInv, HoldInv
  <2> QED BY <2>1, <2>2, <1>2, <1>3 DEF FreshInv
<1>9. PostedInv'
  BY <1>1, <1>2, <1>3, <1>4 DEF PostedInv
<1>10. ViewInv'
  <2> SUFFICES ASSUME NEW q \in Requests, NEW p \in Payments
               PROVE  /\ pc'[q] # "idle" /\ seen[q] = audits' /\ p \notin own'[q] /\ vkey[q][p] # NoKey =>
                            key'[p] = vkey[q][p] /\ alloc'[p] = valloc[q][p]
                      /\ p \in own'[q] =>
                            \A b \in Bills \ dirty'[q] : valloc[q][p][b] = alloc'[p][b]
    BY <1>1 DEF ViewInv
  <2>1. CASE q = r
    BY <2>1, <1>2
  <2>2. CASE q # r
    <3>1. seen[q] = audits' => lockA # r /\ seen[q] = audits
      BY <1>1, <1>5 DEF HoldInv
    <3>2. lockA # r /\ p \in own[r] => vkey[q][p] = NoKey
      BY <2>2 DEF PostedInv
    <3> QED BY <2>2, <3>1, <3>2, <1>2, <1>3, <1>4 DEF ViewInv
  <2> QED BY <2>1, <2>2
<1>11. UniqueInv'
  <2> SUFFICES ASSUME NEW q \in Requests, NEW p \in own'[q], vkey[q][p] # NoKey
               PROVE  /\ \A x \in Payments \ {p} :
                           /\ key'[x] # vkey[q][p]
                           /\ \A t \in Requests \ {q} : x \in own'[t] => vkey[t][x] # vkey[q][p]
                      /\ \A x \in own'[q] \ {p} : vkey[q][x] # vkey[q][p]
    BY <1>1 DEF UniqueInv, Unique
  <2>1. q # r /\ p \in own[q]
    BY <1>2
  <2>2. /\ \A x \in Payments \ {p} :
             /\ key[x] # vkey[q][p]
             /\ \A t \in Requests \ {q} : x \in own[t] => vkey[t][x] # vkey[q][p]
        /\ \A x \in own[q] \ {p} : vkey[q][x] # vkey[q][p]
    BY <2>1 DEF UniqueInv, Unique
  <2> QED BY <2>1, <2>2, <1>2, <1>3
<1>12. NoDuplicateReceipt'
  <2> SUFFICES ASSUME NEW p \in Payments, NEW q \in Payments, p # q,
                      key'[p] = key'[q], key'[p] # NoKey
               PROVE  FALSE
    BY DEF NoDuplicateReceipt
  <2>1. \A x \in own[r], y \in Payments :
          x # y /\ vkey[r][x] # NoKey => /\ key[y] # vkey[r][x]
                                         /\ y \in own[r] => vkey[r][y] # vkey[r][x]
    BY DEF UniqueInv, Unique
  <2>2. CASE p \notin own[r] /\ q \notin own[r]
    BY <2>2, <1>3 DEF NoDuplicateReceipt
  <2>3. CASE p \in own[r] \/ q \in own[r]
    BY <2>1, <2>3, <1>3
  <2> QED BY <2>2, <2>3
<1> QED BY <1>6, <1>7, <1>8, <1>9, <1>10, <1>11, <1>12

LEMMA NextPreserves == LedgerInv /\ [Next]_vars => LedgerInv'
<1> SUFFICES ASSUME LedgerInv, [Next]_vars PROVE LedgerInv'
  OBVIOUS
<1>1. CASE UNCHANGED vars
  BY <1>1 DEF LedgerInv, ShapeInv, IsTable, IsAllocation, HoldInv, FreshInv, PostedInv,
              ViewInv, UniqueInv, Unique, NoDuplicateReceipt, vars, committed, locks
<1>2. CASE \E r \in Requests : Begin(r) \/ Rollback(r) \/ Commit(r)
  BY <1>2, BeginPreserves, RollbackPreserves, CommitPreserves
<1>3. CASE \E r \in Requests, k \in Keys, amount \in 1 .. MaxAmount :
              \E ys \in SUBSET Bills \ {{}} : Post(r, k, amount, ys)
  BY <1>3, PostPreserves
<1>4. CASE \E r \in Requests, k \in Keys, amount \in 1 .. MaxAmount :
              \E p \in Payments, b \in Bills : Edit(r, p, k, amount, b)
  BY <1>4, EditPreserves
<1>5. CASE \E r \in Requests, p \in Payments : Delete(r, p)
  BY <1>5, DeletePreserves
<1> QED BY <1>1, <1>2, <1>3, <1>4, <1>5 DEF Next

LEMMA LedgerInvariant == Spec => []LedgerInv
<1>1. Init => LedgerInv
  BY InitInv
<1>2. LedgerInv /\ [Next]_vars => LedgerInv'
  BY NextPreserves
<1> QED BY <1>1, <1>2, PTL DEF Spec

-----------------------------------------------------------------------------
(* One receipt key, one payment.                                           *)
THEOREM OneKeyOnePayment == Spec => []NoDuplicateReceipt
<1>1. LedgerInv => NoDuplicateReceipt
  BY DEF LedgerInv
<1> QED BY <1>1, LedgerInvariant, PTL

(* No two sessions have rewritten the same balance.                        *)
THEOREM BalancesHaveOneWriter == Spec => []OneWriterPerBill
<1>1. LedgerInv => OneWriterPerBill
  BY OwnersDiffer DEF LedgerInv, OneWriterPerBill
<1> QED BY <1>1, LedgerInvariant, PTL

(* A step that is not a commit changes no balance and no allocation.       *)
LEMMA OnlyCommitsCount ==
  ASSUME [Next]_vars
  PROVE  UNCHANGED <<alloc, paid>> \/ \E r \in Requests : Commit(r)
<1>1. ASSUME NEW r \in Requests, Begin(r) \/ Rollback(r) PROVE UNCHANGED <<alloc, paid>>
  BY <1>1 DEF Begin, Rollback, committed
<1>2. ASSUME NEW r \in Requests, NEW k, NEW amount, NEW ys, Post(r, k, amount, ys)
      PROVE  UNCHANGED <<alloc, paid>>
  BY <1>2 DEF Post, committed
<1>3. ASSUME NEW r \in Requests, NEW p, NEW k, NEW amount, NEW b, Edit(r, p, k, amount, b)
      PROVE  UNCHANGED <<alloc, paid>>
  BY <1>3 DEF Edit, committed
<1>4. ASSUME NEW r \in Requests, NEW p, Delete(r, p) PROVE UNCHANGED <<alloc, paid>>
  BY <1>4 DEF Delete, committed
<1>5. CASE UNCHANGED vars
  BY <1>5 DEF vars, committed
<1> QED BY <1>1, <1>2, <1>3, <1>4, <1>5 DEF Next

(* What a committed balance sums, where it differs from what it should.    *)
LEMMA WrongOnlyIfMissed ==
  ASSUME LedgerInv, NEW r \in Requests, Commit(r), NEW b \in Bills,
         paid[b] = Total(Column(alloc, b), Payments),
         paid'[b] # Total(Column(alloc', b), Payments)
  PROVE  /\ b \in dirty[r]
         /\ MissedAllocation(r, b)
         /\ lockA = r => MissedPosting(r, b)
<1> USE DEF LedgerInv
<1>1. /\ paid' = [c \in Bills |-> IF c \in dirty[r] THEN Recalculated(r, c) ELSE paid[c]]
      /\ \A p \in Payments : alloc'[p] = IF p \in own[r] THEN valloc[r][p] ELSE alloc[p]
      /\ pc[r] # "idle"
  BY DEF Commit
<1>2. b \in dirty[r]
  <2> SUFFICES ASSUME b \notin dirty[r] PROVE FALSE
    OBVIOUS
  <2>1. \A p \in Payments : alloc'[p][b] = alloc[p][b]
    BY <1>1 DEF ViewInv
  <2>2. Column(alloc', b) = Column(alloc, b)
    BY <2>1 DEF Column
  <2>3. paid'[b] = paid[b]
    BY <1>1
  <2> QED BY <2>2, <2>3
<1>3. paid'[b] = Total(Column(valloc[r], b), Payments)
  BY <1>1, <1>2 DEF Recalculated
<1>4. PICK p \in Payments : valloc[r][p][b] # alloc'[p][b]
  <2> SUFFICES ASSUME \A p \in Payments : valloc[r][p][b] = alloc'[p][b] PROVE FALSE
    OBVIOUS
  <2>1. Column(alloc', b) = Column(valloc[r], b)
    BY DEF Column
  <2> QED BY <2>1, <1>3
<1>5. p \notin own[r] /\ valloc[r][p][b] # alloc[p][b]
  BY <1>1, <1>4
<1>6. MissedAllocation(r, b)
  BY <1>5 DEF MissedAllocation
<1>7. ASSUME lockA = r PROVE MissedPosting(r, b)
  <2>1. seen[r] = audits
    BY <1>7 DEF HoldInv
  <2>2. vkey[r][p] = NoKey /\ valloc[r][p] = Zero
    BY <2>1, <1>1, <1>5 DEF ViewInv
  <2>3. alloc[p][b] # 0
    BY <2>2, <1>5 DEF Zero
  <2>4. alloc[p][b] > 0
    BY <2>3 DEF ShapeInv, IsTable, IsAllocation
  <2> QED BY <1>5, <2>2, <2>4 DEF MissedPosting
<1> QED BY <1>2, <1>6, <1>7

(* A balance goes wrong only when a posting commits that missed another    *)
(* session's allocations, or an edit or deletion that missed a posting.    *)
THEOREM BalancesErrOnlyAroundPostings == Spec => BalanceErrsOnlyAroundPostings
<1> DEFINE Step ==
      \A b \in Bills :
          /\ paid[b] = Total(Column(alloc, b), Payments)
          /\ paid'[b] # Total(Column(alloc', b), Payments)
          => \E r \in Requests :
                /\ pc[r] \in {"staged", "batch"} /\ pc'[r] = "idle"
                /\ b \in dirty[r]
                /\ IF lockA = r THEN MissedPosting(r, b) ELSE MissedAllocation(r, b)
<1>1. LedgerInv /\ [Next]_vars => Step
  <2> SUFFICES ASSUME LedgerInv, [Next]_vars, NEW b \in Bills,
                      paid[b] = Total(Column(alloc, b), Payments),
                      paid'[b] # Total(Column(alloc', b), Payments)
               PROVE  \E r \in Requests :
                        /\ pc[r] \in {"staged", "batch"} /\ pc'[r] = "idle"
                        /\ b \in dirty[r]
                        /\ IF lockA = r THEN MissedPosting(r, b) ELSE MissedAllocation(r, b)
    OBVIOUS
  <2>1. PICK r \in Requests : Commit(r)
    BY OnlyCommitsCount
  <2>2. pc[r] \in {"staged", "batch"} /\ pc'[r] = "idle"
    BY <2>1 DEF Commit, Release, LedgerInv, ShapeInv
  <2> QED BY <2>1, <2>2, WrongOnlyIfMissed
<1>2. Step => [Step]_vars
  OBVIOUS
<1> QED BY <1>1, LedgerInvariant, PTL DEF Spec, BalanceErrsOnlyAroundPostings

-----------------------------------------------------------------------------
(* Amounts are numbers.                                                    *)

Amounts ==
    /\ alloc \in [Payments -> [Bills -> Nat]]
    /\ valloc \in [Requests -> [Payments -> [Bills -> Nat]]]
    /\ paid \in [Bills -> Nat]

LEMMA TotalIsSum == ASSUME NEW f, NEW S PROVE Total(f, S) = SumOver(f, S)
BY DEF Total, SumOver

LEMMA ColumnType ==
  ASSUME NEW al \in [Payments -> [Bills -> Nat]], NEW b \in Bills
  PROVE  Total(Column(al, b), Payments) \in Nat
<1>1. IsFiniteSet(Payments)
  BY LedgerAssumption, FS_Interval DEF Payments
<1>2. \A p \in Payments : Column(al, b)[p] \in Nat
  BY DEF Column
<1>3. SumOver(Column(al, b), Payments) \in Nat
  BY <1>1, <1>2, SumTypes
<1> QED BY <1>3, TotalIsSum

LEMMA GreedyType ==
  ASSUME NEW amount \in Nat, NEW ys \in SUBSET Bills
  PROVE  Greedy(amount, ys) \in [Bills -> Nat]
<1> DEFINE before(b) == {c \in ys : c < b}
           left(b) == amount - Total(Due, before(b))
<1>1. ASSUME NEW b \in Bills PROVE left(b) \in Int
  <2>1. before(b) \in SUBSET Bills /\ IsFiniteSet(before(b))
    BY LedgerAssumption, FS_Subset
  <2>2. SumOver(Due, before(b)) \in Nat
    <3>1. \A c \in before(b) : Due[c] \in Nat
      BY <2>1, LedgerAssumption
    <3> HIDE DEF before
    <3> QED BY <2>1, <3>1, SumTypes
  <2> HIDE DEF before
  <2> QED BY <2>2, TotalIsSum
<1>2. Greedy(amount, ys) =
        [b \in Bills |-> IF b \in ys /\ left(b) > 0 THEN Least(Due[b], left(b)) ELSE 0]
  BY DEF Greedy
<1> HIDE DEF left
<1>3. ASSUME NEW b \in Bills
      PROVE  (IF b \in ys /\ left(b) > 0 THEN Least(Due[b], left(b)) ELSE 0) \in Nat
  BY <1>1, LedgerAssumption DEF Least
<1> QED BY <1>2, <1>3

LEMMA ZeroType == Zero \in [Bills -> Nat]
BY DEF Zero

LEMMA InitAmounts == Init => Amounts
<1> SUFFICES ASSUME Init PROVE Amounts
  OBVIOUS
<1>1. alloc \in [Payments -> [Bills -> Nat]]
  <2>1. PICK a \in [1 .. NPosted -> Allocations] :
          alloc = [p \in Payments |-> IF p <= NPosted THEN a[p] ELSE Zero]
    BY DEF Init
  <2>2. \A x \in Allocations : x \in [Bills -> Nat]
    BY LedgerAssumption DEF Allocations
  <2>3. \A p \in Payments : p <= NPosted => p \in 1 .. NPosted
    BY LedgerAssumption DEF Payments
  <2>4. \A p \in Payments : (IF p <= NPosted THEN a[p] ELSE Zero) \in [Bills -> Nat]
    BY <2>2, <2>3, ZeroType
  <2> QED BY <2>1, <2>4
<1>2. valloc \in [Requests -> [Payments -> [Bills -> Nat]]]
  BY <1>1 DEF Init
<1>3. paid \in [Bills -> Nat]
  <2>1. paid = [b \in Bills |-> Total(Column(alloc, b), Payments)]
    BY DEF Init
  <2> QED BY <1>1, <2>1, ColumnType
<1> QED BY <1>1, <1>2, <1>3 DEF Amounts

(* A staged row is of numbers when the new allocation is.                  *)
LEMMA StageAmounts ==
  ASSUME Amounts, NEW r \in Requests, NEW p \in Payments, NEW k, NEW bs,
         NEW a \in [Bills -> Nat], Stage(r, p, k, a, bs), UNCHANGED committed
  PROVE  Amounts'
<1>1. valloc' = [valloc EXCEPT ![r][p] = a] /\ alloc' = alloc /\ paid' = paid
  BY DEF Stage, committed
<1>2. valloc' \in [Requests -> [Payments -> [Bills -> Nat]]]
  BY <1>1 DEF Amounts
<1> QED BY <1>1, <1>2 DEF Amounts

LEMMA CommitAmounts ==
  ASSUME LedgerInv, Amounts, NEW r \in Requests, Commit(r)
  PROVE  Amounts'
<1>1. /\ alloc' = [p \in Payments |-> IF p \in own[r] THEN valloc[r][p] ELSE alloc[p]]
      /\ paid' = [b \in Bills |-> IF b \in dirty[r] THEN Recalculated(r, b) ELSE paid[b]]
      /\ valloc' = valloc
  BY DEF Commit
<1>2. alloc' \in [Payments -> [Bills -> Nat]]
  BY <1>1 DEF Amounts
<1>3. \A b \in Bills : Recalculated(r, b) \in Nat
  BY ColumnType DEF Amounts, Recalculated
<1>4. paid' \in [Bills -> Nat]
  BY <1>1, <1>3 DEF Amounts
<1> QED BY <1>1, <1>2, <1>4 DEF Amounts

LEMMA NextAmounts == LedgerInv /\ Amounts /\ [Next]_vars => Amounts'
<1> SUFFICES ASSUME LedgerInv, Amounts, [Next]_vars PROVE Amounts'
  OBVIOUS
<1>1. CASE UNCHANGED vars
  BY <1>1 DEF Amounts, vars, committed
<1>2. ASSUME NEW r \in Requests, Begin(r) PROVE Amounts'
  <2>1. valloc' = [valloc EXCEPT ![r] = alloc] /\ alloc' = alloc /\ paid' = paid
    BY <1>2 DEF Begin, committed
  <2> QED BY <2>1 DEF Amounts
<1>3. ASSUME NEW r \in Requests, Rollback(r) PROVE Amounts'
  <2>1. valloc' = valloc /\ alloc' = alloc /\ paid' = paid
    BY <1>3 DEF Rollback, committed
  <2> QED BY <2>1 DEF Amounts
<1>4. ASSUME NEW r \in Requests, NEW k, NEW amount \in 1 .. MaxAmount,
             NEW ys \in SUBSET Bills, Post(r, k, amount, ys)
      PROVE  Amounts'
  <2>1. nextP \in Payments
    BY <1>4, LedgerAssumption DEF Post, Payments, LedgerInv, ShapeInv
  <2>2. Greedy(amount, ys) \in [Bills -> Nat]
    BY <1>4, LedgerAssumption, GreedyType
  <2>3. Stage(r, nextP, k, Greedy(amount, ys), BilledBy(Greedy(amount, ys))) /\ UNCHANGED committed
    BY <1>4 DEF Post
  <2> QED BY <2>1, <2>2, <2>3, StageAmounts
<1>5. ASSUME NEW r \in Requests, NEW k, NEW amount \in 1 .. MaxAmount,
             NEW p \in Payments, NEW b \in Bills, Edit(r, p, k, amount, b)
      PROVE  Amounts'
  <2>1. [Zero EXCEPT ![b] = amount] \in [Bills -> Nat]
    BY LedgerAssumption, ZeroType
  <2>2. /\ Stage(r, p, k, [Zero EXCEPT ![b] = amount], BilledBy(alloc[p]) \cup {b})
        /\ UNCHANGED committed
    BY <1>5 DEF Edit
  <2> QED BY <2>1, <2>2, StageAmounts
<1>6. ASSUME NEW r \in Requests, NEW p \in Payments, Delete(r, p) PROVE Amounts'
  <2>1. Stage(r, p, NoKey, Zero, BilledBy(alloc[p])) /\ UNCHANGED committed
    BY <1>6 DEF Delete
  <2> QED BY <2>1, ZeroType, StageAmounts
<1> QED BY <1>1, <1>2, <1>3, <1>4, <1>5, <1>6, CommitAmounts DEF Next

(* All variables keep their types.                                         *)
THEOREM LedgerTypeCorrect == Spec => []TypeOK
<1>1. LedgerInv /\ Amounts => TypeOK
  BY DEF LedgerInv, ShapeInv, Amounts, TypeOK
<1> QED BY <1>1, InitAmounts, NextAmounts, LedgerInvariant, PTL DEF Spec

-----------------------------------------------------------------------------
(* What allocate_payment_amount does, for any amount, dues and years: all  *)
(* of the amount is allocated or every year is paid in full; no year gets  *)
(* more than its due, a year not chosen nothing; and no year gets anything *)
(* before the earlier ones are paid in full.  So Post refuses an amount    *)
(* exactly if it exceeds what the chosen years cost.                       *)
THEOREM YearsArePaidInOrder ==
  ASSUME NEW amount \in Nat, NEW ys \in SUBSET Bills
  PROVE  LET a == Greedy(amount, ys)
         IN  /\ Total(a, Bills) = Least(amount, Total(Due, ys))
             /\ Total(a, Bills) = amount <=> amount <= Total(Due, ys)
             /\ \A b \in Bills : a[b] \in 0 .. Due[b] /\ (b \notin ys => a[b] = 0)
             /\ \A b, c \in ys : b < c /\ a[c] > 0 => a[b] = Due[b]
<1> DEFINE a == Greedy(amount, ys)
<1>1. ys \in SUBSET Int /\ IsFiniteSet(ys) /\ \A b \in ys : Due[b] \in Nat
  BY LedgerAssumption, FS_Subset
<1>2. \A b \in Bills : a[b] = IF b \in ys /\ amount - SumOver(Due, Before(ys, b)) > 0
                          THEN Least(Due[b], amount - SumOver(Due, Before(ys, b))) ELSE 0
  BY TotalIsSum DEF Greedy, Before
<1>3. a \in [Bills -> Nat]
  BY GreedyType
<1> HIDE DEF a
<1>4. Allocated(a, ys, Due, amount)
  BY <1>2 DEF Allocated
<1>5. \A b \in ys : a[b] \in Nat /\ a[b] <= Due[b] /\ SumOver(Due, Before(ys, b)) \in Nat
  BY <1>1, <1>4, AllocatedType, ZenonT(30)
<1>6. Total(a, Bills) = Least(amount, Total(Due, ys))
  <2>1. SumOver(a, Bills) = SumOver(a, ys)
    <3>1. \A x \in Bills : a[x] \in Int
      BY <1>3
    <3>2. \A x \in Bills \ ys : a[x] = 0
      BY <1>2
    <3> QED BY <3>1, <3>2, LedgerAssumption, SumSupport
  <2>2. SumOver(a, ys) = Least(amount, SumOver(Due, ys))
    BY <1>1, <1>4, AllocatedSum
  <2> QED BY <2>1, <2>2, TotalIsSum
<1>7. Total(Due, ys) \in Nat
  BY <1>1, SumTypes, TotalIsSum
<1>8. Total(a, Bills) = amount <=> amount <= Total(Due, ys)
  BY <1>6, <1>7 DEF Least
<1>9. ASSUME NEW b \in Bills PROVE a[b] \in 0 .. Due[b] /\ (b \notin ys => a[b] = 0)
  <2>1. CASE b \in ys
    BY <1>1, <1>5, <2>1
  <2>2. CASE b \notin ys
    BY <1>2, <2>2, LedgerAssumption
  <2> QED BY <2>1, <2>2
<1>10. ASSUME NEW b \in ys, NEW c \in ys, b < c, a[c] > 0 PROVE a[b] = Due[b]
  <2> DEFINE before == Before(ys, b)
             upTo == before \cup {b}
  <2>1. upTo \in SUBSET Before(ys, c) /\ b \notin before
    <3>1. \A x \in ys : x \in Int
      BY <1>1
    <3>2. \A x \in ys : x < b => x < c
      BY <1>10, <3>1
    <3>3. before \subseteq Before(ys, c) /\ b \in Before(ys, c)
      BY <1>10, <3>2 DEF Before
    <3>4. b \notin before
      BY <3>1 DEF Before
    <3> QED BY <3>3, <3>4
  <2>2. SumOver(Due, upTo) <= SumOver(Due, Before(ys, c))
    <3>1. Before(ys, c) \in SUBSET ys
      BY DEF Before
    <3> HIDE DEF upTo
    <3> QED BY <1>1, <2>1, <3>1, SumMonotone
  <2>3. SumOver(Due, upTo) = SumOver(Due, before) + Due[b]
    <3>1. IsFiniteSet(before) /\ \A x \in before \cup {b} : Due[x] \in Int
      BY <1>1, FS_Subset DEF Before
    <3> HIDE DEF before
    <3> QED BY <2>1, <3>1, SumAdd
  <2>4. SumOver(Due, Before(ys, c)) < amount
    <3>1. SumOver(Due, Before(ys, c)) \in Nat
      BY <1>5
    <3>2. amount - SumOver(Due, Before(ys, c)) > 0
      BY <1>2, <1>10
    <3> QED BY <3>1, <3>2
  <2>5. /\ SumOver(Due, before) \in Nat /\ Due[b] \in Nat
        /\ SumOver(Due, Before(ys, c)) \in Nat
    BY <1>1, <1>5
  <2>6. a[b] = IF amount - SumOver(Due, before) > 0
               THEN Least(Due[b], amount - SumOver(Due, before)) ELSE 0
    BY <1>2
  <2> HIDE DEF before, upTo
  <2> QED BY <2>2, <2>3, <2>4, <2>5, <2>6 DEF Least
<1> QED BY <1>6, <1>8, <1>9, <1>10 DEF a

-----------------------------------------------------------------------------
(* Adjustments as the queries read them.                                   *)

(* However postings, edits and deletions linked receipts to years, the     *)
(* shares of an adjustment that the queries read back add up to it and are *)
(* those the posting split it into.                                        *)
THEOREM EveryCentIsKept == Spec => []AdjustmentsKeepEveryCent
<1>1. AdjustmentsKeepEveryCent
  <2> SUFFICES ASSUME NEW p \in Payments, NEW total \in 0 .. MaxAdjustment, BilledBy(alloc[p]) # {}
               PROVE  LET years == BilledBy(alloc[p])
                          posted == split_amount_across_years(total, Cardinality(years))
                      IN  /\ Total([b \in Bills |-> LinkShare(total, p, b)], years) = total
                          /\ \A b \in years : LinkShare(total, p, b) = posted[Rank(p, b) + 1]
    BY DEF AdjustmentsKeepEveryCent
  <2> DEFINE years == BilledBy(alloc[p])
             n == Cardinality(years)
             f == [b \in Bills |-> LinkShare(total, p, b)]
  <2>1. years \in SUBSET Bills /\ years \in SUBSET Int /\ IsFiniteSet(years)
    BY LedgerAssumption, FS_Subset DEF BilledBy
  <2>2. total \in Nat
    BY ReadsAssumption
  <2>3. n \in Nat \ {0}
    BY <2>1, FS_CardinalityType, FS_EmptySet
  <2>4. \A b \in years : Before(years, b) = {c \in years : c < b} /\ Rank(p, b) = Cardinality(Before(years, b))
    BY DEF Before, Rank
  <2>5. \A b \in years : f[b] = AdjustmentShare(total, n, Cardinality(Before(years, b)))
    BY <2>1, <2>4 DEF LinkShare
  <2>6. SumOver(f, years) = total
    <3> HIDE DEF years, n, f
    <3>1. years # {}
      BY DEF years
    <3> QED BY <2>1, <2>2, <2>5, <3>1, SharesAddUp DEF n
  <2>7. ASSUME NEW b \in years
        PROVE  LinkShare(total, p, b) = split_amount_across_years(total, n)[Rank(p, b) + 1]
    <3>1. Rank(p, b) \in Nat /\ Rank(p, b) < n
      <4>1. Before(years, b) \in SUBSET years /\ b \notin Before(years, b)
        BY <2>1 DEF Before
      <4> HIDE DEF years
      <4>2. /\ IsFiniteSet(Before(years, b)) /\ Cardinality(Before(years, b)) <= n
            /\ Cardinality(Before(years, b)) # n
        BY <2>1, <2>7, <4>1, FS_Subset
      <4>3. Cardinality(Before(years, b)) \in Nat
        BY <4>2, FS_CardinalityType
      <4> HIDE DEF n
      <4> QED BY <2>3, <2>4, <4>2, <4>3, <2>7
    <3>2. split_amount_across_years(total, n) = equal_adjustment_shares(total, n)
      BY <2>2, <2>3, PythonSplitsAgree
    <3> DEFINE i == Rank(p, b) + 1
    <3>3. equal_adjustment_shares(total, n)[i]
            = Base(total, n) + (IF i <= Abs(Remainder(total, n)) THEN Cent(Remainder(total, n)) ELSE 0)
      <4>1. i \in 1 .. n
        BY <2>3, <3>1
      <4> HIDE DEF i, n
      <4> QED BY <4>1 DEF equal_adjustment_shares
    <3>4. LinkShare(total, p, b) = AdjustmentShare(total, n, Rank(p, b))
      BY DEF LinkShare
    <3>5. i <= Abs(Remainder(total, n)) <=> Rank(p, b) < Abs(Remainder(total, n))
      <4>1. Remainder(total, n) \in Int
        BY <2>2, <2>3, RemainderType
      <4>2. Abs(Remainder(total, n)) \in Int
        BY <4>1 DEF Abs
      <4> HIDE DEF n
      <4> QED BY <3>1, <4>2
    <3> HIDE DEF n
    <3> QED BY <3>2, <3>3, <3>4, <3>5 DEF AdjustmentShare
  <2> QED BY <2>6, <2>7, TotalIsSum
<1> QED BY <1>1, PTL
=============================================================================
