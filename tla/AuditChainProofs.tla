-------------------------- MODULE AuditChainProofs --------------------------
(***************************************************************************)
(* Proofs about AuditChain, for any sessions and records and any bounds,   *)
(* also when rows are inserted around the service: until then the stored   *)
(* chain verifies and a rejection means that somebody else committed; and  *)
(* an accepted event is always computed from the newest audited state.     *)
(*                                                                         *)
(* Then about RcdReport, whose exports rest on that chain, for any windows *)
(* and any register and ledger: what is exported stays accounted for, on   *)
(* one day, as reviewed, and current but for postings; its checks are      *)
(* split to the centavo.  Last about StockRows, for any booklets: the      *)
(* printed ranges and rows are those of the receipts and the stock.        *)
(***************************************************************************)
EXTENDS AuditChain, RcdReport, BillingAmountsProofs

(* The last element of a non-empty sequence of events is an event, and the *)
(* id read from it a number.                                               *)
LEMMA LastOfEvents ==
  ASSUME NEW s \in Seq(Event), s # <<>>
  PROVE  Len(s) \in Nat /\ Len(s) >= 1 /\ Len(s) \in DOMAIN s /\ s[Len(s)] \in Event
<1>1. Len(s) \in Nat /\ DOMAIN s = 1 .. Len(s) /\ Len(s) # 0
  OBVIOUS
<1> QED BY <1>1

LEMMA LastIdNat ==
  ASSUME NEW s \in Seq(Event)
  PROVE  LastId(s) \in Nat
BY LastOfEvents DEF LastId, Event

(* The initial chain, head at the genesis hash, satisfies the invariant.   *)
LEMMA InitChainInv == Init => ChainInv
  BY ConstantsAssumption
  DEF Init, ChainInv, TypeOK, VerifiedWhileUntouched, ChainVerified, Linked, LastId,
      Genesis, LockInv, IdInv, PendInv, HeadInv, SnapshotInv, RejectInv, LockedHead, Written, Event

(* A new transaction's snapshot is the committed state.                    *)
LEMMA BeginPreserves ==
  ASSUME ChainInv, NEW r \in Requests, Begin(r)
  PROVE  ChainInv'
<1> USE DEF ChainInv, Begin
<1>1. TypeOK'
  <2>1. LastId(log) \in Nat
    BY LastIdNat DEF TypeOK
  <2> QED BY <2>1 DEF TypeOK
<1>2. VerifiedWhileUntouched' /\ HeadInv'
  BY DEF VerifiedWhileUntouched, Untouched, ChainVerified, LastId, HeadInv
<1>3. LockInv'
  BY DEF LockInv, TypeOK
<1>4. IdInv'
  <2>1. LastId(log)' = LastId(log) /\ LastId(log) \in Nat
    BY LastIdNat DEF LastId, TypeOK
  <2> QED BY <2>1 DEF IdInv, TypeOK
<1>5. PendInv'
  BY DEF PendInv, LastId
<1>6. SnapshotInv'
  <2> SUFFICES ASSUME NEW q \in Requests, pc'[q] = "open", seen'[q] = LockedHead(q)'.id,
                      NEW x \in Records
               PROVE  /\ x \notin Written(q)' => view'[q][x] = value'[x]
                      /\ view'[q][x] >= value'[x]
    BY DEF SnapshotInv
  <2>1. LockedHead(q)' = LockedHead(q) /\ Written(q)' = Written(q)
    BY DEF LockedHead, Written
  <2>2. CASE q = r
    BY <2>2 DEF TypeOK
  <2>3. CASE q # r
    BY <2>1, <2>3 DEF SnapshotInv, TypeOK
  <2> QED BY <2>2, <2>3
<1>7. RejectInv'
  BY DEF RejectInv, TypeOK, Untouched
<1> QED BY <1>1, <1>2, <1>3, <1>4, <1>5, <1>6, <1>7

(* The head a session reads under the lock is a typed row, and the id of   *)
(* its own last event once it has appended.                                *)
LEMMA LockedHeadType ==
  ASSUME TypeOK, NEW r \in Requests
  PROVE  LockedHead(r) \in [id : Nat, hash : Nat]
<1>1. pend[r] \in Seq(Event) /\ head \in [id : Nat, hash : Nat]
  BY DEF TypeOK
<1>2. CASE pend[r] = <<>>
  BY <1>1, <1>2 DEF LockedHead
<1>3. CASE pend[r] # <<>>
  <2>1. pend[r][Len(pend[r])] \in Event
    BY <1>1, <1>3, LastOfEvents
  <2> QED BY <2>1, <1>3 DEF LockedHead, Event
<1> QED BY <1>2, <1>3

(* What appending to a sequence of events yields.                          *)
LEMMA AppendFacts ==
  ASSUME NEW s \in Seq(Event), NEW e \in Event
  PROVE  /\ Append(s, e) \in Seq(Event)
         /\ Append(s, e) # <<>>
         /\ Len(Append(s, e)) = Len(s) + 1
         /\ Len(s) \in Nat
         /\ DOMAIN Append(s, e) = 1 .. Len(s) + 1
         /\ DOMAIN s = 1 .. Len(s)
         /\ \A i \in 1 .. Len(s) : Append(s, e)[i] = s[i]
         /\ Append(s, e)[Len(s) + 1] = e
OBVIOUS

(* An event accepted under the lock continues the chain and was computed   *)
(* from the current records.                                               *)
LEMMA AppendPreserves ==
  ASSUME ChainInv, NEW r \in Requests, NEW x \in Records, Append_(r, x)
  PROVE  ChainInv'
<1> DEFINE e == NewEvent(r, x)
<1> USE DEF ChainInv
<1>1. LockedHead(r) \in [id : Nat, hash : Nat]
  BY LockedHeadType
<1>2. view[r][x] \in Nat /\ nextId \in Nat \ {0}
  BY DEF TypeOK
<1>3. e \in Event
  BY <1>1, <1>2 DEF NewEvent, Event
<1>4. pend[r] \in Seq(Event)
  BY DEF TypeOK
<1>5. pend' = [pend EXCEPT ![r] = Append(pend[r], e)]
  BY DEF Append_
<1> HIDE DEF e
<1>6. \A q \in Requests : pend'[q] = IF q = r THEN Append(pend[r], e) ELSE pend[q]
  BY <1>5 DEF TypeOK
<1>20. /\ pend'[r] \in Seq(Event)
       /\ pend'[r] # <<>>
       /\ Len(pend'[r]) = Len(pend[r]) + 1
       /\ Len(pend[r]) \in Nat
       /\ DOMAIN pend'[r] = 1 .. Len(pend[r]) + 1
       /\ DOMAIN pend[r] = 1 .. Len(pend[r])
       /\ \A i \in 1 .. Len(pend[r]) : pend'[r][i] = pend[r][i]
       /\ pend'[r][Len(pend[r]) + 1] = e
  <2>1. pend'[r] = Append(pend[r], e)
    BY <1>6
  <2> QED BY <2>1, <1>3, <1>4, AppendFacts
<1>7. pend'[r] # <<>> /\ pend'[r][Len(pend'[r])] = e
  BY <1>20
<1>8. \A q \in Requests \ {r} : pend[q] = <<>>
  BY ConstantsAssumption DEF LockInv, Append_
<1>9. /\ e.id = nextId /\ e.sealed /\ e.prev = LockedHead(r).hash /\ e.rec = x
      /\ e.hash = nextId
  BY DEF e, NewEvent
<1>10. /\ LockedHead(r)'.id = nextId
       /\ \A q \in Requests \ {r} : LockedHead(q)' = head
  BY <1>6, <1>7, <1>8, <1>9 DEF LockedHead, Append_
<1>11. \A y \in Records : view'[r][y] = IF y = x THEN view[r][x] + 1 ELSE view[r][y]
  BY DEF Append_, TypeOK
<1>12. \A q \in Requests \ {r} : view'[q] = view[q] /\ seen'[q] = seen[q]
  BY DEF Append_, TypeOK
<1>13. TypeOK'
  <2>1. pend' \in [Requests -> Seq(Event)]
    BY <1>3, <1>4, <1>5, AppendFacts DEF TypeOK
  <2>2. view' \in [Requests -> [Records -> Nat]]
    BY <1>2 DEF Append_, TypeOK
  <2> QED BY <2>1, <2>2, <1>2 DEF Append_, TypeOK
<1>14. VerifiedWhileUntouched' /\ HeadInv'
  BY DEF VerifiedWhileUntouched, Untouched, ChainVerified, LastId, HeadInv, Append_
<1>21. /\ LastId(log)' = LastId(log) /\ LastId(log) \in Nat
       /\ LastId(log) < nextId
       /\ LastId(pend'[r]) = nextId
  BY <1>7, <1>9, LastIdNat DEF LastId, IdInv, TypeOK, Append_
<1>15. LockInv'
  BY <1>6, <1>7, <1>8, <1>9, ConstantsAssumption DEF LockInv, Append_, TypeOK
<1>16. IdInv'
  <2>1. \A i \in DOMAIN pend'[r] : pend'[r][i].id < nextId'
    <3> SUFFICES ASSUME NEW i \in DOMAIN pend'[r]
                 PROVE  pend'[r][i].id < nextId + 1
      BY DEF Append_
    <3>1. CASE i \in DOMAIN pend[r]
      <4>1. pend'[r][i] = pend[r][i] /\ pend[r][i] \in Event
        BY <3>1, <1>4, <1>20
      <4>2. pend[r][i].id < nextId
        BY <3>1 DEF IdInv
      <4>3. pend[r][i].id \in Nat
        BY <4>1 DEF Event
      <4> QED BY <4>1, <4>2, <4>3, <1>2
    <3>2. CASE i = Len(pend[r]) + 1
      BY <3>2, <1>2, <1>9, <1>20
    <3> QED BY <3>1, <3>2, <1>20
  <2>2. LastId(log)' < nextId'
    BY <1>2, <1>21 DEF Append_
  <2> QED BY <2>1, <2>2, <1>6, <1>7, <1>8, <1>12, <1>21 DEF IdInv, Append_
<1>17. PendInv'
  <2>1. ASSUME NEW i \in DOMAIN pend'[r]
        PROVE  /\ pend'[r][i].sealed
               /\ pend'[r][i].prev = IF i = 1 THEN head.hash ELSE pend'[r][i - 1].hash
               /\ pend'[r][i].id > LastId(log)
               /\ pend'[r][i].id <= LastId(pend'[r])
               /\ i > 1 => pend'[r][i].id > pend'[r][i - 1].id
    <3>1. CASE i \in 1 .. Len(pend[r])
      <4>1. i \in DOMAIN pend[r] /\ pend'[r][i] = pend[r][i]
        BY <3>1, <1>20
      <4>2. i > 1 => pend'[r][i - 1] = pend[r][i - 1]
        <5>1. i > 1 => i - 1 \in 1 .. Len(pend[r])
          BY <3>1, <1>20
        <5> QED BY <5>1, <1>20
      <4>3. i = 1 \/ i > 1
        BY <3>1, <1>4
      <4>4. pend'[r][i].id <= LastId(pend'[r])
        <5>1. pend[r][i] \in Event /\ pend[r][i].id < nextId
          BY <4>1, <1>4 DEF IdInv
        <5> QED BY <4>1, <5>1, <1>2, <1>21 DEF Event
      <4> QED BY <4>1, <4>2, <4>3, <4>4 DEF PendInv
    <3>2. CASE i = Len(pend[r]) + 1
      <4>1. pend'[r][i] = e
        BY <3>2, <1>20
      <4>2. CASE pend[r] = <<>>
        BY <4>1, <4>2, <3>2, <1>2, <1>9, <1>4, <1>21 DEF LockedHead
      <4>3. CASE pend[r] # <<>>
        <5>1. /\ i > 1 /\ i # 1 /\ i - 1 = Len(pend[r]) /\ i - 1 \in DOMAIN pend[r]
          BY <4>3, <3>2, <1>4, LastOfEvents
        <5>2. pend'[r][i - 1] = pend[r][i - 1]
          BY <5>1, <1>20
        <5>3. pend[r][i - 1].id < nextId
          BY <5>1 DEF IdInv
        <5>4. pend[r][i - 1].id \in Nat
          <6>1. pend[r][i - 1] \in Event
            BY <5>1, <1>4
          <6> QED BY <6>1 DEF Event
        <5> QED BY <4>1, <4>3, <5>1, <5>2, <5>3, <5>4, <1>2, <1>9, <1>21 DEF LockedHead
      <4> QED BY <4>2, <4>3
    <3> QED BY <3>1, <3>2, <1>20
  <2>2. head' = head
    BY DEF Append_
  <2>3. \A q \in Requests \ {r} : DOMAIN pend'[q] = {}
    BY <1>6, <1>8
  <2> QED BY <2>1, <2>2, <2>3, <1>21 DEF PendInv
<1>22. x \in Written(r)' /\ Written(r) \subseteq Written(r)'
  <2>1. Len(pend[r]) + 1 \in DOMAIN pend'[r] /\ pend'[r][Len(pend[r]) + 1].rec = x
    BY ONLY <1>9, <1>20
  <2>2. \A i \in DOMAIN pend[r] : i \in DOMAIN pend'[r] /\ pend'[r][i].rec = pend[r][i].rec
    BY ONLY <1>20
  <2> QED BY ONLY <2>1, <2>2 DEF Written
<1>18. SnapshotInv'
  <2> SUFFICES ASSUME NEW q \in Requests, pc'[q] = "open", seen'[q] = LockedHead(q)'.id,
                      NEW y \in Records
               PROVE  /\ y \notin Written(q)' => view'[q][y] = value'[y]
                      /\ view'[q][y] >= value'[y]
    BY DEF SnapshotInv
  <2>1. pc[q] = "open" /\ value' = value
    BY DEF Append_
  <2>2. CASE q = r
    <3>2. seen[r] = LockedHead(r).id
      BY DEF Append_, HeadMatches
    <3>3. /\ y \notin Written(r) => view[r][y] = value[y]
          /\ view[r][y] >= value[y]
      BY <2>1, <2>2, <3>2 DEF SnapshotInv
    <3>4. view[r][x] \in Nat /\ value[y] \in Nat
      BY DEF TypeOK
    <3> QED BY <2>1, <2>2, <3>3, <3>4, <1>11, <1>22
  <2>3. CASE q # r
    <3>1. LockedHead(q)' = LockedHead(q) /\ Written(q)' = Written(q)
      BY <2>3, <1>6, <1>8, <1>10 DEF LockedHead, Written
    <3> QED BY <2>1, <2>3, <3>1, <1>12 DEF SnapshotInv
  <2> QED BY <2>2, <2>3
<1>19. RejectInv'
  BY <1>6, <1>12 DEF RejectInv, Append_, Untouched
<1> QED BY <1>13, <1>14, <1>15, <1>16, <1>17, <1>18, <1>19

(* A rejected session appended nothing, and its snapshot is older than the *)
(* head.                                                                   *)
LEMMA RejectPreserves ==
  ASSUME ChainInv, NEW r \in Requests, Reject(r)
  PROVE  ChainInv'
<1> USE DEF ChainInv, Reject
<1>1. pend[r] = <<>> /\ (Untouched => seen[r] < head.id)
  <2>1. pend[r] = <<>>
    BY DEF LockInv, HeadMatches, LockedHead
  <2>2. Untouched => seen[r] <= head.id
    BY <2>1 DEF IdInv, VerifiedWhileUntouched, ChainVerified
  <2>3. seen[r] # head.id
    BY <2>1 DEF HeadMatches, LockedHead
  <2>4. seen[r] \in Nat /\ head.id \in Nat
    BY DEF TypeOK
  <2> QED BY <2>1, <2>2, <2>3, <2>4
<1>2. TypeOK'
  BY DEF TypeOK
<1>3. VerifiedWhileUntouched' /\ HeadInv'
  BY DEF VerifiedWhileUntouched, Untouched, ChainVerified, LastId, HeadInv
<1>4. LockInv'
  <2>1. \A q \in Requests \ {r} : holder # q
    BY ConstantsAssumption
  <2> QED BY <1>1, <2>1, ConstantsAssumption DEF LockInv, TypeOK
<1>5. IdInv'
  BY DEF IdInv, LastId, TypeOK
<1>6. PendInv'
  BY DEF PendInv, LastId
<1>7. SnapshotInv'
  <2>1. \A q \in Requests : LockedHead(q)' = LockedHead(q) /\ Written(q)' = Written(q)
    BY DEF LockedHead, Written
  <2> QED BY <2>1 DEF SnapshotInv, TypeOK
<1>8. RejectInv'
  BY <1>1 DEF RejectInv, TypeOK, Untouched
<1> QED BY <1>2, <1>3, <1>4, <1>5, <1>6, <1>7, <1>8

(* Undoing a transaction leaves everything committed as it was.            *)
LEMMA RollbackPreserves ==
  ASSUME ChainInv, NEW r \in Requests, Rollback(r)
  PROVE  ChainInv'
<1> USE DEF ChainInv, Rollback
<1>1. \A q \in Requests : pend'[q] = IF q = r THEN <<>> ELSE pend[q]
  BY DEF TypeOK
<1>2. \A q \in Requests : pc'[q] = IF q = r THEN "idle" ELSE pc[q]
  BY DEF TypeOK
<1>3. TypeOK'
  <2>1. pend' \in [Requests -> Seq(Event)]
    BY DEF TypeOK
  <2> QED BY <2>1 DEF TypeOK
<1>4. VerifiedWhileUntouched' /\ HeadInv'
  BY DEF VerifiedWhileUntouched, Untouched, ChainVerified, LastId, HeadInv
<1>5. LockInv'
  BY <1>1, <1>2, ConstantsAssumption DEF LockInv
<1>6. IdInv'
  BY <1>1, <1>2 DEF IdInv, LastId
<1>7. PendInv'
  BY <1>1 DEF PendInv, LastId
<1>8. SnapshotInv'
  <2>1. \A q \in Requests \ {r} :
           LockedHead(q)' = LockedHead(q) /\ Written(q)' = Written(q)
    BY <1>1 DEF LockedHead, Written
  <2> QED BY <1>2, <2>1 DEF SnapshotInv
<1>9. RejectInv'
  BY <1>1, <1>2 DEF RejectInv, Untouched
<1> QED BY <1>3, <1>4, <1>5, <1>6, <1>7, <1>8, <1>9

(* What concatenating two sequences of events yields.                      *)
LEMMA ConcatFacts ==
  ASSUME NEW s \in Seq(Event), NEW t \in Seq(Event)
  PROVE  /\ s \o t \in Seq(Event)
         /\ Len(s) \in Nat /\ Len(t) \in Nat
         /\ Len(s \o t) = Len(s) + Len(t)
         /\ DOMAIN (s \o t) = 1 .. Len(s) + Len(t)
         /\ DOMAIN s = 1 .. Len(s)
         /\ DOMAIN t = 1 .. Len(t)
         /\ \A i \in 1 .. Len(s) : (s \o t)[i] = s[i]
         /\ \A i \in 1 .. Len(t) : (s \o t)[Len(s) + i] = t[i]
OBVIOUS

(* Concatenating nothing changes nothing.                                  *)
LEMMA ConcatEmpty ==
  ASSUME NEW s \in Seq(Event)
  PROVE  s \o <<>> = s
OBVIOUS

(* The committed chain followed by events that continue it is a chain.     *)
LEMMA LinkedConcat ==
  ASSUME NEW s \in Seq(Event), NEW t \in Seq(Event), t # <<>>,
         NEW h \in [id : Nat, hash : Nat],
         Linked(s), h.id = LastId(s),
         h.hash = (IF s = <<>> THEN Genesis ELSE s[Len(s)].hash),
         \A i \in DOMAIN t :
            /\ t[i].sealed
            /\ t[i].prev = IF i = 1 THEN h.hash ELSE t[i - 1].hash
            /\ t[i].id > h.id
            /\ i > 1 => t[i].id > t[i - 1].id
  PROVE  /\ Linked(s \o t)
         /\ s \o t # <<>>
         /\ (s \o t)[Len(s \o t)] = t[Len(t)]
<1> DEFINE c == s \o t
<1>1. /\ c \in Seq(Event) /\ Len(s) \in Nat /\ Len(t) \in Nat
      /\ Len(c) = Len(s) + Len(t)
      /\ DOMAIN c = 1 .. Len(s) + Len(t)
      /\ DOMAIN s = 1 .. Len(s)
      /\ DOMAIN t = 1 .. Len(t)
      /\ \A i \in 1 .. Len(s) : c[i] = s[i]
      /\ \A i \in 1 .. Len(t) : c[Len(s) + i] = t[i]
  BY ConcatFacts
<1>2. Len(t) >= 1
  BY LastOfEvents
<1> HIDE DEF c
<1>3. ASSUME NEW i \in DOMAIN c
      PROVE  /\ c[i].sealed
             /\ c[i].prev = IF i = 1 THEN Genesis ELSE c[i - 1].hash
             /\ i > 1 => c[i].id > c[i - 1].id
  <2>1. CASE i \in 1 .. Len(s)
    <3>1. c[i] = s[i] /\ i \in DOMAIN s
      BY <2>1, <1>1
    <3>2. i > 1 => i - 1 \in 1 .. Len(s)
      BY <2>1, <1>1
    <3>3. i > 1 => c[i - 1] = s[i - 1]
      BY <3>2, <1>1
    <3>4. i = 1 \/ i > 1
      BY <2>1
    <3> QED BY <3>1, <3>3, <3>4 DEF Linked
  <2>2. CASE i = Len(s) + 1
    <3>1. c[i] = t[1] /\ 1 \in DOMAIN t
      BY <2>2, <1>1, <1>2
    <3>2. CASE s = <<>>
      <4>1. i = 1
        BY <2>2, <3>2
      <4> QED BY <3>1, <3>2, <4>1
    <3>3. CASE s # <<>>
      <4>1. Len(s) >= 1 /\ Len(s) \in 1 .. Len(s)
        BY <3>3, LastOfEvents
      <4>2. i > 1 /\ i # 1 /\ c[i - 1] = s[Len(s)]
        BY <4>1, <2>2, <1>1
      <4> QED BY <3>1, <3>3, <4>2 DEF LastId
    <3> QED BY <3>2, <3>3
  <2>3. CASE i \in Len(s) + 2 .. Len(s) + Len(t)
    <3> DEFINE j == i - Len(s)
    <3>1. j \in 1 .. Len(t) /\ j - 1 \in 1 .. Len(t) /\ j > 1 /\ j # 1 /\ i # 1
      BY SMTT(20), <2>3, <1>1
    <3>2. i = Len(s) + j /\ i - 1 = Len(s) + (j - 1)
      BY <2>3, <1>1
    <3> HIDE DEF j
    <3>3. c[i] = t[j] /\ c[i - 1] = t[j - 1]
      BY <3>1, <3>2, <1>1
    <3>4. j \in DOMAIN t
      BY <3>1, <1>1
    <3>5. t[j].sealed /\ t[j].prev = t[j - 1].hash /\ t[j].id > t[j - 1].id
      BY <3>1, <3>4
    <3> QED BY <3>1, <3>3, <3>5
  <2> QED BY <2>1, <2>2, <2>3, <1>1, <1>2
<1>4. Linked(c)
  BY <1>3 DEF Linked
<1>5. c # <<>> /\ c[Len(c)] = t[Len(t)]
  BY <1>1, <1>2
<1> QED BY <1>4, <1>5 DEF c

(* Committing puts the session's events behind the log and the head on the *)
(* last of them; every other open snapshot is then older than the head.    *)
LEMMA CommitPreserves ==
  ASSUME ChainInv, NEW r \in Requests, Commit(r)
  PROVE  ChainInv'
<1> USE DEF ChainInv
<1>1. \A q \in Requests : pend'[q] = IF q = r THEN <<>> ELSE pend[q]
  BY DEF TypeOK, Commit
<1>2. \A q \in Requests : pc'[q] = IF q = r THEN "idle" ELSE pc[q]
  BY DEF TypeOK, Commit
<1>3. log \in Seq(Event) /\ pend[r] \in Seq(Event) /\ head \in [id : Nat, hash : Nat]
  BY DEF TypeOK
<1>4. head' = LockedHead(r) /\ LockedHead(r) \in [id : Nat, hash : Nat]
  BY LockedHeadType DEF Commit
<1>5. TypeOK'
  <2>1. log' \in Seq(Event)
    BY <1>3, ConcatFacts DEF Commit
  <2>2. pend' \in [Requests -> Seq(Event)]
    BY DEF Commit, TypeOK
  <2>3. value' \in [Records -> Nat]
    BY DEF Commit, TypeOK
  <2> QED BY <2>1, <2>2, <2>3, <1>4 DEF Commit, TypeOK
<1>6. LockInv'
  BY <1>1, <1>2, ConstantsAssumption DEF LockInv, Commit
<1>7. CASE pend[r] = <<>>
  <2>1. log' = log /\ head' = head
    BY <1>3, <1>7, ConcatEmpty DEF Commit, LockedHead
  <2>2. value' = value
    BY <1>7 DEF Commit, Written, TypeOK
  <2>3. VerifiedWhileUntouched' /\ HeadInv'
    BY <2>1 DEF VerifiedWhileUntouched, Untouched, ChainVerified, LastId, HeadInv
  <2>4. IdInv'
    BY <1>1, <1>2, <2>1 DEF IdInv, LastId, Commit
  <2>5. PendInv'
    BY <1>1, <2>1 DEF PendInv, LastId
  <2>6. SnapshotInv'
    <3>1. \A q \in Requests \ {r} :
             LockedHead(q)' = LockedHead(q) /\ Written(q)' = Written(q)
      BY <1>1, <2>1 DEF LockedHead, Written
    <3> QED BY <1>2, <2>2, <3>1 DEF SnapshotInv, Commit
  <2>7. RejectInv'
    BY <1>1, <1>2, <2>1 DEF RejectInv, Commit, Untouched
  <2> QED BY <1>5, <1>6, <2>3, <2>4, <2>5, <2>6, <2>7
<1>8. CASE pend[r] # <<>>
  <2>1. \A q \in Requests : pend'[q] = <<>>
    BY <1>1, <1>8, ConstantsAssumption DEF LockInv
  <2>2. /\ Len(pend[r]) \in DOMAIN pend[r]
        /\ pend[r][Len(pend[r])] \in Event
        /\ LastId(log) \in Nat
    BY <1>3, <1>8, LastOfEvents, LastIdNat
  <2>3. /\ head'.id = pend[r][Len(pend[r])].id
        /\ head'.hash = pend[r][Len(pend[r])].hash
        /\ head'.id = LastId(pend[r])
    BY <1>4, <1>8 DEF LockedHead, LastId
  <2>4. /\ log' \in Seq(Event) /\ log' # <<>>
        /\ DOMAIN log' = 1 .. Len(log) + Len(pend[r])
        /\ DOMAIN log = 1 .. Len(log) /\ DOMAIN pend[r] = 1 .. Len(pend[r])
        /\ Len(log) \in Nat /\ Len(pend[r]) \in Nat
        /\ \A i \in DOMAIN log : log'[i] = log[i]
        /\ \A i \in DOMAIN pend[r] : log'[Len(log) + i] = pend[r][i]
        /\ LastId(log') = head'.id
    <3>1. log' = log \o pend[r] /\ Len(log \o pend[r]) = Len(log) + Len(pend[r])
      BY <1>3, ConcatFacts DEF Commit
    <3>2. /\ log' \in Seq(Event) /\ Len(log') = Len(log) + Len(pend[r])
          /\ DOMAIN log' = 1 .. Len(log) + Len(pend[r])
          /\ DOMAIN log = 1 .. Len(log) /\ DOMAIN pend[r] = 1 .. Len(pend[r])
          /\ Len(log) \in Nat /\ Len(pend[r]) \in Nat
          /\ \A i \in DOMAIN log : log'[i] = log[i]
          /\ \A i \in DOMAIN pend[r] : log'[Len(log) + i] = pend[r][i]
      BY SMTT(20), <1>3, <3>1, ConcatFacts
    <3>3. log'[Len(log')] = pend[r][Len(pend[r])] /\ Len(log') # 0
      BY <2>2, <3>2
    <3>4. log' # <<>>
      BY <3>3
    <3>5. LastId(log') = head'.id
      BY <2>3, <3>3, <3>4 DEF LastId
    <3> QED BY <3>2, <3>4, <3>5
  <2>5. VerifiedWhileUntouched'
    <3> SUFFICES ASSUME Untouched' PROVE ChainVerified'
      BY DEF VerifiedWhileUntouched
    <3>1. Untouched
      BY <2>4 DEF Untouched
    <3>2. Linked(log) /\ head.id = LastId(log)
          /\ head.hash = (IF log = <<>> THEN Genesis ELSE log[Len(log)].hash)
      BY <3>1 DEF VerifiedWhileUntouched, ChainVerified
    <3>3. \A i \in DOMAIN pend[r] :
              /\ pend[r][i].sealed
              /\ pend[r][i].prev = IF i = 1 THEN head.hash ELSE pend[r][i - 1].hash
              /\ pend[r][i].id > head.id
              /\ i > 1 => pend[r][i].id > pend[r][i - 1].id
      BY <3>2 DEF PendInv
    <3>4. /\ Linked(log')
          /\ log' # <<>>
          /\ log'[Len(log')] = pend[r][Len(pend[r])]
      BY <1>3, <1>8, <3>2, <3>3, LinkedConcat DEF Commit
    <3> QED BY <2>3, <3>4 DEF ChainVerified, LastId
  <2>6. LastId(log) < head'.id /\ head'.id < nextId
    BY <2>2, <2>3 DEF PendInv, IdInv
  <2>16. head'.id \in Nat
    BY <1>4
  <2>7. \A i \in DOMAIN log' : log'[i].id <= head'.id
    <3> SUFFICES ASSUME NEW i \in DOMAIN log' PROVE log'[i].id <= head'.id
      OBVIOUS
    <3>1. CASE i \in DOMAIN log
      <4>1. log[i].id <= LastId(log) /\ log[i] \in Event
        BY <3>1, <1>3 DEF IdInv
      <4>2. log'[i] = log[i] /\ log[i].id \in Nat
        BY <3>1, <4>1, <2>4 DEF Event
      <4> QED BY <4>1, <4>2, <2>2, <2>6, <2>16
    <3>2. CASE i \notin DOMAIN log
      <4>1. i - Len(log) \in DOMAIN pend[r] /\ i = Len(log) + (i - Len(log))
        BY <3>2, <2>4
      <4> QED BY <4>1, <2>3, <2>4 DEF PendInv
    <3> QED BY <3>1, <3>2
  <2>8. HeadInv'
    <3> SUFFICES ASSUME NEW i \in DOMAIN log', log'[i].id = head'.id
                 PROVE  log'[i].sealed
      BY DEF HeadInv
    <3>1. CASE i \in DOMAIN log
      <4>1. log[i].id <= LastId(log) /\ log[i] \in Event
        BY <3>1, <1>3 DEF IdInv
      <4>2. log'[i] = log[i] /\ log[i].id \in Nat
        BY <3>1, <4>1, <2>4 DEF Event
      <4> QED BY <4>1, <4>2, <2>2, <2>6, <2>16
    <3>2. CASE i \notin DOMAIN log
      <4>1. i - Len(log) \in DOMAIN pend[r] /\ i = Len(log) + (i - Len(log))
        BY <3>2, <2>4
      <4> QED BY <4>1, <2>4 DEF PendInv
    <3> QED BY <3>1, <3>2
  <2>9. /\ \A q \in Requests : seen'[q] \in Nat
        /\ head'.id \in Nat
    BY <1>3, <1>4 DEF Commit, TypeOK
  <2>10. \A q \in Requests \ {r} : pend[q] = <<>>
    BY <1>8, ConstantsAssumption DEF LockInv
  <2>11. \A q \in Requests : pc'[q] # "idle" => seen'[q] < head'.id
    <3> SUFFICES ASSUME NEW q \in Requests, pc'[q] # "idle"
                 PROVE  seen'[q] < head'.id
      OBVIOUS
    <3>1. q # r /\ pc[q] # "idle" /\ pend[q] = <<>> /\ seen'[q] = seen[q]
      BY <1>2, <2>10 DEF Commit
    <3>2. seen[q] <= LastId(log)
      BY <3>1 DEF IdInv
    <3> QED BY <3>1, <3>2, <2>2, <2>6, <2>9
  <2>12. IdInv'
    BY <2>1, <2>4, <2>6, <2>7, <2>9, <2>11 DEF IdInv, Commit
  <2>13. PendInv'
    BY <2>1 DEF PendInv
  <2>14. SnapshotInv'
    <3>1. \A q \in Requests : LockedHead(q)' = head'
      BY <2>1 DEF LockedHead
    <3> QED BY <2>9, <2>11, <3>1 DEF SnapshotInv
  <2>15. RejectInv'
    BY <2>1, <2>11 DEF RejectInv
  <2> QED BY <1>5, <1>6, <2>5, <2>8, <2>12, <2>13, <2>14, <2>15
<1> QED BY <1>7, <1>8

(* A row inserted around the service ends the log; nothing links to it.    *)
LEMMA RawInsertPreserves ==
  ASSUME ChainInv, RawInsert
  PROVE  ChainInv'
<1> DEFINE e == [id |-> nextId, sealed |-> FALSE, prev |-> 0, hash |-> 0,
                 rec |-> NoRec, old |-> 0, new |-> 0]
<1> USE DEF ChainInv
<1>1. nextId \in Nat \ {0} /\ log \in Seq(Event) /\ LastId(log) \in Nat
  BY LastIdNat DEF TypeOK
<1>2. e \in Event
  BY <1>1 DEF Event
<1>3. log' = Append(log, e)
  BY DEF RawInsert
<1>4. e.id = nextId /\ ~e.sealed
  OBVIOUS
<1> HIDE DEF e
<1>5. /\ log' \in Seq(Event) /\ log' # <<>>
      /\ Len(log') = Len(log) + 1 /\ Len(log) \in Nat
      /\ DOMAIN log' = 1 .. Len(log) + 1 /\ DOMAIN log = 1 .. Len(log)
      /\ \A i \in DOMAIN log : log'[i] = log[i]
      /\ log'[Len(log) + 1] = e
  BY <1>1, <1>2, <1>3, AppendFacts
<1>6. LastId(log') = nextId
  BY <1>4, <1>5 DEF LastId
<1>7. \A r \in Requests : pend'[r] = <<>> /\ pend[r] = <<>>
  BY DEF RawInsert
<1>8. TypeOK'
  BY <1>1, <1>5 DEF RawInsert, TypeOK
<1>9. ~Untouched'
  BY <1>4, <1>5 DEF Untouched
<1>10. VerifiedWhileUntouched' /\ RejectInv'
  BY <1>7, <1>9 DEF VerifiedWhileUntouched, RejectInv
<1>11. LockInv'
  BY <1>7 DEF LockInv, RawInsert
<1>12. LastId(log) < nextId /\ head.id \in Nat /\ head.id < nextId
  BY <1>1 DEF IdInv, TypeOK
<1>13. \A i \in DOMAIN log' : log'[i].id <= nextId
  <2> SUFFICES ASSUME NEW i \in DOMAIN log' PROVE log'[i].id <= nextId
    OBVIOUS
  <2>1. CASE i \in DOMAIN log
    <3>1. log[i].id <= LastId(log) /\ log[i] \in Event
      BY <2>1, <1>1 DEF IdInv
    <3> QED BY <2>1, <3>1, <1>1, <1>5, <1>12 DEF Event
  <2>2. CASE i = Len(log) + 1
    BY <2>2, <1>1, <1>4, <1>5
  <2> QED BY <2>1, <2>2, <1>5
<1>14. IdInv'
  <2>1. \A r \in Requests : pc'[r] # "idle" => seen'[r] <= nextId
    BY <1>1, <1>7, <1>12 DEF IdInv, RawInsert, TypeOK
  <2>2. head'.id <= LastId(log') /\ LastId(log') < nextId'
    BY <1>1, <1>6, <1>12 DEF RawInsert
  <2>3. \A r \in Requests : DOMAIN pend'[r] = {}
    BY <1>7
  <2> QED BY <2>1, <2>2, <2>3, <1>6, <1>13 DEF IdInv
<1>15. PendInv'
  BY <1>7 DEF PendInv
<1>16. HeadInv'
  <2> SUFFICES ASSUME NEW i \in DOMAIN log', log'[i].id = head.id
               PROVE  log'[i].sealed
    BY DEF HeadInv, RawInsert
  <2>1. i \in DOMAIN log
    BY <1>1, <1>4, <1>5, <1>12
  <2> QED BY <2>1, <1>5 DEF HeadInv
<1>17. SnapshotInv'
  <2>1. \A q \in Requests : LockedHead(q)' = LockedHead(q) /\ Written(q)' = Written(q)
    BY DEF LockedHead, Written, RawInsert
  <2> QED BY <2>1 DEF SnapshotInv, RawInsert
<1> QED BY <1>8, <1>10, <1>11, <1>14, <1>15, <1>16, <1>17

(* Every step preserves the invariant.                                     *)
LEMMA NextPreserves == ChainInv /\ [Next]_vars => ChainInv'
<1> SUFFICES ASSUME ChainInv, [Next]_vars PROVE ChainInv'
  OBVIOUS
<1>1. CASE UNCHANGED vars
  BY <1>1 DEF vars, ChainInv, TypeOK, VerifiedWhileUntouched, Untouched, ChainVerified,
              LastId, LockInv, IdInv, PendInv, HeadInv, SnapshotInv, RejectInv,
              LockedHead, Written
<1>2. ASSUME NEW r \in Requests, Begin(r) PROVE ChainInv'
  BY <1>2, BeginPreserves
<1>3. ASSUME NEW r \in Requests, NEW x \in Records, Append_(r, x) PROVE ChainInv'
  BY <1>3, AppendPreserves
<1>4. ASSUME NEW r \in Requests, Reject(r) PROVE ChainInv'
  BY <1>4, RejectPreserves
<1>5. ASSUME NEW r \in Requests, Commit(r) PROVE ChainInv'
  BY <1>5, CommitPreserves
<1>6. ASSUME NEW r \in Requests, Rollback(r) PROVE ChainInv'
  BY <1>6, RollbackPreserves
<1>7. CASE RawInsert
  BY <1>7, RawInsertPreserves
<1> QED BY <1>1, <1>2, <1>3, <1>4, <1>5, <1>6, <1>7 DEF Next

(* The invariant holds throughout every behaviour.                         *)
LEMMA ChainInvariant == Spec => []ChainInv
<1>1. Init => ChainInv
  BY InitChainInv
<1>2. ChainInv /\ [Next]_vars => ChainInv'
  BY NextPreserves
<1> QED BY <1>1, <1>2, PTL DEF Spec

-----------------------------------------------------------------------------
(* Every variable keeps its type.                                          *)
THEOREM TypeCorrect == Spec => []TypeOK
<1>1. ChainInv => TypeOK
  BY DEF ChainInv
<1> QED BY <1>1, ChainInvariant, PTL

(* verify_audit_chain accepts the committed log at every moment until a    *)
(* row is inserted around the service: whatever the sessions do, and       *)
(* however they are interrupted, each row is linked to the one before it   *)
(* and the stored head is the last row.                                    *)
THEOREM ChainAlwaysVerifies == Spec => []VerifiedWhileUntouched
<1>1. ChainInv => VerifiedWhileUntouched
  BY DEF ChainInv
<1> QED BY <1>1, ChainInvariant, PTL

(* First committer wins: the comparison in _locked_chain_state makes every *)
(* accepted event start from the newest audited records.                   *)
THEOREM AcceptedOnCurrentState == Spec => []SealedOnCurrentState
<1>1. ChainInv => SealedOnCurrentState
  <2> SUFFICES ASSUME ChainInv, NEW r \in Requests, pend[r] # <<>>
               PROVE  /\ holder = r
                      /\ pend[r][1].prev = head.hash
                      /\ \A x \in Records \ Written(r) : view[r][x] = value[x]
    BY DEF SealedOnCurrentState
  <2>1. holder = r /\ pc[r] = "open" /\ seen[r] = LockedHead(r).id
    BY DEF ChainInv, LockInv, LockedHead
  <2>2. 1 \in DOMAIN pend[r]
    BY LastOfEvents DEF ChainInv, TypeOK
  <2> QED BY <2>1, <2>2 DEF ChainInv, PendInv, SnapshotInv
<1> QED BY <1>1, ChainInvariant, PTL

(* Until a row is inserted around the service, a rejection means that      *)
(* another event was committed after the rejected session's snapshot.      *)
THEOREM RejectionMeansOvertaken == Spec => []RejectedOnlyWhenOvertaken
<1>1. ChainInv => RejectedOnlyWhenOvertaken
  <2> SUFFICES ASSUME ChainInv, NEW r \in Requests, pc[r] = "rejected", Untouched
               PROVE  \E i \in DOMAIN log : log[i].id > seen[r]
    BY DEF RejectedOnlyWhenOvertaken
  <2>1. seen[r] < head.id /\ head.id = LastId(log)
    BY DEF ChainInv, RejectInv, VerifiedWhileUntouched, ChainVerified
  <2>2. seen[r] \in Nat /\ log \in Seq(Event)
    BY DEF ChainInv, TypeOK
  <2>3. log # <<>>
    BY <2>1, <2>2 DEF LastId
  <2>4. Len(log) \in DOMAIN log
    BY <2>2, <2>3, LastOfEvents
  <2> QED BY <2>1, <2>2, <2>3, <2>4 DEF LastId
<1> QED BY <1>1, ChainInvariant, PTL

(* No commit sets a record back to an older version.                       *)
THEOREM NoStepBack == Spec => VersionsNeverStepBack
<1>1. ChainInv /\ [Next]_vars => [\A x \in Records : value'[x] >= value[x]]_vars
  <2> SUFFICES ASSUME ChainInv, [Next]_vars, NEW x \in Records
               PROVE  value'[x] >= value[x]
    OBVIOUS
  <2>1. value[x] \in Nat
    BY DEF ChainInv, TypeOK
  <2>2. ASSUME NEW r \in Requests, Commit(r) PROVE value'[x] >= value[x]
    <3>1. CASE x \notin Written(r)
      BY <2>1, <2>2, <3>1 DEF Commit
    <3>2. CASE x \in Written(r)
      <4>1. pend[r] # <<>>
        BY <3>2 DEF Written
      <4>2. pc[r] = "open" /\ seen[r] = LockedHead(r).id
        BY <4>1 DEF ChainInv, LockInv, LockedHead
      <4>3. view[r][x] >= value[x]
        BY <4>2 DEF ChainInv, SnapshotInv
      <4> QED BY <2>2, <3>2, <4>3 DEF Commit
    <3> QED BY <3>1, <3>2
  <2> QED BY <2>1, <2>2 DEF Next, Begin, Append_, Reject, Rollback, RawInsert, vars
<1> QED BY <1>1, ChainInvariant, PTL DEF Spec, VersionsNeverStepBack

(* A session whose snapshot ends in a row inserted around the service      *)
(* never gets its first event accepted: that row is not the head.          *)
THEOREM RawTailBlocks == Spec => UnsealedTailBlocks
<1> DEFINE Blocks == \A r \in Requests : pend[r] = <<>> /\ pend'[r] # <<>> =>
                        \A i \in DOMAIN log : log[i].id = seen[r] => log[i].sealed
<1>1. ChainInv /\ [Next]_vars => [Blocks]_vars
  <2> SUFFICES ASSUME ChainInv, [Next]_vars, NEW r \in Requests,
                      pend[r] = <<>>, pend'[r] # <<>>,
                      NEW i \in DOMAIN log, log[i].id = seen[r]
               PROVE  log[i].sealed
    OBVIOUS
  <2>1. \E q \in Requests, x \in Records : Append_(q, x)
    BY DEF Next, Begin, Reject, Commit, Rollback, RawInsert, vars, ChainInv, TypeOK
  <2>2. PICK q \in Requests, x \in Records : Append_(q, x)
    BY <2>1
  <2>3. q = r
    BY <2>2 DEF Append_, ChainInv, TypeOK
  <2>4. seen[r] = head.id
    BY <2>2, <2>3 DEF Append_, HeadMatches, LockedHead
  <2> QED BY <2>4 DEF ChainInv, HeadInv
<1> QED BY <1>1, ChainInvariant, PTL DEF Spec, UnsealedTailBlocks

-----------------------------------------------------------------------------
(* Leaves reads only the first n events.                                   *)
LEMMA LeavesPrefix ==
  ASSUME NEW s, NEW t, NEW n \in Nat, NEW x, NEW v,
         \A i \in 1 .. n : s[i] = t[i], Leaves(s, n, x, v)
  PROVE  Leaves(t, n, x, v)
<1>1. \A i \in 1 .. n : \A k \in i + 1 .. n : k \in 1 .. n
  OBVIOUS
<1> QED BY <1>1 DEF Leaves

(* One more event leaves its new value in its record, and every other      *)
(* record as it was.                                                       *)
LEMMA LeavesStep ==
  ASSUME NEW s, NEW n \in Nat, NEW x, NEW v,
         IF s[n + 1].rec = x THEN s[n + 1].new = v ELSE Leaves(s, n, x, v)
  PROVE  Leaves(s, n + 1, x, v)
<1>1. CASE s[n + 1].rec = x
  <2>1. n + 1 \in 1 .. n + 1 /\ \A k \in (n + 1) + 1 .. n + 1 : FALSE
    OBVIOUS
  <2> QED BY <1>1, <2>1 DEF Leaves
<1>2. CASE s[n + 1].rec # x
  <2>1. \A i \in 1 .. n + 1 : i \in 1 .. n \/ i = n + 1
    OBVIOUS
  <2>2. CASE v = 0 /\ \A i \in 1 .. n : s[i].rec # x
    BY <1>2, <2>1, <2>2 DEF Leaves
  <2>3. ASSUME NEW i \in 1 .. n, s[i].rec = x, s[i].new = v,
               \A k \in i + 1 .. n : s[k].rec # x
        PROVE  Leaves(s, n + 1, x, v)
    <3>1. i \in 1 .. n + 1
      OBVIOUS
    <3>2. \A k \in i + 1 .. n + 1 : k \in i + 1 .. n \/ k = n + 1
      OBVIOUS
    <3>3. \A k \in i + 1 .. n + 1 : s[k].rec # x
      BY <1>2, <2>3, <3>2
    <3> QED BY <2>3, <3>1, <3>3 DEF Leaves
  <2> QED BY <1>2, <2>2, <2>3 DEF Leaves
<1> QED BY <1>1, <1>2

(* A trail that replays, extended by an event that starts from the value   *)
(* the trail leaves, replays.                                              *)
LEMMA ReplaysAppend ==
  ASSUME NEW s \in Seq(Event), NEW e \in Event, Replays(s),
         e.sealed => Leaves(s, Len(s), e.rec, e.old)
  PROVE  Replays(Append(s, e))
<1> DEFINE a == Append(s, e)
<1>1. /\ Len(s) \in Nat /\ DOMAIN a = 1 .. Len(s) + 1 /\ DOMAIN s = 1 .. Len(s)
      /\ \A i \in 1 .. Len(s) : a[i] = s[i]
      /\ a[Len(s) + 1] = e
  BY AppendFacts
<1> HIDE DEF a
<1>2. ASSUME NEW j \in DOMAIN a, a[j].sealed
      PROVE  Leaves(a, j - 1, a[j].rec, a[j].old)
  <2>1. /\ j - 1 \in Nat
        /\ \A i \in 1 .. j - 1 : i \in 1 .. Len(s)
        /\ j \in DOMAIN s \/ j = Len(s) + 1
    BY <1>1
  <2>2. \A i \in 1 .. j - 1 : s[i] = a[i]
    BY <1>1, <2>1
  <2>3. Leaves(s, j - 1, a[j].rec, a[j].old)
    <3>1. CASE j \in DOMAIN s
      BY <1>1, <1>2, <3>1 DEF Replays
    <3>2. CASE j = Len(s) + 1
      <4>1. j - 1 = Len(s)
        BY <1>1, <3>2
      <4> QED BY <1>1, <1>2, <3>2, <4>1
    <3> QED BY <2>1, <3>1, <3>2
  <2> QED BY <2>1, <2>2, <2>3, LeavesPrefix
<1>3. Replays(a)
  BY <1>2 DEF Replays
<1> QED BY <1>3 DEF a

(* Appending commutes with putting the log in front.                       *)
LEMMA ConcatAppend ==
  ASSUME NEW s \in Seq(Event), NEW t \in Seq(Event), NEW e \in Event
  PROVE  s \o Append(t, e) = Append(s \o t, e)
OBVIOUS

(* What an open session whose latest event is the head has in hand: the    *)
(* log and its own events replay to its view.                              *)
LEMMA SessionTrail ==
  ASSUME ChainInv, TrailInv, TrailExplainsValues, NEW r \in Requests,
         pc[r] = "open", seen[r] = LockedHead(r).id
  PROVE  /\ Replays(log \o pend[r])
         /\ \A x \in Records :
               Leaves(log \o pend[r], Len(log) + Len(pend[r]), x, view[r][x])
<1>1. log \in Seq(Event)
  BY DEF ChainInv, TypeOK
<1>2. CASE pend[r] = <<>>
  <2>1. log \o pend[r] = log /\ Len(log) + Len(pend[r]) = Len(log)
    <3>1. log \o <<>> = log
      BY <1>1, ConcatEmpty
    <3>2. Len(log) \in Nat /\ Len(<<>>) = 0
      BY <1>1
    <3> QED BY <1>2, <3>1, <3>2
  <2>2. \A x \in Records : view[r][x] = value[x]
    BY <1>2 DEF ChainInv, SnapshotInv, Written
  <2> QED BY <2>1, <2>2 DEF TrailExplainsValues
<1>3. CASE pend[r] # <<>>
  BY <1>3 DEF TrailInv
<1> QED BY <1>2, <1>3

(* Appending keeps the session's trail replayable.                         *)
LEMMA AppendKeepsTrail ==
  ASSUME ChainInv, TrailInv, TrailExplainsValues,
         NEW r \in Requests, NEW x \in Records, Append_(r, x)
  PROVE  TrailInv' /\ TrailExplainsValues'
<1> DEFINE e == NewEvent(r, x)
           s == log \o pend[r]
           n == Len(log) + Len(pend[r])
<1>1. /\ log \in Seq(Event) /\ pend[r] \in Seq(Event)
      /\ view[r] \in [Records -> Nat] /\ nextId \in Nat \ {0}
  BY DEF ChainInv, TypeOK
<1>2. e \in Event
  BY <1>1, LockedHeadType DEF ChainInv, NewEvent, Event
<1>3. Replays(s) /\ \A y \in Records : Leaves(s, n, y, view[r][y])
  BY SessionTrail DEF Append_, HeadMatches
<1>4. e.rec = x /\ e.old = view[r][x] /\ e.new = view[r][x] + 1
  BY DEF NewEvent
<1>5. pend'[r] = Append(pend[r], e) /\ log' = log
  BY DEF Append_, ChainInv, TypeOK
<1>6. \A y \in Records : view'[r][y] = IF y = x THEN view[r][x] + 1 ELSE view[r][y]
  BY <1>1 DEF Append_, ChainInv, TypeOK
<1>7. s \in Seq(Event) /\ Len(s) = n /\ n \in Nat
  BY <1>1, ConcatFacts
<1> HIDE DEF e
<1>8. log' \o pend'[r] = Append(s, e)
  BY SMTT(30), <1>1, <1>2, <1>5, ConcatAppend
<1>9. Len(log') + Len(pend'[r]) = n + 1
  BY <1>1, <1>2, <1>5, AppendFacts
<1> HIDE DEF s, n
<1>10. Replays(Append(s, e))
  BY <1>2, <1>3, <1>4, <1>7, ReplaysAppend
<1>11. ASSUME NEW y \in Records
       PROVE  Leaves(Append(s, e), n + 1, y, view'[r][y])
  <2>1. Append(s, e)[n + 1] = e /\ \A i \in 1 .. n : s[i] = Append(s, e)[i]
    BY <1>2, <1>7, AppendFacts
  <2>2. Leaves(Append(s, e), n, y, view[r][y])
    BY <1>3, <1>7, <2>1, LeavesPrefix
  <2>3. CASE y = x
    BY <1>4, <1>6, <1>7, <2>1, <2>3, LeavesStep
  <2>4. CASE y # x
    <3>1. view'[r][y] = view[r][y] /\ e.rec # y
      BY <1>4, <1>6, <2>4
    <3> QED BY <1>7, <2>1, <2>2, <3>1, LeavesStep
  <2> QED BY <2>3, <2>4
<1>12. \A q \in Requests \ {r} : pend'[q] = <<>>
  BY ConstantsAssumption DEF ChainInv, TypeOK, LockInv, Append_
<1>13. TrailInv'
  BY <1>8, <1>9, <1>10, <1>11, <1>12 DEF TrailInv
<1>14. TrailExplainsValues'
  BY DEF TrailExplainsValues, Append_
<1> QED BY <1>13, <1>14

(* Committing makes the session's trail the log and its view the records.  *)
LEMMA CommitKeepsTrail ==
  ASSUME ChainInv, TrailInv, TrailExplainsValues, NEW r \in Requests, Commit(r)
  PROVE  TrailInv' /\ TrailExplainsValues'
<1>1. \A q \in Requests : pend'[q] = IF q = r THEN <<>> ELSE pend[q]
  BY DEF ChainInv, TypeOK, Commit
<1>2. log \in Seq(Event) /\ pend[r] \in Seq(Event)
  BY DEF ChainInv, TypeOK
<1>3. CASE pend[r] = <<>>
  <2>1. log' = log
    BY <1>2, <1>3, ConcatEmpty DEF Commit
  <2>2. value' = value
    BY <1>3 DEF Commit, Written, ChainInv, TypeOK
  <2>3. view' = view
    BY DEF Commit
  <2> QED BY <1>1, <2>1, <2>2, <2>3 DEF TrailInv, TrailExplainsValues
<1>4. CASE pend[r] # <<>>
  <2>1. \A q \in Requests : pend'[q] = <<>>
    BY <1>1, <1>4, ConstantsAssumption DEF ChainInv, LockInv
  <2>2. log' = log \o pend[r] /\ Len(log') = Len(log) + Len(pend[r])
    BY <1>2, ConcatFacts DEF Commit
  <2>3. pc[r] = "open" /\ seen[r] = LockedHead(r).id
    BY <1>4 DEF ChainInv, LockInv, LockedHead
  <2>4. \A x \in Records : value'[x] = view[r][x]
    BY <2>3 DEF ChainInv, SnapshotInv, Commit
  <2>5. TrailInv'
    BY <2>1 DEF TrailInv
  <2>6. TrailExplainsValues'
    BY <1>4, <2>2, <2>4 DEF TrailInv, TrailExplainsValues
  <2> QED BY <2>5, <2>6
<1> QED BY <1>3, <1>4

(* A row inserted around the service is passed over by the replay and is   *)
(* about no record.                                                        *)
LEMMA RawKeepsTrail ==
  ASSUME ChainInv, TrailInv, TrailExplainsValues, RawInsert
  PROVE  TrailInv' /\ TrailExplainsValues'
<1> DEFINE e == [id |-> nextId, sealed |-> FALSE, prev |-> 0, hash |-> 0,
                 rec |-> NoRec, old |-> 0, new |-> 0]
<1>1. log \in Seq(Event) /\ nextId \in Nat \ {0}
  BY DEF ChainInv, TypeOK
<1>2. e \in Event /\ ~e.sealed /\ \A x \in Records : e.rec # x
  BY <1>1, ConstantsAssumption DEF Event
<1>3. log' = Append(log, e) /\ value' = value
  BY DEF RawInsert
<1> HIDE DEF e
<1>4. TrailInv'
  BY DEF TrailInv, RawInsert
<1>5. Replays(log')
  BY <1>1, <1>2, <1>3, ReplaysAppend DEF TrailExplainsValues
<1>6. ASSUME NEW x \in Records
      PROVE  Leaves(log', Len(log'), x, value[x])
  <2>1. /\ Len(log') = Len(log) + 1 /\ Len(log) \in Nat
        /\ \A i \in 1 .. Len(log) : log[i] = log'[i]
        /\ log'[Len(log) + 1] = e
    BY <1>1, <1>2, <1>3, AppendFacts
  <2>2. Leaves(log, Len(log), x, value[x])
    BY DEF TrailExplainsValues
  <2>3. Leaves(log', Len(log), x, value[x])
    BY <2>1, <2>2, LeavesPrefix
  <2>4. log'[Len(log) + 1].rec # x
    BY <1>2, <2>1
  <2>5. Leaves(log', Len(log) + 1, x, value[x])
    BY <2>1, <2>3, <2>4, LeavesStep
  <2> QED BY <2>1, <2>5
<1> QED BY <1>3, <1>4, <1>5, <1>6 DEF TrailExplainsValues

(* The trail explains the records: replaying the log from the start gives, *)
(* before every event, the value the event says it replaced, and at the    *)
(* end the committed value of every record.                                *)
THEOREM TrailReplays == Spec => []TrailExplainsValues
<1> DEFINE Inv == TrailInv /\ TrailExplainsValues
<1>1. Init => Inv
  <2> SUFFICES ASSUME Init PROVE Inv
    OBVIOUS
  <2>1. Len(log) = 0 /\ DOMAIN log = {}
    BY DEF Init
  <2> QED BY <2>1 DEF Init, TrailInv, TrailExplainsValues, Replays, Leaves
<1>2. Inv /\ ChainInv /\ [Next]_vars => Inv'
  <2> SUFFICES ASSUME Inv, ChainInv, [Next]_vars PROVE Inv'
    OBVIOUS
  <2>1. CASE UNCHANGED vars
    BY <2>1 DEF vars, TrailInv, TrailExplainsValues
  <2>2. ASSUME NEW r \in Requests, Begin(r) PROVE Inv'
    BY <2>2 DEF Begin, TrailInv, TrailExplainsValues, ChainInv, TypeOK, LockInv
  <2>3. ASSUME NEW r \in Requests, NEW x \in Records, Append_(r, x) PROVE Inv'
    BY <2>3, AppendKeepsTrail
  <2>4. ASSUME NEW r \in Requests, Reject(r) PROVE Inv'
    BY <2>4 DEF Reject, TrailInv, TrailExplainsValues
  <2>5. ASSUME NEW r \in Requests, Commit(r) PROVE Inv'
    BY <2>5, CommitKeepsTrail
  <2>6. ASSUME NEW r \in Requests, Rollback(r) PROVE Inv'
    <3>1. \A q \in Requests : pend'[q] # <<>> => pend'[q] = pend[q]
      BY <2>6 DEF Rollback, ChainInv, TypeOK
    <3> QED BY <2>6, <3>1 DEF Rollback, TrailInv, TrailExplainsValues
  <2>7. CASE RawInsert
    BY <2>7, RawKeepsTrail
  <2> QED BY <2>1, <2>2, <2>3, <2>4, <2>5, <2>6, <2>7 DEF Next
<1> QED BY <1>1, <1>2, ChainInvariant, PTL DEF Spec

-----------------------------------------------------------------------------
(* A receipt is in one registered booklet at most, and it is assigned if   *)
(* it is in one.                                                           *)
OneBooklet == \A s : \A a, b \in books : s \in SerialsOf(a) /\ s \in SerialsOf(b) => a = b

LEMMA BookletsDisjoint ==
  ASSUME BooksInv
  PROVE  OneBooklet
BY DEF BooksInv, OneBooklet

LEMMA AssignedToOne ==
  ASSUME OneBooklet, NEW p, Assigned(p)
  PROVE  \E b \in books :
            /\ Candidates(p) = {b} /\ row[p].or \in SerialsOf(b)
            /\ Owner(p) = b.owner /\ Issued(p) = b.issued
<1>1. Candidates(p) # {}
  <2> SUFFICES ASSUME Candidates(p) = {} PROVE FALSE
    OBVIOUS
  <2>1. Cardinality(Candidates(p)) = 0
    BY FS_EmptySet
  <2> QED BY <2>1 DEF Assigned
<1>2. PICK b \in books : row[p].or \in SerialsOf(b)
  BY <1>1 DEF Candidates
<1>3. Candidates(p) = {b}
  BY Zenon, <1>2 DEF Candidates, OneBooklet
<1>4. (CHOOSE x \in Candidates(p) : TRUE) = b
  <2>1. ASSUME NEW S, S = {b} PROVE (CHOOSE x \in S : TRUE) = b
    BY <2>1
  <2> QED BY Zenon, <1>3, <2>1
<1> QED BY Zenon, <1>2, <1>3, <1>4 DEF Owner, Issued

LEMMA OneIsAssigned ==
  ASSUME OneBooklet, NEW p, NEW b \in books, row[p].or \in SerialsOf(b)
  PROVE  Assigned(p)
<1>1. Candidates(p) = {b}
  BY Zenon DEF Candidates, OneBooklet
<1> QED BY Zenon, <1>1, FS_Singleton DEF Assigned

LEMMA Parts ==
  ASSUME RcdInv
  PROVE  /\ RcdTypeOK /\ Windows /\ LedgerInv /\ BooksInv /\ ReviewInv /\ JobInv /\ ReleaseInv
         /\ OneBooklet
         /\ DOMAIN row = Payments /\ DOMAIN job = Clerks /\ DOMAIN preview = Clerks
         /\ DOMAIN review = Clerks
         /\ \A q \in Rows(Payments) : q \in Payments /\ row[q] \in Receipt
         /\ audits \in Nat /\ nextP \in Nat
<1>1. /\ RcdTypeOK /\ Windows /\ LedgerInv /\ BooksInv /\ ReviewInv /\ JobInv /\ ReleaseInv
      /\ OneBooklet
  BY Zenon, BookletsDisjoint DEF RcdInv
<1>2. DOMAIN job = Clerks /\ DOMAIN preview = Clerks /\ DOMAIN review = Clerks
  BY Zenon, <1>1 DEF Windows
<1>3. row \in [Payments -> Receipt \cup {None}] /\ nextP \in Nat /\ audits \in Nat
  BY <1>1, RcdAssumption DEF RcdTypeOK
<1>4. \A q \in Rows(Payments) : q \in Payments /\ row[q] \in Receipt
  BY Zenon, <1>3 DEF Rows
<1> QED BY Zenon, <1>1, <1>2, <1>3, <1>4

-----------------------------------------------------------------------------
(* What is already released stays so.                                      *)

(* The releases there will be are among those there are.                   *)
NoNewRelease == Releases' \subseteq Releases

LEMMA SameReleases ==
  ASSUME exports' = exports, job' = job
  PROVE  Releases' = Releases
BY DEF Releases, Idle, Release

(* No audited change: rows only come, at new ids.                          *)
OnlyPosts ==
    /\ audits' = audits /\ touched' = touched /\ UNCHANGED register
    /\ nextP <= nextP' /\ nextP' \in Nat
    /\ \A p \in Payments : row'[p] = row[p] \/ p = nextP

(* Where only postings happen, a report that was current still misses      *)
(* nothing else.                                                           *)
LEMMA OwnBefore ==
  ASSUME RcdInv, OnlyPosts, NEW n \in Nat, n <= nextP, NEW officer, NEW day
  PROVE  {p \in Own(officer, day)' : p < n} = {p \in Own(officer, day) : p < n}
<1>1. ASSUME NEW p \in Payments, p < n PROVE row'[p] = row[p]
  <2>1. p # nextP
    BY <1>1, Parts DEF Payments
  <2> QED BY <2>1 DEF OnlyPosts
<1>2. books' = books
  BY DEF OnlyPosts, register
<1>3. ASSUME NEW p \in Payments, row'[p] = row[p]
      PROVE  p \in Own(officer, day)' <=> p \in Own(officer, day)
  <2>1. Candidates(p)' = Candidates(p)
    BY Zenon, <1>2, <1>3 DEF Candidates
  <2>2. (Assigned(p)' <=> Assigned(p)) /\ Owner(p)' = Owner(p) /\ Issued(p)' = Issued(p)
    BY Zenon, <2>1 DEF Assigned, Owner, Issued
  <2>3. p \in DayRows(day)' <=> p \in DayRows(day)
    BY Zenon, <1>3 DEF DayRows, Rows
  <2> QED BY Zenon, <2>2, <2>3 DEF Own, Dated
<1>4. Own(officer, day)' \subseteq Payments /\ Own(officer, day) \subseteq Payments
  BY Zenon DEF Own, Dated, DayRows, Rows
<1> QED BY Zenon, <1>1, <1>3, <1>4

LEMMA CurrentStays ==
  ASSUME RcdInv, OnlyPosts, NEW n \in Nat, n <= nextP, NEW report, Current(report, n)
  PROVE  Current(report, n)'
<1>0. books' = books
  BY DEF OnlyPosts, register
<1> DEFINE Old == {p \in Own(report.scope.officer, report.scope.day) : p < n}
           New == {p \in Own(report.scope.officer, report.scope.day)' : p < n}
<1>1. New = Old
  BY Zenon, OwnBefore
<1>2. ASSUME NEW p \in Old PROVE row'[p] = row[p]
  <2>1. p \in Payments /\ p < n
    BY Zenon DEF Own, Dated, DayRows, Rows
  <2>2. p # nextP
    BY <2>1, Parts DEF Payments
  <2> QED BY Zenon, <2>1, <2>2 DEF OnlyPosts
<1>3. report.receipts = {[id |-> p, or |-> row[p].or, amount |-> row[p].amount] : p \in Old}
  BY Zenon DEF Current, Listing
<1>4. {[id |-> p, or |-> row[p].or, amount |-> row[p].amount] : p \in Old}
        = {[id |-> p, or |-> row'[p].or, amount |-> row'[p].amount] : p \in Old}
  <2> HIDE DEF Old
  <2> QED BY <1>2
<1>5. report.receipts = {[id |-> p, or |-> row'[p].or, amount |-> row'[p].amount] : p \in New}
  <2> HIDE DEF Old, New
  <2> QED BY Zenon, <1>1, <1>3, <1>4
<1>6. report.stock = {b \in books' : b.owner = report.scope.officer /\ b.issued <= report.scope.day}
  BY Zenon, <1>0 DEF Current
<1> QED BY Zenon, <1>5, <1>6 DEF Current, Listing

LEMMA UncontradictedStays ==
  ASSUME RcdInv, OnlyPosts, NEW n \in Nat, n <= nextP, NEW stock, NEW day,
         Uncontradicted(stock, day, n)
  PROVE  Uncontradicted(stock, day, n)'
<1>1. ASSUME NEW p \in Payments, p \in Rows(Payments)', ~(p >= n)
      PROVE  p \in Rows(Payments) /\ row'[p] = row[p]
  <2>1. p # nextP
    BY <1>1, Parts DEF Payments
  <2>2. row'[p] = row[p]
    BY Zenon, <2>1 DEF OnlyPosts
  <2> QED BY Zenon, <1>1, <2>2 DEF Rows
<1>2. Rows(Payments)' \subseteq Payments
  BY Zenon DEF Rows
<1>3. Available(stock)' = Available(stock)
  BY Zenon DEF Available, Union, SerialsOf
<1> QED BY Zenon, <1>1, <1>2, <1>3 DEF Uncontradicted

-----------------------------------------------------------------------------
(* What JobInv says of one window.                                         *)
JobKept(c) ==
    ~Idle(c) =>
        /\ job[c].seen \in Nat /\ job[c].seen <= audits
        /\ job[c].nextP \in Nat /\ job[c].nextP <= nextP
        /\ job[c].report.scope.day \in Days
        /\ job[c].report.signature = job[c].review.of
        /\ HeadSeen(c) =>
              /\ Current(job[c].report, job[c].nextP)
              /\ Uncontradicted(job[c].review.stock, job[c].report.scope.day, job[c].nextP)

LEMMA JobInvIs ==
  /\ JobInv <=> \A c \in Clerks : JobKept(c)
  /\ JobInv' <=> \A c \in Clerks : JobKept(c)'
BY Zenon DEF JobInv, JobKept

(* Under postings, an export that waits is as good as it was.              *)
LEMMA JobStays ==
  ASSUME RcdInv, OnlyPosts, NEW c \in Clerks, job'[c] = job[c]
  PROVE  JobKept(c)'
<1> SUFFICES ASSUME ~Idle(c) PROVE JobKept(c)'
  BY Zenon DEF JobKept, Idle
<1>1. JobKept(c)
  BY Zenon, Parts, JobInvIs
<1> DEFINE j == job[c]
<1>2. /\ j.seen \in Nat /\ j.seen <= audits
      /\ j.nextP \in Nat /\ j.nextP <= nextP
      /\ j.report.scope.day \in Days
      /\ j.report.signature = j.review.of
  BY Zenon, <1>1 DEF JobKept
<1>3. audits' = audits /\ nextP' \in Nat /\ nextP <= nextP' /\ nextP \in Nat
  BY Parts DEF OnlyPosts
<1>4. j.nextP <= nextP'
  <2> HIDE DEF j
  <2> QED BY <1>2, <1>3
<1>5. ASSUME NEW report, NEW n \in Nat, NEW stock, n <= nextP,
             report = j.report, n = j.nextP, stock = j.review.stock, HeadSeen(c)
      PROVE  Current(report, n)' /\ Uncontradicted(stock, report.scope.day, n)'
  <2>1. Current(report, n) /\ Uncontradicted(stock, report.scope.day, n)
    BY Zenon, <1>1, <1>5 DEF JobKept
  <2> QED BY Zenon, <1>5, <2>1, CurrentStays, UncontradictedStays
<1>6. HeadSeen(c)' => HeadSeen(c)
  BY Zenon, <1>3 DEF HeadSeen
<1>7. HeadSeen(c)' => Current(job[c].report, job[c].nextP)'
  BY ZenonT(30), <1>2, <1>5, <1>6 DEF Current, Listing
<1>8. HeadSeen(c)' => Uncontradicted(job[c].review.stock, job[c].report.scope.day, job[c].nextP)'
  BY Zenon, <1>2, <1>5, <1>6 DEF Uncontradicted, Rows
<1>9. job[c].seen' = j.seen /\ job[c].nextP' = j.nextP /\ (job[c].report)' = j.report
      /\ (job[c].review)' = j.review
  OBVIOUS
<1> QED BY Zenon, <1>2, <1>3, <1>4, <1>7, <1>8, <1>9 DEF JobKept

(* After an audited change, its head is no longer the newest.              *)
LEMMA JobOutdated ==
  ASSUME RcdInv, NEW c \in Clerks, job'[c] = job[c], audits' = audits + 1, nextP' = nextP
  PROVE  JobKept(c)'
<1> SUFFICES ASSUME ~Idle(c) PROVE JobKept(c)'
  BY Zenon DEF JobKept, Idle
<1>1. JobKept(c)
  BY Zenon, Parts, JobInvIs
<1> DEFINE j == job[c]
<1>2. /\ j.seen \in Nat /\ j.seen <= audits
      /\ j.nextP \in Nat /\ j.nextP <= nextP
      /\ j.report.scope.day \in Days
      /\ j.report.signature = j.review.of
  BY Zenon, <1>1 DEF JobKept
<1>3. j.seen <= audits' /\ j.seen # audits'
  <2> HIDE DEF j
  <2> QED BY <1>2, Parts
<1>4. ~HeadSeen(c)'
  BY Zenon, <1>3 DEF HeadSeen
<1> QED BY Zenon, <1>2, <1>3, <1>4 DEF JobKept

-----------------------------------------------------------------------------
(* What was released stays accounted for while booklets only come and do   *)
(* not overlap.                                                            *)
LEMMA AccountedStays ==
  ASSUME NEW e, AccountedFor(e), books \subseteq books', BooksInv'
  PROVE  AccountedFor(e)'
<1>1. OneBooklet'
  BY Zenon DEF BooksInv, OneBooklet
<1>2. ASSUME NEW s \in e.receipts
      PROVE  \E b \in books' : b.owner = e.scope.officer /\ {x \in books' : s \in SerialsOf(x)} = {b}
  <2>1. PICK b \in books : b.owner = e.scope.officer /\ {x \in books : s \in SerialsOf(x)} = {b}
    BY Zenon, <1>2 DEF AccountedFor
  <2>2. b \in books' /\ s \in SerialsOf(b)
    BY Zenon, <2>1
  <2>3. ASSUME NEW x \in books', s \in SerialsOf(x) PROVE x = b
    BY Zenon, <1>1, <2>2, <2>3 DEF OneBooklet
  <2>4. {x \in books' : s \in SerialsOf(x)} = {b}
    BY Zenon, <2>2, <2>3
  <2> QED BY Zenon, <2>1, <2>2, <2>4
<1> QED BY Zenon, <1>2 DEF AccountedFor

(* Postings take no receipt from its day.                                  *)
LEMMA DatedStays ==
  ASSUME RcdInv, OnlyPosts, NEW e, StillDated(e)
  PROVE  StillDated(e)'
<1>1. ASSUME NEW d, NEW p \in DayRows(d) PROVE p \in DayRows(d)' /\ row'[p] = row[p]
  <2>1. p \in Payments /\ p \in Rows(Payments) /\ row[p] # None
    BY Zenon DEF DayRows, Rows
  <2>2. p < nextP
    BY Zenon, <2>1, Parts DEF LedgerInv
  <2>3. p # nextP
    BY <2>1, <2>2, Parts DEF Payments
  <2>4. row'[p] = row[p]
    BY Zenon, <2>1, <2>3 DEF OnlyPosts
  <2> QED BY Zenon, <2>1, <2>4 DEF DayRows, Rows
<1>2. touched' = touched
  BY Zenon DEF OnlyPosts
<1> QED BY Zenon, <1>1, <1>2 DEF StillDated

(* An edit or deletion counts for the receipts it touches.                 *)
LEMMA DatedAfterChange ==
  ASSUME RcdInv, NEW p \in Payments, NEW x \in Receipts \cup {None}, Change(p, x),
         NEW e, StillDated(e)
  PROVE  StillDated(e)'
<1>1. /\ touched \in [Serials -> Nat] /\ p \in Payments
      /\ touched' = [s \in Serials |->
            touched[s] + (IF s = row[p].or \/ (x # None /\ s = x.or) THEN 1 ELSE 0)]
      /\ row' = [row EXCEPT ![p] = x]
  BY Parts DEF RcdTypeOK, Change
<1>2. ASSUME NEW s \in Serials
      PROVE  /\ touched[s] \in Nat /\ touched'[s] \in Nat /\ touched[s] <= touched'[s]
             /\ touched'[s] = touched[s] => s # row[p].or
  <2>1. touched[s] \in Nat
    BY <1>1
  <2>2. touched'[s] = touched[s] + (IF s = row[p].or \/ (x # None /\ s = x.or) THEN 1 ELSE 0)
    BY Zenon, <1>1
  <2> QED BY <2>1, <2>2
<1>3. e.receipts \subseteq Serials /\ e.touched \in [Serials -> Nat]
  BY Zenon DEF StillDated
<1>4. ASSUME NEW s \in e.receipts
      PROVE  /\ e.touched[s] <= touched'[s]
             /\ e.touched[s] = touched'[s] => \E q \in DayRows(e.scope.day)' : row'[q].or = s
  <2>1. s \in Serials /\ e.touched[s] \in Nat
    BY Zenon, <1>3
  <2>2. e.touched[s] <= touched[s]
    BY Zenon DEF StillDated
  <2>3. touched[s] \in Nat /\ touched'[s] \in Nat /\ touched[s] <= touched'[s]
    BY Zenon, <1>2, <2>1
  <2>4. e.touched[s] <= touched'[s]
    BY <2>1, <2>2, <2>3
  <2>5. ASSUME e.touched[s] = touched'[s]
        PROVE  \E q \in DayRows(e.scope.day)' : row'[q].or = s
    <3>1. e.touched[s] = touched[s] /\ touched'[s] = touched[s]
      BY <2>1, <2>2, <2>3, <2>5
    <3>2. PICK q \in DayRows(e.scope.day) : row[q].or = s
      BY Zenon, <3>1 DEF StillDated
    <3>3. q # p
      BY Zenon, <1>2, <2>1, <3>1, <3>2
    <3>4. q \in Payments /\ DOMAIN row = Payments
      BY Zenon, Parts DEF DayRows, Rows
    <3>5. row'[q] = row[q]
      BY Zenon, <1>1, <3>3, <3>4
    <3> QED BY Zenon, <3>2, <3>5 DEF DayRows, Rows
  <2> QED BY Zenon, <2>4, <2>5
<1> QED BY Zenon, <1>1, <1>2, <1>3, <1>4 DEF StillDated

LEMMA ReleasesStay ==
  ASSUME RcdInv, NoNewRelease,
         \A e \in Releases : AccountedFor(e)' /\ StillDated(e)'
  PROVE  ReleaseInv'
<1>1. \A e, f \in Releases : Compatible(e, f)
  BY Zenon, Parts DEF ReleaseInv
<1> QED BY Zenon, <1>1 DEF ReleaseInv, NoNewRelease, Compatible

LEMMA ReleasesUnderPosts ==
  ASSUME RcdInv, OnlyPosts, NoNewRelease
  PROVE  ReleaseInv'
<1>1. books' = books
  BY DEF OnlyPosts, register
<1>2. BooksInv'
  BY Zenon, <1>1, Parts DEF BooksInv
<1>3. \A e \in Releases : AccountedFor(e)' /\ StillDated(e)'
  BY Zenon, <1>1, <1>2, Parts, AccountedStays, DatedStays DEF ReleaseInv
<1> QED BY Zenon, <1>3, ReleasesStay

LEMMA JobsUnderPosts ==
  ASSUME RcdInv, OnlyPosts, job' = job
  PROVE  JobInv'
BY Zenon, JobStays, JobInvIs

LEMMA JobsAfterAudit ==
  ASSUME RcdInv, audits' = audits + 1, nextP' = nextP, job' = job
  PROVE  JobInv'
BY Zenon, JobOutdated, JobInvIs

-----------------------------------------------------------------------------
(* The window.                                                             *)

(* What a step of a window leaves of the rest.                             *)
LEMMA NothingElse ==
  ASSUME RcdInv, UNCHANGED <<register, ledger, audits>>
  PROVE  OnlyPosts /\ LedgerInv' /\ BooksInv'
<1>1. /\ officers' = officers /\ books' = books /\ row' = row /\ nextP' = nextP
      /\ touched' = touched /\ audits' = audits
  BY DEF register, ledger
<1>2. nextP' \in Nat /\ nextP <= nextP'
  BY <1>1, Parts
<1>3. OnlyPosts
  BY <1>1, <1>2 DEF OnlyPosts, register
<1>4. LedgerInv'
  BY Zenon, <1>1, Parts DEF LedgerInv, Rows
<1>5. BooksInv'
  BY Zenon, <1>1, Parts DEF BooksInv
<1> QED BY <1>3, <1>4, <1>5

(* Types of what only its window changes.                                  *)
LEMMA TypeKept ==
  ASSUME RcdInv, JobInv', UNCHANGED <<register, ledger, audits>>,
         rates' \in DOMAIN Policies, sel' \in [Clerks -> [officer : officers, day : Days]]
  PROVE  RcdTypeOK'
<1>1. \A c \in Clerks : (job[c] # None => job[c].seen \in Nat /\ job[c].report.scope.day \in Days)'
  BY Zenon DEF JobInv, Idle
<1>2. /\ officers' = officers /\ books' = books /\ row' = row /\ nextP' = nextP
      /\ touched' = touched /\ audits' = audits
  BY DEF register, ledger
<1> QED BY Zenon, <1>1, <1>2, Parts DEF RcdTypeOK

LEMMA SelectPreserves ==
  ASSUME RcdInv, NEW c \in Clerks, NEW s \in [officer : Officers, day : Days], Select(c, s)
  PROVE  RcdInv'
<1>1. OnlyPosts /\ LedgerInv' /\ BooksInv'
  BY NothingElse DEF Select
<1>2. JobInv'
  BY <1>1, JobsUnderPosts DEF Select
<1>3. ReleaseInv'
  BY <1>1, ReleasesUnderPosts, SameReleases DEF NoNewRelease, Select
<1>4. s \in [officer : officers, day : Days]
  BY DEF Select
<1>5. sel' \in [Clerks -> [officer : officers, day : Days]] /\ rates' \in DOMAIN Policies
  BY <1>4, Parts DEF RcdTypeOK, Select
<1>6. RcdTypeOK'
  BY <1>2, <1>5, TypeKept DEF Select
<1>7. /\ preview' = [preview EXCEPT ![c] = None] /\ review' = [review EXCEPT ![c] = None]
      /\ job' = job
  BY DEF Select, Invalidate
<1>8. Windows'
  BY <1>7, Parts DEF Windows
<1>9. ReviewInv'
  BY <1>7, Parts DEF ReviewInv
<1> QED BY Zenon, <1>1, <1>2, <1>3, <1>6, <1>8, <1>9 DEF RcdInv

LEMMA LoadPreserves ==
  ASSUME RcdInv, NEW c \in Clerks, Load(c)
  PROVE  RcdInv'
<1>1. OnlyPosts /\ LedgerInv' /\ BooksInv'
  BY NothingElse DEF Load
<1>2. JobInv'
  BY <1>1, JobsUnderPosts DEF Load
<1>3. ReleaseInv'
  BY <1>1, ReleasesUnderPosts, SameReleases DEF NoNewRelease, Load
<1>4. RcdTypeOK'
  BY <1>2, TypeKept, Parts DEF RcdTypeOK, Load
<1>5. PICK r : preview' = [preview EXCEPT ![c] = r] /\ review' = [review EXCEPT ![c] = None]
               /\ job' = job
  BY Zenon DEF Load
<1>6. Windows'
  BY <1>5, Parts DEF Windows
<1>7. ReviewInv'
  BY <1>5, Parts DEF ReviewInv
<1> QED BY Zenon, <1>1, <1>2, <1>3, <1>4, <1>6, <1>7 DEF RcdInv

LEMMA ReviewPreserves ==
  ASSUME RcdInv, NEW c \in Clerks, Review(c)
  PROVE  RcdInv'
<1>1. OnlyPosts /\ LedgerInv' /\ BooksInv'
  BY NothingElse DEF Review
<1>2. JobInv'
  BY <1>1, JobsUnderPosts DEF Review
<1>3. ReleaseInv'
  BY <1>1, ReleasesUnderPosts, SameReleases DEF NoNewRelease, Review
<1>4. RcdTypeOK'
  BY <1>2, TypeKept, Parts DEF RcdTypeOK, Review
<1>5. PICK s : /\ review' = [review EXCEPT ![c] = [stock |-> s, of |-> preview[c].signature]]
               /\ preview' = preview /\ job' = job
  BY Zenon DEF Review
<1>6. Windows'
  BY <1>5, Parts DEF Windows
<1>7. ReviewInv'
  BY <1>5, Parts DEF ReviewInv
<1> QED BY Zenon, <1>1, <1>2, <1>3, <1>4, <1>6, <1>7 DEF RcdInv

(* Nothing of what an aborted export did remains.                          *)
LEMMA FailPreserves ==
  ASSUME RcdInv, NEW c \in Clerks, Fail(c)
  PROVE  RcdInv'
<1>1. OnlyPosts /\ LedgerInv' /\ BooksInv'
  BY NothingElse DEF Fail
<1>2. /\ job' = [job EXCEPT ![c] = None] /\ exports' = exports
      /\ preview' = preview /\ review' = review /\ sel' = sel /\ rates' = rates
  BY DEF Fail, Finish, window
<1>3. DOMAIN job = Clerks
  BY Parts
<1>4. ASSUME NEW d \in Clerks PROVE IF d = c THEN Idle(d)' ELSE job'[d] = job[d]
  BY Zenon, <1>2, <1>3 DEF Idle
<1>5. JobInv'
  <2>1. ASSUME NEW d \in Clerks PROVE JobKept(d)'
    <3>1. CASE d = c
      BY Zenon, <1>4, <3>1 DEF JobKept
    <3>2. CASE d # c
      BY Zenon, <1>1, <1>4, <3>2, JobStays
    <3> QED BY <3>1, <3>2
  <2> QED BY Zenon, <2>1, JobInvIs
<1>6. NoNewRelease
  BY <1>2, <1>4 DEF NoNewRelease, Releases, Release, Idle
<1>7. ReleaseInv'
  BY <1>1, <1>6, ReleasesUnderPosts
<1>8. RcdTypeOK'
  BY <1>2, <1>5, TypeKept, Parts DEF RcdTypeOK, Fail
<1>9. Windows'
  BY <1>2, Parts DEF Windows
<1>10. ReviewInv'
  BY <1>2, Parts DEF ReviewInv
<1> QED BY Zenon, <1>1, <1>5, <1>7, <1>8, <1>9, <1>10 DEF RcdInv

-----------------------------------------------------------------------------
(* The rest of the office.                                                 *)
LEMMA SetRatesPreserves ==
  ASSUME RcdInv, SetRates
  PROVE  RcdInv'
<1>1. OnlyPosts /\ LedgerInv' /\ BooksInv'
  BY NothingElse DEF SetRates, Others
<1>2. JobInv'
  BY <1>1, JobsUnderPosts DEF SetRates, Others
<1>3. ReleaseInv'
  BY <1>1, ReleasesUnderPosts, SameReleases DEF NoNewRelease, SetRates, Others
<1>4. rates' \in DOMAIN Policies
  <2>1. Policies \in Seq([basic : Nat, sef : Nat \ {0}]) /\ rates \in DOMAIN Policies
    BY RcdAssumption, Parts DEF RcdTypeOK
  <2>2. rates \in Nat /\ rates >= 1 /\ Len(Policies) \in Nat /\ DOMAIN Policies = 1 .. Len(Policies)
    BY <2>1
  <2>3. rates < Len(Policies) /\ rates' = rates + 1
    BY DEF SetRates
  <2> QED BY <2>2, <2>3
<1>5. preview' = preview /\ review' = review /\ job' = job /\ sel' = sel
  BY DEF SetRates, Others, window
<1>6. RcdTypeOK'
  <2>1. UNCHANGED <<register, ledger, audits>>
    BY DEF SetRates, Others
  <2>2. sel' \in [Clerks -> [officer : officers, day : Days]]
    BY <1>5, Parts DEF RcdTypeOK
  <2> QED BY Zenon, <1>2, <1>4, <2>1, <2>2, TypeKept
<1>7. Windows'
  BY <1>5, Parts DEF Windows
<1>8. ReviewInv'
  BY <1>5, Parts DEF ReviewInv
<1> QED BY Zenon, <1>1, <1>2, <1>3, <1>6, <1>7, <1>8 DEF RcdInv

LEMMA PostPreserves ==
  ASSUME RcdInv, NEW x \in Receipts, Post(x)
  PROVE  RcdInv'
<1>1. /\ nextP <= MaxPay /\ row' = [row EXCEPT ![nextP] = x] /\ nextP' = nextP + 1
      /\ touched' = touched /\ rates' = rates /\ audits' = audits
      /\ officers' = officers /\ books' = books /\ sel' = sel /\ preview' = preview
      /\ review' = review /\ job' = job /\ exports' = exports
  BY DEF Post, Others, register, window
<1>2. /\ row \in [Payments -> Receipt \cup {None}] /\ nextP \in 1 .. MaxPay + 1
      /\ nextP \in Nat /\ MaxPay \in Nat /\ x \in Receipt
  BY RcdAssumption, Parts DEF RcdTypeOK
<1>3. nextP \in Payments /\ nextP' \in 1 .. MaxPay + 1 /\ nextP' \in Nat /\ nextP <= nextP'
  BY <1>1, <1>2 DEF Payments
<1>4. row' \in [Payments -> Receipt \cup {None}]
  BY <1>1, <1>2
<1>5. \A p \in Payments : row'[p] = row[p] \/ p = nextP
  BY Zenon, <1>1, <1>2
<1>6. OnlyPosts
  BY Zenon, <1>1, <1>3, <1>5 DEF OnlyPosts, register
<1>7. LedgerInv'
  <2> SUFFICES ASSUME NEW p \in Payments, row'[p] # None PROVE p < nextP'
    BY Zenon DEF LedgerInv, Rows
  <2>1. p = nextP \/ p < nextP
    BY Zenon, <1>5, Parts DEF LedgerInv, Rows
  <2> QED BY <1>1, <1>2, <2>1 DEF Payments
<1>8. BooksInv'
  BY Zenon, <1>1, Parts DEF BooksInv
<1>9. JobInv'
  BY Zenon, <1>1, <1>6, JobsUnderPosts
<1>10. ReleaseInv'
  BY Zenon, <1>1, <1>6, ReleasesUnderPosts, SameReleases DEF NoNewRelease
<1>11. RcdTypeOK'
  <2>1. \A c \in Clerks : (job[c] # None => job[c].seen \in Nat /\ job[c].report.scope.day \in Days)'
    BY Zenon, <1>9 DEF JobInv, Idle
  <2> QED BY Zenon, <1>1, <1>3, <1>4, <2>1, Parts DEF RcdTypeOK
<1>12. Windows' /\ ReviewInv'
  BY <1>1, Parts DEF Windows, ReviewInv
<1> QED BY Zenon, <1>7, <1>8, <1>9, <1>10, <1>11, <1>12 DEF RcdInv

LEMMA ChangePreserves ==
  ASSUME RcdInv, NEW p \in Payments, NEW x \in Receipts \cup {None}, Change(p, x)
  PROVE  RcdInv'
<1>1. /\ row[p] # None /\ row' = [row EXCEPT ![p] = x] /\ audits' = audits + 1
      /\ touched' = [s \in Serials |->
            touched[s] + (IF s = row[p].or \/ (x # None /\ s = x.or) THEN 1 ELSE 0)]
      /\ nextP' = nextP /\ rates' = rates
      /\ officers' = officers /\ books' = books /\ sel' = sel /\ preview' = preview
      /\ review' = review /\ job' = job /\ exports' = exports
  BY DEF Change, Audited, Others, register, window
<1>2. /\ row \in [Payments -> Receipt \cup {None}] /\ touched \in [Serials -> Nat]
      /\ x \in Receipt \cup {None} /\ audits \in Nat
  BY RcdAssumption, Parts DEF RcdTypeOK
<1>3. row' \in [Payments -> Receipt \cup {None}]
  BY <1>1, <1>2
<1>4. touched' \in [Serials -> Nat] /\ audits' \in Nat
  BY <1>1, <1>2
<1>5. LedgerInv'
  BY Zenon, <1>1, <1>2, Parts DEF LedgerInv, Rows
<1>6. BooksInv'
  BY Zenon, <1>1, Parts DEF BooksInv
<1>7. JobInv'
  BY Zenon, <1>1, JobsAfterAudit
<1>8. ReleaseInv'
  <2>1. \A e \in Releases : AccountedFor(e)' /\ StillDated(e)'
    BY Zenon, <1>1, <1>6, Parts, AccountedStays, DatedAfterChange DEF ReleaseInv
  <2> QED BY Zenon, <1>1, <2>1, ReleasesStay, SameReleases DEF NoNewRelease
<1>9. RcdTypeOK'
  <2>1. \A c \in Clerks : (job[c] # None => job[c].seen \in Nat /\ job[c].report.scope.day \in Days)'
    BY Zenon, <1>7 DEF JobInv, Idle
  <2> QED BY Zenon, <1>1, <1>3, <1>4, <2>1, Parts DEF RcdTypeOK
<1>10. Windows' /\ ReviewInv'
  BY <1>1, Parts DEF Windows, ReviewInv
<1> QED BY Zenon, <1>5, <1>6, <1>7, <1>8, <1>9, <1>10 DEF RcdInv

-----------------------------------------------------------------------------
(* Registrations.                                                          *)
LEMMA RegisteredKeeps ==
  ASSUME RcdInv, NEW c \in Clerks, Registered(c), books \subseteq books', BooksInv'
  PROVE  LedgerInv' /\ JobInv' /\ ReleaseInv' /\ Windows' /\ ReviewInv'
<1>1. /\ audits' = audits + 1
      /\ row' = row /\ nextP' = nextP /\ touched' = touched /\ job' = job /\ exports' = exports
      /\ \/ preview' = [preview EXCEPT ![c] = None] /\ review' = [review EXCEPT ![c] = None]
         \/ preview' = preview /\ review' = review
  BY DEF Registered, Audited, Invalidate, ledger
<1>2. LedgerInv'
  BY Zenon, <1>1, Parts DEF LedgerInv, Rows
<1>3. JobInv'
  BY Zenon, <1>1, JobsAfterAudit
<1>4. ReleaseInv'
  <2>1. ASSUME NEW e \in Releases PROVE StillDated(e)'
    <3>1. StillDated(e)
      BY Zenon, Parts DEF ReleaseInv
    <3> QED BY Zenon, <1>1, <3>1 DEF StillDated, DayRows, Rows
  <2>2. \A e \in Releases : AccountedFor(e)'
    BY Zenon, Parts, AccountedStays DEF ReleaseInv
  <2> QED BY Zenon, <1>1, <2>1, <2>2, ReleasesStay, SameReleases DEF NoNewRelease
<1>5. Windows' /\ ReviewInv'
  BY <1>1, Parts DEF Windows, ReviewInv
<1> QED BY <1>2, <1>3, <1>4, <1>5

LEMMA RegisterOfficerPreserves ==
  ASSUME RcdInv, NEW c \in Clerks, NEW o \in Officers, RegisterOfficer(c, o)
  PROVE  RcdInv'
<1>1. /\ officers' = officers \cup {o} /\ books' = books /\ audits' = audits + 1
      /\ row' = row /\ nextP' = nextP /\ touched' = touched /\ rates' = rates /\ sel' = sel
      /\ Registered(c)
  BY DEF RegisterOfficer, Registered, Audited, ledger
<1>2. BooksInv'
  BY Zenon, <1>1, Parts DEF BooksInv
<1>3. LedgerInv' /\ JobInv' /\ ReleaseInv' /\ Windows' /\ ReviewInv'
  BY Zenon, <1>1, <1>2, RegisteredKeeps
<1>4. audits' \in Nat /\ officers' \subseteq Officers
  BY <1>1, Parts DEF RcdTypeOK
<1>5. sel' \in [Clerks -> [officer : officers', day : Days]]
  BY <1>1, Parts DEF RcdTypeOK
<1>6. RcdTypeOK'
  <2>1. \A d \in Clerks : (job[d] # None => job[d].seen \in Nat /\ job[d].report.scope.day \in Days)'
    BY Zenon, <1>3 DEF JobInv, Idle
  <2> QED BY Zenon, <1>1, <1>4, <1>5, <2>1, Parts DEF RcdTypeOK
<1> QED BY Zenon, <1>2, <1>3, <1>6 DEF RcdInv

(* The overlap test finds every common serial.                             *)
LEMMA OverlapsFinds ==
  ASSUME NEW b \in Booklet, books \subseteq Booklet, ~Overlaps(b)
  PROVE  \A x \in books : SerialsOf(x) \cap SerialsOf(b) = {}
<1> SUFFICES ASSUME NEW x \in books, NEW s, s \in SerialsOf(x), s \in SerialsOf(b) PROVE FALSE
  OBVIOUS
<1>1. BookLen \in Nat /\ NSerials \in Nat
  BY RcdAssumption
<1>2. x.first \in Int /\ b.first \in Int
  BY <1>1 DEF Booklet
<1>3. s \in Int /\ x.first <= s /\ s <= x.first + BookLen - 1
      /\ b.first <= s /\ s <= b.first + BookLen - 1
  BY <1>1, <1>2 DEF SerialsOf
<1>4. ~(x.first <= b.first + BookLen - 1 /\ x.first + BookLen - 1 >= b.first)
  BY Zenon DEF Overlaps
<1> QED BY <1>1, <1>2, <1>3, <1>4

LEMMA RegisterBookletPreserves ==
  ASSUME RcdInv, NEW c \in Clerks, NEW b \in Registrable, RegisterBooklet(c, b)
  PROVE  RcdInv'
<1>1. /\ officers' = officers /\ books' = books \cup {b} /\ audits' = audits + 1
      /\ row' = row /\ nextP' = nextP /\ touched' = touched /\ rates' = rates /\ sel' = sel
      /\ Registered(c) /\ ~Overlaps(b)
  BY DEF RegisterBooklet, Registered, Audited, ledger
<1>2. books \subseteq Booklet /\ b \in Booklet
  BY RcdAssumption, Parts DEF RcdTypeOK
<1>3. \A x \in books : SerialsOf(x) \cap SerialsOf(b) = {}
  BY Zenon, <1>1, <1>2, OverlapsFinds
<1>4. BooksInv'
  <2>1. ASSUME NEW x \in books', NEW y \in books', SerialsOf(x) \cap SerialsOf(y) # {} PROVE x = y
    BY Zenon, <1>1, <1>3, <2>1, Parts DEF BooksInv
  <2> QED BY Zenon, <2>1 DEF BooksInv, SerialsOf
<1>5. LedgerInv' /\ JobInv' /\ ReleaseInv' /\ Windows' /\ ReviewInv'
  BY Zenon, <1>1, <1>4, RegisteredKeeps
<1>6. audits' \in Nat /\ books' \subseteq Booklet
  BY <1>1, <1>2, Parts
<1>7. RcdTypeOK'
  <2>1. \A d \in Clerks : (job[d] # None => job[d].seen \in Nat /\ job[d].report.scope.day \in Days)'
    BY Zenon, <1>5 DEF JobInv, Idle
  <2> QED BY Zenon, <1>1, <1>6, <2>1, Parts DEF RcdTypeOK
<1> QED BY Zenon, <1>4, <1>5, <1>7 DEF RcdInv

-----------------------------------------------------------------------------
(* An export that commits was one that might be: nothing new is released,  *)
(* and no other waiting export has the newest head.                        *)
LEMMA ExportPreserves ==
  ASSUME RcdInv, NEW c \in Clerks, Export(c)
  PROVE  RcdInv'
<1>1. /\ ~Idle(c) /\ audits' = audits + 1 /\ job' = [job EXCEPT ![c] = None]
      /\ exports' = exports \cup {Release(job[c])}
      /\ row' = row /\ nextP' = nextP /\ touched' = touched /\ rates' = rates
      /\ officers' = officers /\ books' = books
      /\ sel' = sel /\ preview' = preview /\ review' = review
  BY DEF Export, Audited, Finish, Release, register, ledger, window
<1>2. DOMAIN job = Clerks
  BY Parts
<1>3. ASSUME NEW d \in Clerks PROVE IF d = c THEN Idle(d)' ELSE job'[d] = job[d]
  BY Zenon, <1>1, <1>2 DEF Idle
<1>4. JobInv'
  <2>1. ASSUME NEW d \in Clerks PROVE JobKept(d)'
    <3>1. CASE d = c
      BY Zenon, <1>3, <3>1 DEF JobKept
    <3>2. CASE d # c
      BY Zenon, <1>1, <1>3, <3>2, JobOutdated
    <3> QED BY <3>1, <3>2
  <2> QED BY Zenon, <2>1, JobInvIs
<1>5. NoNewRelease
  <2> SUFFICES ASSUME NEW e \in Releases' PROVE e \in Releases
    BY DEF NoNewRelease
  <2>1. CASE e \in exports'
    BY Zenon, <1>1, <2>1 DEF Releases
  <2>2. CASE e \notin exports'
    <3>1. PICK d \in Clerks : ~Idle(d)' /\ e = Release(job'[d])
      BY Zenon, <2>2 DEF Releases, Release
    <3>2. d # c /\ job'[d] = job[d]
      BY Zenon, <1>3, <3>1
    <3> QED BY Zenon, <3>1, <3>2 DEF Releases, Idle
  <2> QED BY <2>1, <2>2
<1>6. BooksInv' /\ LedgerInv'
  BY Zenon, <1>1, Parts DEF BooksInv, LedgerInv, Rows
<1>7. ReleaseInv'
  <2>1. ASSUME NEW e \in Releases PROVE StillDated(e)'
    <3>1. StillDated(e)
      BY Zenon, Parts DEF ReleaseInv
    <3> QED BY Zenon, <1>1, <3>1 DEF StillDated, DayRows, Rows
  <2>2. \A e \in Releases : AccountedFor(e)'
    BY Zenon, <1>1, <1>6, Parts, AccountedStays DEF ReleaseInv
  <2> QED BY Zenon, <1>5, <2>1, <2>2, ReleasesStay
<1>8. RcdTypeOK'
  <2>1. \A d \in Clerks : (job[d] # None => job[d].seen \in Nat /\ job[d].report.scope.day \in Days)'
    BY Zenon, <1>4 DEF JobInv, Idle
  <2>2. audits' \in Nat
    BY <1>1, Parts
  <2> QED BY Zenon, <1>1, <2>1, <2>2, Parts DEF RcdTypeOK
<1>9. Windows' /\ ReviewInv'
  BY <1>1, Parts DEF Windows, ReviewInv
<1> QED BY Zenon, <1>4, <1>6, <1>7, <1>8, <1>9 DEF RcdInv

-----------------------------------------------------------------------------
(* A new export.                                                           *)

(* A report without issues lists all of the officer's receipts of the day. *)
LEMMA FreshReport ==
  ASSUME RcdInv, NEW s, ~Report(s).issues
  PROVE  /\ Report(s).scope = s /\ Reused(s.day) = {}
         /\ Paid(Report(s)) = {row[p].or : p \in Own(s.officer, s.day)}
         /\ Current(Report(s), nextP)
<1> DEFINE own == Own(s.officer, s.day)
<1>1. /\ Report(s).scope = s
      /\ Report(s).receipts = Listing({p \in own : row[p].amount \notin Unclear})
      /\ Report(s).stock = {b \in books : b.owner = s.officer /\ b.issued <= s.day}
      /\ Report(s).issues = HasIssues(s.officer, s.day)
  BY DEF Report
<1>2. Reused(s.day) = {} /\ \A p \in own : row[p].amount \notin Unclear
  BY Zenon, <1>1 DEF HasIssues
<1>3. {p \in own : row[p].amount \notin Unclear} = own
  BY Zenon, <1>2
<1>4. Report(s).receipts = Listing(own)
  BY Zenon, <1>1, <1>3
<1>5. Paid(Report(s)) = {row[p].or : p \in own}
  <2>1. ASSUME NEW p \in own PROVE \E x \in Listing(own) : x.or = row[p].or
    <3> DEFINE x == [id |-> p, or |-> row[p].or, amount |-> row[p].amount]
    <3>1. x.or = row[p].or
      OBVIOUS
    <3>2. x \in Listing(own)
      BY Zenon DEF Listing
    <3> HIDE DEF x
    <3> QED BY Zenon, <3>1, <3>2
  <2>2. ASSUME NEW x \in Listing(own) PROVE \E p \in own : x.or = row[p].or
    <3> HIDE DEF own
    <3>1. PICK p \in own : x = [id |-> p, or |-> row[p].or, amount |-> row[p].amount]
      BY Zenon DEF Listing
    <3>2. x.or = row[p].or
      BY <3>1
    <3> QED BY Zenon, <3>2
  <2>3. Paid(Report(s)) = {x.or : x \in Listing(own)}
    BY Zenon, <1>4 DEF Paid
  <2> HIDE DEF own
  <2> QED BY <2>1, <2>2, <2>3
<1>6. {p \in own : p < nextP} = own
  <2>1. \A p \in own : p \in Rows(Payments)
    BY Zenon DEF Own, Dated, DayRows
  <2> QED BY Zenon, <2>1, Parts DEF LedgerInv
<1>7. Current(Report(s), nextP)
  BY Zenon, <1>1, <1>4, <1>6 DEF Current
<1> QED BY Zenon, <1>1, <1>2, <1>5, <1>7

(* Without conflicts, nothing contradicts the stock yet.                   *)
LEMMA NoConflicts ==
  ASSUME RcdInv, NEW stock, NEW day \in Days, Conflicts(stock, day) = {}
  PROVE  Uncontradicted(stock, day, nextP)
<1>1. ASSUME NEW p \in Rows(Payments), row[p].or \in Available(stock)
      PROVE  row[p].or \notin stock.cancelled /\ row[p].day >= day
  <2>1. row[p].or \notin stock.cancelled /\ ~(row[p].day < day)
    BY Zenon, <1>1 DEF Conflicts
  <2>2. row[p].day \in Days /\ NDays \in Nat
    BY RcdAssumption, Parts DEF Receipt
  <2> QED BY <2>1, <2>2 DEF Days
<1> QED BY Zenon, <1>1 DEF Uncontradicted

(* What the report would release is accounted for, dated, and of another   *)
(* day than any other release of a receipt unless the receipt's payments   *)
(* were touched between the two.                                           *)
LEMMA NewRelease ==
  ASSUME RcdInv, NEW s, s.day \in Days, ~Report(s).issues,
         NEW r, r = [scope |-> s, receipts |-> Paid(Report(s)), touched |-> touched]
  PROVE  /\ AccountedFor(r) /\ StillDated(r) /\ Compatible(r, r)
         /\ \A e \in Releases : Compatible(e, r) /\ Compatible(r, e)
<1>0. r.scope = s /\ r.receipts = Paid(Report(s)) /\ r.touched = touched
  OBVIOUS
<1>1. r.receipts = {row[p].or : p \in Own(s.officer, s.day)} /\ Reused(s.day) = {}
  BY Zenon, <1>0, FreshReport
<1>2. ASSUME NEW x \in r.receipts
      PROVE  \E p \in DayRows(s.day) : row[p].or = x /\ Assigned(p) /\ Owner(p) = s.officer
  BY Zenon, <1>1 DEF Own, Dated
<1>3. AccountedFor(r)
  <2>1. ASSUME NEW x \in r.receipts
        PROVE  \E b \in books : b.owner = s.officer /\ {y \in books : x \in SerialsOf(y)} = {b}
    <3>1. PICK p \in DayRows(s.day) : row[p].or = x /\ Assigned(p) /\ Owner(p) = s.officer
      BY Zenon, <1>2
    <3>2. PICK b \in books : Candidates(p) = {b} /\ Owner(p) = b.owner
      BY Zenon, <3>1, Parts, AssignedToOne
    <3> QED BY Zenon, <3>1, <3>2 DEF Candidates
  <2> QED BY Zenon, <1>0, <2>1 DEF AccountedFor
<1>4. StillDated(r)
  <2>1. touched \in [Serials -> Nat]
    BY Zenon, Parts DEF RcdTypeOK
  <2>2. ASSUME NEW x \in r.receipts PROVE x \in Serials
    <3>1. PICK p \in DayRows(s.day) : row[p].or = x
      BY Zenon, <1>2
    <3>2. row[p] \in Receipt
      BY Zenon, Parts DEF DayRows
    <3> QED BY <3>1, <3>2 DEF Receipt
  <2>3. \A x \in Serials : touched[x] <= touched[x]
    BY <2>1
  <2> QED BY Zenon, <1>0, <1>2, <2>1, <2>2, <2>3 DEF StillDated
<1>5. ASSUME NEW e \in Releases, NEW x \in e.receipts, x \in r.receipts,
             e.scope.day # s.day
      PROVE  e.touched[x] # touched[x]
  <2> SUFFICES ASSUME e.touched[x] = touched[x] PROVE FALSE
    OBVIOUS
  <2>1. PICK q \in DayRows(e.scope.day) : row[q].or = x
    BY Zenon, <1>5, Parts DEF ReleaseInv, StillDated
  <2>2. PICK p \in DayRows(s.day) : row[p].or = x /\ Assigned(p)
    BY Zenon, <1>2, <1>5
  <2>3. q \in Rows(Payments) /\ row[q].day # s.day
    BY Zenon, <1>5, <2>1 DEF DayRows
  <2>4. q \in Reused(s.day)
    BY Zenon, <2>1, <2>2, <2>3 DEF Reused
  <2> QED BY Zenon, <1>1, <2>4
<1>6. Compatible(r, r)
  BY Zenon DEF Compatible
<1>7. ASSUME NEW e \in Releases PROVE Compatible(e, r) /\ Compatible(r, e)
  BY Zenon, <1>0, <1>5 DEF Compatible
<1> QED BY <1>3, <1>4, <1>6, <1>7

LEMMA AskExportPreserves ==
  ASSUME RcdInv, NEW c \in Clerks, AskExport(c)
  PROVE  RcdInv'
<1>1. OnlyPosts /\ LedgerInv' /\ BooksInv'
  BY NothingElse DEF AskExport
<1>2. /\ exports' = exports /\ preview' = preview /\ review' = review /\ sel' = sel
      /\ rates' = rates /\ books' = books
  BY DEF AskExport, window, register
<1> DEFINE report == Report(sel[c])
           j == [seen |-> audits, nextP |-> nextP, touched |-> touched,
                 report |-> report, review |-> review[c]]
           r == [scope |-> sel[c], receipts |-> Paid(report), touched |-> touched]
<1>3. /\ Idle(c) /\ job' = [job EXCEPT ![c] = j]
      /\ review[c] # None /\ report.signature = preview[c].signature
      /\ ~report.issues
      /\ Conflicts(review[c].stock, sel[c].day) = {}
  BY Zenon DEF AskExport, Exportable, Unchanged
<1>4. sel[c] \in [officer : officers, day : Days] /\ DOMAIN job = Clerks
  BY Zenon, Parts DEF RcdTypeOK
<1>5. sel[c].day \in Days
  BY <1>4
<1>6. job'[c] = j /\ \A d \in Clerks : d # c => job'[d] = job[d]
  BY Zenon, <1>3, <1>4
<1>7. /\ j.seen = audits /\ j.nextP = nextP /\ j.touched = touched
      /\ j.report = report /\ j.review = review[c]
  BY Zenon
<1>8. /\ report.scope = sel[c] /\ Current(report, nextP)
      /\ Uncontradicted(review[c].stock, sel[c].day, nextP)
  BY Zenon, <1>3, <1>5, FreshReport, NoConflicts
<1>9. report.signature = review[c].of
  BY Zenon, <1>3, Parts DEF ReviewInv
<1> HIDE DEF report, j, r
<1>10. JobInv'
  <2>1. ASSUME NEW d \in Clerks, d # c PROVE JobKept(d)'
    BY Zenon, <1>1, <1>6, <2>1, JobStays
  <2>2. nextP \in Nat /\ audits \in Nat /\ nextP <= nextP /\ audits <= audits
        /\ nextP' = nextP /\ audits' = audits
    BY Parts DEF AskExport, ledger
  <2>3. ASSUME NEW rep, NEW n \in Nat, NEW stock, NEW day,
               rep = report, n = nextP, stock = review[c].stock, day = sel[c].day
        PROVE  Current(rep, n)' /\ Uncontradicted(stock, day, n)'
    BY Zenon, <1>1, <1>8, <2>2, <2>3, CurrentStays, UncontradictedStays
  <2>4. Current(job[c].report, job[c].nextP)'
    BY Zenon, <1>6, <1>7, <2>2, <2>3 DEF Current, Listing
  <2>5. Uncontradicted(job[c].review.stock, job[c].report.scope.day, job[c].nextP)'
    BY Zenon, <1>6, <1>7, <1>8, <2>2, <2>3 DEF Uncontradicted, Rows
  <2>6. JobKept(c)'
    BY Zenon, <1>5, <1>6, <1>7, <1>8, <1>9, <2>2, <2>4, <2>5 DEF JobKept
  <2> QED BY Zenon, <2>1, <2>6, JobInvIs
<1>11. \A e \in Releases' : e \in Releases \/ e = r
  <2>1. Release(j) = r
    BY Zenon, <1>7, <1>8 DEF Release, r
  <2>2. ASSUME NEW e \in Releases', e \notin exports PROVE e \in Releases \/ e = r
    <3>1. PICK d \in Clerks : ~Idle(d)' /\ e = Release(job'[d])
      BY Zenon, <1>2, <2>2 DEF Releases, Release
    <3> QED BY Zenon, <1>6, <2>1, <3>1 DEF Releases, Idle
  <2> QED BY Zenon, <2>2 DEF Releases
<1>12. ReleaseInv'
  <2>1. /\ AccountedFor(r) /\ StillDated(r) /\ Compatible(r, r)
        /\ \A e \in Releases : Compatible(e, r) /\ Compatible(r, e)
    BY Zenon, <1>3, <1>5, NewRelease DEF r, report
  <2>2. ASSUME NEW e, AccountedFor(e), StillDated(e) PROVE AccountedFor(e)' /\ StillDated(e)'
    BY Zenon, <1>1, <1>2, <2>2, AccountedStays, DatedStays
  <2>3. \A e \in Releases' : AccountedFor(e)' /\ StillDated(e)'
    BY Zenon, <1>11, <2>1, <2>2, Parts DEF ReleaseInv
  <2>4. \A e, f \in Releases' : Compatible(e, f)
    BY Zenon, <1>11, <2>1, Parts DEF ReleaseInv
  <2> QED BY Zenon, <2>3, <2>4 DEF ReleaseInv, Compatible
<1>13. RcdTypeOK'
  BY <1>2, <1>10, TypeKept, Parts DEF RcdTypeOK, AskExport
<1>14. Windows'
  BY <1>2, <1>3, Parts DEF Windows
<1>15. ReviewInv'
  BY <1>2, Parts DEF ReviewInv
<1> QED BY Zenon, <1>1, <1>10, <1>12, <1>13, <1>14, <1>15 DEF RcdInv

-----------------------------------------------------------------------------
(* Together.                                                               *)
LEMMA RcdInvInit == RcdInit => RcdInv
<1> SUFFICES ASSUME RcdInit PROVE RcdInv
  OBVIOUS
<1>1. /\ officers = Known /\ books = Books /\ row = [p \in Payments |-> None] /\ nextP = 1
      /\ rates = 1 /\ audits = 0 /\ touched = [s \in Serials |-> 0]
      /\ sel \in [Clerks -> [officer : Known, day : Days]]
      /\ preview = [c \in Clerks |-> None] /\ review = [c \in Clerks |-> None]
      /\ job = [c \in Clerks |-> None] /\ exports = {}
  BY DEF RcdInit
<1>2. /\ \A c \in Clerks : Idle(c) /\ review[c] = None
      /\ Rows(Payments) = {} /\ Releases = {}
  BY <1>1 DEF Idle, Rows, Releases
<1>3. RcdTypeOK
  <2>1. nextP \in 1 .. MaxPay + 1 /\ rates \in DOMAIN Policies
    <3>1. MaxPay \in Nat /\ Policies \in Seq([basic : Nat, sef : Nat \ {0}]) /\ Policies # <<>>
      BY RcdAssumption
    <3> QED BY <1>1, <3>1
  <2>2. row \in [Payments -> Receipt \cup {None}] /\ touched \in [Serials -> Nat] /\ audits \in Nat
    BY <1>1
  <2>3. officers \subseteq Officers /\ books \subseteq Booklet
    BY <1>1, RcdAssumption
  <2>4. sel \in [Clerks -> [officer : officers, day : Days]]
    BY Zenon, <1>1
  <2> QED BY Zenon, <1>2, <2>1, <2>2, <2>3, <2>4 DEF RcdTypeOK, Idle
<1>4. Windows
  BY <1>1 DEF Windows
<1>5. BooksInv
  BY Zenon, <1>1, RcdAssumption DEF BooksInv
<1>6. LedgerInv /\ ReviewInv /\ JobInv /\ ReleaseInv
  BY Zenon, <1>2 DEF LedgerInv, ReviewInv, JobInv, ReleaseInv
<1> QED BY <1>3, <1>4, <1>5, <1>6 DEF RcdInv

LEMMA RcdStutterPreserves ==
  ASSUME RcdInv, UNCHANGED rcdVars
  PROVE  RcdInv'
<1>1. OnlyPosts /\ LedgerInv' /\ BooksInv'
  BY NothingElse DEF rcdVars
<1>2. /\ preview' = preview /\ review' = review /\ sel' = sel /\ job' = job
      /\ exports' = exports /\ rates' = rates /\ UNCHANGED <<register, ledger, audits>>
  BY DEF rcdVars, window
<1>3. JobInv'
  BY Zenon, <1>1, <1>2, JobsUnderPosts
<1>4. ReleaseInv'
  BY Zenon, <1>1, <1>2, ReleasesUnderPosts, SameReleases DEF NoNewRelease
<1>5. RcdTypeOK'
  BY Zenon, <1>2, <1>3, TypeKept, Parts DEF RcdTypeOK
<1>6. Windows' /\ ReviewInv'
  BY <1>2, Parts DEF Windows, ReviewInv
<1> QED BY Zenon, <1>1, <1>3, <1>4, <1>5, <1>6 DEF RcdInv

LEMMA RcdInvStep == RcdInv /\ [RcdNext]_rcdVars => RcdInv'
<1> SUFFICES ASSUME RcdInv, [RcdNext]_rcdVars PROVE RcdInv'
  OBVIOUS
<1>1. CASE UNCHANGED rcdVars
  BY <1>1, RcdStutterPreserves
<1>2. ASSUME NEW c \in Clerks, NEW s \in [officer : Officers, day : Days], Select(c, s)
      PROVE  RcdInv'
  BY Zenon, <1>2, SelectPreserves
<1>3. ASSUME NEW c \in Clerks, Load(c) PROVE RcdInv'
  BY Zenon, <1>3, LoadPreserves
<1>4. ASSUME NEW c \in Clerks, Review(c) PROVE RcdInv'
  BY Zenon, <1>4, ReviewPreserves
<1>5. ASSUME NEW c \in Clerks, AskExport(c) PROVE RcdInv'
  BY Zenon, <1>5, AskExportPreserves
<1>6. ASSUME NEW c \in Clerks, Export(c) PROVE RcdInv'
  BY Zenon, <1>6, ExportPreserves
<1>7. ASSUME NEW c \in Clerks, Fail(c) PROVE RcdInv'
  BY Zenon, <1>7, FailPreserves
<1>8. ASSUME NEW c \in Clerks, NEW o \in Officers, RegisterOfficer(c, o) PROVE RcdInv'
  BY Zenon, <1>8, RegisterOfficerPreserves
<1>9. ASSUME NEW c \in Clerks, NEW b \in Registrable, RegisterBooklet(c, b) PROVE RcdInv'
  BY Zenon, <1>9, RegisterBookletPreserves
<1>10. ASSUME NEW x \in Receipts, Post(x) PROVE RcdInv'
  BY Zenon, <1>10, PostPreserves
<1>11. ASSUME NEW p \in Payments, NEW x \in Receipts \cup {None}, Change(p, x) PROVE RcdInv'
  BY Zenon, <1>11, ChangePreserves
<1>12. CASE SetRates
  BY <1>12, SetRatesPreserves
<1> QED
  BY Zenon, <1>1, <1>2, <1>3, <1>4, <1>5, <1>6, <1>7, <1>8, <1>9, <1>10, <1>11, <1>12
  DEF RcdNext

(* Only its own commit ends an export with an audit event.                 *)
LEMMA ExportingIsExport ==
  ASSUME RcdInv, [RcdNext]_rcdVars, NEW c \in Clerks, Exporting(c)
  PROVE  Export(c)
<1>1. job[c] # None /\ job'[c] = None /\ audits' # audits
  BY Zenon DEF Exporting, Idle
<1>2. ~UNCHANGED rcdVars /\ ~SetRates /\ \A x \in Receipts : ~Post(x)
  BY <1>1 DEF rcdVars, SetRates, Post
<1>3. \A p \in Payments, x \in Receipts \cup {None} : ~Change(p, x)
  BY <1>1 DEF Change, Others
<1>4. \A d \in Clerks : /\ ~Load(d) /\ ~Review(d) /\ ~AskExport(d) /\ ~Fail(d)
                        /\ \A s \in [officer : Officers, day : Days] : ~Select(d, s)
  BY <1>1 DEF Load, Review, AskExport, Fail, Select
<1>5. \A d \in Clerks : /\ \A o \in Officers : ~RegisterOfficer(d, o)
                        /\ \A b \in Registrable : ~RegisterBooklet(d, b)
  BY <1>1 DEF RegisterOfficer, RegisterBooklet, Registered
<1>6. ASSUME NEW d \in Clerks, Export(d) PROVE d = c
  <2>1. job' = [job EXCEPT ![d] = None] /\ DOMAIN job = Clerks
    BY Zenon, <1>6, Parts DEF Export, Finish
  <2> QED BY Zenon, <1>1, <2>1
<1> QED BY Zenon, <1>2, <1>3, <1>4, <1>5, <1>6 DEF RcdNext

(* The inductive invariant holds: what waits for its commit is as good as  *)
(* what was exported (export_reviewed_daily up to log_action).             *)
THEOREM RcdInvHolds == RcdSpec => []RcdInv
BY RcdInvInit, RcdInvStep, PTL DEF RcdSpec

(* Types hold in every reachable state of the register, the ledger and the *)
(* windows: whatever is posted, edited, registered or selected.            *)
THEOREM RcdTypeCorrect == RcdSpec => []RcdTypeOK
<1>1. RcdInv => RcdTypeOK
  BY Zenon DEF RcdInv
<1> QED BY <1>1, RcdInvHolds, PTL

(* A receipt once exported stays in exactly one booklet, of the officer it *)
(* was exported for (create_booklet's overlap search under the lock).      *)
THEOREM ExportedStayAccountedHolds == RcdSpec => []ExportedStayAccounted
<1>1. RcdInv => ExportedStayAccounted
  BY Zenon, Parts DEF ReleaseInv, Releases, AccountedFor, ExportedStayAccounted
<1> QED BY <1>1, RcdInvHolds, PTL

(* Two exported reports of different days list one receipt only if one of  *)
(* its payments was edited or deleted between them (the search of          *)
(* build_daily_rcd for other dates, and the audit head of the commit).     *)
THEOREM OneDayPerReceiptHolds == RcdSpec => []OneDayPerReceipt
<1>1. RcdInv => OneDayPerReceipt
  BY Zenon, Parts DEF ReleaseInv, Releases, Compatible, OneDayPerReceipt
<1> QED BY <1>1, RcdInvHolds, PTL

(* What is exported is what the clerk had on the screen when reviewing     *)
(* (export_reviewed_daily compares signatures).                            *)
THEOREM ExportedAsReviewedHolds == RcdSpec => ExportedAsReviewed
<1>1. ASSUME RcdInv, [RcdNext]_rcdVars, NEW c \in Clerks, Exporting(c)
      PROVE  job[c].report.signature = job[c].review.of
  BY Zenon, <1>1, Parts DEF JobInv, Exporting
<1>2. RcdInv /\ [RcdNext]_rcdVars =>
        [\A c \in Clerks : Exporting(c) => job[c].report.signature = job[c].review.of]_rcdVars
  BY Zenon, <1>1
<1> QED BY <1>2, RcdInvHolds, PTL DEF RcdSpec, ExportedAsReviewed

(* When an export commits, only a payment posted since it began can be     *)
(* missing from the report or contradict its stock (the head compared by   *)
(* log_action).                                                            *)
THEOREM ExportMissesOnlyPostingsHolds == RcdSpec => ExportMissesOnlyPostings
<1>1. ASSUME RcdInv, [RcdNext]_rcdVars, NEW c \in Clerks, Exporting(c)
      PROVE  /\ Current(job[c].report, job[c].nextP)
             /\ Uncontradicted(job[c].review.stock, job[c].report.scope.day, job[c].nextP)
  <2>1. ~Idle(c) /\ HeadSeen(c)
    BY Zenon, <1>1, ExportingIsExport DEF Export
  <2> QED BY Zenon, <1>1, <2>1, Parts DEF JobInv
<1>2. RcdInv /\ [RcdNext]_rcdVars =>
        [\A c \in Clerks :
            Exporting(c) =>
               /\ Current(job[c].report, job[c].nextP)
               /\ Uncontradicted(job[c].review.stock, job[c].report.scope.day, job[c].nextP)]_rcdVars
  BY Zenon, <1>1
<1> QED BY <1>2, RcdInvHolds, PTL DEF RcdSpec, ExportMissesOnlyPostings

-----------------------------------------------------------------------------
(* The checks of a reviewed export.                                        *)
(* What the checks of one receipt add up to.                               *)
LEMMA UsedIsSum == ASSUME NEW f, NEW i PROVE Used(f, i) = SumOver(f, 1 .. i)
BY DEF Used, SumOver

PolicyRecord == [basic : Nat, sef : Nat \ {0}]

LEMMA ChecksAddUp ==
  ASSUME NEW policy \in PolicyRecord, NEW amount \in Nat \ {0}, NEW legs \in Legs(amount)
  PROVE  LET basic == [i \in DOMAIN legs |-> BasicPart(policy, amount, legs, i)]
             checks == Used(legs, Len(legs))
             inBasic == Used(basic, Len(legs))
         IN  /\ \A i \in DOMAIN legs : basic[i] \in 0 .. legs[i]
             /\ inBasic <= BasicOf(policy, amount)
             /\ checks - inBasic <= amount - BasicOf(policy, amount)
<1> DEFINE B == BasicOf(policy, amount)
           basic == [i \in DOMAIN legs |-> BasicPart(policy, amount, legs, i)]
           part(u) == AssignedBasic(policy, amount, u)
<1>1. PICK n \in 1 .. MaxLegs : legs \in [1 .. n -> 1 .. amount]
  BY DEF Legs
<1>2. n \in Nat /\ DOMAIN legs = 1 .. n /\ Len(legs) = n
  BY <1>1, RcdAssumption
<1>3. B \in 0 .. amount
  <2>1. policy.basic \in Nat /\ policy.sef \in Nat \ {0}
    BY DEF PolicyRecord
  <2> QED BY <2>1, PartFits DEF BasicOf
<1>4. ASSUME NEW u \in Nat, NEW w \in Nat
      PROVE  part(u) \in Nat /\ part(u) <= part(u + w) /\ part(u + w) <= part(u) + w
  <2> HIDE DEF B
  <2>1. /\ HalfUp(u * B, amount) \in Nat
        /\ HalfUp(u * B, amount) <= HalfUp((u + w) * B, amount)
        /\ HalfUp((u + w) * B, amount) <= HalfUp(u * B, amount) + w
    BY <1>3, PartGrows
  <2> QED BY <2>1 DEF AssignedBasic, B
<1>5. part(0) = 0 /\ part(amount) = B
  <2> HIDE DEF B
  <2>1. HalfUp(0 * B, amount) = 0 /\ HalfUp(amount * B, amount) = B
    BY <1>3, PartOfNothing, PartOfAll
  <2> QED BY <2>1 DEF AssignedBasic, B
<1> HIDE DEF B, part
<1>14. \A u \in Nat : part(u) \in Nat
  <2> TAKE u \in Nat
  <2>1. 0 \in Nat
    OBVIOUS
  <2> QED BY <1>4, <2>1
<1> DEFINE S(i) == SumOver(legs, 1 .. i)
<1>6. /\ S(0) = 0
      /\ \A i \in 1 .. n : S(i) = S(i - 1) + legs[i]
      /\ \A i \in 0 .. n : S(i) \in Nat
  <2>1. \A i \in 1 .. n : legs[i] \in Int
    BY <1>1
  <2>2. /\ SumOver(legs, 1 .. 0) = 0
        /\ \A i \in 1 .. n : SumOver(legs, 1 .. i) = SumOver(legs, 1 .. (i - 1)) + legs[i]
    BY <1>2, <2>1, SumUpTo
  <2>3. ASSUME NEW i \in 0 .. n PROVE SumOver(legs, 1 .. i) \in Nat
    <3>1. IsFiniteSet(1 .. i)
      BY FS_Interval
    <3>2. \A x \in 1 .. i : legs[x] \in Nat
      BY <1>1
    <3> QED BY <3>1, <3>2, SumTypes
  <2> QED BY <2>2, <2>3
<1>7. S(n) <= amount
  BY <1>2, UsedIsSum DEF Legs
<1>8. \A i \in 1 .. n : basic[i] = part(S(i)) - part(S(i - 1))
  BY <1>2, UsedIsSum DEF BasicPart, part
<1> HIDE DEF S
<1>9. ASSUME NEW i \in DOMAIN legs PROVE basic[i] \in 0 .. legs[i]
  <2>1. i \in 1 .. n /\ i - 1 \in 0 .. n
    BY <1>2
  <2>2. legs[i] \in Nat /\ S(i - 1) \in Nat /\ S(i) = S(i - 1) + legs[i]
    BY <1>1, <1>6, <2>1
  <2>3. /\ part(S(i - 1)) \in Nat /\ part(S(i)) \in Nat
        /\ part(S(i - 1)) <= part(S(i)) /\ part(S(i)) <= part(S(i - 1)) + legs[i]
    <3>1. part(S(i - 1)) \in Nat /\ part(S(i)) \in Nat
      <4>1. S(i) \in Nat
        BY <1>6, <2>1
      <4> QED BY <1>14, <2>2, <4>1
    <3>2. /\ part(S(i - 1)) <= part(S(i - 1) + legs[i])
          /\ part(S(i - 1) + legs[i]) <= part(S(i - 1)) + legs[i]
      BY <1>4, <2>2
    <3> QED BY <2>2, <3>1, <3>2
  <2>4. basic[i] = part(S(i)) - part(S(i - 1))
    BY <1>8, <2>1
  <2> HIDE DEF basic
  <2> QED BY <2>2, <2>3, <2>4
<1>10. SumOver(basic, 1 .. n) = part(S(n))
  <2> DEFINE h == [i \in 0 .. n |-> part(S(i))]
  <2>1. \A i \in 0 .. n : h[i] \in Int
    BY <1>14, <1>6
  <2>2. \A i \in 1 .. n : basic[i] = h[i] - h[i - 1]
    <3>1. \A i \in 1 .. n : i \in 0 .. n /\ i - 1 \in 0 .. n
      BY <1>2
    <3> HIDE DEF basic
    <3> QED BY <1>8, <3>1
  <2>3. h[n] = part(S(n)) /\ h[0] = 0
    BY <1>2, <1>5, <1>6
  <2>4. SumOver(basic, 1 .. n) = h[n] - h[0]
    <3>1. n \in Nat
      BY <1>2
    <3> HIDE DEF basic, h
    <3>2. Differences(basic, h, n)
      BY <2>1, <2>2 DEF Differences
    <3> QED BY <3>1, <3>2, SumTelescopes
  <2>5. part(S(n)) \in Nat
    <3>1. S(n) \in Nat
      BY <1>2, <1>6
    <3> QED BY <1>14, <3>1
  <2> HIDE DEF basic, h
  <2> QED BY <2>3, <2>4, <2>5
<1>11. part(S(n)) <= B /\ S(n) - part(S(n)) <= amount - B
  <2>1. S(n) \in Nat /\ amount - S(n) \in Nat /\ S(n) + (amount - S(n)) = amount
    BY <1>2, <1>6, <1>7
  <2>2. /\ part(S(n)) \in Nat
        /\ part(S(n)) <= part(amount)
        /\ part(amount) <= part(S(n)) + (amount - S(n))
    BY <1>4, <2>1
  <2> QED BY <1>3, <1>5, <2>1, <2>2
<1>12. Used(basic, n) = part(S(n)) /\ Used(legs, n) = S(n)
  <2> HIDE DEF basic
  <2> QED BY <1>10, UsedIsSum DEF S
<1> HIDE DEF basic
<1>13. /\ Used(basic, Len(legs)) <= B
       /\ Used(legs, Len(legs)) - Used(basic, Len(legs)) <= amount - B
  BY <1>2, <1>11, <1>12
<1> QED BY <1>9, <1>13 DEF B, basic

(* An export's report has the rates of one policy and amounts of receipts. *)
Priced(c) ==
  ~Idle(c) => /\ job[c].report.policy \in PolicyRecord
              /\ \A x \in job[c].report.receipts : x.amount \in Nat \ {0}

PriceInv == \A c \in Clerks : Priced(c)

LEMMA ReportPriced ==
  ASSUME RcdInv, NEW s
  PROVE  /\ Report(s).policy \in PolicyRecord
         /\ \A x \in Report(s).receipts : x.amount \in Nat \ {0}
<1>1. Policies[rates] \in PolicyRecord
  <2>1. rates \in DOMAIN Policies
    BY Zenon, Parts DEF RcdTypeOK
  <2>2. Policies \in Seq(PolicyRecord)
    BY Zenon, RcdAssumption DEF PolicyRecord
  <2> QED BY <2>1, <2>2
<1>2. Report(s).policy = Policies[rates]
  BY DEF Report
<1>3. Report(s).receipts = Listing({p \in Own(s.officer, s.day) : row[p].amount \notin Unclear})
  BY DEF Report
<1>4. ASSUME NEW p \in Own(s.officer, s.day) PROVE row[p].amount \in Nat \ {0}
  <2>1. p \in Payments /\ row[p] # None
    BY Zenon DEF Own, Dated, DayRows, Rows
  <2>2. row[p] \in Receipt
    BY Zenon, <2>1, Parts DEF RcdTypeOK
  <2>3. row[p].amount \in Amounts
    BY <2>2 DEF Receipt
  <2> QED BY <2>3, RcdAssumption
<1>5. ASSUME NEW x \in Report(s).receipts PROVE x.amount \in Nat \ {0}
  <2>1. PICK p \in Own(s.officer, s.day) : x = [id |-> p, or |-> row[p].or, amount |-> row[p].amount]
    BY Zenon, <1>3 DEF Listing
  <2>2. x.amount = row[p].amount
    BY <2>1
  <2> QED BY <1>4, <2>2
<1> QED BY Zenon, <1>1, <1>2, <1>5

LEMMA PriceInit == RcdInit => PriceInv
<1> SUFFICES ASSUME RcdInit, NEW c \in Clerks PROVE Priced(c)
  BY Zenon DEF PriceInv
<1>1. job = [d \in Clerks |-> None]
  BY DEF RcdInit
<1> QED BY <1>1 DEF Priced, Idle

(* An export that was not waiting is of a new report.                      *)
LEMMA PriceStep ==
  ASSUME RcdInv, PriceInv, [RcdNext]_rcdVars
  PROVE  PriceInv'
<1> SUFFICES ASSUME NEW c \in Clerks PROVE Priced(c)'
  BY Zenon DEF PriceInv
<1>1. CASE job'[c] = job[c]
  BY Zenon, <1>1 DEF PriceInv, Priced, Idle
<1>2. CASE job'[c] = None
  BY Zenon, <1>2 DEF Priced, Idle
<1>3. CASE job'[c] # job[c] /\ job'[c] # None
  <2>1. job' # job
    BY Zenon, <1>3
  <2>2. PICK d \in Clerks : AskExport(d) \/ Finish(d)
    <3>1. ~UNCHANGED rcdVars
      BY <2>1 DEF rcdVars
    <3>2. ~SetRates /\ \A x \in Receipts : ~Post(x)
      BY <2>1 DEF SetRates, Post, Others
    <3>3. \A p \in Payments, x \in Receipts \cup {None} : ~Change(p, x)
      BY <2>1 DEF Change, Others
    <3>4. \A d \in Clerks : /\ ~Load(d) /\ ~Review(d)
                            /\ \A s \in [officer : Officers, day : Days] : ~Select(d, s)
      BY <2>1 DEF Load, Review, Select
    <3>5. \A d \in Clerks : /\ \A o \in Officers : ~RegisterOfficer(d, o)
                            /\ \A b \in Registrable : ~RegisterBooklet(d, b)
      BY <2>1 DEF RegisterOfficer, RegisterBooklet, Registered
    <3>6. PICK d \in Clerks : AskExport(d) \/ Export(d) \/ Fail(d)
      BY Zenon, <3>1, <3>2, <3>3, <3>4, <3>5 DEF RcdNext
    <3>7. Export(d) => Finish(d)
      BY Zenon DEF Export
    <3>8. Fail(d) => Finish(d)
      BY Zenon DEF Fail
    <3> QED BY Zenon, <3>6, <3>7, <3>8
  <2>3. DOMAIN job = Clerks
    BY Zenon, Parts DEF Windows
  <2>4. CASE Finish(d)
    BY Zenon, <1>3, <2>3, <2>4 DEF Finish
  <2>5. CASE AskExport(d)
    <3> DEFINE j == [seen |-> audits, nextP |-> nextP, touched |-> touched,
                     report |-> Report(sel[d]), review |-> review[d]]
    <3>1. job' = [job EXCEPT ![d] = j]
      BY Zenon, <2>5 DEF AskExport
    <3>2. job'[c] = j
      <4> HIDE DEF j
      <4> QED BY Zenon, <1>3, <2>3, <3>1
    <3>3. job'[c].report = Report(sel[d])
      BY <3>2
    <3> QED BY Zenon, <3>3, ReportPriced DEF Priced
  <2> QED BY Zenon, <2>2, <2>4, <2>5
<1> QED BY Zenon, <1>1, <1>2, <1>3

(* However a listed receipt is covered by checks, each check's two parts   *)
(* are amounts, no fund gets more in checks than was collected for it, and *)
(* checks that cover the receipt add up to its fund portions (basic_part   *)
(* of build_remittance_review).                                            *)
THEOREM ChecksKeepEveryCentHolds == RcdSpec => ChecksKeepEveryCent
<1> DEFINE Split(policy, amount, legs) ==
             LET basic == [i \in DOMAIN legs |-> BasicPart(policy, amount, legs, i)]
                 checks == Used(legs, Len(legs))
                 inBasic == Used(basic, Len(legs))
             IN  /\ \A i \in DOMAIN legs : basic[i] \in 0 .. legs[i]
                 /\ inBasic <= BasicOf(policy, amount)
                 /\ checks - inBasic <= amount - BasicOf(policy, amount)
           Kept(c) ==
             LET policy == job[c].report.policy
             IN  \A x \in job[c].report.receipts : \A legs \in Legs(x.amount) :
                    Split(policy, x.amount, legs)
<1>1. \A policy \in PolicyRecord, amount \in Nat \ {0} :
        \A legs \in Legs(amount) : Split(policy, amount, legs)
  BY ChecksAddUp
<1>2. ASSUME PriceInv, NEW c \in Clerks, Exporting(c) PROVE Kept(c)
  <2> HIDE DEF Split
  <2> QED BY Zenon, <1>1, <1>2 DEF PriceInv, Priced, Exporting
<1>3. PriceInv /\ [RcdNext]_rcdVars => [\A c \in Clerks : Exporting(c) => Kept(c)]_rcdVars
  <2> HIDE DEF Kept
  <2> QED BY Zenon, <1>2
<1>4. RcdSpec => []PriceInv
  <2>1. PriceInv /\ RcdInv /\ [RcdNext]_rcdVars => PriceInv'
    BY PriceStep
  <2> QED BY <2>1, PriceInit, RcdInvHolds, PTL DEF RcdSpec
<1> QED BY <1>3, <1>4, PTL DEF RcdSpec, ChecksKeepEveryCent

-----------------------------------------------------------------------------
(* The printed report: booklets are in the order of their serials.         *)
LEMMA BookOrder ==
  ASSUME NEW s \in Int, NEW t \in Int, s <= t
  PROVE  BookOf(s) \in Int /\ BookOf(t) \in Int /\ BookOf(s) <= BookOf(t)
<1>1. PrintLen \in Nat \ {0}
  BY StockAssumption
<1> DEFINE p == (s - 1) \div PrintLen
           q == (t - 1) \div PrintLen
<1>2. p \in Int /\ PrintLen * p <= s - 1
  BY <1>1
<1>3. q \in Int /\ t - 1 < PrintLen * q + PrintLen
  BY <1>1
<1>4. p <= q
  <2>1. PrintLen * p \in Int /\ PrintLen * q \in Int
    BY <1>1, <1>2, <1>3
  <2> HIDE DEF p, q
  <2>2. PrintLen * p < PrintLen * q + PrintLen
    BY <1>1, <1>2, <1>3, <2>1
  <2> QED BY <1>1, <1>2, <1>3, <2>2, Cancel
<1> QED BY <1>2, <1>3, <1>4 DEF BookOf

LEMMA SameBook ==
  ASSUME NEW s \in Int, NEW t \in Int, NEW x \in s .. t, BookOf(s) = BookOf(t)
  PROVE  BookOf(x) = BookOf(s)
BY BookOrder

(* The highest of some serials.                                            *)
LEMMA MaxIs ==
  ASSUME NEW S \in SUBSET Int, IsFiniteSet(S), S # {}
  PROVE  Max(S) \in S /\ \A x \in S : x <= Max(S)
<1>1. \E m \in S : \A x \in S : m >= x
  BY Largest
<1> QED BY <1>1 DEF Max

LEMMA PrintableIs ==
  ASSUME NEW S \in SUBSET Printable
  PROVE  IsFiniteSet(S) /\ S \subseteq Nat \ {0}
<1>1. PICK n \in Nat : Printable = 1 .. n
  <2>1. PrintBooks * PrintLen \in Nat
    BY StockAssumption
  <2> QED BY <2>1, Zenon DEF Printable
<1>2. IsFiniteSet(Printable)
  BY <1>1, FS_Interval
<1>3. Printable \subseteq Nat \ {0}
  BY <1>1
<1> QED BY <1>2, <1>3, FS_Subset

-----------------------------------------------------------------------------
(* The ranges of the collections sheet.                                    *)
IsGrouping(g, S) ==
    g = [s \in SUBSET S |-> IF s = {} THEN <<>> ELSE Group(g[s \ {Max(s)}], Max(s))]

LEMMA RangesIter ==
  ASSUME NEW S
  PROVE  Ranges(S) = (CHOOSE g : IsGrouping(g, S))[S]
BY DEF Ranges, Ascending, MapThenFoldSet, IsGrouping

Upto(S, n) == {s \in S : s <= n}

(* The highest of the serials up to n + 1 leaves serials up to n.          *)
LEMMA WithoutMax ==
  ASSUME NEW S \in SUBSET Printable, NEW n \in Nat, NEW s \in SUBSET Upto(S, n + 1), s # {}
  PROVE  s \ {Max(s)} \in SUBSET Upto(S, n)
<1>1. s \in SUBSET Printable
  BY DEF Upto
<1>2. s \subseteq Int /\ Max(s) \in s /\ \A x \in s : x <= Max(s)
  BY <1>1, MaxIs, PrintableIs
<1>3. ASSUME NEW x \in s, x # Max(s) PROVE x \in Upto(S, n)
  <2>1. x \in S /\ x \in Int /\ Max(s) \in Int /\ x <= Max(s) /\ Max(s) <= n + 1
    BY <1>2, Zenon DEF Upto
  <2>2. x <= n
    BY <1>3, <2>1
  <2> QED BY <2>1, <2>2 DEF Upto
<1> QED BY <1>3

LEMMA UptoAll ==
  ASSUME NEW S \in SUBSET Printable
  PROVE  \E m \in Nat : S = Upto(S, m)
<1>1. PICK n \in Nat : Printable = 1 .. n
  <2>1. PrintBooks * PrintLen \in Nat
    BY StockAssumption
  <2> QED BY <2>1, Zenon DEF Printable
<1>2. \A s \in S : s <= n
  BY <1>1
<1>3. S = Upto(S, n)
  BY <1>2, Zenon DEF Upto
<1> QED BY <1>3

LEMMA GroupingExists ==
  ASSUME NEW S \in SUBSET Printable
  PROVE  \E g : IsGrouping(g, S)
<1> DEFINE P == {n \in Nat : \E g : IsGrouping(g, Upto(S, n))}
<1>1. S \subseteq Nat \ {0}
  BY PrintableIs
<1>2. 0 \in P
  <2>1. Upto(S, 0) = {}
    <3>1. ASSUME NEW s \in S PROVE ~ (s <= 0)
      BY <1>1
    <3> QED BY <3>1, Zenon DEF Upto
  <2>2. IsGrouping([s \in {{}} |-> <<>>], {})
    BY DEF IsGrouping
  <2> QED BY <2>1, <2>2
<1>3. ASSUME NEW n \in Nat, n \in P PROVE n + 1 \in P
  <2>1. PICK g : IsGrouping(g, Upto(S, n))
    BY <1>3
  <2> DEFINE next(s) == IF s = {} THEN <<>> ELSE Group(g[s \ {Max(s)}], Max(s))
             h == [s \in SUBSET Upto(S, n + 1) |-> next(s)]
  <2>2. \A s \in SUBSET Upto(S, n) : g[s] = next(s)
    BY <2>1 DEF IsGrouping
  <2>3. SUBSET Upto(S, n) \subseteq SUBSET Upto(S, n + 1)
    <3>1. ASSUME NEW s \in S, s <= n PROVE s <= n + 1
      BY <1>1, <3>1
    <3> QED BY <3>1, Zenon DEF Upto
  <2>4. ASSUME NEW s \in SUBSET Upto(S, n + 1), s # {}
        PROVE  h[s \ {Max(s)}] = g[s \ {Max(s)}]
    <3>1. s \ {Max(s)} \in SUBSET Upto(S, n)
      BY <2>4, WithoutMax
    <3> HIDE DEF next
    <3> QED BY <2>2, <2>3, <3>1
  <2>5. h = [s \in SUBSET Upto(S, n + 1) |->
               IF s = {} THEN <<>> ELSE Group(h[s \ {Max(s)}], Max(s))]
    <3>1. ASSUME NEW s \in SUBSET Upto(S, n + 1)
          PROVE  next(s) = IF s = {} THEN <<>> ELSE Group(h[s \ {Max(s)}], Max(s))
      <4> HIDE DEF h
      <4> QED BY <2>4
    <3> HIDE DEF next
    <3> QED BY <3>1, Zenon
  <2>6. IsGrouping(h, Upto(S, n + 1))
    BY <2>5 DEF IsGrouping
  <2> QED BY <2>6
<1>4. PICK m \in Nat : S = Upto(S, m)
  BY UptoAll
<1>5. m \in P
  <2> HIDE DEF P
  <2>1. Nat \subseteq P
    BY <1>2, <1>3, NatInd
  <2> QED BY <2>1
<1> QED BY <1>4, <1>5

(* The maximal runs of P within a booklet, and ranges that list them.      *)
RunOf(P, f, t) ==
    /\ f \in P /\ t \in P /\ f <= t /\ f .. t \subseteq P
    /\ BookOf(f) = BookOf(t)
    /\ \A s \in {f - 1, t + 1} \cap P : BookOf(s) # BookOf(f)
PrintedRange == [from : Nat, to : Nat, count : Nat]
Grouped(R, P) ==
    /\ R \in Seq(PrintedRange)
    /\ \A i \in DOMAIN R : RunOf(P, R[i].from, R[i].to) /\ R[i].count = R[i].to - R[i].from + 1
    /\ \A i, j \in DOMAIN R : i < j => R[i].to < R[j].from
    /\ \A s \in P : \E i \in DOMAIN R : s \in R[i].from .. R[i].to

(* What one receipt does to the ranges.                                    *)
LEMMA GroupExtends ==
  ASSUME NEW R \in Seq(PrintedRange), NEW s \in Nat, Continues(R, s)
  PROVE  LET n == Len(R)
             R1 == Group(R, s)
         IN  /\ n \in Nat \ {0} /\ DOMAIN R = 1 .. n
             /\ R[n].to + 1 = s /\ BookOf(R[n].to) = BookOf(s)
             /\ R1 \in Seq(PrintedRange) /\ DOMAIN R1 = DOMAIN R
             /\ \A i \in 1 .. n : i # n => R1[i] = R[i]
             /\ R1[n] = [from |-> R[n].from, to |-> s, count |-> R[n].count + 1]
<1> DEFINE n == Len(R)
           R1 == Group(R, s)
<1>1. n \in Nat \ {0} /\ DOMAIN R = 1 .. n /\ R[n].to + 1 = s /\ BookOf(R[n].to) = BookOf(s)
  BY DEF Continues, Last
<1>2. R[n] \in PrintedRange
  BY <1>1
<1>3. R1 = [R EXCEPT ![n] = [from |-> R[n].from, to |-> s, count |-> R[n].count + 1]]
  <2> DEFINE r == R[n]
             r1 == [r EXCEPT !.to = s]
             r2 == [r1 EXCEPT !.count = @ + 1]
             A == [R EXCEPT ![n] = r1]
  <2>1. r1 = [from |-> r.from, to |-> s, count |-> r.count]
    <3>1. r \in PrintedRange
      BY <1>2
    <3> HIDE DEF r
    <3>2. r = [from |-> r.from, to |-> r.to, count |-> r.count]
      BY <3>1 DEF PrintedRange
    <3> QED BY <3>2
  <2>2. r2 = [from |-> r.from, to |-> s, count |-> r.count + 1]
    <3> HIDE DEF r, r1
    <3> QED BY <2>1
  <2>3. R1 = [A EXCEPT ![n] = [A[n] EXCEPT !.count = @ + 1]]
    BY DEF Group
  <2>4. n \in DOMAIN R
    BY <1>1
  <2>5. A[n] = r1
    <3> HIDE DEF n, r1
    <3> QED BY <2>4
  <2>6. R1 = [A EXCEPT ![n] = r2]
    <3> HIDE DEF r1, A, R1
    <3> QED BY <2>3, <2>5
  <2>7. [A EXCEPT ![n] = r2] = [R EXCEPT ![n] = r2]
    <3> HIDE DEF n, r1, r2
    <3> QED BY <2>4
  <2> QED BY <2>2, <2>6, <2>7, Zenon
<1>4. [from |-> R[n].from, to |-> s, count |-> R[n].count + 1] \in PrintedRange
  BY <1>2 DEF PrintedRange
<1> HIDE DEF R1
<1> QED BY <1>1, <1>3, <1>4 DEF R1

LEMMA GroupAppends ==
  ASSUME NEW R \in Seq(PrintedRange), NEW s \in Nat, ~Continues(R, s)
  PROVE  LET n == Len(R)
             R1 == Group(R, s)
         IN  /\ n \in Nat /\ DOMAIN R = 1 .. n
             /\ n # 0 => ~ (R[n].to + 1 = s /\ BookOf(R[n].to) = BookOf(s))
             /\ R1 \in Seq(PrintedRange) /\ DOMAIN R1 = 1 .. n + 1
             /\ \A i \in 1 .. n : R1[i] = R[i]
             /\ R1[n + 1] = [from |-> s, to |-> s, count |-> 1]
<1> DEFINE n == Len(R)
           r == [from |-> s, to |-> s, count |-> 1]
           R1 == Group(R, s)
<1>1. n \in Nat /\ DOMAIN R = 1 .. n
  OBVIOUS
<1>2. n # 0 => ~ (R[n].to + 1 = s /\ BookOf(R[n].to) = BookOf(s))
  BY DEF Continues, Last
<1>3. R1 = Append(R, r) /\ r \in PrintedRange
  BY DEF Group, PrintedRange
<1> HIDE DEF R1, r
<1>4. R1 \in Seq(PrintedRange) /\ DOMAIN R1 = 1 .. n + 1 /\ R1[n + 1] = r
      /\ \A i \in 1 .. n : R1[i] = R[i]
  BY <1>1, <1>3
<1> QED BY <1>1, <1>2, <1>4 DEF r, R1

(* A run of the lower serials stays one, unless the next continues it.     *)
LEMMA RunStays ==
  ASSUME NEW P \in SUBSET Nat, NEW s \in Nat, \A x \in P : x < s,
         NEW f, NEW t, RunOf(P, f, t), ~ (t + 1 = s /\ BookOf(t) = BookOf(s))
  PROVE  RunOf(P \cup {s}, f, t)
<1>1. f \in P /\ t \in P /\ f <= t /\ f .. t \subseteq P /\ BookOf(f) = BookOf(t)
  BY DEF RunOf
<1>2. f \in Nat /\ t \in Nat /\ f - 1 # s
  BY <1>1
<1>3. ASSUME NEW x \in {f - 1, t + 1} \cap (P \cup {s}) PROVE BookOf(x) # BookOf(f)
  <2>1. CASE x \in P
    BY <2>1, Zenon DEF RunOf
  <2>2. CASE x \notin P
    <3>1. x = s /\ t + 1 = s
      BY <1>2, <2>2
    <3> QED BY <1>1, <3>1, Zenon
  <2> QED BY <2>1, <2>2
<1> QED BY <1>1, <1>3, Zenon DEF RunOf

(* A range that ends just below s is the last one.                         *)
LEMMA EndsLast ==
  ASSUME NEW P \in SUBSET Nat, NEW s \in Nat, \A x \in P : x < s,
         NEW R, Grouped(R, P), NEW i \in DOMAIN R, R[i].to + 1 = s
  PROVE  i = Len(R)
<1>1. R \in Seq(PrintedRange) /\ Len(R) \in Nat /\ DOMAIN R = 1 .. Len(R)
  <2>1. R \in Seq(PrintedRange)
    BY Zenon DEF Grouped
  <2> QED BY <2>1
<1>2. SUFFICES ASSUME i # Len(R) PROVE FALSE
  OBVIOUS
<1>3. Len(R) \in DOMAIN R /\ i < Len(R)
  BY <1>1, <1>2
<1>4. R[i].to < R[Len(R)].from /\ RunOf(P, R[Len(R)].from, R[Len(R)].to) /\ RunOf(P, R[i].from, R[i].to)
  BY <1>1, <1>3, Zenon DEF Grouped
<1>5. R[Len(R)].from \in P /\ R[Len(R)].to \in P /\ R[i].to \in P
  BY <1>4, Zenon DEF RunOf
<1>6. R[Len(R)].from \in Nat /\ R[i].to \in Nat /\ R[Len(R)].from < s
  BY <1>5
<1> QED BY <1>4, <1>6

LEMMA GroupKeepsRuns ==
  ASSUME NEW P \in SUBSET Nat, NEW s \in Nat, \A x \in P : x < s,
         NEW R, Grouped(R, P)
  PROVE  Grouped(Group(R, s), P \cup {s})
<1> DEFINE n == Len(R)
           R1 == Group(R, s)
           Q == P \cup {s}
<1>1. R \in Seq(PrintedRange)
  BY Zenon DEF Grouped
<1>2. /\ \A i \in DOMAIN R : RunOf(P, R[i].from, R[i].to) /\ R[i].count = R[i].to - R[i].from + 1
      /\ \A i, j \in DOMAIN R : i < j => R[i].to < R[j].from
      /\ \A x \in P : \E i \in DOMAIN R : x \in R[i].from .. R[i].to
  BY Zenon DEF Grouped
<1>3. \A i \in DOMAIN R : /\ R[i].from \in P /\ R[i].to \in P
                           /\ R[i].from \in Nat /\ R[i].to \in Nat
                           /\ R[i].from <= R[i].to /\ R[i].to < s
  <2>1. \A i \in DOMAIN R : R[i].from \in P /\ R[i].to \in P /\ R[i].from <= R[i].to
    BY <1>2, Zenon DEF RunOf
  <2> QED BY <2>1
<1>4. CASE Continues(R, s)
  <2>1. /\ n \in Nat \ {0} /\ DOMAIN R = 1 .. n
        /\ R[n].to + 1 = s /\ BookOf(R[n].to) = BookOf(s)
        /\ R1 \in Seq(PrintedRange) /\ DOMAIN R1 = DOMAIN R
        /\ \A i \in 1 .. n : i # n => R1[i] = R[i]
        /\ R1[n] = [from |-> R[n].from, to |-> s, count |-> R[n].count + 1]
    BY <1>1, <1>4, GroupExtends
  <2> HIDE DEF n, R1
  <2>2. n \in DOMAIN R
    BY <2>1
  <2>3. R1[n].from = R[n].from /\ R1[n].to = s /\ R1[n].count = R[n].count + 1
    BY <2>1
  <2>4. RunOf(Q, R[n].from, s) /\ R[n].count + 1 = s - R[n].from + 1
    <3> DEFINE f == R[n].from
               t == R[n].to
    <3>1. f \in P /\ t \in P /\ f <= t /\ f .. t \subseteq P /\ BookOf(f) = BookOf(t)
      BY <1>2, <2>2, Zenon DEF RunOf
    <3>2. f \in Nat /\ t \in Nat /\ t + 1 = s
      BY <1>3, <2>1, <2>2
    <3>3. f .. s \subseteq Q /\ f <= s
      BY <3>1, <3>2
    <3>4. f - 1 # s /\ s + 1 \notin Q
      BY <3>1, <3>2
    <3>5. \A x \in {f - 1, s + 1} \cap Q : BookOf(x) # BookOf(f)
      <4>1. ASSUME NEW x \in {f - 1, s + 1} \cap Q PROVE x \in {f - 1, t + 1} \cap P
        BY <3>2, <3>4
      <4> QED BY <1>2, <2>2, <4>1, Zenon DEF RunOf
    <3>6. BookOf(f) = BookOf(s)
      BY <2>1, <3>1
    <3>7. R[n].count = t - f + 1
      BY <1>2, <2>2
    <3>8. f \in Q /\ s \in Q
      BY <3>1
    <3> HIDE DEF f, t, Q
    <3>9. RunOf(Q, f, s)
      BY <3>3, <3>5, <3>6, <3>8, Zenon DEF RunOf
    <3>10. R[n].count + 1 = s - f + 1
      BY <3>2, <3>7
    <3> QED BY <3>9, <3>10 DEF f
  <2>5. ASSUME NEW i \in DOMAIN R, i # n
        PROVE  /\ R1[i] = R[i] /\ i < n /\ RunOf(Q, R[i].from, R[i].to)
               /\ R[i].count = R[i].to - R[i].from + 1
    <3>1. R1[i] = R[i] /\ i < n
      BY <2>1, <2>5
    <3>2. R[i].to + 1 # s
      BY <2>5, EndsLast DEF n
    <3> QED BY <1>2, <3>1, <3>2, RunStays
  <2>6. \A i \in DOMAIN R1 : RunOf(Q, R1[i].from, R1[i].to) /\ R1[i].count = R1[i].to - R1[i].from + 1
    BY <2>1, <2>3, <2>4, <2>5, Zenon
  <2>7. ASSUME NEW i \in DOMAIN R1, NEW j \in DOMAIN R1, i < j PROVE R1[i].to < R1[j].from
    <3>1. i # n /\ i \in DOMAIN R /\ j \in DOMAIN R
      BY <2>1, <2>7
    <3>2. R1[i].to = R[i].to /\ R1[j].from = R[j].from
      BY <2>3, <2>5, <3>1, Zenon
    <3> QED BY <1>2, <2>7, <3>1, <3>2
  <2>8. ASSUME NEW x \in Q PROVE \E i \in DOMAIN R1 : x \in R1[i].from .. R1[i].to
    <3>1. CASE x = s
      <4>1. x \in R1[n].from .. R1[n].to
        BY <1>3, <2>2, <2>3, <3>1
      <4> QED BY <2>1, <2>2, <4>1
    <3>2. CASE x # s
      <4>1. PICK i \in DOMAIN R : x \in R[i].from .. R[i].to
        BY <1>2, <3>2
      <4>2. x \in R1[i].from .. R1[i].to
        <5>1. CASE i = n
          BY <1>3, <2>2, <2>3, <4>1, <5>1
        <5>2. CASE i # n
          BY <2>5, <4>1, <5>2
        <5> QED BY <5>1, <5>2
      <4> QED BY <2>1, <4>2
    <3> QED BY <3>1, <3>2
  <2>9. Grouped(R1, Q)
    BY <2>1, <2>6, <2>7, <2>8, Zenon DEF Grouped
  <2> QED BY <2>9 DEF R1
<1>5. CASE ~Continues(R, s)
  <2>1. /\ n \in Nat /\ DOMAIN R = 1 .. n
        /\ n # 0 => ~ (R[n].to + 1 = s /\ BookOf(R[n].to) = BookOf(s))
        /\ R1 \in Seq(PrintedRange) /\ DOMAIN R1 = 1 .. n + 1
        /\ \A i \in 1 .. n : R1[i] = R[i]
        /\ R1[n + 1] = [from |-> s, to |-> s, count |-> 1]
    BY <1>1, <1>5, GroupAppends
  <2>2. R1[n + 1].from = s /\ R1[n + 1].to = s /\ R1[n + 1].count = 1
    BY <2>1
  <2>3. ASSUME NEW i \in DOMAIN R, R[i].to + 1 = s PROVE BookOf(R[i].to) # BookOf(s)
    <3>1. i = n
      BY <2>3, EndsLast
    <3> QED BY <2>1, <2>3, <3>1
  <2> HIDE DEF n, R1
  <2>4. RunOf(Q, s, s) /\ 1 = s - s + 1
    <3>1. ASSUME NEW x \in {s - 1, s + 1} \cap Q PROVE BookOf(x) # BookOf(s)
      <4>1. x \in P /\ x \in Nat /\ x + 1 = s
        OBVIOUS
      <4>2. PICK i \in DOMAIN R : x \in R[i].from .. R[i].to
        BY <1>2, <4>1
      <4>3. R[i].to = x
        BY <1>3, <4>1, <4>2
      <4> QED BY <2>3, <4>1, <4>3
    <3>2. s .. s \subseteq Q /\ s \in Q /\ s <= s /\ 1 = s - s + 1
      OBVIOUS
    <3> HIDE DEF Q
    <3> QED BY <3>1, <3>2, Zenon DEF RunOf
  <2>5. ASSUME NEW i \in DOMAIN R
        PROVE  /\ R1[i] = R[i] /\ RunOf(Q, R[i].from, R[i].to)
               /\ R[i].count = R[i].to - R[i].from + 1
    BY <1>2, <2>1, <2>3, RunStays
  <2>6. \A i \in DOMAIN R1 : i \in DOMAIN R \/ i = n + 1
    BY <2>1
  <2>7. \A i \in DOMAIN R1 : RunOf(Q, R1[i].from, R1[i].to) /\ R1[i].count = R1[i].to - R1[i].from + 1
    BY <2>2, <2>4, <2>5, <2>6, Zenon
  <2>8. ASSUME NEW i \in DOMAIN R1, NEW j \in DOMAIN R1, i < j PROVE R1[i].to < R1[j].from
    <3>1. i \in DOMAIN R
      BY <2>1, <2>8
    <3>2. CASE j \in DOMAIN R
      BY <1>2, <2>5, <2>8, <3>1, <3>2
    <3>3. CASE j = n + 1
      BY <1>3, <2>2, <2>5, <3>1, <3>3
    <3> QED BY <2>6, <3>2, <3>3
  <2>9. ASSUME NEW x \in Q PROVE \E i \in DOMAIN R1 : x \in R1[i].from .. R1[i].to
    <3>1. CASE x = s
      <4>1. n + 1 \in DOMAIN R1 /\ x \in R1[n + 1].from .. R1[n + 1].to
        BY <2>1, <2>2, <3>1
      <4> QED BY <4>1
    <3>2. CASE x # s
      <4>1. PICK i \in DOMAIN R : x \in R[i].from .. R[i].to
        BY <1>2, <3>2
      <4>2. i \in DOMAIN R1 /\ R1[i] = R[i]
        BY <2>1, <2>5
      <4> QED BY <4>1, <4>2
    <3> QED BY <3>1, <3>2
  <2>10. Grouped(R1, Q)
    BY <2>1, <2>7, <2>8, <2>9, Zenon DEF Grouped
  <2> QED BY <2>10 DEF R1
<1> QED BY <1>4, <1>5

LEMMA RangesGrouped ==
  ASSUME NEW S \in SUBSET Printable
  PROVE  Grouped(Ranges(S), S)
<1> DEFINE g == CHOOSE g : IsGrouping(g, S)
           G == {s \in SUBSET S : Grouped(g[s], s)}
<1>1. \A s \in SUBSET S : g[s] = IF s = {} THEN <<>> ELSE Group(g[s \ {Max(s)}], Max(s))
  <2>1. IsGrouping(g, S)
    BY GroupingExists
  <2> HIDE DEF g
  <2> QED BY <2>1 DEF IsGrouping
<1> HIDE DEF g
<1>2. ASSUME NEW s \in SUBSET S, \A x \in s : s \ {x} \in G PROVE s \in G
  <2>1. CASE s = {}
    <3>1. g[s] = <<>>
      BY <1>1, <2>1
    <3>2. Grouped(<<>>, {})
      BY DEF Grouped
    <3> QED BY <2>1, <3>1, <3>2
  <2>2. CASE s # {}
    <3> DEFINE m == Max(s)
               P == s \ {m}
    <3>1. s \subseteq Nat /\ m \in s /\ \A x \in s : x <= m
      BY <2>2, MaxIs, PrintableIs
    <3>2. m \in Nat /\ P \in SUBSET Nat /\ (\A x \in P : x < m) /\ P \cup {m} = s
      <4> HIDE DEF m
      <4> QED BY <3>1
    <3>3. g[s] = Group(g[P], m)
      BY <1>1, <2>2
    <3>4. Grouped(g[P], P)
      BY <1>2, <3>1
    <3> HIDE DEF m, P
    <3>5. Grouped(Group(g[P], m), P \cup {m})
      BY <3>2, <3>4, GroupKeepsRuns
    <3> QED BY <3>2, <3>3, <3>5
  <2> QED BY <2>1, <2>2
<1>3. S \in G
  <2>1. IsFiniteSet(S)
    BY PrintableIs
  <2> HIDE DEF G
  <2>2. SUBSET S \subseteq G
    BY <1>2, <2>1, SetInd
  <2> QED BY <2>2
<1> QED BY <1>3, RangesIter DEF g

(* The ranges of the collections sheet are the maximal runs of collected   *)
(* receipts within a booklet, whichever receipts were collected and however*)
(* many and long the booklets are (the loop of build_daily_rcd).           *)
THEOREM RangesAreTheReceiptsHolds == RangesAreTheReceipts
<1> SUFFICES ASSUME NEW paid \in SUBSET Printable
             PROVE  ToSet(Ranges(paid)) =
                      {[from |-> p[1], to |-> p[2], count |-> p[2] - p[1] + 1] : p \in
                          {p \in paid \X paid :
                              /\ p[1] <= p[2] /\ p[1] .. p[2] \subseteq paid
                              /\ BookOf(p[1]) = BookOf(p[2])
                              /\ \A s \in {p[1] - 1, p[2] + 1} \intersect paid :
                                     BookOf(s) # BookOf(p[1])}}
  BY DEF RangesAreTheReceipts
<1> DEFINE R == Ranges(paid)
           range(p) == [from |-> p[1], to |-> p[2], count |-> p[2] - p[1] + 1]
           runs == {p \in paid \X paid :
                       /\ p[1] <= p[2] /\ p[1] .. p[2] \subseteq paid
                       /\ BookOf(p[1]) = BookOf(p[2])
                       /\ \A s \in {p[1] - 1, p[2] + 1} \intersect paid :
                              BookOf(s) # BookOf(p[1])}
<1>1. Grouped(R, paid) /\ paid \subseteq Nat
  BY RangesGrouped, PrintableIs
<1>2. \A p \in paid \X paid : p \in runs <=> RunOf(paid, p[1], p[2])
  BY Zenon DEF RunOf
<1>3. ASSUME NEW i \in DOMAIN R PROVE \E p \in runs : R[i] = range(p)
  <2> DEFINE p == <<R[i].from, R[i].to>>
  <2>1. RunOf(paid, R[i].from, R[i].to) /\ R[i].count = R[i].to - R[i].from + 1
    BY <1>1, Zenon DEF Grouped
  <2>2. p \in paid \X paid /\ p[1] = R[i].from /\ p[2] = R[i].to
    BY <2>1 DEF RunOf
  <2>3. R[i] \in PrintedRange
    <3>1. R \in Seq(PrintedRange)
      BY <1>1, Zenon DEF Grouped
    <3> HIDE DEF R
    <3> QED BY <3>1
  <2>4. R[i] = [from |-> R[i].from, to |-> R[i].to, count |-> R[i].count]
    <3> HIDE DEF R
    <3> QED BY <2>3 DEF PrintedRange
  <2> HIDE DEF R, p
  <2>5. R[i] = range(p)
    BY <2>1, <2>2, <2>4
  <2>6. p \in runs
    <3> HIDE DEF runs
    <3> QED BY <1>2, <2>1, <2>2
  <2> QED BY <2>5, <2>6
<1>4. ASSUME NEW p \in runs PROVE \E i \in DOMAIN R : R[i] = range(p)
  <2> DEFINE f == p[1]
             t == p[2]
  <2>1. p \in paid \X paid /\ RunOf(paid, f, t)
    BY <1>2
  <2> HIDE DEF R, runs
  <2>2. /\ f \in paid /\ t \in paid /\ f <= t /\ f .. t \subseteq paid /\ BookOf(f) = BookOf(t)
        /\ \A s \in {f - 1, t + 1} \cap paid : BookOf(s) # BookOf(f)
    BY <2>1, Zenon DEF RunOf
  <2>3. PICK i \in DOMAIN R : f \in R[i].from .. R[i].to
    BY <1>1, <2>2, Zenon DEF Grouped
  <2> DEFINE a == R[i].from
             b == R[i].to
  <2>4. /\ a \in paid /\ b \in paid /\ a <= b /\ a .. b \subseteq paid /\ BookOf(a) = BookOf(b)
        /\ \A s \in {a - 1, b + 1} \cap paid : BookOf(s) # BookOf(a)
        /\ R[i].count = b - a + 1
    <3>1. RunOf(paid, a, b) /\ R[i].count = b - a + 1
      BY <1>1, Zenon DEF Grouped
    <3> HIDE DEF a, b
    <3> QED BY <3>1, Zenon DEF RunOf
  <2>5. a \in Nat /\ b \in Nat /\ f \in Nat /\ t \in Nat /\ a <= f /\ f <= b
    <3>1. a \in Nat /\ b \in Nat /\ f \in Nat /\ t \in Nat
      BY <1>1, <2>2, <2>4, Zenon
    <3>2. f \in a .. b
      BY <2>3
    <3> HIDE DEF a, b, f, t
    <3> QED BY <3>1, <3>2
  <2>6. R[i] = [from |-> a, to |-> b, count |-> b - a + 1]
    <3>1. R \in Seq(PrintedRange)
      BY <1>1, Zenon DEF Grouped
    <3>2. R[i] \in PrintedRange
      BY <3>1
    <3> QED BY <2>4, <3>2 DEF PrintedRange
  <2> HIDE DEF a, b, f, t
  <2>7. \A x \in a .. b : BookOf(x) = BookOf(a)
    BY <2>4, <2>5, SameBook
  <2>8. \A x \in f .. t : BookOf(x) = BookOf(f)
    BY <2>2, <2>5, SameBook
  <2>9. a = f
    <3>1. ASSUME a < f PROVE FALSE
      <4>1. f - 1 \in a .. b /\ f \in a .. b
        BY <2>5, <3>1
      <4>2. f - 1 \in paid /\ BookOf(f - 1) = BookOf(f)
        BY <2>4, <2>7, <4>1
      <4> QED BY <2>2, <4>2
    <3> QED BY <2>5, <3>1
  <2>10. b = t
    <3>1. ASSUME b < t PROVE FALSE
      <4>1. b + 1 \in f .. t
        BY <2>5, <3>1
      <4>2. b + 1 \in paid /\ BookOf(b + 1) = BookOf(a)
        BY <2>2, <2>8, <2>9, <4>1
      <4> QED BY <2>4, <4>2
    <3>2. ASSUME t < b PROVE FALSE
      <4>1. t + 1 \in a .. b
        BY <2>2, <2>5, <3>2
      <4>2. t + 1 \in paid /\ BookOf(t + 1) = BookOf(f)
        BY <2>4, <2>7, <2>9, <4>1
      <4> QED BY <2>2, <4>2
    <3> QED BY <2>5, <3>1, <3>2
  <2> QED BY <2>6, <2>9, <2>10 DEF f, t
<1> HIDE DEF R, range, runs
<1>5. ToSet(R) = {range(p) : p \in runs}
  BY <1>3, <1>4, Zenon DEF ToSet
<1> QED BY <1>5 DEF R, range, runs

-----------------------------------------------------------------------------
(* The stock rows.                                                         *)

(* The lowest of some serials.                                             *)
LEMMA MinIs ==
  ASSUME NEW S \in SUBSET Nat, S # {}
  PROVE  Min(S) \in S /\ \A x \in S : Min(S) <= x
<1>1. SUFFICES ASSUME \A m \in S : \E x \in S : x < m PROVE FALSE
  <2>1. SUFFICES \E m \in S : \A x \in S : m <= x
    BY DEF Min
  <2>2. ASSUME NEW m \in S, ~ \A x \in S : m <= x PROVE \E x \in S : x < m
    <3>1. PICK x \in S : ~ (m <= x)
      BY <2>2
    <3>2. m \in Nat /\ x \in Nat
      OBVIOUS
    <3> QED BY <3>1, <3>2
  <2> QED BY <2>2
<1> DEFINE P == {n \in Nat : \A k \in 0 .. n : k \notin S}
<1>2. 0 \in P
  <2>1. 0 \notin S
    <3>1. \A x \in S : ~ (x < 0)
      OBVIOUS
    <3> QED BY <1>1, <3>1
  <2> QED BY <2>1
<1>3. ASSUME NEW n \in Nat, n \in P PROVE n + 1 \in P
  <2>1. n + 1 \notin S
    <3>1. \A x \in S : ~ (x < n + 1)
      BY <1>3
    <3> QED BY <1>1, <3>1
  <2>2. \A k \in 0 .. n + 1 : k \in 0 .. n \/ k = n + 1
    OBVIOUS
  <2> QED BY <1>3, <2>1, <2>2
<1>4. PICK m \in S : m \in Nat
  OBVIOUS
<1>5. m \in P
  <2> HIDE DEF P
  <2>1. Nat \subseteq P
    BY <1>2, <1>3, NatInd
  <2> QED BY <1>4, <2>1
<1> QED BY <1>4, <1>5

Convex(S) == \A s, t \in S : s .. t \subseteq S

LEMMA RunIsConvex ==
  ASSUME NEW S \in SUBSET Nat, IsFiniteSet(S)
  PROVE  IsRun(S) <=> Convex(S)
<1>1. CASE S = {}
  BY <1>1 DEF IsRun, Convex
<1>2. CASE S # {}
  <2> DEFINE a == Min(S)
             b == Max(S)
  <2>1. a \in S /\ b \in S /\ \A x \in S : a <= x /\ x <= b
    BY <1>2, MinIs, MaxIs
  <2>2. IsRun(S) <=> S = a .. b
    BY <1>2 DEF IsRun
  <2> HIDE DEF a, b
  <2>3. ASSUME S = a .. b PROVE Convex(S)
    BY <2>1, <2>3 DEF Convex
  <2>4. ASSUME Convex(S) PROVE S = a .. b
    <3>1. a .. b \subseteq S
      BY <2>1, <2>4 DEF Convex
    <3>2. S \subseteq a .. b
      BY <2>1
    <3> QED BY <3>1, <3>2
  <2> QED BY <2>2, <2>3, <2>4
<1> QED BY <1>1, <1>2

LEMMA ConvexExtends ==
  ASSUME NEW S \in SUBSET Nat, Convex(S), NEW s \in Nat, \A x \in S : x < s,
         S # {} => s - 1 \in S
  PROVE  Convex(S \cup {s})
<1> SUFFICES ASSUME NEW x \in S \cup {s}, NEW y \in S \cup {s}, NEW z \in x .. y
             PROVE  z \in S \cup {s}
  BY DEF Convex
<1>1. CASE x \in S /\ y \in S
  BY <1>1 DEF Convex
<1>2. CASE x \in S /\ y = s
  <2>1. CASE z = s
    BY <2>1
  <2>2. CASE z # s
    <3>1. z \in x .. s - 1 /\ s - 1 \in S
      BY <1>2, <2>2
    <3> QED BY <1>2, <3>1 DEF Convex
  <2> QED BY <2>1, <2>2
<1>3. CASE x = s
  <2>1. z = s
    <3>1. y <= s
      OBVIOUS
    <3> QED BY <1>3, <3>1
  <2> QED BY <2>1
<1> QED BY <1>1, <1>2, <1>3

(* A printed column of a row that is one run is all of it.                 *)
LEMMA SegmentIsRun ==
  ASSUME NEW S \in SUBSET Nat, IsFiniteSet(S), Convex(S)
  PROVE  FirstSegment(S) = S
<1>1. CASE S = {}
  BY <1>1 DEF FirstSegment
<1>2. CASE S # {}
  <2> DEFINE b == Max(S)
             ends == {t \in S : t + 1 \notin S}
  <2>1. b \in S /\ \A x \in S : x <= b
    BY <1>2, MaxIs
  <2>2. S = Min(S) .. b
    BY <1>2, RunIsConvex DEF IsRun
  <2> HIDE DEF b
  <2>3. ends = {b}
    <3>1. b \in ends
      <4>1. b + 1 \notin S
        BY <2>1
      <4> QED BY <2>1, <4>1
    <3>2. ASSUME NEW t \in S, t + 1 \notin S PROVE t = b
      <4>1. ASSUME t < b PROVE FALSE
        <5>1. t + 1 \in t .. b
          BY <2>1, <4>1
        <5> QED BY <2>1, <3>2, <5>1 DEF Convex
      <4> QED BY <2>1, <4>1
    <3> QED BY <3>1, <3>2
  <2>4. Min(ends) = b
    <3> HIDE DEF ends
    <3>1. b \in Int
      BY <2>1
    <3>2. \A x \in {b} : x = b
      OBVIOUS
    <3> QED BY <2>3, <3>1 DEF Min
  <2>5. FirstSegment(S) = Min(S) .. Min(ends)
    BY <1>2 DEF FirstSegment
  <2> HIDE DEF ends
  <2> QED BY <2>2, <2>4, <2>5
<1> QED BY <1>1, <1>2

(* The serials of one printed row.                                         *)
RowOf(S, issued) ==
    /\ Convex(S) /\ Convex(S \cap issued) /\ Convex(S \ issued)
    /\ \A s, t \in S : BookOf(s) = BookOf(t)

LEMMA RowOfIsOneRow ==
  ASSUME NEW S \in SUBSET Nat, IsFiniteSet(S), NEW issued
  PROVE  OneRow(S, issued) <=> RowOf(S, issued)
<1>1. /\ IsFiniteSet(S \cap issued) /\ IsFiniteSet(S \ issued)
      /\ S \cap issued \in SUBSET Nat /\ S \ issued \in SUBSET Nat
  BY FS_Subset
<1>2. /\ IsRun(S) <=> Convex(S)
      /\ IsRun(S \cap issued) <=> Convex(S \cap issued)
      /\ IsRun(S \ issued) <=> Convex(S \ issued)
  BY <1>1, RunIsConvex
<1> QED BY <1>2, Zenon DEF OneRow, RowOf

LEMMA RowExtends ==
  ASSUME NEW S \in SUBSET Nat, NEW issued, RowOf(S, issued),
         NEW p \in S, \A x \in S : x <= p, NEW s \in Nat, p + 1 = s, BookOf(p) = BookOf(s),
         Phase(issued, s) = Phase(issued, p) \/ \A x \in S : Phase(issued, x) # Phase(issued, s)
  PROVE  RowOf(S \cup {s}, issued)
<1>1. p = s - 1 /\ \A x \in S : x < s
  OBVIOUS
<1>2. Convex(S) /\ Convex(S \cap issued) /\ Convex(S \ issued) /\ \A x, y \in S : BookOf(x) = BookOf(y)
  BY DEF RowOf
<1>3. Convex(S \cup {s})
  BY <1>1, <1>2, ConvexExtends
<1>4. Convex((S \cup {s}) \cap issued)
  <2>1. CASE s \in issued
    <3>1. (S \cup {s}) \cap issued = (S \cap issued) \cup {s}
      BY <2>1
    <3>2. S \cap issued # {} => s - 1 \in S \cap issued
      BY <1>1, <2>1 DEF Phase
    <3>3. Convex((S \cap issued) \cup {s})
      BY <1>1, <1>2, <3>2, ConvexExtends
    <3> QED BY <3>1, <3>3
  <2>2. CASE s \notin issued
    <3>1. (S \cup {s}) \cap issued = S \cap issued
      BY <2>2
    <3> QED BY <1>2, <3>1
  <2> QED BY <2>1, <2>2
<1>5. Convex((S \cup {s}) \ issued)
  <2>1. CASE s \notin issued
    <3>1. (S \cup {s}) \ issued = (S \ issued) \cup {s}
      BY <2>1
    <3>2. S \ issued # {} => s - 1 \in S \ issued
      BY <1>1, <2>1 DEF Phase
    <3>3. Convex((S \ issued) \cup {s})
      BY <1>1, <1>2, <3>2, ConvexExtends
    <3> QED BY <3>1, <3>3
  <2>2. CASE s \in issued
    <3>1. (S \cup {s}) \ issued = S \ issued
      BY <2>2
    <3> QED BY <1>2, <3>1
  <2> QED BY <2>1, <2>2
<1>6. \A x, y \in S \cup {s} : BookOf(x) = BookOf(y)
  BY <1>2, Zenon
<1> QED BY <1>3, <1>4, <1>5, <1>6, Zenon DEF RowOf

(* The walk over the stock, and over each part of it.                      *)
IsWalk(g, issued, S) ==
    g = [s \in SUBSET S |->
            IF s = {} THEN Entered
            ELSE Visit(g[s \ {Max(s)}], Max(s), Phase(issued, Max(s)))]

LEMMA BucketsIter ==
  ASSUME NEW S, NEW issued
  PROVE  Buckets(S, issued) = (CHOOSE g : IsWalk(g, issued, S))[S].buckets
BY DEF Buckets, Ascending, MapThenFoldSet, IsWalk

LEMMA WalkExists ==
  ASSUME NEW S \in SUBSET Printable, NEW issued
  PROVE  \E g : IsWalk(g, issued, S)
<1> DEFINE P == {n \in Nat : \E g : IsWalk(g, issued, Upto(S, n))}
<1>1. S \subseteq Nat \ {0}
  BY PrintableIs
<1>2. 0 \in P
  <2>1. Upto(S, 0) = {}
    <3>1. ASSUME NEW s \in S PROVE ~ (s <= 0)
      BY <1>1
    <3> QED BY <3>1, Zenon DEF Upto
  <2>2. IsWalk([s \in {{}} |-> Entered], issued, {})
    BY DEF IsWalk
  <2> QED BY <2>1, <2>2
<1>3. ASSUME NEW n \in Nat, n \in P PROVE n + 1 \in P
  <2>1. PICK g : IsWalk(g, issued, Upto(S, n))
    BY <1>3
  <2> DEFINE next(s) == IF s = {} THEN Entered
                        ELSE Visit(g[s \ {Max(s)}], Max(s), Phase(issued, Max(s)))
             h == [s \in SUBSET Upto(S, n + 1) |-> next(s)]
  <2>2. \A s \in SUBSET Upto(S, n) : g[s] = next(s)
    BY <2>1 DEF IsWalk
  <2>3. SUBSET Upto(S, n) \subseteq SUBSET Upto(S, n + 1)
    <3>1. ASSUME NEW s \in S, s <= n PROVE s <= n + 1
      BY <1>1, <3>1
    <3> QED BY <3>1, Zenon DEF Upto
  <2>4. ASSUME NEW s \in SUBSET Upto(S, n + 1), s # {}
        PROVE  h[s \ {Max(s)}] = g[s \ {Max(s)}]
    <3>1. s \ {Max(s)} \in SUBSET Upto(S, n)
      BY <2>4, WithoutMax
    <3> HIDE DEF next
    <3> QED BY <2>2, <2>3, <3>1
  <2>5. h = [s \in SUBSET Upto(S, n + 1) |->
               IF s = {} THEN Entered
               ELSE Visit(h[s \ {Max(s)}], Max(s), Phase(issued, Max(s)))]
    <3>1. ASSUME NEW s \in SUBSET Upto(S, n + 1)
          PROVE  next(s) = IF s = {} THEN Entered
                           ELSE Visit(h[s \ {Max(s)}], Max(s), Phase(issued, Max(s)))
      <4> HIDE DEF h
      <4> QED BY <2>4
    <3> HIDE DEF next
    <3> QED BY <3>1, Zenon
  <2>6. IsWalk(h, issued, Upto(S, n + 1))
    BY <2>5 DEF IsWalk
  <2> QED BY <2>6
<1>4. PICK m \in Nat : S = Upto(S, m)
  BY UptoAll
<1>5. m \in P
  <2> HIDE DEF P
  <2>1. Nat \subseteq P
    BY <1>2, <1>3, NatInd
  <2> QED BY <2>1
<1> QED BY <1>4, <1>5

(* Serial s had to start a row, with p the last serial before it in the    *)
(* row S: the next booklet, a missing receipt, or a third run.             *)
Blocked(S, P, issued, s) ==
    \E p \in S :
        /\ p < s /\ \A y \in P : y < s => y <= p
        /\ \/ BookOf(p) # BookOf(s)
           \/ p + 1 # s
           \/ Phase(issued, p) # Phase(issued, s) /\ \E x \in S : Phase(issued, x) = Phase(issued, s)

RowStarts(S, T, P, issued) == \E s \in T : Blocked(S, P, issued, s) /\ \A y \in T : s <= y

Walked(w, P, issued) ==
    LET b == w.buckets
    IN  /\ b \in Seq(SUBSET Nat)
        /\ \A i \in DOMAIN b : b[i] # {} /\ b[i] \subseteq P /\ RowOf(b[i], issued)
        /\ \A i, j \in DOMAIN b : i < j => \A x \in b[i], y \in b[j] : x < y
        /\ \A s \in P : \E i \in DOMAIN b : s \in b[i]
        /\ \A i \in DOMAIN b : i + 1 \in DOMAIN b => RowStarts(b[i], b[i + 1], P, issued)
        /\ b # <<>> =>
              /\ w.previous \in b[Len(b)] /\ \A x \in P : x <= w.previous
              /\ w.last = Phase(issued, w.previous)
              /\ w.seen = {Phase(issued, x) : x \in b[Len(b)]}

LEMMA StartsStays ==
  ASSUME NEW P \in SUBSET Nat, NEW s \in Nat, \A x \in P : x < s, NEW issued,
         NEW S, NEW T \in SUBSET P, RowStarts(S, T, P, issued)
  PROVE  RowStarts(S, T, P \cup {s}, issued)
<1>1. PICK t \in T : Blocked(S, P, issued, t) /\ \A y \in T : t <= y
  BY Zenon DEF RowStarts
<1>2. t \in Nat /\ t < s
  OBVIOUS
<1>3. ~ (s < t)
  BY <1>2
<1>4. Blocked(S, P \cup {s}, issued, t)
  BY <1>1, <1>3, Zenon DEF Blocked
<1> QED BY <1>1, <1>4, Zenon DEF RowStarts

LEMMA SeqChanged ==
  ASSUME NEW T, NEW b \in Seq(T), NEW i \in 1 .. Len(b), NEW v \in T
  PROVE  LET c == [b EXCEPT ![i] = v]
         IN  /\ c \in Seq(T) /\ DOMAIN c = 1 .. Len(b) /\ Len(c) = Len(b) /\ c[i] = v
             /\ \A j \in 1 .. Len(b) : j # i => c[j] = b[j]
OBVIOUS

(* A serial that starts a row.                                             *)
NewRow(w, s, phase) ==
    LET b == w.buckets
        n == Len(b)
        w1 == Visit(w, s, phase)
    IN  /\ n \in Nat /\ DOMAIN b = 1 .. n /\ (n = 0 <=> b = <<>>)
        /\ w1.buckets \in Seq(SUBSET Nat)
        /\ DOMAIN w1.buckets = 1 .. n + 1 /\ Len(w1.buckets) = n + 1
        /\ \A i \in 1 .. n : w1.buckets[i] = b[i]
        /\ w1.buckets[n + 1] = {s}
        /\ w1.previous = s /\ w1.last = phase /\ w1.seen = {phase}

LEMMA VisitStarts ==
  ASSUME NEW w, NEW s \in Nat, NEW phase, w.buckets \in Seq(SUBSET Nat), StartsBucket(w, s, phase)
  PROVE  NewRow(w, s, phase)
<1> DEFINE b == w.buckets
           n == Len(b)
           w1 == Visit(w, s, phase)
           c == Append(b, {s})
<1>1. w1.buckets = c /\ w1.previous = s /\ w1.last = phase /\ w1.seen = {phase}
  BY DEF Visit
<1> HIDE DEF w1, b
<1>2. b \in Seq(SUBSET Nat)
  BY DEF b
<1>3. /\ n \in Nat /\ DOMAIN b = 1 .. n /\ (n = 0 <=> b = <<>>)
      /\ c \in Seq(SUBSET Nat) /\ DOMAIN c = 1 .. n + 1 /\ Len(c) = n + 1
      /\ \A i \in 1 .. n : c[i] = b[i]
      /\ c[n + 1] = {s}
  BY <1>2
<1> HIDE DEF c, n
<1>4. QED
  BY <1>1, <1>3, Zenon DEF NewRow, b, n, w1

(* A serial that is added to the last row.                                 *)
SameRow(w, s, phase) ==
    LET b == w.buckets
        n == Len(b)
        w1 == Visit(w, s, phase)
    IN  /\ n \in Nat \ {0} /\ DOMAIN b = 1 .. n /\ b # <<>>
        /\ w1.buckets \in Seq(SUBSET Nat)
        /\ DOMAIN w1.buckets = 1 .. n /\ Len(w1.buckets) = n
        /\ \A i \in 1 .. n : i # n => w1.buckets[i] = b[i]
        /\ w1.buckets[n] = b[n] \cup {s}
        /\ w1.previous = s /\ w1.last = phase /\ w1.seen = w.seen \cup {phase}
        /\ BookOf(w.previous) = BookOf(s) /\ w.previous + 1 = s
        /\ phase = w.last \/ phase \notin w.seen

LEMMA VisitAdds ==
  ASSUME NEW w, NEW s \in Nat, NEW phase, w.buckets \in Seq(SUBSET Nat), ~StartsBucket(w, s, phase)
  PROVE  SameRow(w, s, phase)
<1> DEFINE b == w.buckets
           n == Len(b)
           w1 == Visit(w, s, phase)
           c == [b EXCEPT ![n] = @ \union {s}]
<1>1. w1.buckets = c /\ w1.previous = s /\ w1.last = phase /\ w1.seen = w.seen \cup {phase}
  BY DEF Visit
<1>2. /\ b # <<>> /\ BookOf(w.previous) = BookOf(s) /\ w.previous + 1 = s
      /\ phase = w.last \/ phase \notin w.seen
  BY DEF StartsBucket
<1> HIDE DEF w1, b
<1>3. b \in Seq(SUBSET Nat)
  BY DEF b
<1>4. n \in Nat \ {0} /\ DOMAIN b = 1 .. n
  BY <1>2, <1>3
<1>5. b[n] \cup {s} \in SUBSET Nat
  BY <1>3, <1>4
<1>6. /\ c \in Seq(SUBSET Nat) /\ DOMAIN c = 1 .. n /\ Len(c) = n
      /\ \A i \in 1 .. n : i # n => c[i] = b[i]
      /\ c[n] = b[n] \cup {s}
  <2> DEFINE v == b[n] \cup {s}
  <2>1. v \in SUBSET Nat /\ c = [b EXCEPT ![n] = v]
    BY <1>5
  <2> HIDE DEF v, c
  <2>2. /\ c \in Seq(SUBSET Nat) /\ DOMAIN c = 1 .. n /\ Len(c) = n
        /\ \A i \in 1 .. n : i # n => c[i] = b[i]
        /\ c[n] = v
    <3>1. n \in 1 .. Len(b)
      BY <1>4
    <3> HIDE DEF b, n
    <3> QED BY <1>3, <2>1, <3>1, SeqChanged DEF n
  <2> QED BY <2>2 DEF v
<1> HIDE DEF c, n
<1>7. QED
  BY <1>1, <1>2, <1>4, <1>6, Zenon DEF SameRow, b, n, w1

(* One serial more.                                                        *)
LEMMA VisitKeepsRows ==
  ASSUME NEW P \in SUBSET Nat, NEW s \in Nat, \A x \in P : x < s, NEW issued,
         NEW w, Walked(w, P, issued)
  PROVE  Walked(Visit(w, s, Phase(issued, s)), P \cup {s}, issued)
<1> DEFINE b == w.buckets
           n == Len(b)
           phase == Phase(issued, s)
           w1 == Visit(w, s, phase)
           c == w1.buckets
           Q == P \cup {s}
<1>1. b \in Seq(SUBSET Nat)
  BY Zenon DEF Walked
<1>2. /\ \A i \in DOMAIN b : b[i] # {} /\ b[i] \subseteq P /\ RowOf(b[i], issued)
      /\ \A i, j \in DOMAIN b : i < j => \A x \in b[i], y \in b[j] : x < y
      /\ \A x \in P : \E i \in DOMAIN b : x \in b[i]
      /\ \A i \in DOMAIN b : i + 1 \in DOMAIN b => RowStarts(b[i], b[i + 1], P, issued)
      /\ b # <<>> =>
            /\ w.previous \in b[n] /\ \A x \in P : x <= w.previous
            /\ w.last = Phase(issued, w.previous)
            /\ w.seen = {Phase(issued, x) : x \in b[n]}
  BY Zenon DEF Walked
<1>3. CASE StartsBucket(w, s, phase)
  <2>1. /\ n \in Nat /\ DOMAIN b = 1 .. n /\ (n = 0 <=> b = <<>>)
        /\ c \in Seq(SUBSET Nat) /\ DOMAIN c = 1 .. n + 1 /\ Len(c) = n + 1
        /\ \A i \in 1 .. n : c[i] = b[i]
        /\ c[n + 1] = {s}
        /\ w1.previous = s /\ w1.last = phase /\ w1.seen = {phase}
    <3>1. NewRow(w, s, phase)
      BY <1>1, <1>3, VisitStarts
    <3> QED BY <3>1, Zenon DEF NewRow
  <2>2. \/ b = <<>> \/ BookOf(w.previous) # BookOf(s) \/ w.previous + 1 # s
        \/ phase # w.last /\ phase \in w.seen
    BY <1>3, Zenon DEF StartsBucket
  <2> HIDE DEF b, n, w1, c, phase
  <2>3. \A i \in DOMAIN b : i \in DOMAIN c /\ c[i] = b[i]
    BY <2>1
  <2>4. n + 1 \in DOMAIN c /\ \A i \in DOMAIN c : i \in DOMAIN b \/ i = n + 1
    BY <2>1
  <2>5. RowOf({s}, issued)
    BY DEF RowOf, Convex
  <2>6. \A i \in DOMAIN c : c[i] # {} /\ c[i] \subseteq Q /\ RowOf(c[i], issued)
    <3>1. ASSUME NEW i \in DOMAIN b PROVE c[i] # {} /\ c[i] \subseteq Q /\ RowOf(c[i], issued)
      BY <1>2, <2>3
    <3>2. c[n + 1] # {} /\ c[n + 1] \subseteq Q /\ RowOf(c[n + 1], issued)
      BY <2>1, <2>5
    <3> QED BY <2>4, <3>1, <3>2
  <2>7. ASSUME NEW i \in DOMAIN c, NEW j \in DOMAIN c, i < j, NEW x \in c[i], NEW y \in c[j]
        PROVE  x < y
    <3>1. i \in DOMAIN b /\ x \in b[i] /\ x \in P
      <4>1. i \in DOMAIN b
        BY <2>1, <2>7
      <4> QED BY <1>2, <2>3, <2>7, <4>1
    <3>2. CASE j \in DOMAIN b
      <4>1. y \in b[j]
        BY <2>3, <2>7, <3>2
      <4> QED BY <1>2, <2>7, <3>1, <3>2, <4>1
    <3>3. CASE j = n + 1
      <4>1. y = s
        BY <2>1, <2>7, <3>3
      <4> QED BY <3>1, <4>1
    <3> QED BY <2>4, <3>2, <3>3
  <2>8. ASSUME NEW x \in Q PROVE \E i \in DOMAIN c : x \in c[i]
    <3>1. CASE x = s
      BY <2>1, <2>4, <3>1
    <3>2. CASE x \in P
      BY <1>2, <2>3, <3>2
    <3> QED BY <3>1, <3>2
  <2>9. ASSUME NEW i \in DOMAIN c, i + 1 \in DOMAIN c PROVE RowStarts(c[i], c[i + 1], Q, issued)
    <3>1. i \in DOMAIN b /\ c[i] = b[i]
      <4>1. i \in DOMAIN b
        BY <2>1, <2>9
      <4> QED BY <2>3, <4>1
    <3>2. CASE i + 1 \in DOMAIN b
      <4>1. c[i + 1] = b[i + 1] /\ b[i + 1] \in SUBSET P /\ RowStarts(b[i], b[i + 1], P, issued)
        BY <1>2, <2>3, <3>1, <3>2
      <4> HIDE DEF Q
      <4>2. RowStarts(b[i], b[i + 1], Q, issued)
        <5> USE DEF Q
        <5> QED BY <4>1, StartsStays
      <4> QED BY <3>1, <4>1, <4>2
    <3>3. CASE i = n
      <4>1. b # <<>> /\ n \in DOMAIN b
        BY <3>1, <3>3, <2>1
      <4>2. /\ w.previous \in b[n] /\ \A x \in P : x <= w.previous
            /\ w.last = Phase(issued, w.previous)
            /\ w.seen = {Phase(issued, x) : x \in b[n]}
        BY <1>2, <4>1
      <4> DEFINE p == w.previous
      <4>3. p \in P /\ p < s
        BY <1>2, <4>1, <4>2
      <4>4. \A y \in Q : y < s => y <= p
        <5>1. ASSUME NEW y \in Q, y < s PROVE y \in P
          BY <5>1
        <5> QED BY <4>2, <5>1
      <4>5. \/ BookOf(p) # BookOf(s) \/ p + 1 # s
            \/ Phase(issued, p) # Phase(issued, s) /\ \E x \in b[n] : Phase(issued, x) = Phase(issued, s)
        <5>1. phase \in w.seen => \E x \in b[n] : Phase(issued, x) = phase
          BY <4>2
        <5> QED BY <2>2, <4>1, <4>2, <5>1, Zenon DEF phase
      <4> HIDE DEF p, Q
      <4>6. Blocked(b[n], Q, issued, s)
        <5>1. p \in b[n]
          BY <4>2 DEF p
        <5> QED BY <4>3, <4>4, <4>5, <5>1, Zenon DEF Blocked
      <4>7. \A y \in {s} : s <= y
        OBVIOUS
      <4>8. RowStarts(b[n], {s}, Q, issued)
        BY <4>6, <4>7, Zenon DEF RowStarts
      <4> QED BY <2>1, <3>1, <3>3, <4>8
    <3>4. i + 1 \in DOMAIN b \/ i = n
      BY <2>1, <2>9
    <3> QED BY <3>2, <3>3, <3>4
  <2>10. /\ w1.previous \in c[Len(c)] /\ \A x \in Q : x <= w1.previous
         /\ w1.last = Phase(issued, w1.previous)
         /\ w1.seen = {Phase(issued, x) : x \in c[Len(c)]}
    <3>1. c[Len(c)] = {s} /\ s \in Nat
      BY <2>1
    <3>2. \A x \in Q : x <= s
      OBVIOUS
    <3>3. {phase} = {Phase(issued, x) : x \in {s}}
      BY DEF phase
    <3>4. w1.last = Phase(issued, s)
      BY <2>1 DEF phase
    <3> HIDE DEF Q
    <3> QED BY <2>1, <3>1, <3>2, <3>3, <3>4
  <2> HIDE DEF Q
  <2>11. Walked(w1, Q, issued)
    BY <2>1, <2>6, <2>7, <2>8, <2>9, <2>10, Zenon DEF Walked, c
  <2> QED BY <2>11 DEF w1, Q, phase
<1>4. CASE ~StartsBucket(w, s, phase)
  <2>1. /\ n \in Nat \ {0} /\ DOMAIN b = 1 .. n /\ b # <<>>
        /\ c \in Seq(SUBSET Nat) /\ DOMAIN c = 1 .. n /\ Len(c) = n
        /\ \A i \in 1 .. n : i # n => c[i] = b[i]
        /\ c[n] = b[n] \cup {s}
        /\ w1.previous = s /\ w1.last = phase /\ w1.seen = w.seen \cup {phase}
        /\ BookOf(w.previous) = BookOf(s) /\ w.previous + 1 = s
        /\ phase = w.last \/ phase \notin w.seen
    <3>1. SameRow(w, s, phase)
      BY <1>1, <1>4, VisitAdds
    <3> QED BY <3>1, Zenon DEF SameRow
  <2> DEFINE p == w.previous
  <2>2. /\ p \in b[n] /\ \A x \in P : x <= p
        /\ w.last = Phase(issued, p)
        /\ w.seen = {Phase(issued, x) : x \in b[n]}
    BY <1>2, <2>1
  <2> HIDE DEF b, n, w1, c, phase
  <2>3. n \in DOMAIN b /\ DOMAIN c = DOMAIN b
    BY <2>1
  <2>4. \A i \in DOMAIN b : b[i] \subseteq c[i] /\ c[i] \subseteq b[i] \cup {s} /\ (i # n => c[i] = b[i])
    BY <2>1
  <2>5. RowOf(c[n], issued)
    <3>1. b[n] \in SUBSET Nat /\ RowOf(b[n], issued) /\ \A x \in b[n] : x <= p
      BY <1>2, <2>2, <2>3
    <3>2. Phase(issued, s) = Phase(issued, p) \/ \A x \in b[n] : Phase(issued, x) # Phase(issued, s)
      BY <2>1, <2>2, Zenon DEF phase
    <3>3. p + 1 = s /\ BookOf(p) = BookOf(s)
      BY <2>1
    <3> HIDE DEF p
    <3>4. RowOf(b[n] \cup {s}, issued)
      BY <2>2, <3>1, <3>2, <3>3, RowExtends
    <3> QED BY <2>1, <3>4
  <2>6. ASSUME NEW i \in DOMAIN c PROVE c[i] # {} /\ c[i] \subseteq Q /\ RowOf(c[i], issued)
    <3>1. i \in DOMAIN b
      BY <2>3
    <3>2. c[i] # {} /\ c[i] \subseteq Q
      BY <1>2, <2>4, <3>1
    <3>3. RowOf(c[i], issued)
      BY <1>2, <2>4, <2>5, <3>1, Zenon
    <3> QED BY <3>2, <3>3
  <2>7. ASSUME NEW i \in DOMAIN c, NEW j \in DOMAIN c, i < j, NEW x \in c[i], NEW y \in c[j]
        PROVE  x < y
    <3>1. i # n /\ i \in DOMAIN b /\ j \in DOMAIN b
      BY <2>1, <2>7
    <3>2. x \in b[i] /\ x \in P
      BY <1>2, <2>4, <2>7, <3>1
    <3>3. y \in b[j] \/ y = s
      BY <2>4, <2>7, <3>1
    <3> QED BY <1>2, <2>7, <3>1, <3>2, <3>3
  <2>8. ASSUME NEW x \in Q PROVE \E i \in DOMAIN c : x \in c[i]
    <3>1. CASE x = s
      BY <2>1, <2>3, <3>1
    <3>2. CASE x \in P
      BY <1>2, <2>3, <2>4, <3>2
    <3> QED BY <3>1, <3>2
  <2>9. ASSUME NEW i \in DOMAIN c, i + 1 \in DOMAIN c PROVE RowStarts(c[i], c[i + 1], Q, issued)
    <3>1. i \in DOMAIN b /\ i + 1 \in DOMAIN b /\ i # n
      BY <2>1, <2>9
    <3>2. c[i] = b[i] /\ b[i + 1] \in SUBSET P /\ RowStarts(b[i], b[i + 1], P, issued)
      BY <1>2, <2>4, <3>1
    <3>3. RowStarts(b[i], b[i + 1], Q, issued)
      BY <3>2, StartsStays
    <3>4. PICK t \in b[i + 1] : Blocked(b[i], Q, issued, t) /\ \A y \in b[i + 1] : t <= y
      BY <3>3, Zenon DEF RowStarts
    <3>5. t \in c[i + 1] /\ \A y \in c[i + 1] : t <= y
      <4>1. t \in P
        BY <3>2, Zenon
      <4>2. t \in Nat /\ t <= s
        <5>1. t \in Nat /\ t < s
          BY <4>1, Zenon
        <5> QED BY <5>1
      <4> QED BY <2>4, <3>1, <3>4, <4>2, Zenon
    <3> QED BY <3>2, <3>4, <3>5, Zenon DEF RowStarts
  <2>10. /\ w1.previous \in c[Len(c)] /\ \A x \in Q : x <= w1.previous
         /\ w1.last = Phase(issued, w1.previous)
         /\ w1.seen = {Phase(issued, x) : x \in c[Len(c)]}
    <3>1. Len(c) = n /\ c[n] = b[n] \cup {s}
      BY <2>1
    <3>2. \A x \in Q : x <= s
      OBVIOUS
    <3>3. w.seen \cup {phase} = {Phase(issued, x) : x \in b[n] \cup {s}}
      BY <2>2 DEF phase
    <3>4. w1.last = Phase(issued, s)
      BY <2>1 DEF phase
    <3> HIDE DEF Q
    <3> QED BY <2>1, <3>1, <3>2, <3>3, <3>4
  <2> HIDE DEF Q
  <2>11. c \in Seq(SUBSET Nat)
    BY <2>1
  <2>12. Walked(w1, Q, issued)
    BY <2>6, <2>7, <2>8, <2>9, <2>10, <2>11, Zenon DEF Walked, c
  <2> QED BY <2>12 DEF w1, Q, phase
<1> QED BY <1>3, <1>4

LEMMA BucketsWalked ==
  ASSUME NEW S \in SUBSET Printable, NEW issued
  PROVE  \E w : Buckets(S, issued) = w.buckets /\ Walked(w, S, issued)
<1> DEFINE g == CHOOSE g : IsWalk(g, issued, S)
           G == {s \in SUBSET S : Walked(g[s], s, issued)}
<1>1. \A s \in SUBSET S :
         g[s] = IF s = {} THEN Entered
                ELSE Visit(g[s \ {Max(s)}], Max(s), Phase(issued, Max(s)))
  <2>1. IsWalk(g, issued, S)
    BY WalkExists
  <2> HIDE DEF g
  <2> QED BY <2>1 DEF IsWalk
<1> HIDE DEF g
<1>2. ASSUME NEW s \in SUBSET S, \A x \in s : s \ {x} \in G PROVE s \in G
  <2>1. CASE s = {}
    <3>1. g[s] = Entered
      BY <1>1, <2>1
    <3>2. Walked(Entered, {}, issued)
      BY DEF Walked, Entered
    <3> QED BY <2>1, <3>1, <3>2
  <2>2. CASE s # {}
    <3> DEFINE m == Max(s)
               P == s \ {m}
    <3>1. s \subseteq Nat /\ m \in s /\ \A x \in s : x <= m
      BY <2>2, MaxIs, PrintableIs
    <3>2. m \in Nat /\ P \in SUBSET Nat /\ (\A x \in P : x < m) /\ P \cup {m} = s
      <4> HIDE DEF m
      <4> QED BY <3>1
    <3>3. g[s] = Visit(g[P], m, Phase(issued, m))
      BY <1>1, <2>2
    <3>4. Walked(g[P], P, issued)
      BY <1>2, <3>1
    <3> HIDE DEF m, P
    <3>5. Walked(Visit(g[P], m, Phase(issued, m)), P \cup {m}, issued)
      BY <3>2, <3>4, VisitKeepsRows
    <3> QED BY <3>2, <3>3, <3>5
  <2> QED BY <2>1, <2>2
<1>3. S \in G
  <2>1. IsFiniteSet(S)
    BY PrintableIs
  <2> HIDE DEF G
  <2>2. SUBSET S \subseteq G
    BY <1>2, <2>1, SetInd
  <2> QED BY <2>2
<1>4. Buckets(S, issued) = g[S].buckets
  BY BucketsIter DEF g
<1> QED BY <1>3, <1>4

(* A division of the stock has a row that starts after each bucket does    *)
(* and not after the next, else a row would hold what no row can print.    *)
LEMMA RowBetween ==
  ASSUME NEW stock \in SUBSET Nat, NEW issued, NEW starts \in SUBSET stock,
         IsFiniteSet(starts), Divides(starts, stock, issued),
         NEW S \in SUBSET stock, NEW T \in SUBSET stock, RowStarts(S, T, stock, issued),
         IsFiniteSet(stock),
         \A x \in S, y \in T : x < y,
         NEW f \in S, \A x \in S : f <= x
  PROVE  \E a \in starts : f < a /\ a <= Min(T)
<1>1. PICK s \in T : Blocked(S, stock, issued, s) /\ \A y \in T : s <= y
  BY Zenon DEF RowStarts
<1>2. T \subseteq Nat /\ S \subseteq Nat /\ starts \subseteq Nat
  OBVIOUS
<1>3. Min(T) = s
  <2>1. Min(T) \in T /\ \A y \in T : Min(T) <= y
    BY <1>2, MinIs
  <2> DEFINE m == Min(T)
  <2>2. m \in Nat /\ s \in Nat /\ m <= s /\ s <= m
    BY <1>1, <1>2, <2>1
  <2> HIDE DEF m
  <2>3. m = s
    BY <2>2
  <2> QED BY <2>3 DEF m
<1>4. PICK p \in S :
         /\ p < s /\ \A y \in stock : y < s => y <= p
         /\ \/ BookOf(p) # BookOf(s)
            \/ p + 1 # s
            \/ Phase(issued, p) # Phase(issued, s) /\ \E x \in S : Phase(issued, x) = Phase(issued, s)
  BY <1>1, Zenon DEF Blocked
<1>5. SUFFICES ASSUME \A a \in starts : ~ (f < a /\ a <= s) PROVE FALSE
  BY <1>3
<1> DEFINE before == {a \in starts : a <= f}
           R == {t \in stock : t >= Max(before) /\ \A a \in starts : a > f => t < a}
<1>6. before # {} /\ OneRow(R, issued)
  BY DEF Divides
<1>7. Max(before) \in Nat /\ Max(before) <= f
  <2>1. IsFiniteSet(before) /\ before \subseteq Int
    <3>1. before \in SUBSET starts
      BY Zenon
    <3> HIDE DEF before
    <3>2. IsFiniteSet(before)
      BY <3>1, FS_Subset
    <3>3. before \subseteq Int
      BY <1>2, <3>1
    <3> QED BY <3>2, <3>3
  <2>2. \A x \in before : x \in Nat /\ x <= f
    <3>1. \A x \in before : x \in starts /\ x <= f
      BY Zenon
    <3> HIDE DEF before
    <3> QED BY <1>2, <3>1
  <2> HIDE DEF before
  <2>3. Max(before) \in before
    BY <1>6, <2>1, MaxIs
  <2> QED BY <2>2, <2>3
<1>8. f \in Nat /\ s \in Nat /\ s \in stock /\ p \in Nat
  BY <1>2
<1>9. ASSUME NEW t \in stock, f <= t, t <= s PROVE t \in R
  <2> DEFINE m == Max(before)
  <2>1. t \in Nat /\ m \in Nat /\ m <= f
    BY <1>7
  <2>2. t >= m
    <3> HIDE DEF m
    <3> QED BY <1>8, <1>9, <2>1
  <2>3. ASSUME NEW a \in starts, a > f PROVE t < a
    <3>1. a \in Nat /\ ~ (f < a /\ a <= s)
      BY <1>2, <1>5
    <3> QED BY <1>8, <1>9, <2>1, <2>3, <3>1
  <2> QED BY <2>2, <2>3
<1>10. RowOf(R, issued) /\ R \subseteq Nat
  <2>1. R \subseteq stock
    OBVIOUS
  <2>2. IsFiniteSet(R) /\ R \in SUBSET Nat
    <3> HIDE DEF R
    <3> QED BY <2>1, FS_Subset
  <2> HIDE DEF R
  <2> QED BY <1>6, <2>2, RowOfIsOneRow
<1> HIDE DEF R, before
<1>11. \A x \in S : f <= x /\ x \in Nat /\ x \in stock
  BY <1>2
<1>12. ASSUME NEW x \in S, x <= p PROVE x \in R
  <2>1. x <= s
    BY <1>4, <1>8, <1>11, <1>12
  <2> QED BY <1>9, <1>11, <2>1
<1>13. p \in R /\ s \in R
  <2>1. f <= p /\ p <= p /\ f <= s /\ s <= s
    BY <1>4, <1>8, <1>11
  <2>2. p \in R
    BY <1>12, <2>1
  <2> QED BY <1>8, <1>9, <2>1, <2>2
<1>14. BookOf(p) = BookOf(s) /\ Convex(R) /\ Convex(R \cap issued) /\ Convex(R \ issued)
  BY <1>10, <1>13, Zenon DEF RowOf
<1>15. p + 1 = s
  <2>1. SUFFICES ASSUME p + 1 # s PROVE FALSE
    OBVIOUS
  <2>2. p + 1 \in p .. s /\ p + 1 < s /\ ~ (p + 1 <= p)
    BY <1>4, <1>8, <2>1
  <2>3. p + 1 \in R
    BY <1>13, <1>14, <2>2, Zenon DEF Convex
  <2>4. p + 1 \in stock
    BY <2>3 DEF R
  <2> QED BY <1>4, <2>2, <2>4
<1>16. PICK x \in S : Phase(issued, x) = Phase(issued, s) /\ Phase(issued, p) # Phase(issued, s)
  BY <1>4, <1>14, <1>15
<1>17. x <= p /\ x \in R /\ p \in x .. s
  <2>1. x <= p
    <3>1. x \in stock /\ x < s
      BY <1>1, <1>11
    <3> QED BY <1>4, <3>1
  <2> QED BY <1>4, <1>8, <1>11, <1>12, <2>1
<1> QED
  <2>1. CASE s \in issued
    <3>1. x \in R \cap issued /\ s \in R \cap issued /\ p \notin issued
      BY <1>13, <1>16, <1>17, <2>1 DEF Phase
    <3> QED BY <1>14, <1>17, <3>1, Zenon DEF Convex
  <2>2. CASE s \notin issued
    <3>1. x \in R \ issued /\ s \in R \ issued /\ p \in issued
      BY <1>13, <1>16, <1>17, <2>2 DEF Phase
    <3> QED BY <1>14, <1>17, <3>1, Zenon DEF Convex
  <2> QED BY <2>1, <2>2

(* No division of the stock has fewer rows than there are buckets.         *)
LEMMA NoFewerRows ==
  ASSUME NEW stock \in SUBSET Nat, IsFiniteSet(stock), NEW issued,
         NEW w, Walked(w, stock, issued),
         NEW n \in Nat, NEW starts \in kSubset(n, stock), Divides(starts, stock, issued)
  PROVE  Len(w.buckets) <= n
<1> DEFINE b == w.buckets
           l == Len(b)
<1>1. /\ b \in Seq(SUBSET Nat)
      /\ \A i \in DOMAIN b : b[i] # {} /\ b[i] \subseteq stock
      /\ \A i, j \in DOMAIN b : i < j => \A x \in b[i], y \in b[j] : x < y
      /\ \A i \in DOMAIN b : i + 1 \in DOMAIN b => RowStarts(b[i], b[i + 1], stock, issued)
  BY Zenon DEF Walked
<1>2. l \in Nat /\ DOMAIN b = 1 .. l
  BY <1>1
<1>3. starts \in SUBSET stock /\ Cardinality(starts) = n
  BY DEF kSubset
<1>4. IsFiniteSet(starts) /\ starts \subseteq Nat
  BY <1>3, FS_Subset
<1> HIDE DEF b, l
<1> DEFINE low(i) == Min(b[i])
<1>5. \A i \in 1 .. l : low(i) \in b[i] /\ low(i) \in Nat /\ \A x \in b[i] : low(i) <= x
  <2> TAKE i \in 1 .. l
  <2>1. b[i] \in SUBSET Nat /\ b[i] # {}
    BY <1>1, <1>2
  <2>2. Min(b[i]) \in b[i] /\ \A x \in b[i] : Min(b[i]) <= x
    BY <2>1, MinIs
  <2> QED BY <2>1, <2>2
<1> HIDE DEF low
<1>6. \A i, j \in 1 .. l : i < j => low(i) < low(j)
  BY <1>1, <1>2, <1>5
<1> DEFINE Between(i) == {a \in starts : a <= low(i) /\ (i > 1 => low(i - 1) < a)}
<1>7. ASSUME NEW i \in 1 .. l PROVE Between(i) # {}
  <2>1. CASE i = 1
    <3>1. low(1) \in stock
      BY <1>1, <1>2, <1>5, <2>1
    <3>2. {a \in starts : a <= low(1)} # {}
      BY <3>1 DEF Divides
    <3> QED BY <2>1, <3>2
  <2>2. CASE i # 1
    <3>1. i - 1 \in 1 .. l /\ i - 1 < i /\ i - 1 + 1 = i
      BY <1>2, <2>2
    <3> DEFINE k == i - 1
    <3> HIDE DEF k
    <3>2. k \in 1 .. l /\ k < i /\ k + 1 = i
      BY <3>1 DEF k
    <3>3. /\ b[k] \in SUBSET stock /\ b[i] \in SUBSET stock
          /\ RowStarts(b[k], b[i], stock, issued)
          /\ \A x \in b[k], y \in b[i] : x < y
      BY <1>1, <1>2, <3>2
    <3>4. low(k) \in b[k] /\ \A x \in b[k] : low(k) <= x
      BY <1>5, <3>2
    <3>5. \E a \in starts : low(k) < a /\ a <= Min(b[i])
      BY <1>3, <1>4, <3>3, <3>4, RowBetween
    <3> QED BY <3>5 DEF low, k
  <2> QED BY <2>1, <2>2
<1> DEFINE h == [i \in 1 .. l |-> CHOOSE a \in Between(i) : TRUE]
<1>8. \A i \in 1 .. l : h[i] \in starts /\ h[i] <= low(i) /\ (i > 1 => low(i - 1) < h[i])
  <2> TAKE i \in 1 .. l
  <2>1. h[i] \in Between(i)
    <3> HIDE DEF Between
    <3> QED BY <1>7
  <2> HIDE DEF h
  <2> QED BY <2>1
<1>9. h \in [1 .. l -> starts]
  BY <1>8
<1> HIDE DEF h, Between
<1>10. ASSUME NEW i \in 1 .. l, NEW j \in 1 .. l, i < j PROVE h[i] < h[j]
  <2> DEFINE k == j - 1
  <2>1. k \in 1 .. l /\ i <= k /\ j > 1
    BY <1>2, <1>10
  <2>2. low(k) < h[j] /\ h[i] <= low(i) /\ h[i] \in Nat /\ h[j] \in Nat
    BY <1>4, <1>8, <2>1
  <2> HIDE DEF k
  <2>3. low(i) <= low(k) /\ low(i) \in Nat /\ low(k) \in Nat
    <3>1. low(i) \in Nat /\ low(k) \in Nat
      BY <1>5, <2>1
    <3>2. CASE i = k
      BY <3>1, <3>2
    <3>3. CASE i < k
      BY <1>6, <2>1, <3>1, <3>3
    <3> QED BY <1>2, <2>1, <3>2, <3>3
  <2> QED BY <2>2, <2>3
<1>11. h \in Injection(1 .. l, starts)
  <2>1. ASSUME NEW i \in 1 .. l, NEW j \in 1 .. l, h[i] = h[j] PROVE i = j
    <3>1. h[i] \in Nat /\ h[j] \in Nat
      BY <1>4, <1>9
    <3> QED BY <1>2, <1>10, <2>1, <3>1
  <2>2. DOMAIN h = 1 .. l
    BY <1>9
  <2>3. IsInjective(h)
    BY <2>1, <2>2 DEF IsInjective
  <2> QED BY <1>9, <2>3 DEF Injection
<1>12. Cardinality(1 .. l) <= Cardinality(starts)
  BY <1>4, <1>11, FS_Injection
<1>13. Cardinality(1 .. l) = l
  BY <1>2, FS_Interval
<1> QED BY <1>3, <1>12, <1>13 DEF b, l

(* The stock rows print the reviewed stock, balance one by one, and are    *)
(* the fewest that can: however many and long the booklets are and whatever*)
(* was issued of the stock (the end of build_stock_review).                *)
THEOREM StockRowsBalanceHolds == StockRowsBalance
<1> SUFFICES ASSUME NEW stock \in SUBSET Printable, NEW issued \in SUBSET stock
             PROVE  LET rows == StockRows(stock, issued)
                        Column(c) == [i \in DOMAIN rows |-> rows[i][c]]
                    IN  /\ Prints(Column("opening"), stock)
                        /\ Prints(Column("issued"), issued)
                        /\ Prints(Column("ending"), stock \ issued)
                        /\ \A i \in DOMAIN rows :
                               rows[i].opening = rows[i].issued \union rows[i].ending
                        /\ Len(rows) > Capacity =>
                               \A n \in 0 .. Capacity : \A starts \in kSubset(n, stock) :
                                   ~Divides(starts, stock, issued)
  BY DEF StockRowsBalance
<1> DEFINE b == Buckets(stock, issued)
           rows == StockRows(stock, issued)
           Column(c) == [i \in DOMAIN rows |-> rows[i][c]]
<1>1. stock \in SUBSET Nat /\ IsFiniteSet(stock)
  BY PrintableIs
<1>2. PICK w : b = w.buckets /\ Walked(w, stock, issued)
  BY BucketsWalked
<1>3. /\ b \in Seq(SUBSET Nat)
      /\ \A i \in DOMAIN b : b[i] \subseteq stock /\ RowOf(b[i], issued)
      /\ \A i, j \in DOMAIN b : i < j => \A x \in b[i], y \in b[j] : x < y
      /\ \A s \in stock : \E i \in DOMAIN b : s \in b[i]
  <2> HIDE DEF b
  <2> QED BY <1>2, Zenon DEF Walked
<1>4. rows = [i \in DOMAIN b |-> Row(b[i], issued)]
  BY DEF StockRows
<1>5. Len(b) \in Nat /\ DOMAIN b = 1 .. Len(b)
  <2> HIDE DEF b
  <2> QED BY <1>3
<1>6. DOMAIN rows = DOMAIN b /\ Len(rows) = Len(b)
  <2> HIDE DEF b, rows
  <2> QED BY <1>4, <1>5
<1>7. ASSUME NEW i \in DOMAIN b
      PROVE  rows[i] = [opening |-> b[i], issued |-> b[i] \cap issued, ending |-> b[i] \ issued]
  <2> HIDE DEF b, rows
  <2>1. b[i] \in SUBSET stock /\ RowOf(b[i], issued)
    BY <1>3
  <2> DEFINE S == b[i]
  <2> HIDE DEF S
  <2>2. S \in SUBSET stock /\ Convex(S) /\ Convex(S \cap issued) /\ Convex(S \ issued)
    BY <2>1, Zenon DEF RowOf, S
  <2>3. /\ S \in SUBSET stock /\ S \cap issued \in SUBSET stock /\ S \ issued \in SUBSET stock
    BY <2>2
  <2>4. ASSUME NEW X \in SUBSET stock, Convex(X) PROVE FirstSegment(X) = X
    BY <1>1, <2>4, FS_Subset, SegmentIsRun
  <2>5. /\ FirstSegment(S) = S /\ FirstSegment(S \cap issued) = S \cap issued
        /\ FirstSegment(S \ issued) = S \ issued
    BY <2>2, <2>3, <2>4
  <2>6. rows[i] = Row(S, issued)
    BY <1>4 DEF S
  <2> QED BY <2>5, <2>6 DEF Row, S
<1>8. ASSUME NEW i \in DOMAIN b, NEW j \in DOMAIN b, i # j PROVE b[i] \cap b[j] = {}
  <2> HIDE DEF b
  <2>1. SUFFICES ASSUME NEW x \in b[i], x \in b[j] PROVE FALSE
    OBVIOUS
  <2>2. x \in Nat
    BY <1>1, <1>3
  <2>3. i < j \/ j < i
    BY <1>5, <1>8
  <2>4. x < x
    BY <1>3, <2>1, <2>3, Zenon
  <2> QED BY <2>2, <2>4
<1>9. UNION {b[i] : i \in DOMAIN b} = stock
  <2> HIDE DEF b
  <2> QED BY <1>3, Zenon
<1> HIDE DEF b, rows
<1>10. /\ Column("opening") = [i \in DOMAIN b |-> b[i]]
       /\ Column("issued") = [i \in DOMAIN b |-> b[i] \cap issued]
       /\ Column("ending") = [i \in DOMAIN b |-> b[i] \ issued]
  BY <1>6, <1>7
<1>11. Prints([i \in DOMAIN b |-> b[i]], stock)
  <2>1. UNION ToSet([i \in DOMAIN b |-> b[i]]) = stock
    BY <1>9 DEF ToSet
  <2> QED BY <1>8, <2>1 DEF Prints
<1>12. ASSUME NEW X, X \in {issued, stock \ issued}
       PROVE  Prints([i \in DOMAIN b |-> b[i] \cap X], X)
  <2> DEFINE c == [i \in DOMAIN b |-> b[i] \cap X]
  <2>1. X \subseteq stock
    BY <1>12
  <2>2. UNION {b[i] \cap X : i \in DOMAIN b} = X
    <3>1. \A s \in X : \E i \in DOMAIN b : s \in b[i] \cap X
      BY <1>3, <2>1
    <3> QED BY <3>1
  <2>3. ToSet(c) = {b[i] \cap X : i \in DOMAIN b}
    BY DEF ToSet
  <2>4. \A i, j \in DOMAIN c : i # j => c[i] \cap c[j] = {}
    BY <1>8
  <2> QED BY <2>2, <2>3, <2>4, Zenon DEF Prints
<1>13. [i \in DOMAIN b |-> b[i] \ issued] = [i \in DOMAIN b |-> b[i] \cap (stock \ issued)]
  <2>1. \A i \in DOMAIN b : b[i] \ issued = b[i] \cap (stock \ issued)
    BY <1>3
  <2> QED BY <2>1
<1>14. Prints(Column("opening"), stock) /\ Prints(Column("issued"), issued)
       /\ Prints(Column("ending"), stock \ issued)
  <2> HIDE DEF Column
  <2> QED BY <1>10, <1>11, <1>12, <1>13
<1>15. \A i \in DOMAIN rows : rows[i].opening = rows[i].issued \union rows[i].ending
  BY <1>6, <1>7
<1>16. ASSUME Len(rows) > Capacity, NEW n \in 0 .. Capacity, NEW starts \in kSubset(n, stock)
       PROVE  ~Divides(starts, stock, issued)
  <2>1. SUFFICES ASSUME Divides(starts, stock, issued) PROVE FALSE
    OBVIOUS
  <2>2. Capacity \in Nat
    BY StockAssumption
  <2>3. n \in Nat /\ n <= Capacity
    BY <2>2
  <2>4. Len(b) <= n
    BY <1>1, <1>2, <2>1, <2>3, NoFewerRows
  <2> QED BY <1>5, <1>6, <1>16, <2>2, <2>3, <2>4
<1> QED BY <1>14, <1>15, <1>16 DEF rows

(* When a report is released, its ranges and stock rows print what was     *)
(* collected and reviewed, however many and long the booklets are and      *)
(* whatever the stock was (build_daily_rcd, build_stock_review).           *)
THEOREM PrintedAsReviewedHolds == RcdSpec => PrintedAsReviewed
<1>1. RangesAreTheReceipts /\ StockRowsBalance
  BY RangesAreTheReceiptsHolds, StockRowsBalanceHolds
<1>2. [RcdNext]_rcdVars =>
        [\A c \in Clerks : Exporting(c) => RangesAreTheReceipts /\ StockRowsBalance]_rcdVars
  BY Zenon, <1>1
<1> QED BY <1>2, PTL DEF RcdSpec, PrintedAsReviewed
=============================================================================
