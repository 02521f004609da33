--------------------------- MODULE BackupLockProofs ---------------------------
(***************************************************************************)
(* Proofs about BackupLock, for any number of processes, any threshold and *)
(* any number of dumps kept: what overlaps backups, that no run leaves its *)
(* lock behind, and how many of the newest dumps survive the rotations of  *)
(* runs that overlap.  And about Schedules: scheduled, submitted and       *)
(* crashing as they are, backups are the runs of BackupLock, so all of     *)
(* this holds there; and a process schedules once per window, an accrual   *)
(* once per month but for a reason.                                        *)
(***************************************************************************)
EXTENDS Schedules, FiniteSetTheorems, TLAPS

(* The invariant in two halves, which most steps disturb one of: the lock  *)
(* rows, and the dumps.                                                    *)
LockTypes ==
    /\ now \in Nat
    /\ rows \in Seq(Row)
    /\ pc \in [Procs -> {"idle", "free"} \cup Holding]
    /\ at \in [Procs -> Nat]
    /\ before \in [Procs -> Nat]
    /\ lock \in [Procs -> Nat]
    /\ orphans \subseteq Nat

LockInv ==
    /\ LockTypes /\ RunInv /\ HeldInv /\ FreeInv
    /\ OverlapsAreExplained /\ LocksAreReleased

FileTypes ==
    /\ made \in Nat /\ fresh \in BOOLEAN
    /\ IsOrder(later) /\ IsOrder(since)
    /\ shared \subseteq 1 .. made /\ strays \subseteq 1 .. made
    /\ pc \in [Procs -> {"idle", "free"} \cup Holding]
    /\ file \in [Procs -> 0 .. made]
    /\ faults \in Nat

FileInv == FileTypes /\ PartialInv /\ OrderInv /\ NewestDumpsKept

LEMMA Halves == BackupInv <=> LockInv /\ FileInv
<1>1. TypeOK <=> LockTypes /\ FileTypes
  BY Zenon DEF TypeOK, LockTypes, FileTypes
<1> QED BY Zenon, <1>1 DEF BackupInv, LockInv, FileInv

(* ------------------------------- counting ------------------------------ *)

LEMMA CountUnion ==
  ASSUME NEW A, NEW B, IsFiniteSet(A), IsFiniteSet(B)
  PROVE  /\ IsFiniteSet(A \cup B)
         /\ Cardinality(A \cup B) <= Cardinality(A) + Cardinality(B)
<1>1. /\ IsFiniteSet(A \cup B)
      /\ Cardinality(A \cup B) = Cardinality(A) + Cardinality(B) - Cardinality(A \cap B)
  BY FS_Union
<1>2. IsFiniteSet(A \cap B)
  BY FS_Intersection
<1>3. /\ Cardinality(A) \in Nat /\ Cardinality(B) \in Nat /\ Cardinality(A \cap B) \in Nat
  BY <1>2, FS_CardinalityType
<1> QED BY <1>1, <1>3

(* The runs of other processes write one dump each.                        *)
LEMMA CountOthers ==
  ASSUME NEW p \in Procs
  PROVE  LET S == {file[q] : q \in Procs \ {p}}
         IN  IsFiniteSet(S) /\ Cardinality(S) <= Cardinality(Procs) - 1
<1> DEFINE others == Procs \ {p}
           S == {file[q] : q \in others}
           f == [q \in others |-> file[q]]
<1>1. IsFiniteSet(others) /\ Cardinality(others) = Cardinality(Procs) - 1
  BY BackupLockAssumption, FS_RemoveElement
<1>2. f \in Surjection(others, S)
  BY DEF Surjection
<1> HIDE DEF f
<1>3. IsFiniteSet(S) /\ Cardinality(S) <= Cardinality(others)
  BY <1>1, <1>2, FS_Surjection
<1> QED BY <1>1, <1>3

(* Whatever is said of dumps concerns finitely many.                       *)
LEMMA FiniteUpTo ==
  ASSUME NEW n \in Nat, NEW S, S \subseteq 1 .. n
  PROVE  IsFiniteSet(S) /\ Cardinality(S) \in Nat
<1>1. 1 \in Int /\ n \in Int
  OBVIOUS
<1>2. IsFiniteSet(1 .. n)
  BY Zenon, <1>1, FS_Interval
<1>3. IsFiniteSet(S)
  BY <1>2, FS_Subset
<1> QED BY <1>3, FS_CardinalityType

LEMMA SinceFinite ==
  ASSUME FileTypes, NEW d \in DOMAIN since
  PROVE  since[d] \subseteq 1 .. made /\ IsFiniteSet(since[d]) /\ Cardinality(since[d]) \in Nat
<1>1. since[d] \subseteq 1 .. made /\ made \in Nat
  BY DEF FileTypes, IsOrder
<1> QED BY <1>1, FiniteUpTo

(* A rotation that removes a completed dump has counted Keep others: they  *)
(* were completed later, or a fault left them, or other runs write them.   *)
LEMMA RotationCounts ==
  ASSUME FileInv, NEW p \in Procs, p \notin Writers,
         NEW d \in DOMAIN since \ shared, d \in DOMAIN later,
         Cardinality(later[d]) >= Keep
  PROVE  Cardinality(since[d]) + (Cardinality(Procs) - 1) + faults >= Keep
<1> DEFINE A == since[d]
           B == strays
           C == {file[q] : q \in Procs \ {p}}
<1>1. IsFiniteSet(A) /\ Cardinality(A) \in Nat
  BY SinceFinite DEF FileInv
<1>2. IsFiniteSet(B) /\ Cardinality(B) <= faults
  BY DEF FileInv, PartialInv
<1>3. IsFiniteSet(C) /\ Cardinality(C) <= Cardinality(Procs) - 1
  BY CountOthers
<1>4. Partial \subseteq B \cup C
  BY DEF Partial, Writers
<1>5. later[d] \subseteq (A \cup B) \cup C
  BY <1>4 DEF FileInv, OrderInv
<1> HIDE DEF A, B, C
<1>6. IsFiniteSet(A \cup B) /\ Cardinality(A \cup B) <= Cardinality(A) + Cardinality(B)
  BY <1>1, <1>2, CountUnion
<1>7. /\ IsFiniteSet((A \cup B) \cup C)
      /\ Cardinality((A \cup B) \cup C) <= Cardinality(A \cup B) + Cardinality(C)
  BY <1>3, <1>6, CountUnion
<1>8. IsFiniteSet(later[d]) /\ Cardinality(later[d]) <= Cardinality((A \cup B) \cup C)
  BY <1>5, <1>7, FS_Subset
<1>9. /\ Cardinality(B) \in Nat /\ Cardinality(C) \in Nat /\ Cardinality(A \cup B) \in Nat
      /\ Cardinality((A \cup B) \cup C) \in Nat /\ Cardinality(later[d]) \in Nat
      /\ Cardinality(Procs) \in Nat
  BY <1>2, <1>3, <1>6, <1>7, <1>8, BackupLockAssumption, FS_CardinalityType
<1>10. faults \in Nat /\ Keep \in Nat
  BY BackupLockAssumption DEF FileInv, FileTypes
<1>11. Cardinality(A) + (Cardinality(Procs) - 1) + faults >= Keep
  BY <1>1, <1>2, <1>3, <1>6, <1>7, <1>8, <1>9, <1>10
<1> QED BY <1>11 DEF A

(* A dump that was let go stays explained while more is completed and more *)
(* goes wrong.                                                             *)
LEMMA StillExplained ==
  ASSUME FileTypes, FileTypes', NEW d \in DOMAIN since, d \in DOMAIN since',
         since[d] \subseteq since'[d], faults <= faults',
         Cardinality(since[d]) + (Cardinality(Procs) - 1) + faults >= Keep
  PROVE  Cardinality(since'[d]) + (Cardinality(Procs) - 1) + faults' >= Keep
<1>1. IsFiniteSet(since'[d]) /\ Cardinality(since'[d]) \in Nat
  <2>1. since'[d] \subseteq 1 .. made' /\ made' \in Nat
    BY DEF FileTypes, IsOrder
  <2> QED BY <2>1, FiniteUpTo
<1>2. Cardinality(since[d]) <= Cardinality(since'[d])
  BY <1>1, FS_Subset
<1>3. Cardinality(since[d]) \in Nat
  BY SinceFinite
<1>4. Cardinality(Procs) \in Nat
  BY BackupLockAssumption, FS_CardinalityType
<1>5. faults \in Nat /\ faults' \in Nat /\ Keep \in Nat
  BY BackupLockAssumption DEF FileTypes
<1> QED BY <1>1, <1>2, <1>3, <1>4, <1>5

(* ------------------------------ the dumps ------------------------------ *)

(* What the operations on orders return.                                   *)
Ordered(m, f) == DOMAIN f \subseteq 1 .. m /\ f \in [DOMAIN f -> SUBSET DOMAIN f]

IsBehind(m, f, n, g) ==
    /\ Ordered(m, g) /\ DOMAIN g = DOMAIN f \cup {n} /\ g[n] = {}
    /\ \A d \in DOMAIN f \ {n} : g[d] = f[d] \cup {n}

IsWithout(m, f, R, g) ==
    /\ Ordered(m, g) /\ DOMAIN g = DOMAIN f \ R
    /\ \A d \in DOMAIN f \ R : g[d] = f[d] \ R

LEMMA BehindFacts ==
  ASSUME NEW m \in Nat, NEW f, NEW n \in 1 .. m, Ordered(m, f),
         NEW g, g = Behind(f, n)
  PROVE  IsBehind(m, f, n, g)
<1>1. /\ DOMAIN g = DOMAIN f \cup {n} /\ g[n] = {}
      /\ \A d \in DOMAIN f \ {n} : g[d] = f[d] \cup {n}
  BY DEF Behind
<1>2. g = [d \in DOMAIN g |-> g[d]]
  BY DEF Behind
<1>3. DOMAIN f \subseteq 1 .. m /\ \A d \in DOMAIN f : f[d] \in SUBSET DOMAIN f
  BY DEF Ordered
<1>4. \A d \in DOMAIN g : g[d] \in SUBSET DOMAIN g
  BY <1>1, <1>3
<1>5. g \in [DOMAIN g -> SUBSET DOMAIN g] /\ DOMAIN g \subseteq 1 .. m
  BY <1>1, <1>2, <1>3, <1>4
<1> QED BY <1>1, <1>5 DEF Ordered, IsBehind

LEMMA WithoutFacts ==
  ASSUME NEW m \in Nat, NEW f, NEW R, Ordered(m, f),
         NEW g, g = Without(f, R)
  PROVE  IsWithout(m, f, R, g)
<1>1. /\ DOMAIN g = DOMAIN f \ R
      /\ \A d \in DOMAIN f \ R : g[d] = f[d] \ R
  BY DEF Without
<1>2. g = [d \in DOMAIN g |-> g[d]]
  BY DEF Without
<1>3. DOMAIN f \subseteq 1 .. m /\ \A d \in DOMAIN f : f[d] \in SUBSET DOMAIN f
  BY DEF Ordered
<1>4. \A d \in DOMAIN g : g[d] \in SUBSET DOMAIN g
  BY <1>1, <1>3
<1>5. g \in [DOMAIN g -> SUBSET DOMAIN g] /\ DOMAIN g \subseteq 1 .. m
  BY <1>1, <1>2, <1>3, <1>4
<1> QED BY <1>1, <1>5 DEF Ordered, IsWithout

(* Steps that leave the directory and what is partial alone.               *)
LEMMA DumpsUntouched ==
  ASSUME FileInv, UNCHANGED <<made, later, since, shared>>, fresh' \in {fresh, FALSE},
         FileTypes', Writers' \subseteq Writers, \A q \in Writers' : file'[q] = file[q],
         \A q \in Writers' : file[q] \in strays' => file[q] \in shared,
         Partial' = Partial, faults <= faults',
         IsFiniteSet(strays'), Cardinality(strays') <= faults'
  PROVE  FileInv'
<1>1. PartialInv'
  <2>1. ASSUME NEW q \in Writers'
        PROVE  file'[q] # 0 /\ (file'[q] \in strays' => file'[q] \in shared')
    BY <2>1 DEF FileInv, PartialInv
  <2>2. ASSUME NEW q \in Writers', NEW r \in Writers', file'[q] = file'[r]
        PROVE  q = r \/ file'[q] \in shared'
    BY Zenon, <2>2 DEF FileInv, PartialInv
  <2>3. fresh' => made' # 0
    BY DEF FileInv, PartialInv
  <2> QED BY Zenon, <2>1, <2>2, <2>3 DEF PartialInv
<1>2. OrderInv'
  BY Zenon DEF FileInv, OrderInv
<1>3. NewestDumpsKept'
  <2> SUFFICES ASSUME NEW d \in DOMAIN since, d \notin DOMAIN later, d \notin shared
               PROVE  Cardinality(since'[d]) + (Cardinality(Procs) - 1) + faults' >= Keep
    BY Zenon DEF NewestDumpsKept
  <2>1. Cardinality(since[d]) + (Cardinality(Procs) - 1) + faults >= Keep
    BY Zenon DEF FileInv, NewestDumpsKept
  <2> QED BY <2>1, StillExplained DEF FileInv
<1> QED BY Zenon, <1>1, <1>2, <1>3 DEF FileInv

LEMMA WritersMove ==
  ASSUME FileTypes, NEW p \in Procs, NEW to, pc' = [pc EXCEPT ![p] = to]
  PROVE  /\ to = "dumping" => Writers' = Writers \cup {p}
         /\ to # "dumping" => Writers' = Writers \ {p}
         /\ \A q \in Procs \ {p} : pc'[q] = pc[q]
         /\ to \in {"idle", "free"} \cup Holding
               => pc' \in [Procs -> {"idle", "free"} \cup Holding]
<1>1. pc \in [Procs -> {"idle", "free"} \cup Holding]
  BY DEF FileTypes
<1>2. \A q \in Procs : pc'[q] = IF q = p THEN to ELSE pc[q]
  BY <1>1
<1>3. to \in {"idle", "free"} \cup Holding => pc' \in [Procs -> {"idle", "free"} \cup Holding]
  BY <1>1
<1> QED BY <1>2, <1>3 DEF Writers

(* A step of a run that is not writing its dump.                           *)
LEMMA IdleFiles ==
  ASSUME FileInv, NEW p \in Procs, pc[p] # "dumping",
         NEW to \in ({"idle", "free"} \cup Holding) \ {"dumping"},
         pc' = [pc EXCEPT ![p] = to], UNCHANGED files,
         file' = file \/ file' = [file EXCEPT ![p] = 0],
         faults' = faults \/ faults' = faults + 1
  PROVE  FileInv'
<1>1. FileTypes /\ PartialInv
  BY DEF FileInv
<1>2. made' = made /\ fresh' = fresh /\ later' = later /\ since' = since
      /\ shared' = shared /\ strays' = strays
  BY DEF files
<1>3. p \notin Writers
  BY DEF Writers
<1>4. Writers' = Writers /\ pc' \in [Procs -> {"idle", "free"} \cup Holding]
  <2>1. to # "dumping" /\ to \in {"idle", "free"} \cup Holding
    OBVIOUS
  <2>2. Writers' = Writers \ {p} /\ pc' \in [Procs -> {"idle", "free"} \cup Holding]
    BY Zenon, <1>1, <2>1, WritersMove
  <2> QED BY <1>3, <2>2
<1>5. \A q \in Writers : file'[q] = file[q]
  BY <1>1, <1>3 DEF FileTypes, Writers
<1>6. file' \in [Procs -> 0 .. made]
  <2>1. 0 \in 0 .. made
    BY <1>1 DEF FileTypes
  <2> QED BY <1>1, <2>1 DEF FileTypes
<1>7. faults' \in Nat /\ faults <= faults'
  BY <1>1 DEF FileTypes
<1>8. FileTypes'
  BY <1>1, <1>2, <1>4, <1>6, <1>7 DEF FileTypes, IsOrder
<1>9. Partial' = Partial
  BY <1>2, <1>4, <1>5 DEF Partial
<1>10. IsFiniteSet(strays') /\ Cardinality(strays') <= faults'
  <2>1. IsFiniteSet(strays) /\ Cardinality(strays) <= faults
    BY <1>1 DEF PartialInv
  <2>2. Cardinality(strays) \in Nat /\ faults \in Nat
    BY <1>1, <2>1, FS_CardinalityType DEF FileTypes
  <2> QED BY <1>2, <1>7, <2>1, <2>2
<1>11. \A q \in Writers : file[q] \in strays => file[q] \in shared
  BY Zenon, <1>1 DEF PartialInv
<1>12. fresh' \in {fresh, FALSE}
  BY Zenon, <1>2
<1> QED BY Zenon, <1>2, <1>4, <1>5, <1>7, <1>8, <1>9, <1>10, <1>11, <1>12, DumpsUntouched

(* The process of a run dies while it writes.                              *)
LEMMA CrashFiles ==
  ASSUME FileInv, NEW p \in Procs, Crash(p)
  PROVE  FileInv'
<1>0. /\ pc' = [pc EXCEPT ![p] = "idle"] /\ file' = [file EXCEPT ![p] = 0]
      /\ faults' = faults + 1
      /\ made' = made /\ fresh' = fresh /\ later' = later /\ since' = since
      /\ shared' = shared
      /\ strays' = IF p \in Writers THEN strays \cup {file[p]} ELSE strays
  BY DEF Crash, Lose, Forget
<1>1. CASE pc[p] # "dumping"
  <2>1. strays' = strays
    BY <1>0, <1>1 DEF Writers
  <2>2. UNCHANGED files
    BY <1>0, <2>1 DEF files
  <2>3. "idle" \in ({"idle", "free"} \cup Holding) \ {"dumping"}
    OBVIOUS
  <2> QED BY Zenon, <1>0, <1>1, <2>2, <2>3, IdleFiles
<1>2. CASE pc[p] = "dumping"
  <2>1. FileTypes /\ PartialInv
    BY DEF FileInv
  <2>2. p \in Writers /\ strays' = strays \cup {file[p]}
    BY <1>0, <1>2 DEF Writers
  <2>3. Writers' = Writers \ {p} /\ pc' \in [Procs -> {"idle", "free"} \cup Holding]
    BY <1>0, <2>1, WritersMove
  <2>4. file[p] \in 1 .. made /\ \A q \in Writers' : file'[q] = file[q]
    BY <1>0, <2>1, <2>2, <2>3 DEF FileTypes, PartialInv, Writers
  <2>5. file' \in [Procs -> 0 .. made]
    <3>1. 0 \in 0 .. made
      BY <2>1 DEF FileTypes
    <3> QED BY <1>0, <2>1, <3>1 DEF FileTypes
  <2>6. faults' \in Nat /\ faults <= faults'
    BY <1>0, <2>1 DEF FileTypes
  <2>7. FileTypes'
    BY <1>0, <2>1, <2>2, <2>3, <2>4, <2>5, <2>6 DEF FileTypes, IsOrder
  <2>8. Partial' = Partial
    BY <2>2, <2>3, <2>4 DEF Partial
  <2>9. IsFiniteSet(strays') /\ Cardinality(strays') <= faults'
    <3>1. IsFiniteSet(strays) /\ Cardinality(strays) <= faults
      BY <2>1 DEF PartialInv
    <3>2. Cardinality(strays) \in Nat /\ faults \in Nat
      BY <2>1, <3>1, FS_CardinalityType DEF FileTypes
    <3>3. /\ IsFiniteSet(strays')
          /\ \/ Cardinality(strays') = Cardinality(strays)
             \/ Cardinality(strays') = Cardinality(strays) + 1
      BY <2>2, <3>1, FS_AddElement
    <3> QED BY <1>0, <3>1, <3>2, <3>3
  <2>10. \A q \in Writers' : file[q] \in strays' => file[q] \in shared
    BY Zenon, <2>1, <2>2, <2>3 DEF PartialInv
  <2>11. fresh' \in {fresh, FALSE} /\ Writers' \subseteq Writers
    BY Zenon, <1>0, <2>3
  <2>12. UNCHANGED <<made, later, since, shared>>
    BY <1>0
  <2> QED BY Zenon, <2>4, <2>6, <2>7, <2>8, <2>9, <2>10, <2>11, <2>12, DumpsUntouched
<1> QED BY <1>1, <1>2

LEMMA TickFiles ==
  ASSUME FileInv, Tick
  PROVE  FileInv'
<1>1. FileTypes /\ PartialInv
  BY DEF FileInv
<1>2. made' = made /\ fresh' = FALSE /\ later' = later /\ since' = since /\ pc' = pc
      /\ shared' = shared /\ strays' = strays /\ file' = file /\ faults' = faults
  BY DEF Tick, run
<1>3. Writers' = Writers
  BY <1>2 DEF Writers
<1>4. FileTypes'
  BY <1>1, <1>2 DEF FileTypes, IsOrder
<1>5. Partial' = Partial
  BY <1>2, <1>3 DEF Partial
<1>6. faults <= faults' /\ IsFiniteSet(strays') /\ Cardinality(strays') <= faults'
  BY <1>1, <1>2 DEF FileTypes, PartialInv
<1>7. \A q \in Writers : file[q] \in strays => file[q] \in shared
  BY Zenon, <1>1 DEF PartialInv
<1> QED BY Zenon, <1>2, <1>3, <1>4, <1>5, <1>6, <1>7, DumpsUntouched

(* Steps that change the directory: the order must be accounted for, and   *)
(* every completed dump that goes.                                         *)
LEMMA DumpsMove ==
  ASSUME FileInv, FileTypes', PartialInv', OrderInv', faults <= faults', shared \subseteq shared',
         \A d \in DOMAIN since' \ shared' :
             \/ d \in DOMAIN later'
             \/ /\ d \in DOMAIN since /\ since[d] \subseteq since'[d]
                /\ \/ d \notin DOMAIN later
                   \/ Cardinality(since[d]) + (Cardinality(Procs) - 1) + faults >= Keep
  PROVE  FileInv'
<1>1. NewestDumpsKept'
  <2> SUFFICES ASSUME NEW d \in DOMAIN since', d \notin DOMAIN later', d \notin shared'
               PROVE  Cardinality(since'[d]) + (Cardinality(Procs) - 1) + faults' >= Keep
    BY Zenon DEF NewestDumpsKept
  <2>1. d \in DOMAIN since /\ since[d] \subseteq since'[d]
    BY Zenon
  <2>2. d \notin shared
    BY Zenon
  <2>3. Cardinality(since[d]) + (Cardinality(Procs) - 1) + faults >= Keep
    BY Zenon, <2>1, <2>2 DEF FileInv, NewestDumpsKept
  <2> QED BY Zenon, <2>1, <2>3, StillExplained DEF FileInv
<1> QED BY Zenon, <1>1 DEF FileInv

LEMMA FlushFiles ==
  ASSUME FileInv, Flush
  PROVE  FileInv'
<1>1. FileTypes /\ PartialInv /\ OrderInv
  BY DEF FileInv
<1>2. PICK n \in Partial \cap DOMAIN later : later' = Behind(later, n)
  BY DEF Flush
<1>3. made' = made /\ fresh' = fresh /\ since' = since /\ pc' = pc
      /\ shared' = shared /\ strays' = strays /\ file' = file /\ faults' = faults
  BY DEF Flush
<1>4. made \in Nat /\ n \in 1 .. made /\ Ordered(made, later)
  BY <1>1 DEF FileTypes, IsOrder, Ordered
<1>5. /\ Ordered(made, later') /\ DOMAIN later' = DOMAIN later \cup {n}
      /\ \A d \in DOMAIN later \ {n} : later'[d] = later[d] \cup {n}
  <2>1. IsBehind(made, later, n, later')
    BY Zenon, <1>2, <1>4, BehindFacts
  <2> QED BY <2>1 DEF IsBehind
<1>6. Writers' = Writers /\ Partial' = Partial
  BY <1>3 DEF Writers, Partial
<1>7. FileTypes'
  BY <1>1, <1>3, <1>5 DEF FileTypes, IsOrder, Ordered
<1>8. PartialInv'
  BY <1>1, <1>3, <1>6 DEF PartialInv
<1>9. OrderInv'
  <2> SUFFICES ASSUME NEW d \in DOMAIN since \ shared
               PROVE  /\ d \notin Partial
                      /\ d \in DOMAIN later' => later'[d] \subseteq since[d] \cup Partial
    BY Zenon, <1>3, <1>6 DEF OrderInv
  <2>1. d \notin Partial /\ (d \in DOMAIN later => later[d] \subseteq since[d] \cup Partial)
    BY Zenon, <1>1 DEF OrderInv
  <2>2. d # n
    BY Zenon, <2>1
  <2>3. ASSUME d \in DOMAIN later' PROVE later'[d] \subseteq since[d] \cup Partial
    BY <1>5, <2>1, <2>2, <2>3
  <2> QED BY Zenon, <2>1, <2>3
<1>10. faults <= faults'
  BY <1>1, <1>3 DEF FileTypes
<1>11. DOMAIN later' = DOMAIN later
  BY <1>5
<1>12. shared \subseteq shared'
  BY Zenon, <1>3
<1>13. \A d \in DOMAIN since' \ shared' :
          \/ d \in DOMAIN later'
          \/ /\ d \in DOMAIN since /\ since[d] \subseteq since'[d]
             /\ \/ d \notin DOMAIN later
                \/ Cardinality(since[d]) + (Cardinality(Procs) - 1) + faults >= Keep
  BY Zenon, <1>3, <1>11
<1> QED BY Zenon, <1>7, <1>8, <1>9, <1>10, <1>12, <1>13, DumpsMove

(* The counting argument.                                                  *)
LEMMA RotateFiles ==
  ASSUME FileInv, NEW p \in Procs, Rotate(p)
  PROVE  FileInv'
<1>1. FileTypes /\ PartialInv /\ OrderInv
  BY DEF FileInv
<1>2. PICK stuck \in SUBSET Superfluous(Keep) :
        later' = Without(later, Superfluous(Keep) \ stuck)
  BY DEF Rotate
<1>3. made' = made /\ fresh' = fresh /\ since' = since
      /\ shared' = shared /\ strays' = strays /\ file' = file /\ faults' = faults
      /\ pc[p] = "verified" /\ pc' = [pc EXCEPT ![p] = "rotated"]
  BY DEF Rotate, Move
<1> DEFINE R == Superfluous(Keep) \ stuck
<1>4. \A d \in R : d \in DOMAIN later /\ Cardinality(later[d]) >= Keep
  BY DEF Superfluous
<1>5. later' = Without(later, R)
  BY <1>2
<1> HIDE DEF R
<1>6. made \in Nat /\ Ordered(made, later)
  BY <1>1 DEF FileTypes, IsOrder, Ordered
<1>7. /\ Ordered(made, later') /\ DOMAIN later' = DOMAIN later \ R
      /\ \A d \in DOMAIN later \ R : later'[d] = later[d] \ R
  <2>1. IsWithout(made, later, R, later')
    BY Zenon, <1>5, <1>6, WithoutFacts
  <2> QED BY <2>1 DEF IsWithout
<1>8. p \notin Writers
  BY <1>3 DEF Writers
<1>9. Writers' = Writers /\ pc' \in [Procs -> {"idle", "free"} \cup Holding]
  <2>1. "rotated" # "dumping" /\ "rotated" \in {"idle", "free"} \cup Holding
    BY DEF Holding
  <2>2. Writers' = Writers \ {p} /\ pc' \in [Procs -> {"idle", "free"} \cup Holding]
    BY Zenon, <1>1, <1>3, <2>1, WritersMove
  <2> QED BY <1>8, <2>2
<1>10. Partial' = Partial
  BY <1>3, <1>9 DEF Partial
<1>11. FileTypes'
  BY <1>1, <1>3, <1>7, <1>9 DEF FileTypes, IsOrder, Ordered
<1>12. PartialInv'
  BY <1>1, <1>3, <1>9 DEF PartialInv
<1>13. OrderInv'
  <2> SUFFICES ASSUME NEW d \in DOMAIN since \ shared
               PROVE  /\ d \notin Partial
                      /\ d \in DOMAIN later' => later'[d] \subseteq since[d] \cup Partial
    BY Zenon, <1>3, <1>10 DEF OrderInv
  <2>1. d \notin Partial /\ (d \in DOMAIN later => later[d] \subseteq since[d] \cup Partial)
    BY Zenon, <1>1 DEF OrderInv
  <2>2. ASSUME d \in DOMAIN later' PROVE later'[d] \subseteq since[d] \cup Partial
    BY <1>7, <2>1, <2>2
  <2> QED BY Zenon, <2>1, <2>2
<1>14. ASSUME NEW d \in DOMAIN since \ shared, d \notin DOMAIN later', d \in DOMAIN later
       PROVE  Cardinality(since[d]) + (Cardinality(Procs) - 1) + faults >= Keep
  <2>1. Cardinality(later[d]) >= Keep
    BY <1>4, <1>7, <1>14
  <2> QED BY Zenon, <1>8, <1>14, <2>1, RotationCounts
<1>15. faults <= faults'
  BY <1>1, <1>3 DEF FileTypes
<1>16. \A d \in DOMAIN since' \ shared' :
          \/ d \in DOMAIN later'
          \/ /\ d \in DOMAIN since /\ since[d] \subseteq since'[d]
             /\ \/ d \notin DOMAIN later
                \/ Cardinality(since[d]) + (Cardinality(Procs) - 1) + faults >= Keep
  BY Zenon, <1>3, <1>14
<1>17. shared \subseteq shared'
  BY Zenon, <1>3
<1> QED BY Zenon, <1>11, <1>12, <1>13, <1>15, <1>16, <1>17, DumpsMove

LEMMA OpenFiles ==
  ASSUME FileInv, NEW p \in Procs, OpenDump(p)
  PROVE  FileInv'
<1>1. FileTypes /\ PartialInv /\ OrderInv
  BY DEF FileInv
<1>2. PICK n \in {made + 1} \cup (IF fresh THEN {made} ELSE {}) :
        /\ made' = n
        /\ file' = [file EXCEPT ![p] = n]
        /\ later' = Behind(later, n)
        /\ shared' = IF n = made THEN shared \cup {n} ELSE shared
  BY DEF OpenDump
<1>3. fresh' = TRUE /\ since' = since /\ strays' = strays /\ faults' = faults
      /\ pc[p] = "locked" /\ pc' = [pc EXCEPT ![p] = "dumping"]
  BY DEF OpenDump, Move
<1>4. made \in Nat /\ n \in Nat /\ n # 0 /\ made <= n /\ (n = made \/ n = made + 1)
      /\ Ordered(made, later) /\ Ordered(made, since)
  BY <1>1 DEF FileTypes, PartialInv, IsOrder, Ordered
<1>5. 1 .. made \subseteq 1 .. n /\ 0 .. made \subseteq 0 .. n /\ n \in 1 .. n /\ n \in 0 .. n
  BY <1>4
<1>6. Ordered(n, later) /\ Ordered(n, since)
  BY <1>4, <1>5 DEF Ordered
<1>7. /\ Ordered(n, later') /\ DOMAIN later' = DOMAIN later \cup {n}
      /\ \A d \in DOMAIN later \ {n} : later'[d] = later[d] \cup {n}
  <2>1. IsBehind(n, later, n, later')
    BY Zenon, <1>2, <1>4, <1>5, <1>6, BehindFacts
  <2> QED BY <2>1 DEF IsBehind
<1>8. p \notin Writers /\ Writers' = Writers \cup {p}
      /\ pc' \in [Procs -> {"idle", "free"} \cup Holding]
  <2>1. "dumping" \in {"idle", "free"} \cup Holding
    BY DEF Holding
  <2>2. Writers' = Writers \cup {p} /\ pc' \in [Procs -> {"idle", "free"} \cup Holding]
    BY Zenon, <1>1, <1>3, <2>1, WritersMove
  <2>3. p \notin Writers
    BY <1>3 DEF Writers
  <2> QED BY <2>2, <2>3
<1>9. /\ file' \in [Procs -> 0 .. n] /\ file'[p] = n
      /\ \A q \in Procs : q # p => file'[q] = file[q]
  BY <1>1, <1>2, <1>5 DEF FileTypes
<1>10. shared \subseteq shared' /\ shared' \subseteq 1 .. n /\ (n = made => n \in shared')
  BY <1>1, <1>2, <1>4, <1>5 DEF FileTypes
<1>11. FileTypes'
  <2>1. IsOrder(later)' /\ IsOrder(since)'
    BY <1>2, <1>3, <1>6, <1>7 DEF IsOrder, Ordered
  <2>2. strays' \subseteq 1 .. n /\ faults' \in Nat
    BY <1>1, <1>3, <1>5 DEF FileTypes
  <2> QED BY <1>2, <1>3, <1>4, <1>8, <1>9, <1>10, <2>1, <2>2 DEF FileTypes
<1>12. \A q \in Writers : q # p /\ q \in Procs /\ file'[q] = file[q]
  BY <1>8, <1>9 DEF Writers
<1>13. Partial' = Partial \cup {n}
  BY <1>3, <1>8, <1>9, <1>12 DEF Partial
<1>14. n \in strays => n \in shared'
  BY <1>1, <1>4, <1>10 DEF FileTypes
<1>15. \A q \in Writers : file[q] = n => n \in shared'
  BY <1>1, <1>4, <1>10 DEF FileTypes, Writers
<1>16. PartialInv'
  <2>1. ASSUME NEW q \in Writers'
        PROVE  file'[q] # 0 /\ (file'[q] \in strays' => file'[q] \in shared')
    <3>1. CASE q = p
      BY <1>3, <1>4, <1>9, <1>14, <3>1
    <3>2. CASE q \in Writers
      BY <1>1, <1>3, <1>10, <1>12, <3>2 DEF PartialInv
    <3> QED BY <1>8, <2>1, <3>1, <3>2
  <2>2. ASSUME NEW q \in Writers', NEW r \in Writers', file'[q] = file'[r]
        PROVE  q = r \/ file'[q] \in shared'
    <3>1. CASE q = p /\ r \in Writers
      BY Zenon, <1>9, <1>12, <1>15, <2>2, <3>1
    <3>2. CASE q \in Writers /\ r = p
      BY Zenon, <1>9, <1>12, <1>15, <2>2, <3>2
    <3>3. CASE q \in Writers /\ r \in Writers
      <4>1. file[q] = file[r] /\ file'[q] = file[q]
        BY Zenon, <1>12, <2>2, <3>3
      <4>2. q = r \/ file[q] \in shared
        BY Zenon, <1>1, <3>3, <4>1 DEF PartialInv
      <4> QED BY <1>10, <4>1, <4>2
    <3> QED BY <1>8, <2>2, <3>1, <3>2, <3>3
  <2>3. IsFiniteSet(strays') /\ Cardinality(strays') <= faults'
    BY <1>1, <1>3 DEF PartialInv
  <2>4. fresh' => made' # 0
    BY <1>2, <1>4
  <2> QED BY Zenon, <2>1, <2>2, <2>3, <2>4 DEF PartialInv
<1>17. \A d \in DOMAIN since \ shared' : d # n
  BY <1>4, <1>10 DEF Ordered
<1>18. OrderInv'
  <2> SUFFICES ASSUME NEW d \in DOMAIN since \ shared'
               PROVE  /\ d \notin Partial'
                      /\ d \in DOMAIN later' => later'[d] \subseteq since[d] \cup Partial'
    BY Zenon, <1>3 DEF OrderInv
  <2>0. d \in DOMAIN since \ shared
    BY <1>10
  <2>1. d \notin Partial /\ (d \in DOMAIN later => later[d] \subseteq since[d] \cup Partial)
    BY Zenon, <1>1, <2>0 DEF OrderInv
  <2>2. d # n
    BY Zenon, <1>17
  <2>3. ASSUME d \in DOMAIN later' PROVE later'[d] \subseteq since[d] \cup Partial'
    BY <1>7, <1>13, <2>1, <2>2, <2>3
  <2>4. d \notin Partial'
    BY <1>13, <2>1, <2>2
  <2> QED BY Zenon, <2>3, <2>4
<1>19. faults <= faults'
  BY <1>1, <1>3 DEF FileTypes
<1>20. \A d \in DOMAIN since' \ shared' :
          \/ d \in DOMAIN later'
          \/ /\ d \in DOMAIN since /\ since[d] \subseteq since'[d]
             /\ \/ d \notin DOMAIN later
                \/ Cardinality(since[d]) + (Cardinality(Procs) - 1) + faults >= Keep
  <2>1. DOMAIN later \subseteq DOMAIN later'
    BY <1>7
  <2> QED BY Zenon, <1>3, <2>1
<1>21. shared \subseteq shared'
  BY Zenon, <1>10
<1> QED BY Zenon, <1>11, <1>16, <1>18, <1>19, <1>20, <1>21, DumpsMove

LEMMA CompleteFiles ==
  ASSUME FileInv, NEW p \in Procs, CompleteDump(p)
  PROVE  FileInv'
<1>1. FileTypes /\ PartialInv /\ OrderInv
  BY DEF FileInv
<1> DEFINE n == file[p]
<1>2. IF n \in DOMAIN later
      THEN later' = Behind(later, n) /\ since' = Behind(since, n)
      ELSE UNCHANGED <<later, since>>
  BY DEF CompleteDump
<1>3. made' = made /\ fresh' = fresh /\ shared' = shared /\ strays' = strays
      /\ file' = file /\ faults' = faults
      /\ pc[p] = "dumping" /\ pc' = [pc EXCEPT ![p] = "dumped"]
  BY DEF CompleteDump, Move
<1>4. p \in Writers
  BY <1>3 DEF Writers
<1>5. made \in Nat /\ n \in 1 .. made /\ Ordered(made, later) /\ Ordered(made, since)
  BY <1>1, <1>4 DEF FileTypes, PartialInv, IsOrder, Ordered
<1>6. Writers' = Writers \ {p} /\ pc' \in [Procs -> {"idle", "free"} \cup Holding]
  <2>1. "dumped" # "dumping" /\ "dumped" \in {"idle", "free"} \cup Holding
    BY DEF Holding
  <2> QED BY Zenon, <1>1, <1>3, <2>1, WritersMove
<1>7. Partial' \subseteq Partial /\ Partial \subseteq Partial' \cup {n} /\ n \in Partial
  BY <1>3, <1>4, <1>6 DEF Partial
<1>8. n \in Partial' => n \in shared
  <2>1. ASSUME NEW q \in Writers', file[q] = n PROVE n \in shared
    BY Zenon, <1>1, <1>4, <1>6, <2>1 DEF PartialInv
  <2>2. n \in strays => n \in shared
    BY Zenon, <1>1, <1>4 DEF PartialInv
  <2> QED BY <1>3, <2>1, <2>2 DEF Partial
<1>9. \A d \in DOMAIN since \ shared : d # n
  BY Zenon, <1>1, <1>7 DEF OrderInv
<1>10. PartialInv'
  <2>1. Writers' \subseteq Writers
    BY <1>6
  <2> QED BY <1>1, <1>3, <2>1 DEF PartialInv
<1>11. faults <= faults' /\ shared \subseteq shared'
  BY <1>1, <1>3 DEF FileTypes
<1> HIDE DEF n
<1>12. CASE n \notin DOMAIN later
  <2>1. later' = later /\ since' = since
    BY <1>2, <1>12
  <2>2. FileTypes'
    BY <1>1, <1>3, <1>6, <2>1 DEF FileTypes, IsOrder
  <2>3. OrderInv'
    <3> SUFFICES ASSUME NEW d \in DOMAIN since \ shared
                 PROVE  /\ d \notin Partial'
                        /\ d \in DOMAIN later => later[d] \subseteq since[d] \cup Partial'
      BY Zenon, <1>3, <2>1 DEF OrderInv
    <3>1. d \notin Partial /\ (d \in DOMAIN later => later[d] \subseteq since[d] \cup Partial)
      BY Zenon, <1>1 DEF OrderInv
    <3>2. d \in DOMAIN later => later[d] \subseteq DOMAIN later
      BY <1>5 DEF Ordered
    <3>3. ASSUME d \in DOMAIN later PROVE later[d] \subseteq since[d] \cup Partial'
      BY <1>7, <1>12, <3>1, <3>2, <3>3
    <3> QED BY <1>7, <3>1, <3>3
  <2>4. \A d \in DOMAIN since' \ shared' :
           \/ d \in DOMAIN later'
           \/ /\ d \in DOMAIN since /\ since[d] \subseteq since'[d]
              /\ \/ d \notin DOMAIN later
                 \/ Cardinality(since[d]) + (Cardinality(Procs) - 1) + faults >= Keep
    BY Zenon, <2>1
  <2> QED BY Zenon, <1>10, <1>11, <2>2, <2>3, <2>4, DumpsMove
<1>13. CASE n \in DOMAIN later
  <2>1. later' = Behind(later, n) /\ since' = Behind(since, n)
    BY <1>2, <1>13
  <2>2. /\ Ordered(made, later') /\ DOMAIN later' = DOMAIN later \cup {n} /\ later'[n] = {}
        /\ \A d \in DOMAIN later \ {n} : later'[d] = later[d] \cup {n}
    <3>1. IsBehind(made, later, n, later')
      BY Zenon, <1>5, <2>1, BehindFacts
    <3> QED BY <3>1 DEF IsBehind
  <2>3. /\ Ordered(made, since') /\ DOMAIN since' = DOMAIN since \cup {n}
        /\ \A d \in DOMAIN since \ {n} : since'[d] = since[d] \cup {n}
    <3>1. IsBehind(made, since, n, since')
      BY Zenon, <1>5, <2>1, BehindFacts
    <3> QED BY <3>1 DEF IsBehind
  <2>4. FileTypes'
    BY <1>1, <1>3, <1>6, <2>2, <2>3 DEF FileTypes, IsOrder, Ordered
  <2>5. OrderInv'
    <3> SUFFICES ASSUME NEW d \in DOMAIN since', d \notin shared
                 PROVE  /\ d \notin Partial'
                        /\ d \in DOMAIN later' => later'[d] \subseteq since'[d] \cup Partial'
      BY Zenon, <1>3 DEF OrderInv
    <3>1. CASE d = n
      <4>1. d \notin Partial'
        BY Zenon, <1>8, <3>1
      <4> QED BY <2>2, <3>1, <4>1
    <3>2. CASE d \in DOMAIN since /\ d # n
      <4>1. d \notin Partial /\ (d \in DOMAIN later => later[d] \subseteq since[d] \cup Partial)
        BY Zenon, <1>1, <3>2 DEF OrderInv
      <4>2. ASSUME d \in DOMAIN later' PROVE later'[d] \subseteq since'[d] \cup Partial'
        <5>1. later'[d] = later[d] \cup {n} /\ since'[d] = since[d] \cup {n} /\ d \in DOMAIN later
          BY <2>2, <2>3, <3>2, <4>2
        <5> QED BY <1>7, <4>1, <5>1
      <4> QED BY <1>7, <4>1, <4>2
    <3> QED BY <2>3, <3>1, <3>2
  <2>6. \A d \in DOMAIN since' \ shared' :
           \/ d \in DOMAIN later'
           \/ /\ d \in DOMAIN since /\ since[d] \subseteq since'[d]
              /\ \/ d \notin DOMAIN later
                 \/ Cardinality(since[d]) + (Cardinality(Procs) - 1) + faults >= Keep
    <3> SUFFICES ASSUME NEW d \in DOMAIN since', d \notin DOMAIN later'
                 PROVE  d \in DOMAIN since /\ since[d] \subseteq since'[d] /\ d \notin DOMAIN later
      BY Zenon
    <3>1. d # n /\ d \in DOMAIN since /\ d \notin DOMAIN later
      BY <2>2, <2>3
    <3>2. since'[d] = since[d] \cup {n}
      BY <2>3, <3>1
    <3> QED BY <3>1, <3>2
  <2> QED BY Zenon, <1>10, <1>11, <2>4, <2>5, <2>6, DumpsMove
<1> QED BY <1>12, <1>13

LEMMA DumpFailsFiles ==
  ASSUME FileInv, NEW p \in Procs, DumpFails(p)
  PROVE  FileInv'
<1>1. FileTypes /\ PartialInv /\ OrderInv
  BY DEF FileInv
<1> DEFINE n == file[p]
<1>2. \/ later' = Without(later, {n}) /\ strays' = strays /\ faults' = faults
      \/ later' = later /\ strays' = strays \cup {n} /\ faults' = faults + 1
  BY DEF DumpFails
<1>3. made' = made /\ fresh' = fresh /\ since' = since /\ shared' = shared /\ file' = file
      /\ pc[p] = "dumping" /\ pc' = [pc EXCEPT ![p] = "failed"]
  BY DEF DumpFails, Move
<1>4. p \in Writers
  BY <1>3 DEF Writers
<1>5. made \in Nat /\ n \in 1 .. made /\ Ordered(made, later)
  BY <1>1, <1>4 DEF FileTypes, PartialInv, IsOrder, Ordered, Writers
<1>6. Writers' = Writers \ {p} /\ pc' \in [Procs -> {"idle", "free"} \cup Holding]
  <2>1. "failed" # "dumping" /\ "failed" \in {"idle", "free"} \cup Holding
    BY DEF Holding
  <2> QED BY Zenon, <1>1, <1>3, <2>1, WritersMove
<1>7. Partial' \subseteq Partial /\ Partial \subseteq Partial' \cup {n} /\ n \in Partial
  BY <1>2, <1>3, <1>4, <1>6 DEF Partial
<1>8. \A d \in DOMAIN since \ shared : d # n
  BY Zenon, <1>1, <1>7 DEF OrderInv
<1>9. /\ IsFiniteSet(strays) /\ Cardinality(strays) <= faults /\ Cardinality(strays) \in Nat
      /\ faults \in Nat
  BY <1>1, FS_CardinalityType DEF PartialInv, FileTypes
<1>10. /\ IsFiniteSet(strays') /\ Cardinality(strays') <= faults'
       /\ faults <= faults' /\ faults' \in Nat
  <2>1. /\ IsFiniteSet(strays \cup {n})
        /\ Cardinality(strays \cup {n})
              = IF n \in strays THEN Cardinality(strays) ELSE Cardinality(strays) + 1
    BY Zenon, <1>9, FS_AddElement
  <2> QED BY <1>2, <1>9, <2>1
<1>11. PartialInv'
  <2>1. ASSUME NEW q \in Writers' PROVE file[q] # 0 /\ (file[q] \in strays' => file[q] \in shared)
    <3>1. q \in Writers /\ q # p
      BY <1>6, <2>1
    <3>2. file[q] # 0 /\ (file[q] \in strays => file[q] \in shared)
      BY Zenon, <1>1, <3>1 DEF PartialInv
    <3>3. file[q] = n => file[q] \in shared
      BY Zenon, <1>1, <1>4, <3>1 DEF PartialInv
    <3> QED BY <1>2, <3>2, <3>3
  <2>2. \A q, r \in Writers' : file[q] = file[r] => q = r \/ file[q] \in shared
    BY Zenon, <1>1, <1>6 DEF PartialInv
  <2>3. fresh => made # 0
    BY Zenon, <1>1 DEF PartialInv
  <2> QED BY Zenon, <1>3, <1>10, <2>1, <2>2, <2>3 DEF PartialInv
<1>12. /\ Ordered(made, later')
       /\ \A d \in DOMAIN later \ {n} : d \in DOMAIN later'
       /\ \A d \in DOMAIN later' : d \in DOMAIN later
                                   /\ (d # n => later'[d] = later[d] \/ later'[d] = later[d] \ {n})
  <2>1. CASE later' = Without(later, {n})
    <3>1. IsWithout(made, later, {n}, later')
      BY Zenon, <1>5, <2>1, WithoutFacts
    <3> QED BY <3>1 DEF IsWithout
  <2>2. CASE later' = later
    BY <1>5, <2>2
  <2> QED BY <1>2, <2>1, <2>2
<1>13. n \in Partial' \/ \A d \in DOMAIN later' \ {n} : later'[d] = later[d] \ {n}
  <2>1. CASE later' = Without(later, {n})
    <3>1. IsWithout(made, later, {n}, later')
      BY Zenon, <1>5, <2>1, WithoutFacts
    <3> QED BY <3>1 DEF IsWithout
  <2>2. CASE strays' = strays \cup {n}
    BY <2>2 DEF Partial
  <2> QED BY <1>2, <2>1, <2>2
<1>14. FileTypes'
  <2>1. strays' \subseteq 1 .. made
    BY <1>1, <1>2, <1>5 DEF FileTypes
  <2> QED BY <1>1, <1>3, <1>6, <1>10, <1>12, <2>1 DEF FileTypes, IsOrder, Ordered
<1> HIDE DEF n
<1>15. OrderInv'
  <2> SUFFICES ASSUME NEW d \in DOMAIN since \ shared
               PROVE  /\ d \notin Partial'
                      /\ d \in DOMAIN later' => later'[d] \subseteq since[d] \cup Partial'
    BY Zenon, <1>3 DEF OrderInv
  <2>1. d \notin Partial /\ (d \in DOMAIN later => later[d] \subseteq since[d] \cup Partial)
    BY Zenon, <1>1 DEF OrderInv
  <2>2. d # n
    BY Zenon, <1>8
  <2>3. ASSUME d \in DOMAIN later' PROVE later'[d] \subseteq since[d] \cup Partial'
    <3>1. d \in DOMAIN later /\ later[d] \subseteq since[d] \cup Partial
      BY Zenon, <1>12, <2>1, <2>3
    <3>2. CASE n \in Partial'
      BY <1>7, <1>12, <2>2, <2>3, <3>1, <3>2
    <3>3. CASE \A x \in DOMAIN later' \ {n} : later'[x] = later[x] \ {n}
      BY <1>7, <2>2, <2>3, <3>1, <3>3
    <3> QED BY <1>13, <3>2, <3>3
  <2> QED BY <1>7, <2>1, <2>3
<1>16. \A d \in DOMAIN since' \ shared' :
          \/ d \in DOMAIN later'
          \/ /\ d \in DOMAIN since /\ since[d] \subseteq since'[d]
             /\ \/ d \notin DOMAIN later
                \/ Cardinality(since[d]) + (Cardinality(Procs) - 1) + faults >= Keep
  <2>1. \A d \in DOMAIN since \ shared : d \in DOMAIN later => d \in DOMAIN later'
    BY <1>8, <1>12
  <2> QED BY Zenon, <1>3, <2>1
<1>17. shared \subseteq shared' /\ faults <= faults'
  BY Zenon, <1>3, <1>10
<1> QED BY Zenon, <1>11, <1>14, <1>15, <1>16, <1>17, DumpsMove

(* The dumps in the directory at the start are as old as they are.         *)
LEMMA InitFiles == Init => FileInv
<1> SUFFICES ASSUME Init PROVE FileInv
  OBVIOUS
<1>1. /\ made = Existing /\ made \in Nat /\ fresh = FALSE
      /\ later = [d \in 1 .. made |-> d + 1 .. made] /\ since = later
      /\ shared = {} /\ strays = {} /\ faults = 0
      /\ pc = [p \in Procs |-> "idle"] /\ file = [p \in Procs |-> 0]
  BY BackupLockAssumption DEF Init, Idle
<1>2. DOMAIN later = 1 .. made /\ \A d \in 1 .. made : later[d] \subseteq 1 .. made
  <2>1. ASSUME NEW d \in 1 .. made PROVE d + 1 .. made \subseteq 1 .. made
    BY <1>1
  <2> QED BY Zenon, <1>1, <2>1
<1>3. IsOrder(later) /\ IsOrder(since)
  <2>1. later \in [1 .. made -> SUBSET (1 .. made)]
    BY Zenon, <1>1, <1>2
  <2>2. IsOrder(later)
    BY <1>2, <2>1 DEF IsOrder
  <2>3. IsOrder(since)
    BY Zenon, <1>1, <2>2
  <2> QED BY <2>2, <2>3
<1>4. FileTypes
  <2>1. pc \in [Procs -> {"idle", "free"} \cup Holding] /\ file \in [Procs -> 0 .. made]
    BY ONLY <1>1
  <2>2. FALSE \in BOOLEAN /\ 0 \in Nat
    OBVIOUS
  <2>3. shared \subseteq 1 .. made /\ strays \subseteq 1 .. made
    BY <1>1
  <2> QED BY Zenon, <1>1, <1>3, <2>1, <2>2, <2>3 DEF FileTypes
<1>5. Writers = {} /\ Partial = {}
  BY <1>1 DEF Writers, Partial
<1>6. PartialInv
  BY <1>1, <1>5, FS_EmptySet DEF PartialInv
<1>7. OrderInv
  BY <1>1, <1>5 DEF OrderInv
<1>8. NewestDumpsKept
  BY <1>1 DEF NewestDumpsKept
<1> QED BY <1>4, <1>6, <1>7, <1>8 DEF FileInv

(* -------------------------------- the rows ------------------------------ *)

LEMMA AppendFacts ==
  ASSUME NEW S, NEW s \in Seq(S), NEW x \in S
  PROVE  /\ Append(s, x) \in Seq(S)
         /\ Len(Append(s, x)) = Len(s) + 1
         /\ DOMAIN Append(s, x) = 1 .. Len(s) + 1
         /\ DOMAIN s = 1 .. Len(s)
         /\ Len(s) \in Nat
         /\ \A i \in 1 .. Len(s) : Append(s, x)[i] = s[i]
         /\ Append(s, x)[Len(s) + 1] = x
OBVIOUS

(* Giving up stale rows changes their status only.                         *)
LEMMA AbandonFacts ==
  ASSUME rows \in Seq(Row), NEW t \in Nat
  PROVE  /\ Abandon(t) \in Seq(Row) /\ Len(Abandon(t)) = Len(rows)
         /\ \A i \in DOMAIN rows :
               /\ Abandon(t)[i].ts = rows[i].ts
               /\ Abandon(t)[i].status =
                     IF rows[i].status = "RUNNING" /\ Stale(rows[i].ts, t)
                     THEN "ABANDONED" ELSE rows[i].status
<1> DEFINE a == Abandon(t)
<1>1. /\ DOMAIN rows = 1 .. Len(rows) /\ Len(rows) \in Nat
      /\ \A i \in DOMAIN rows : rows[i] \in Row
  OBVIOUS
<1>2. a = [i \in 1 .. Len(rows) |-> a[i]] /\ DOMAIN a = 1 .. Len(rows)
  BY <1>1 DEF Abandon
<1>3. ASSUME NEW i \in DOMAIN rows
      PROVE  /\ a[i] \in Row /\ a[i].ts = rows[i].ts
             /\ a[i].status = IF rows[i].status = "RUNNING" /\ Stale(rows[i].ts, t)
                              THEN "ABANDONED" ELSE rows[i].status
  <2>1. rows[i] \in Row
    BY <1>1
  <2>2. CASE rows[i].status = "RUNNING" /\ Stale(rows[i].ts, t)
    <3>1. a[i] = [rows[i] EXCEPT !.status = "ABANDONED"]
      BY <2>2 DEF Abandon
    <3> HIDE DEF a
    <3> QED BY <2>1, <2>2, <3>1 DEF Row
  <2>3. CASE ~(rows[i].status = "RUNNING" /\ Stale(rows[i].ts, t))
    <3>1. a[i] = rows[i]
      BY <2>3 DEF Abandon
    <3> HIDE DEF a
    <3> QED BY <2>1, <2>3, <3>1
  <2> QED BY <2>2, <2>3
<1> HIDE DEF a
<1>4. a \in Seq(Row) /\ Len(a) = Len(rows)
  BY <1>1, <1>2, <1>3
<1> QED BY <1>3, <1>4 DEF a

(* --------------------------- steps and locks --------------------------- *)

LEMMA InitLocks == Init => LockInv
<1> SUFFICES ASSUME Init PROVE LockInv
  OBVIOUS
<1>1. LockTypes
  BY DEF Init, LockTypes, Idle
<1>2. \A p \in Procs : pc[p] = "idle" /\ lock[p] = 0
  BY DEF Init, Idle
<1>3. RunInv /\ HeldInv /\ FreeInv /\ OverlapsAreExplained
  BY <1>2 DEF RunInv, HeldInv, FreeInv, OverlapsAreExplained, Holding
<1>4. LocksAreReleased
  BY DEF Init, LocksAreReleased
<1> QED BY <1>1, <1>3, <1>4 DEF LockInv

(* The clock: what was stale stays stale.                                  *)
LEMMA TickLocks ==
  ASSUME LockInv, Tick
  PROVE  LockInv'
<1> USE DEF LockInv
<1>1. now' = now + 1 /\ UNCHANGED <<rows, pc, at, before, lock, orphans>>
  BY DEF Tick, run
<1>2. LockTypes'
  BY <1>1 DEF LockTypes
<1>3. ASSUME NEW p \in Procs, lock[p] # 0
      PROVE  rows[lock[p]].ts \in Nat
  <2>1. rows[lock[p]] \in Row
    BY <1>3 DEF LockTypes, RunInv
  <2> QED BY <2>1 DEF Row
<1>4. HeldInv'
  <2>1. \A ts \in Nat : Stale(ts, now) => Stale(ts, now + 1)
    BY BackupLockAssumption DEF Stale, LockTypes
  <2> QED BY <1>1, <1>3, <2>1 DEF HeldInv
<1>5. RunInv'
  <2>1. \A p \in Procs : at[p] <= now => at[p] <= now + 1
    BY DEF LockTypes
  <2> QED BY <1>1, <2>1 DEF RunInv
<1>6. FreeInv' /\ OverlapsAreExplained' /\ LocksAreReleased'
  BY <1>1 DEF FreeInv, OverlapsAreExplained, LocksAreReleased, Stale
<1> QED BY <1>2, <1>4, <1>5, <1>6

(* A run that finds no lock finds every held one stale.                    *)
LEMMA FindNoLockLocks ==
  ASSUME LockInv, NEW p \in Procs, FindNoLock(p)
  PROVE  LockInv'
<1> USE DEF LockInv
<1>1. /\ pc[p] = "idle" /\ pc' = [pc EXCEPT ![p] = "free"]
      /\ \A i \in DOMAIN rows : rows[i].status = "RUNNING" => Stale(rows[i].ts, now)
      /\ at' = [at EXCEPT ![p] = now]
      /\ before' = [before EXCEPT ![p] = Len(rows)]
      /\ UNCHANGED <<now, rows, lock, orphans>>
  BY DEF FindNoLock, Move
<1>2. \A q \in Procs : /\ pc'[q] = IF q = p THEN "free" ELSE pc[q]
                       /\ at'[q] = IF q = p THEN now ELSE at[q]
                       /\ before'[q] = IF q = p THEN Len(rows) ELSE before[q]
  BY <1>1 DEF LockTypes
<1>3. lock[p] = 0 /\ Len(rows) \in Nat /\ now \in Nat
  <2>1. lock[p] = 0
    BY <1>1 DEF RunInv, Holding
  <2>2. Len(rows) \in Nat /\ now \in Nat
    BY DEF LockTypes
  <2> QED BY <2>1, <2>2
<1>4. LockTypes'
  BY <1>1, <1>3 DEF LockTypes
<1>5. RunInv'
  BY <1>1, <1>2, <1>3 DEF RunInv, Holding
<1>6. HeldInv'
  BY <1>1 DEF HeldInv
<1>7. FreeInv'
  <2>1. \A o \in Procs : lock[o] # 0 => Stale(rows[lock[o]].ts, now)
    BY <1>1 DEF HeldInv, RunInv
  <2> QED BY <1>1, <1>2, <2>1 DEF FreeInv
<1>8. OverlapsAreExplained' /\ LocksAreReleased'
  BY <1>1, <1>2, <1>3 DEF OverlapsAreExplained, LocksAreReleased
<1> QED BY <1>4, <1>5, <1>6, <1>7, <1>8

(* A lock row is inserted behind all others.                               *)
LEMMA TakeLockLocks ==
  ASSUME LockInv, NEW p \in Procs, TakeLock(p)
  PROVE  LockInv'
<1> USE DEF LockInv
<1> DEFINE n == Len(rows) + 1
           new == [status |-> "RUNNING", ts |-> now]
<1>1. /\ pc[p] = "free" /\ pc' = [pc EXCEPT ![p] = "locked"]
      /\ rows' = Append(Abandon(at[p]), new)
      /\ lock' = [lock EXCEPT ![p] = n]
      /\ UNCHANGED <<now, at, before, orphans>>
  BY DEF TakeLock, Move
<1>2. \A q \in Procs : /\ pc'[q] = IF q = p THEN "locked" ELSE pc[q]
                       /\ lock'[q] = IF q = p THEN n ELSE lock[q]
  BY <1>1 DEF LockTypes
<1>3. /\ rows \in Seq(Row) /\ at[p] \in Nat /\ at[p] <= now /\ now \in Nat
      /\ Len(rows) \in Nat /\ DOMAIN rows = 1 .. Len(rows)
      /\ before[p] <= Len(rows) /\ before[p] \in Nat
      /\ \A i \in DOMAIN rows : rows[i].ts \in Nat
  <2>1. \A i \in DOMAIN rows : rows[i] \in Row
    BY DEF LockTypes
  <2> QED BY <1>1, <2>1 DEF LockTypes, RunInv, Row
<1>4. /\ Abandon(at[p]) \in Seq(Row) /\ Len(Abandon(at[p])) = Len(rows)
      /\ \A i \in DOMAIN rows :
            /\ Abandon(at[p])[i].ts = rows[i].ts
            /\ Abandon(at[p])[i].status =
                  IF rows[i].status = "RUNNING" /\ Stale(rows[i].ts, at[p])
                  THEN "ABANDONED" ELSE rows[i].status
  BY <1>3, AbandonFacts
<1>5. new \in Row
  BY <1>3 DEF Row
<1>6. /\ rows' \in Seq(Row) /\ DOMAIN rows' = 1 .. n /\ Len(rows') = n
      /\ \A i \in 1 .. Len(rows) : rows'[i] = Abandon(at[p])[i]
      /\ rows'[n] = new
  BY <1>1, <1>4, <1>5, AppendFacts
<1>7. /\ \A i \in 1 .. Len(rows) :
            /\ rows'[i].ts = rows[i].ts
            /\ rows'[i].status = IF rows[i].status = "RUNNING" /\ Stale(rows[i].ts, at[p])
                                 THEN "ABANDONED" ELSE rows[i].status
      /\ rows'[n].status = "RUNNING" /\ rows'[n].ts = now
  BY SMTT(20), <1>3, <1>4, <1>6
<1> HIDE DEF new
<1>8. \A q \in Procs : lock[q] # 0 => lock[q] \in 1 .. Len(rows) /\ lock[q] < n
  BY <1>3 DEF RunInv
<1>9. n # 0 /\ before[p] < n
  BY <1>3
<1>10. LockTypes'
  BY <1>1, <1>3, <1>6 DEF LockTypes, Holding
<1>11. RunInv'
  <2>1. \A q \in Procs : pc[q] = "free" => before[q] <= n
    BY <1>3 DEF RunInv, LockTypes
  <2>2. \A q \in Procs \ {p} : lock[q] # n
    BY <1>3, <1>8
  <2>3. \A q \in Procs : pc'[q] \in Holding <=> lock'[q] # 0
    BY <1>2, <1>9 DEF RunInv, Holding
  <2>4. \A q \in Procs : lock'[q] # 0 => lock'[q] \in 1 .. n /\ before[q] < lock'[q]
    BY <1>2, <1>3, <1>8, <1>9 DEF RunInv
  <2>5. \A q, o \in Procs : lock'[q] # 0 /\ lock'[o] = lock'[q] => o = q
    BY <1>2, <2>2 DEF RunInv
  <2> QED BY <1>1, <1>2, <1>6, <2>1, <2>3, <2>4, <2>5 DEF RunInv
<1>12. HeldInv'
  <2> SUFFICES ASSUME NEW q \in Procs, lock'[q] # 0
               PROVE  \/ rows'[lock'[q]].status = "RUNNING"
                      \/ /\ rows'[lock'[q]].status = "ABANDONED"
                         /\ Stale(rows'[lock'[q]].ts, now)
    BY <1>1 DEF HeldInv
  <2>1. CASE q = p
    BY <2>1, <1>2, <1>7
  <2>2. CASE q # p
    <3>1. Stale(rows[lock[q]].ts, at[p]) => Stale(rows[lock[q]].ts, now)
      BY <2>2, <1>2, <1>3, <1>8, BackupLockAssumption DEF Stale
    <3> QED BY <2>2, <3>1, <1>2, <1>7, <1>8 DEF HeldInv
  <2> QED BY <2>1, <2>2
<1>13. FreeInv'
  <2> SUFFICES ASSUME NEW o \in Procs, NEW q \in Procs, pc'[q] = "free", lock'[o] # 0
               PROVE  before[q] < lock'[o] \/ Stale(rows'[lock'[o]].ts, at[q])
    BY <1>1 DEF FreeInv
  <2>1. q # p /\ pc[q] = "free"
    BY <1>2
  <2>2. CASE o = p
    BY <2>1, <2>2, <1>2, <1>3 DEF RunInv, LockTypes
  <2>3. CASE o # p
    BY <2>1, <2>3, <1>2, <1>7, <1>8 DEF FreeInv
  <2> QED BY <2>2, <2>3
<1>14. OverlapsAreExplained'
  <2> SUFFICES ASSUME NEW o \in Procs, NEW q \in Procs,
                      lock'[o] # 0, lock'[q] # 0, lock'[o] < lock'[q]
               PROVE  before[q] < lock'[o] \/ rows'[lock'[o]].ts + StaleLock < at[q]
    BY <1>1 DEF OverlapsAreExplained
  <2>1. o # p
    BY <1>2, <1>3, <1>8
  <2>2. lock[o] \in 1 .. Len(rows) /\ rows'[lock[o]].ts = rows[lock[o]].ts
    BY <2>1, <1>2, <1>7, <1>8
  <2>3. CASE q = p
    BY ZenonT(30), <2>1, <2>2, <2>3, <1>1, <1>2 DEF FreeInv, Stale
  <2>4. CASE q # p
    BY <2>1, <2>2, <2>4, <1>2 DEF OverlapsAreExplained
  <2> QED BY <2>3, <2>4
<1>15. LocksAreReleased'
  <2> SUFFICES ASSUME NEW i \in 1 .. n, rows'[i].status = "RUNNING", i \notin orphans
               PROVE  \E q \in Procs : lock'[q] = i
    BY <1>1, <1>6 DEF LocksAreReleased
  <2>1. CASE i = n
    BY <2>1, <1>2
  <2>2. CASE i \in 1 .. Len(rows)
    <3>1. rows[i].status = "RUNNING"
      BY <2>2, <1>7
    <3>2. PICK q \in Procs : lock[q] = i
      BY <2>2, <3>1, <1>3 DEF LocksAreReleased
    <3>3. q # p
      <4>1. pc[p] = "free" /\ RunInv
        BY <1>1, <1>3
      <4>2. lock[p] = 0
        BY <4>1 DEF RunInv, Holding
      <4>3. i # 0
        BY <2>2
      <4> QED BY <3>2, <4>2, <4>3
    <3> QED BY <3>2, <3>3, <1>2
  <2> QED BY <2>1, <2>2, <1>3
<1> QED BY <1>10, <1>11, <1>12, <1>13, <1>14, <1>15

(* A run between its insert and its end.                                   *)
LEMMA HolderFacts ==
  ASSUME LockInv, NEW p \in Procs, pc[p] \in Holding
  PROVE  /\ lock[p] # 0 /\ lock[p] \in DOMAIN rows
         /\ \A q \in Procs \ {p} : lock[q] # lock[p]
         /\ pc[p] # "free"
BY DEF LockInv, RunInv, Holding

(* A step within the run, or of mysqldump.                                 *)
LEMMA WorkLocks ==
  ASSUME LockInv,
         \/ \E p \in Procs :
               OpenDump(p) \/ CompleteDump(p) \/ DumpFails(p) \/ Verify(p) \/ Rotate(p)
         \/ Flush
  PROVE  LockInv'
<1> USE DEF LockInv
<1>1. /\ UNCHANGED <<now, rows, at, before, lock, orphans>>
      /\ \/ pc' = pc
         \/ \E p \in Procs, to \in Holding : pc[p] \in Holding /\ pc' = [pc EXCEPT ![p] = to]
  <2>1. CASE Flush
    BY <2>1 DEF Flush, unmoved
  <2>2. ASSUME NEW p \in Procs,
               OpenDump(p) \/ CompleteDump(p) \/ DumpFails(p) \/ Verify(p) \/ Rotate(p)
        PROVE  /\ UNCHANGED <<now, rows, at, before, lock, orphans>>
               /\ \E to \in Holding : pc[p] \in Holding /\ pc' = [pc EXCEPT ![p] = to]
    BY <2>2 DEF OpenDump, CompleteDump, DumpFails, Verify, Rotate, unmoved, Move, Holding
  <2> QED BY Zenon, <2>1, <2>2
<1>2. /\ \A q \in Procs : /\ pc'[q] \in Holding <=> pc[q] \in Holding
                          /\ pc'[q] = "free" <=> pc[q] = "free"
      /\ pc' \in [Procs -> {"idle", "free"} \cup Holding]
  BY <1>1 DEF LockTypes, Holding
<1>3. LockTypes'
  BY <1>1, <1>2 DEF LockTypes
<1>4. RunInv' /\ HeldInv' /\ FreeInv'
  BY <1>1, <1>2 DEF RunInv, HeldInv, FreeInv
<1>5. OverlapsAreExplained' /\ LocksAreReleased'
  BY <1>1 DEF OverlapsAreExplained, LocksAreReleased
<1> QED BY <1>3, <1>4, <1>5

(* The end of a run, with whatever status its row gets or keeps.           *)
LEMMA EndLocks ==
  ASSUME LockInv, NEW p \in Procs,
         pc' = [pc EXCEPT ![p] = "idle"], Forget(p), now' = now,
         rows' \in Seq(Row), Len(rows') = Len(rows),
         \A i \in DOMAIN rows : rows'[i].ts = rows[i].ts,
         \A i \in DOMAIN rows : i # lock[p] => rows'[i] = rows[i],
         orphans \subseteq orphans', orphans' \subseteq Nat,
         lock[p] # 0 => rows'[lock[p]].status # "RUNNING" \/ lock[p] \in orphans'
  PROVE  LockInv'
<1> USE DEF LockInv
<1>1. /\ at' = [at EXCEPT ![p] = 0] /\ before' = [before EXCEPT ![p] = 0]
      /\ lock' = [lock EXCEPT ![p] = 0]
  BY DEF Forget
<1>2. \A q \in Procs : /\ pc'[q] = IF q = p THEN "idle" ELSE pc[q]
                       /\ at'[q] = IF q = p THEN 0 ELSE at[q]
                       /\ before'[q] = IF q = p THEN 0 ELSE before[q]
                       /\ lock'[q] = IF q = p THEN 0 ELSE lock[q]
  BY <1>1 DEF LockTypes
<1>3. /\ DOMAIN rows = 1 .. Len(rows) /\ DOMAIN rows' = 1 .. Len(rows)
  BY DEF LockTypes
<1>4. \A q \in Procs : lock[q] # 0 => lock[q] \in DOMAIN rows
  BY DEF RunInv
<1>5. \A q \in Procs \ {p} : lock[q] # 0 => lock[q] # lock[p]
  BY DEF RunInv
<1>6. LockTypes'
  BY <1>1 DEF LockTypes
<1>7. RunInv'
  <2>1. \A q \in Procs : pc'[q] \in Holding <=> lock'[q] # 0
    BY <1>2 DEF RunInv, Holding
  <2>2. \A q \in Procs : lock'[q] # 0 => lock'[q] \in DOMAIN rows' /\ before'[q] < lock'[q]
    BY <1>2, <1>3 DEF RunInv
  <2>3. \A q \in Procs : pc'[q] = "free" => before'[q] <= Len(rows') /\ at'[q] <= now'
    BY <1>2 DEF RunInv
  <2>4. \A q, o \in Procs : lock'[q] # 0 /\ lock'[o] = lock'[q] => o = q
    BY <1>2 DEF RunInv
  <2> QED BY <2>1, <2>2, <2>3, <2>4 DEF RunInv
<1>8. HeldInv'
  BY <1>2, <1>4, <1>5 DEF HeldInv
<1>9. FreeInv' /\ OverlapsAreExplained'
  <2>1. \A q \in Procs : lock'[q] # 0 => lock'[q] = lock[q] /\ rows'[lock'[q]].ts = rows[lock[q]].ts
    BY <1>2, <1>4
  <2>2. FreeInv'
    BY <1>2, <2>1 DEF FreeInv
  <2>3. OverlapsAreExplained'
    BY <1>2, <2>1 DEF OverlapsAreExplained
  <2> QED BY <2>2, <2>3
<1>10. LocksAreReleased'
  <2> SUFFICES ASSUME NEW i \in DOMAIN rows, rows'[i].status = "RUNNING", i \notin orphans'
               PROVE  \E q \in Procs : lock'[q] = i
    BY <1>3 DEF LocksAreReleased
  <2>1. i # lock[p]
    BY <1>3 DEF LockTypes
  <2>2. PICK q \in Procs : lock[q] = i
    BY <2>1 DEF LocksAreReleased
  <2> QED BY <2>1, <2>2, <1>2
<1> QED BY <1>6, <1>7, <1>8, <1>9, <1>10

(* The run's row gets its final status.                                    *)
LEMMA ReleaseLocks ==
  ASSUME LockInv, NEW p \in Procs, Succeed(p) \/ Fail(p)
  PROVE  LockInv'
<1>1. PICK status \in {"DONE", "FAILED"} :
        /\ pc[p] \in Holding /\ pc' = [pc EXCEPT ![p] = "idle"]
        /\ rows' = [rows EXCEPT ![lock[p]].status = status]
        /\ Forget(p) /\ UNCHANGED <<now, orphans>>
  BY DEF Succeed, Fail, Release, Move, Holding
<1>2. LockTypes
  BY DEF LockInv
<1>3. lock[p] # 0 /\ lock[p] \in DOMAIN rows
  BY <1>1, HolderFacts
<1>4. /\ rows \in Seq(Row) /\ DOMAIN rows = 1 .. Len(rows)
      /\ rows[lock[p]] \in Row
  BY <1>2, <1>3 DEF LockTypes
<1> DEFINE x == [rows[lock[p]] EXCEPT !.status = status]
<1>5. x \in Row /\ x.ts = rows[lock[p]].ts /\ x.status # "RUNNING"
  BY <1>4 DEF Row
<1>6. rows' = [rows EXCEPT ![lock[p]] = x]
  BY <1>1
<1> HIDE DEF x
<1>7. /\ rows' \in Seq(Row) /\ Len(rows') = Len(rows)
      /\ rows'[lock[p]] = x
      /\ \A i \in DOMAIN rows : i # lock[p] => rows'[i] = rows[i]
  BY <1>3, <1>4, <1>5, <1>6
<1>8. \A i \in DOMAIN rows : rows'[i].ts = rows[i].ts
  BY <1>5, <1>7
<1>9. rows'[lock[p]].status # "RUNNING"
  BY <1>5, <1>7
<1>10. orphans \subseteq orphans' /\ orphans' \subseteq Nat
  BY <1>1, <1>2 DEF LockTypes
<1> QED
  BY ONLY LockInv, p \in Procs, <1>1, <1>7, <1>8, <1>9, <1>10, EndLocks

(* A run that ends without a release leaves an orphan.                     *)
LEMMA LoseLocks ==
  ASSUME LockInv, NEW p \in Procs, ReleaseFails(p) \/ Crash(p)
  PROVE  LockInv'
<1>1. /\ pc' = [pc EXCEPT ![p] = "idle"] /\ Forget(p)
      /\ orphans' = IF lock[p] = 0 THEN orphans ELSE orphans \cup {lock[p]}
      /\ UNCHANGED <<now, rows>>
  BY DEF ReleaseFails, Crash, Move, Lose
<1>2. LockTypes
  BY DEF LockInv
<1>3. /\ rows' \in Seq(Row)
      /\ orphans \subseteq orphans' /\ orphans' \subseteq Nat
      /\ lock[p] # 0 => lock[p] \in orphans'
  <2>1. lock[p] \in Nat /\ orphans \subseteq Nat /\ rows \in Seq(Row)
    BY <1>2 DEF LockTypes
  <2>2. CASE lock[p] = 0
    BY <1>1, <2>1, <2>2
  <2>3. CASE lock[p] # 0
    BY <1>1, <2>1, <2>3
  <2> QED BY <2>2, <2>3
<1>4. now' = now /\ Len(rows') = Len(rows)
  BY <1>1
<1>5. /\ \A i \in DOMAIN rows : rows'[i].ts = rows[i].ts
      /\ \A i \in DOMAIN rows : i # lock[p] => rows'[i] = rows[i]
  BY <1>1
<1>6. lock[p] # 0 => rows'[lock[p]].status # "RUNNING" \/ lock[p] \in orphans'
  BY <1>3
<1>7. pc' = [pc EXCEPT ![p] = "idle"] /\ Forget(p)
  BY <1>1
<1> QED
  BY ONLY LockInv, p \in Procs, <1>3, <1>4, <1>5, <1>6, <1>7, EndLocks

-----------------------------------------------------------------------------
(* The invariant.                                                          *)

(* The steps of runs that neither write dumps nor remove any.              *)
LEMMA QuietFiles ==
  ASSUME FileInv, NEW p \in Procs,
         \/ FindNoLock(p) \/ TakeLock(p) \/ Verify(p)
         \/ Succeed(p) \/ Fail(p) \/ ReleaseFails(p)
  PROVE  FileInv'
<1>1. /\ pc[p] # "dumping"
      /\ \/ pc' = [pc EXCEPT ![p] = "idle"]
         \/ pc' = [pc EXCEPT ![p] = "free"]
         \/ pc' = [pc EXCEPT ![p] = "locked"]
         \/ pc' = [pc EXCEPT ![p] = "verified"]
      /\ UNCHANGED files
      /\ file' = file \/ file' = [file EXCEPT ![p] = 0]
      /\ faults' = faults \/ faults' = faults + 1
  BY DEF FindNoLock, TakeLock, Verify, Succeed, Fail, ReleaseFails,
         Release, Lose, Forget, Move, files, unmoved
<1>2. {"idle", "free", "locked", "verified"} \subseteq ({"idle", "free"} \cup Holding) \ {"dumping"}
  BY DEF Holding
<1> QED BY ONLY FileInv, p \in Procs, <1>1, <1>2, IdleFiles

LEMMA NextPreserves == BackupInv /\ [Next]_vars => BackupInv'
<1> SUFFICES ASSUME BackupInv, [Next]_vars PROVE BackupInv'
  OBVIOUS
<1>1. LockInv /\ FileInv
  BY Halves
<1>2. LockInv'
  <2>1. CASE UNCHANGED vars
    BY <1>1, <2>1 DEF LockInv, LockTypes, RunInv, HeldInv, FreeInv,
                      OverlapsAreExplained, LocksAreReleased, vars, run
  <2>2. CASE Next
    BY <1>1, <2>2, TickLocks, FindNoLockLocks, TakeLockLocks, WorkLocks, ReleaseLocks, LoseLocks
       DEF Next
  <2> QED BY <2>1, <2>2
<1>3. FileInv'
  <2>1. CASE UNCHANGED vars
    BY <1>1, <2>1 DEF FileInv, FileTypes, PartialInv, OrderInv, NewestDumpsKept, IsOrder,
                      Partial, Writers, vars, files, run
  <2>2. CASE Next
    BY <1>1, <2>2, TickFiles, QuietFiles, OpenFiles, CompleteFiles, DumpFailsFiles,
       RotateFiles, CrashFiles, FlushFiles
       DEF Next
  <2> QED BY <2>1, <2>2
<1>4. BackupInv' <=> LockInv' /\ FileInv'
  BY Halves, PTL
<1> QED BY <1>2, <1>3, <1>4

LEMMA InitInv == Init => BackupInv
BY InitLocks, InitFiles, Halves

LEMMA BackupInvariant == Spec => []BackupInv
<1>1. Init => BackupInv
  BY InitInv
<1>2. BackupInv /\ [Next]_vars => BackupInv'
  BY NextPreserves
<1> QED BY <1>1, <1>2, PTL DEF Spec

-----------------------------------------------------------------------------
(* All variables keep their types.                                         *)
THEOREM BackupTypeCorrect == Spec => []TypeOK
<1>1. BackupInv => TypeOK
  BY DEF BackupInv
<1> QED BY <1>1, BackupInvariant, PTL

(* Two backups overlap only if the later one looked before the earlier had *)
(* inserted its lock, or found it stale.                                   *)
THEOREM OverlapsAreExplainedHolds == Spec => []OverlapsAreExplained
<1>1. BackupInv => OverlapsAreExplained
  BY DEF BackupInv
<1> QED BY <1>1, BackupInvariant, PTL

(* A lock row outlives its run only by a crash or a failed release.        *)
THEOREM LocksAreReleasedHolds == Spec => []LocksAreReleased
<1>1. BackupInv => LocksAreReleased
  BY DEF BackupInv
<1> QED BY <1>1, BackupInvariant, PTL

(* Rotation removes a completed dump only when Keep newer ones were        *)
(* completed, less one for every other process and for every fault: those  *)
(* it counts may still be written by other runs, or be what one left; or   *)
(* when two runs opened a file of that name.                               *)
THEOREM NewestDumpsKeptHolds == Spec => []NewestDumpsKept
<1>1. BackupInv => NewestDumpsKept
  BY DEF BackupInv
<1> QED BY <1>1, BackupInvariant, PTL

-----------------------------------------------------------------------------
(* Schedules implements BackupLock: every step of a maintenance loop, a    *)
(* worker or an administrator is a step of a backup run, a crash, a tick,  *)
(* or nothing to the backups.                                              *)
THEOREM SchedulesBackUp == ScheduleSpec => Spec
<1>1. ScheduleInit => Init
  BY DEF ScheduleInit
<1>2. [ScheduleNext]_scheduleVars => [Next]_vars
  <2> SUFFICES ASSUME [ScheduleNext]_scheduleVars PROVE [Next]_vars
    OBVIOUS
  <2>1. CASE UNCHANGED scheduleVars
    BY <2>1 DEF scheduleVars
  <2>2. ASSUME NEW p \in Procs,
               \/ Wake(p) \/ NoBackup(p) \/ FindBackupDue(p) \/ SubmitBackup(p)
               \/ NoAccrual(p) \/ FindAccrualDue(p) \/ SubmitAccrual(p)
               \/ \E j \in DOMAIN jobs : Claim(p, j)
               \/ \E status \in {"COMPLETED", "FAILED"} : Accrue(p, status)
               \/ LockTaken(p)
        PROVE  UNCHANGED vars
    BY <2>2 DEF Wake, NoBackup, FindBackupDue, SubmitBackup, NoAccrual, FindAccrualDue,
                SubmitAccrual, Claim, Accrue, LockTaken
  <2>3. ASSUME NEW p \in Procs, BackUp(p) \/ EndBackup(p) \/ ProcessCrash(p)
        PROVE  Next
    BY <2>3 DEF BackUp, EndBackup, ProcessCrash, Next
  <2>4. CASE \E kind \in Manual : SubmitManual(kind)
    BY <2>4 DEF SubmitManual
  <2>5. CASE Write
    BY <2>5 DEF Write, Next
  <2>6. CASE Clock
    BY <2>6 DEF Clock, Next
  <2> QED BY <2>1, <2>2, <2>3, <2>4, <2>5, <2>6 DEF ScheduleNext
<1> QED BY <1>1, <1>2, PTL DEF ScheduleSpec, Spec

-----------------------------------------------------------------------------
(* The schedules.  What a worker and the recovery do to a job: not who     *)
(* submitted it, what and when; that it failed stays known.                *)
SameJob(x, y) ==
    /\ y \in Job
    /\ y.by = x.by /\ y.kind = x.kind /\ y.created = x.created
    /\ y.window = x.window /\ y.month = x.month /\ y.saw = x.saw
    /\ x.failed => y.failed
    /\ y.status = "FAILED" => y.failed

Kept ==
    /\ jobs' \in Seq(Job) /\ DOMAIN jobs' = DOMAIN jobs
    /\ \A j \in DOMAIN jobs : SameJob(jobs[j], jobs'[j])

LEMMA JobFacts ==
  ASSUME NEW x \in Job
  PROVE  /\ x.by \in Procs \cup {Admin} /\ x.kind \in {"backup", "accrual"}
         /\ x.created \in Nat /\ x.window \in Int /\ x.month \in Int
         /\ x.saw \in Nat /\ x.started \in Nat
         /\ x.status \in {"PENDING", "RUNNING", "COMPLETED", "FAILED"}
BY DEF Job

LEMMA JobSeq ==
  ASSUME jobs \in Seq(Job)
  PROVE  /\ DOMAIN jobs = 1 .. Len(jobs) /\ Len(jobs) \in Nat
         /\ \A j \in DOMAIN jobs : jobs[j] \in Job
OBVIOUS

LEMMA SameStays ==
  ASSUME NEW x \in Job, x.status = "FAILED" => x.failed
  PROVE  SameJob(x, x)
BY Zenon DEF SameJob

LEMMA SameRestated ==
  ASSUME NEW x \in Job, NEW status \in {"PENDING", "RUNNING"}, NEW t \in Nat
  PROVE  SameJob(x, [x EXCEPT !.status = status, !.started = t])
<1> DEFINE y == [x EXCEPT !.status = status, !.started = t]
<1>1. y \in Job /\ y.status = status
  BY DEF Job
<1>2. /\ y.by = x.by /\ y.kind = x.kind /\ y.created = x.created
      /\ y.window = x.window /\ y.month = x.month /\ y.saw = x.saw
  BY DEF Job
<1>3. x.failed => y.failed
  BY Zenon DEF Job
<1>4. status # "FAILED"
  OBVIOUS
<1> QED BY Zenon, <1>1, <1>2, <1>3, <1>4 DEF SameJob

LEMMA SameEnded ==
  ASSUME NEW x \in Job, NEW status \in {"COMPLETED", "FAILED"}, NEW y,
         y = [x EXCEPT !.status = status, !.started = 0,
                       !.failed = @ \/ status = "FAILED"]
  PROVE  SameJob(x, y)
<1>0. (x.failed \/ status = "FAILED") \in BOOLEAN
  BY Zenon
<1>1. y \in Job
  <2>1. y = [x EXCEPT !.status = status, !.started = 0,
                      !.failed = x.failed \/ status = "FAILED"]
    BY Zenon
  <2>2. ASSUME NEW f \in BOOLEAN
        PROVE  [x EXCEPT !.status = status, !.started = 0, !.failed = f] \in Job
    BY DEF Job
  <2> QED BY Zenon, <1>0, <2>1, <2>2
<1>2. y.status = status
  BY Zenon DEF Job
<1>3. /\ y.by = x.by /\ y.kind = x.kind /\ y.created = x.created
      /\ y.window = x.window /\ y.month = x.month /\ y.saw = x.saw
  BY Zenon DEF Job
<1>4. y.failed <=> (x.failed \/ status = "FAILED")
  BY Zenon DEF Job
<1> QED BY Zenon, <1>1, <1>2, <1>3, <1>4 DEF SameJob

LEMMA KeptByJob ==
  ASSUME jobs \in Seq(Job), jobs' = [j \in DOMAIN jobs |-> jobs'[j]],
         \A j \in DOMAIN jobs : SameJob(jobs[j], jobs'[j])
  PROVE  Kept
<1>1. DOMAIN jobs = 1 .. Len(jobs) /\ Len(jobs) \in Nat
  BY JobSeq
<1>2. jobs' = [j \in 1 .. Len(jobs) |-> jobs'[j]]
  BY Zenon, <1>1
<1>3. \A j \in 1 .. Len(jobs) : jobs'[j] \in Job
  BY Zenon, <1>1 DEF SameJob
<1>4. ASSUME NEW f, NEW n \in Nat, f = [j \in 1 .. n |-> f[j]],
             \A j \in 1 .. n : f[j] \in Job
      PROVE  f \in Seq(Job)
  BY <1>4
<1>5. jobs' \in Seq(Job)
  BY Zenon, <1>1, <1>2, <1>3, <1>4
<1>6. DOMAIN jobs' = DOMAIN jobs
  BY Zenon, <1>2, <1>1
<1> QED BY Zenon, <1>5, <1>6 DEF Kept

LEMMA UnchangedKept ==
  ASSUME jobs \in Seq(Job), FailedInv, jobs' = jobs
  PROVE  Kept
<1>1. \A j \in DOMAIN jobs : SameJob(jobs[j], jobs[j])
  BY Zenon, JobSeq, SameStays DEF FailedInv
<1> QED BY Zenon, <1>1 DEF Kept

LEMMA RecoveryKeeps ==
  ASSUME jobs \in Seq(Job), FailedInv, NEW held, jobs' = Recovered(held)
  PROVE  Kept
<1>1. ASSUME NEW j \in DOMAIN jobs PROVE SameJob(jobs[j], jobs'[j])
  <2>1. jobs[j] \in Job /\ (jobs[j].status = "FAILED" => jobs[j].failed)
    BY Zenon, JobSeq DEF FailedInv
  <2>2. \/ jobs'[j] = jobs[j]
        \/ jobs'[j] = [jobs[j] EXCEPT !.status = "PENDING", !.started = 0]
    BY Zenon DEF Recovered
  <2>3. 0 \in Nat /\ "PENDING" \in {"PENDING", "RUNNING"}
    OBVIOUS
  <2> QED BY Zenon, <2>1, <2>2, <2>3, SameStays, SameRestated
<1>2. jobs' = [j \in DOMAIN jobs |-> jobs'[j]]
  BY Zenon DEF Recovered
<1> QED BY Zenon, <1>1, <1>2, KeptByJob

LEMMA ClaimKeeps ==
  ASSUME jobs \in Seq(Job), FailedInv, now \in Nat, NEW p \in Procs,
         NEW i \in DOMAIN jobs, Claim(p, i)
  PROVE  Kept
<1>1. jobs' = [jobs EXCEPT ![i].status = "RUNNING", ![i].started = now]
  BY DEF Claim
<1>2. ASSUME NEW j \in DOMAIN jobs PROVE SameJob(jobs[j], jobs'[j])
  <2>1. jobs[j] \in Job /\ (jobs[j].status = "FAILED" => jobs[j].failed)
    BY Zenon, JobSeq DEF FailedInv
  <2>2. \/ jobs'[j] = jobs[j]
        \/ jobs'[j] = [jobs[j] EXCEPT !.status = "RUNNING", !.started = now]
    BY <1>1
  <2>3. "RUNNING" \in {"PENDING", "RUNNING"}
    OBVIOUS
  <2> QED BY Zenon, <2>1, <2>2, <2>3, SameStays, SameRestated
<1>3. jobs' = [j \in DOMAIN jobs |-> jobs'[j]]
  BY <1>1
<1> QED BY Zenon, <1>2, <1>3, KeptByJob

LEMMA EndKeeps ==
  ASSUME jobs \in Seq(Job), FailedInv, NEW p \in Procs,
         NEW status \in {"COMPLETED", "FAILED"}, EndJob(p, status)
  PROVE  Kept
<1> DEFINE i == cur[p]
<1>1. jobs' = [jobs EXCEPT ![i].status = status, ![i].started = 0,
                           ![i].failed = @ \/ status = "FAILED"]
  BY DEF EndJob
<1> HIDE DEF i
<1>2. ASSUME NEW j \in DOMAIN jobs PROVE SameJob(jobs[j], jobs'[j])
  <2>1. jobs[j] \in Job /\ (jobs[j].status = "FAILED" => jobs[j].failed)
    BY Zenon, JobSeq DEF FailedInv
  <2>2. CASE j # i
    <3>1. jobs'[j] = jobs[j]
      BY Zenon, <1>1, <2>2
    <3> QED BY Zenon, <2>1, <3>1, SameStays
  <2>3. CASE j = i
    <3>1. jobs'[j] = [jobs[j] EXCEPT !.status = status, !.started = 0,
                                     !.failed = @ \/ status = "FAILED"]
      BY Zenon, <1>1, <2>3
    <3> QED BY Zenon, <2>1, <3>1, SameEnded
  <2> QED BY Zenon, <2>2, <2>3
<1>3. jobs' = [j \in DOMAIN jobs |-> jobs'[j]]
  BY Zenon, <1>1
<1> QED BY Zenon, <1>2, <1>3, KeptByJob

(* A window's start is a number of ticks.                                  *)
LEMMA StartFacts ==
  ASSUME now \in Nat
  PROVE  /\ BackupStart \in Int /\ AccrualStart \in Int /\ MonthStart \in Int
         /\ Local = now + Offset
<1>1. Local \in Int /\ Local = now + Offset
  BY SchedulesAssumption DEF Local
<1>2. ASSUME NEW period \in Nat \ {0}, NEW opens \in Nat
      PROVE  LastStart(Local, period, opens) \in Int
  <2>1. Local \div period \in Int
    BY <1>1
  <2> QED BY <2>1 DEF LastStart
<1> QED BY <1>1, <1>2, SchedulesAssumption DEF BackupStart, AccrualStart, MonthStart

(* What holds of jobs alone survives whatever is done to them, at the same *)
(* time or later.                                                          *)
LEMMA KeptJobs ==
  ASSUME ScheduleInv, Kept, now' \in Nat, now <= now'
  PROVE  WindowInv' /\ FailedInv' /\ OneSchedulePerProcess' /\ SecondAccrualExplained'
<1>1. \A j \in DOMAIN jobs : SameJob(jobs[j], jobs'[j]) /\ jobs[j] \in Job
  BY Zenon, JobSeq DEF Kept, ScheduleInv, ScheduleTypeOK
<1>2. DOMAIN jobs' = DOMAIN jobs
  BY DEF Kept
<1>3. now \in Nat
  BY DEF ScheduleInv, ScheduleTypeOK, TypeOK
<1>4. FailedInv'
  BY Zenon, <1>1, <1>2 DEF FailedInv, SameJob
<1>5. WindowInv'
  <2> SUFFICES ASSUME NEW j \in DOMAIN jobs, jobs'[j].by \in Procs
               PROVE  /\ jobs'[j].created - DbOffset <= now'
                      /\ InWindow(jobs'[j].window, jobs'[j].created - DbOffset)
    BY Zenon, <1>2 DEF WindowInv, SubmittedAt
  <2>1. /\ jobs'[j].created = jobs[j].created /\ jobs'[j].window = jobs[j].window
        /\ jobs'[j].by = jobs[j].by
    BY Zenon, <1>1 DEF SameJob
  <2>2. SubmittedAt(j) <= now /\ InWindow(jobs[j].window, SubmittedAt(j))
    BY Zenon, <2>1 DEF ScheduleInv, WindowInv
  <2>3. jobs[j].created \in Nat
    BY Zenon, <1>1, JobFacts
  <2>4. SubmittedAt(j) <= now'
    BY <1>3, <2>2, <2>3, SchedulesAssumption DEF SubmittedAt
  <2> QED BY Zenon, <2>1, <2>2, <2>4 DEF SubmittedAt
<1>6. OneSchedulePerProcess'
  <2> SUFFICES ASSUME NEW j \in DOMAIN jobs, NEW k \in DOMAIN jobs,
                      jobs'[j].by # Admin, jobs'[j].by = jobs'[k].by,
                      jobs'[j].kind = jobs'[k].kind, jobs'[j].window = jobs'[k].window
               PROVE  j = k
    BY Zenon, <1>2 DEF OneSchedulePerProcess
  <2>1. /\ jobs[j].by # Admin /\ jobs[j].by = jobs[k].by
        /\ jobs[j].kind = jobs[k].kind /\ jobs[j].window = jobs[k].window
    BY Zenon, <1>1 DEF SameJob
  <2> QED BY Zenon, <2>1 DEF ScheduleInv, OneSchedulePerProcess
<1>7. SecondAccrualExplained'
  <2> SUFFICES ASSUME DbOffset = Offset, NEW j \in DOMAIN jobs, NEW k \in DOMAIN jobs,
                      j < k, jobs'[j].kind = "accrual", jobs'[k].kind = "accrual",
                      jobs'[k].by # Admin, jobs'[j].created >= jobs'[k].month
               PROVE  jobs'[k].saw < j \/ jobs'[j].failed
    BY Zenon, <1>2 DEF SecondAccrualExplained
  <2>1. /\ jobs[j].kind = "accrual" /\ jobs[k].kind = "accrual"
        /\ jobs[k].by # Admin /\ jobs[j].created >= jobs[k].month
        /\ jobs'[k].saw = jobs[k].saw
        /\ jobs[j].failed => jobs'[j].failed
    BY Zenon, <1>1 DEF SameJob
  <2>2. jobs[k].saw < j \/ jobs[j].failed
    BY Zenon, <2>1 DEF ScheduleInv, SecondAccrualExplained
  <2> QED BY Zenon, <2>1, <2>2
<1> QED BY <1>4, <1>5, <1>6, <1>7

(* The parts of the types that every step needs.                           *)
LEMMA LoopTypes ==
  ASSUME ScheduleTypeOK
  PROVE  /\ now \in Nat /\ jobs \in Seq(Job) /\ Len(jobs) \in Nat
         /\ \A p \in Procs : wake[p] \in Nat /\ saw[p] \in Nat
         /\ DOMAIN wake = Procs /\ DOMAIN mpc = Procs /\ DOMAIN saw = Procs
         /\ DOMAIN cur = Procs
<1>1. /\ now \in Nat /\ jobs \in Seq(Job) /\ wake \in [Procs -> Nat] /\ saw \in [Procs -> Nat]
      /\ cur \in [Procs -> Nat]
      /\ mpc \in [Procs -> {"asleep", "backup", "submit backup", "accrual", "submit accrual"}]
  BY Zenon DEF ScheduleTypeOK, TypeOK
<1>2. Len(jobs) \in Nat
  BY Zenon, <1>1, JobSeq
<1>3. /\ DOMAIN wake = Procs /\ DOMAIN mpc = Procs /\ DOMAIN saw = Procs
      /\ DOMAIN cur = Procs
  BY Zenon, <1>1
<1>4. \A p \in Procs : wake[p] \in Nat /\ saw[p] \in Nat
  BY Zenon, <1>1
<1> QED BY Zenon, <1>1, <1>2, <1>3, <1>4

(* What the invariant says of one loop and one job.                        *)
PauseAt(x, at_, wakes, t) ==
    \/ at_ = "asleep" /\ x.created - DbOffset + Sleep <= wakes
    \/ at_ # "asleep" /\ x.created - DbOffset + Sleep <= t
    \/ at_ \in {"accrual", "submit accrual"} /\ x.kind = "backup"

FoundAt(at_, seen) ==
    /\ seen <= Len(jobs)
    /\ at_ = "submit backup" => Open(BackupStart)
    /\ at_ = "submit accrual" =>
          /\ Open(AccrualStart)
          /\ \A j \in DOMAIN jobs :
                j <= seen /\ jobs[j].kind = "accrual" /\ jobs[j].created >= MonthStart
                    => jobs[j].failed

LEMMA LoopParts ==
  /\ PauseInv <=> \A j \in DOMAIN jobs : jobs[j].by \in Procs =>
                     PauseAt(jobs[j], mpc[jobs[j].by], wake[jobs[j].by], now)
  /\ FoundInv <=> \A p \in Procs : FoundAt(mpc[p], saw[p])
<1>1. PauseInv <=> \A j \in DOMAIN jobs : jobs[j].by \in Procs =>
                     PauseAt(jobs[j], mpc[jobs[j].by], wake[jobs[j].by], now)
  BY Zenon DEF PauseInv, PauseAt, SubmittedAt
<1>2. FoundInv <=> \A p \in Procs : FoundAt(mpc[p], saw[p])
  BY Zenon DEF FoundInv, FoundAt
<1> QED BY <1>1, <1>2

(* Steps that change jobs and add at the end.                              *)
Grown ==
    /\ jobs' \in Seq(Job) /\ Len(jobs) <= Len(jobs')
    /\ \A j \in DOMAIN jobs : j \in DOMAIN jobs' /\ SameJob(jobs[j], jobs'[j])

LEMMA KeptGrown ==
  ASSUME jobs \in Seq(Job), Kept
  PROVE  Grown
<1>1. jobs' \in Seq(Job) /\ DOMAIN jobs' = DOMAIN jobs
  BY Zenon DEF Kept
<1>2. ASSUME NEW s \in Seq(Job), NEW t \in Seq(Job), DOMAIN s = DOMAIN t
      PROVE  Len(s) <= Len(t)
  <2>1. /\ Len(s) \in Nat /\ DOMAIN s = 1 .. Len(s)
        /\ Len(t) \in Nat /\ DOMAIN t = 1 .. Len(t)
    OBVIOUS
  <2>2. ASSUME NEW m \in Nat, NEW k \in Nat, m < k
        PROVE  1 .. m # 1 .. k
    <3>1. k \in 1 .. k /\ k \notin 1 .. m
      BY <2>2
    <3> QED BY Zenon, <3>1
  <2>3. ~ (Len(t) < Len(s))
    BY Zenon, <2>1, <2>2, <1>2
  <2>4. \A m, k \in Nat : k < m \/ m <= k
    OBVIOUS
  <2> QED BY Zenon, <2>1, <2>3, <2>4
<1>3. Len(jobs) <= Len(jobs')
  BY Zenon, <1>1, <1>2
<1> QED BY Zenon, <1>1, <1>3 DEF Kept, Grown

LEMMA SameStarts ==
  ASSUME now' = now
  PROVE  /\ BackupStart' = BackupStart /\ AccrualStart' = AccrualStart
         /\ MonthStart' = MonthStart /\ Local' = Local
BY DEF BackupStart, AccrualStart, MonthStart, Local

LEMMA SameOpen ==
  ASSUME now' = now
  PROVE  /\ Open(BackupStart)' <=> Open(BackupStart)
         /\ Open(AccrualStart)' <=> Open(AccrualStart)
BY SameStarts DEF Open

LEMMA FoundStays ==
  ASSUME jobs \in Seq(Job), Grown, now' = now, NEW at_, NEW seen \in Nat, FoundAt(at_, seen)
  PROVE  FoundAt(at_, seen)'
<1>1. seen <= Len(jobs')
  <2>1. Len(jobs) \in Nat
    BY JobSeq
  <2>2. jobs' \in Seq(Job) /\ Len(jobs) <= Len(jobs') /\ seen <= Len(jobs)
    BY Zenon DEF Grown, FoundAt
  <2>3. Len(jobs') \in Nat
    BY <2>2
  <2> QED BY <2>1, <2>2, <2>3
<1>2. ASSUME NEW j \in DOMAIN jobs', j <= seen
      PROVE  j \in DOMAIN jobs /\ SameJob(jobs[j], jobs'[j])
  <2>1. DOMAIN jobs = 1 .. Len(jobs) /\ Len(jobs) \in Nat
    BY JobSeq
  <2>2. jobs' \in Seq(Job) /\ seen <= Len(jobs)
    BY Zenon DEF Grown, FoundAt
  <2>3. j \in Nat /\ 1 <= j
    BY <2>2
  <2>4. j \in DOMAIN jobs
    BY <2>1, <2>2, <2>3, <1>2
  <2> QED BY Zenon, <2>4 DEF Grown
<1>3. ASSUME at_ = "submit accrual", NEW j \in DOMAIN jobs', j <= seen,
             jobs'[j].kind = "accrual", jobs'[j].created >= MonthStart
      PROVE  jobs'[j].failed
  <2>1. /\ j \in DOMAIN jobs /\ jobs[j].kind = "accrual" /\ jobs[j].created >= MonthStart
        /\ jobs[j].failed => jobs'[j].failed
    BY Zenon, <1>2, <1>3 DEF SameJob
  <2> QED BY Zenon, <2>1, <1>3 DEF FoundAt
<1>4. /\ at_ = "submit backup" => Open(BackupStart)'
      /\ at_ = "submit accrual" => Open(AccrualStart)'
  BY Zenon, SameOpen DEF FoundAt
<1>5. ASSUME at_ = "submit accrual", NEW j \in DOMAIN jobs', j <= seen,
             jobs'[j].kind = "accrual", jobs'[j].created >= MonthStart'
      PROVE  jobs'[j].failed
  BY Zenon, <1>3, <1>5, SameStarts
<1> QED BY Zenon, <1>1, <1>4, <1>5 DEF FoundAt

(* Every loop that moves, or is new, must be right, and so must a new job. *)
LEMMA LoopSteps ==
  ASSUME ScheduleInv, ScheduleTypeOK', Grown, now' = now,
         \A q \in Procs :
            \/ mpc'[q] = mpc[q] /\ wake'[q] = wake[q] /\ saw'[q] = saw[q]
            \/ /\ FoundAt(mpc'[q], saw'[q])
               /\ \A j \in DOMAIN jobs :
                     jobs[j].by = q => PauseAt(jobs[j], mpc'[q], wake'[q], now),
         \A j \in DOMAIN jobs' \ DOMAIN jobs : jobs'[j].by \in Procs =>
            PauseAt(jobs'[j], mpc'[jobs'[j].by], wake'[jobs'[j].by], now)
  PROVE  PauseInv' /\ FoundInv'
<1>1. jobs \in Seq(Job)
  BY LoopTypes DEF ScheduleInv
<1>2. \A q \in Procs : FoundAt(mpc'[q], saw'[q])
  BY Zenon, LoopParts DEF ScheduleInv
<1>3. ASSUME NEW q \in Procs PROVE (FoundAt(mpc[q], saw[q]))'
  <2>1. saw'[q] \in Nat
    <3>1. saw' \in [Procs -> Nat]
      BY Zenon DEF ScheduleTypeOK
    <3> QED BY Zenon, <3>1
  <2> DEFINE a == mpc'[q]
             b == saw'[q]
  <2>2. FoundAt(a, b) /\ b \in Nat
    BY <1>2, <2>1
  <2> HIDE DEF a, b
  <2>3. ASSUME NEW x, NEW y \in Nat, FoundAt(x, y) PROVE FoundAt(x, y)'
    BY Zenon, <2>3, <1>1, FoundStays
  <2> QED BY <1>2, <2>1, <2>3 DEF FoundAt
<1>4. ASSUME NEW j \in DOMAIN jobs', jobs'[j].by \in Procs
      PROVE  PauseAt(jobs'[j], mpc'[jobs'[j].by], wake'[jobs'[j].by], now)
  <2>1. CASE j \in DOMAIN jobs
    <3>1. jobs'[j].by = jobs[j].by /\ jobs'[j].created = jobs[j].created /\ jobs'[j].kind = jobs[j].kind
      BY Zenon, <2>1 DEF Grown, SameJob
    <3>2. PauseAt(jobs[j], mpc'[jobs[j].by], wake'[jobs[j].by], now)
      BY Zenon, <1>4, <2>1, <3>1, LoopParts DEF ScheduleInv
    <3> QED BY Zenon, <3>1, <3>2 DEF PauseAt
  <2> QED BY Zenon, <2>1, <1>4
<1>5. PauseInv'
  <2>1. ASSUME NEW j \in DOMAIN jobs', jobs'[j].by \in Procs
        PROVE  PauseAt(jobs'[j], mpc'[jobs'[j].by], wake'[jobs'[j].by], now')
    BY Zenon, <1>4, <2>1
  <2> QED BY Zenon, <2>1 DEF PauseInv, PauseAt, SubmittedAt
<1>6. FoundInv'
  BY Zenon, <1>3 DEF FoundInv, FoundAt
<1> QED BY <1>5, <1>6

(* One job is submitted, for now's window if a schedule submits it.        *)
LEMMA SubmitJobs ==
  ASSUME ScheduleInv, now' = now,
         NEW kind \in {"backup", "accrual"}, NEW who \in Procs \cup {Admin},
         NEW window \in Int, NEW seen \in Nat, Submit(kind, who, window, seen),
         who \in Procs => Open(window),
         \A j \in DOMAIN jobs :
            who \in Procs /\ jobs[j].by = who /\ jobs[j].kind = kind => jobs[j].window # window,
         \A j \in DOMAIN jobs :
            who \in Procs /\ kind = "accrual" /\ jobs[j].kind = "accrual"
              /\ jobs[j].created >= MonthStart /\ j <= seen => jobs[j].failed
  PROVE  WindowInv' /\ FailedInv' /\ OneSchedulePerProcess' /\ SecondAccrualExplained'
<1> DEFINE n == Len(jobs) + 1
           x == [kind |-> kind, status |-> "PENDING", by |-> who,
                 created |-> now + DbOffset, started |-> 0,
                 window |-> window, month |-> MonthStart,
                 saw |-> seen, failed |-> FALSE]
<1>1. now \in Nat /\ jobs \in Seq(Job)
  BY DEF ScheduleInv, ScheduleTypeOK, TypeOK
<1>2. jobs' = Append(jobs, x)
  BY DEF Submit
<1>3. /\ x.kind = kind /\ x.status = "PENDING" /\ x.by = who
      /\ x.created = now + DbOffset /\ x.window = window /\ x.month = MonthStart
      /\ x.saw = seen
  BY Zenon
<1> HIDE DEF x
<1>4. /\ DOMAIN jobs' = DOMAIN jobs \cup {n} /\ n \notin DOMAIN jobs
      /\ jobs'[n] = x /\ \A j \in DOMAIN jobs : jobs'[j] = jobs[j] /\ j < n
      /\ n \in Nat
  <2>1. ASSUME NEW s \in Seq(Job), NEW y
        PROVE  /\ DOMAIN Append(s, y) = DOMAIN s \cup {Len(s) + 1}
               /\ Len(s) + 1 \notin DOMAIN s
               /\ Append(s, y)[Len(s) + 1] = y
               /\ \A j \in DOMAIN s : Append(s, y)[j] = s[j] /\ j < Len(s) + 1
               /\ Len(s) + 1 \in Nat
    OBVIOUS
  <2>2. /\ DOMAIN Append(jobs, x) = DOMAIN jobs \cup {n}
        /\ n \notin DOMAIN jobs /\ Append(jobs, x)[n] = x
        /\ \A j \in DOMAIN jobs : Append(jobs, x)[j] = jobs[j] /\ j < n
        /\ n \in Nat
    BY Zenon, <1>1, <2>1 DEF n
  <2> QED BY Zenon, <1>2, <2>2
<1> HIDE DEF n
<1>5. \A j \in DOMAIN jobs : jobs[j] \in Job
  BY Zenon, <1>1, JobSeq
<1>6. MonthStart \in Int /\ Local = now + Offset
  BY <1>1, StartFacts
<1>7. FailedInv'
  <2>1. "PENDING" # "FAILED"
    OBVIOUS
  <2>2. \A j \in DOMAIN jobs' : jobs'[j].status = "FAILED" => jobs'[j].failed
    BY Zenon, <1>3, <1>4, <2>1 DEF ScheduleInv, FailedInv
  <2> QED BY Zenon, <2>2 DEF FailedInv
<1>8. WindowInv'
  <2>1. ASSUME NEW j \in DOMAIN jobs, jobs[j].by \in Procs
        PROVE  jobs[j].created - DbOffset <= now /\ InWindow(jobs[j].window, jobs[j].created - DbOffset)
    BY Zenon, <2>1 DEF ScheduleInv, WindowInv, SubmittedAt
  <2>2. ASSUME who \in Procs
        PROVE  x.created - DbOffset <= now /\ InWindow(x.window, x.created - DbOffset)
    <3>1. x.created - DbOffset = now
      BY SMTT(30), <1>1, <1>3, SchedulesAssumption
    <3>2. InWindow(window, now)
      BY <2>2, <1>6 DEF Open, InWindow
    <3>3. now <= now
      BY <1>1
    <3> QED BY Zenon, <1>3, <3>1, <3>2, <3>3
  <2>3. \A j \in DOMAIN jobs' : jobs'[j].by \in Procs =>
           jobs'[j].created - DbOffset <= now' /\ InWindow(jobs'[j].window, jobs'[j].created - DbOffset)
    BY Zenon, <1>3, <1>4, <2>1, <2>2
  <2> QED BY Zenon, <2>3 DEF WindowInv, SubmittedAt
<1>9. OneSchedulePerProcess'
  <2> SUFFICES ASSUME NEW j \in DOMAIN jobs', NEW k \in DOMAIN jobs',
                      jobs'[j].by # Admin, jobs'[j].by = jobs'[k].by,
                      jobs'[j].kind = jobs'[k].kind, jobs'[j].window = jobs'[k].window
               PROVE  j = k
    BY Zenon DEF OneSchedulePerProcess
  <2>1. ASSUME NEW i \in DOMAIN jobs, jobs[i].by = who, who # Admin, jobs[i].kind = kind,
               jobs[i].window = window
        PROVE  FALSE
    BY Zenon, <2>1
  <2>2. CASE j \in DOMAIN jobs /\ k \in DOMAIN jobs
    <3>1. jobs'[j] = jobs[j] /\ jobs'[k] = jobs[k]
      BY Zenon, <2>2, <1>4
    <3> QED BY Zenon, <2>2, <3>1 DEF ScheduleInv, OneSchedulePerProcess
  <2>3. CASE j \in DOMAIN jobs /\ k = n
    <3>1. jobs'[j] = jobs[j] /\ jobs'[k] = x
      BY Zenon, <2>3, <1>4
    <3> QED BY Zenon, <2>1, <2>3, <3>1, <1>3
  <2>4. CASE j = n /\ k \in DOMAIN jobs
    <3>1. jobs'[j] = x /\ jobs'[k] = jobs[k]
      BY Zenon, <2>4, <1>4
    <3> QED BY Zenon, <2>1, <2>4, <3>1, <1>3
  <2> QED BY Zenon, <2>2, <2>3, <2>4, <1>4
<1>10. SecondAccrualExplained'
  <2> SUFFICES ASSUME DbOffset = Offset, NEW j \in DOMAIN jobs', NEW k \in DOMAIN jobs',
                      j < k, jobs'[j].kind = "accrual", jobs'[k].kind = "accrual",
                      jobs'[k].by # Admin, jobs'[j].created >= jobs'[k].month
               PROVE  jobs'[k].saw < j \/ jobs'[j].failed
    BY Zenon DEF SecondAccrualExplained
  <2>1. j \in DOMAIN jobs /\ jobs'[j] = jobs[j] /\ j \in Nat
    <3>1. j \in Nat /\ k \in Nat /\ \A i \in DOMAIN jobs : i \in Nat
      BY <1>1, <1>4
    <3> QED BY <3>1, <1>4
  <2>2. CASE k \in DOMAIN jobs
    <3>1. jobs'[k] = jobs[k]
      BY Zenon, <2>2, <1>4
    <3> QED BY Zenon, <2>1, <2>2, <3>1 DEF ScheduleInv, SecondAccrualExplained
  <2>3. CASE k = n
    <3>1. jobs'[k] = x /\ x.saw = seen /\ x.month = MonthStart
      BY Zenon, <2>3, <1>3, <1>4
    <3>2. who \in Procs /\ kind = "accrual"
      BY Zenon, <3>1, <1>3
    <3>3. j <= seen => jobs[j].failed
      BY Zenon, <2>1, <3>1, <3>2
    <3>4. seen < j \/ j <= seen
      BY <2>1
    <3> QED BY Zenon, <2>1, <3>1, <3>3, <3>4
  <2> QED BY Zenon, <2>2, <2>3, <1>4
<1> QED BY <1>7, <1>8, <1>9, <1>10

-----------------------------------------------------------------------------
(* The steps of the composition, one lemma for each kind.                  *)

(* Jobs are kept; the loops that move are right.                           *)
LEMMA KeptSteps ==
  ASSUME ScheduleInv, ScheduleTypeOK', Kept, now' = now,
         \A q \in Procs :
            \/ mpc'[q] = mpc[q] /\ wake'[q] = wake[q] /\ saw'[q] = saw[q]
            \/ /\ FoundAt(mpc'[q], saw'[q])
               /\ \A j \in DOMAIN jobs :
                     jobs[j].by = q => PauseAt(jobs[j], mpc'[q], wake'[q], now)
  PROVE  ScheduleInv'
<1>1. jobs \in Seq(Job) /\ now \in Nat
  BY LoopTypes DEF ScheduleInv
<1>2. Grown /\ DOMAIN jobs' = DOMAIN jobs
  BY Zenon, <1>1, KeptGrown DEF Kept
<1>3. \A j \in DOMAIN jobs' \ DOMAIN jobs : jobs'[j].by \in Procs =>
         PauseAt(jobs'[j], mpc'[jobs'[j].by], wake'[jobs'[j].by], now)
  BY Zenon, <1>2
<1>4. PauseInv' /\ FoundInv'
  BY Zenon, <1>2, <1>3, LoopSteps
<1>5. now' \in Nat /\ now <= now'
  BY <1>1
<1>6. WindowInv' /\ FailedInv' /\ OneSchedulePerProcess' /\ SecondAccrualExplained'
  BY Zenon, <1>5, KeptJobs
<1> QED BY Zenon, <1>4, <1>6 DEF ScheduleInv

LEMMA WorkerSteps ==
  ASSUME ScheduleInv, ScheduleTypeOK', NEW p \in Procs,
         \/ \E j \in DOMAIN jobs : Claim(p, j)
         \/ \E status \in {"COMPLETED", "FAILED"} : Accrue(p, status)
         \/ LockTaken(p) \/ BackUp(p) \/ EndBackup(p)
  PROVE  ScheduleInv'
<1>1. jobs \in Seq(Job) /\ FailedInv /\ now \in Nat
  BY LoopTypes DEF ScheduleInv
<1>2. Kept
  <2>1. CASE \E j \in DOMAIN jobs : Claim(p, j)
    BY Zenon, <1>1, <2>1, ClaimKeeps
  <2>2. ASSUME NEW status \in {"COMPLETED", "FAILED"}, EndJob(p, status)
        PROVE  Kept
    BY Zenon, <1>1, <2>2, EndKeeps
  <2>3. CASE BackUp(p)
    BY Zenon, <1>1, <2>3, UnchangedKept DEF BackUp
  <2>4. CASE EndBackup(p)
    <3>1. "COMPLETED" \in {"COMPLETED", "FAILED"} /\ "FAILED" \in {"COMPLETED", "FAILED"}
      OBVIOUS
    <3> QED BY Zenon, <2>2, <2>4, <3>1 DEF EndBackup
  <2>5. "FAILED" \in {"COMPLETED", "FAILED"}
    OBVIOUS
  <2> QED BY Zenon, <2>1, <2>2, <2>3, <2>4, <2>5 DEF Accrue, LockTaken
<1>3. UNCHANGED loop
  BY DEF Claim, Accrue, LockTaken, BackUp, EndBackup, EndJob
<1>4. now' = now
  BY DEF Claim, Accrue, LockTaken, BackUp, EndBackup, vars,
         FindNoLock, TakeLock, OpenDump, CompleteDump, DumpFails, Verify, Rotate, unmoved,
         Succeed, Fail, ReleaseFails, Release, Lose
<1>5. mpc' = mpc /\ wake' = wake /\ saw' = saw
  BY <1>3 DEF loop
<1> QED BY Zenon, <1>2, <1>4, <1>5, KeptSteps

(* One loop moves, whatever becomes of the jobs it had submitted.          *)
LEMMA LoopMoves ==
  ASSUME ScheduleInv, ScheduleTypeOK', Kept, now' = now, NEW p \in Procs,
         \A q \in Procs \ {p} : mpc'[q] = mpc[q] /\ wake'[q] = wake[q] /\ saw'[q] = saw[q],
         FoundAt(mpc'[p], saw'[p]),
         \A j \in DOMAIN jobs :
            jobs[j].by = p => PauseAt(jobs[j], mpc'[p], wake'[p], now)
  PROVE  ScheduleInv'
<1>1. ASSUME NEW q \in Procs
      PROVE  \/ mpc'[q] = mpc[q] /\ wake'[q] = wake[q] /\ saw'[q] = saw[q]
             \/ /\ FoundAt(mpc'[q], saw'[q])
                /\ \A j \in DOMAIN jobs :
                      jobs[j].by = q => PauseAt(jobs[j], mpc'[q], wake'[q], now)
  <2>1. CASE q = p
    BY Zenon, <2>1
  <2> QED BY Zenon, <2>1
<1> QED BY Zenon, <1>1, KeptSteps

LEMMA OneMoves ==
  ASSUME ScheduleTypeOK, NEW p \in Procs, NEW from, NEW to, Step(p, from, to)
  PROVE  /\ mpc[p] = from /\ mpc'[p] = to
         /\ \A q \in Procs \ {p} : mpc'[q] = mpc[q]
<1>1. DOMAIN mpc = Procs
  BY LoopTypes
<1> QED BY <1>1 DEF Step

LEMMA OneSees ==
  ASSUME ScheduleTypeOK, NEW p \in Procs, NEW n, saw' = [saw EXCEPT ![p] = n]
  PROVE  saw'[p] = n /\ \A q \in Procs \ {p} : saw'[q] = saw[q]
BY LoopTypes

LEMMA OnePauses ==
  ASSUME ScheduleTypeOK, NEW p \in Procs, wake' = [wake EXCEPT ![p] = now + Sleep]
  PROVE  wake'[p] = now + Sleep /\ \A q \in Procs \ {p} : wake'[q] = wake[q]
BY LoopTypes

(* Whatever the loop submitted, it submitted before now.                   *)
LEMMA PausedAfter ==
  ASSUME ScheduleInv, NEW j \in DOMAIN jobs, jobs[j].by \in Procs, NEW w, w = now + Sleep
  PROVE  PauseAt(jobs[j], "asleep", w, now)
<1>1. jobs[j].created \in Nat /\ now \in Nat
  <2>1. now \in Nat /\ jobs \in Seq(Job)
    BY LoopTypes DEF ScheduleInv
  <2> QED BY <2>1, JobSeq, JobFacts
<1>2. jobs[j].created - DbOffset <= now
  BY Zenon DEF ScheduleInv, WindowInv, SubmittedAt
<1>3. jobs[j].created - DbOffset + Sleep <= w
  BY <1>1, <1>2, SchedulesAssumption
<1> QED BY <1>3 DEF PauseAt

LEMMA FoundNothing ==
  ASSUME jobs \in Seq(Job), NEW n \in Nat, n <= Len(jobs),
         NEW at_ \in {"asleep", "backup", "accrual"}
  PROVE  FoundAt(at_, n)
BY DEF FoundAt

(* A pause is over: the loop looks first for the backup.                   *)
LEMMA WakeSteps ==
  ASSUME ScheduleInv, ScheduleTypeOK', NEW p \in Procs, Wake(p)
  PROVE  ScheduleInv'
<1>1. /\ jobs \in Seq(Job) /\ FailedInv /\ now \in Nat /\ ScheduleTypeOK
      /\ \A q \in Procs : wake[q] \in Nat /\ saw[q] \in Nat
  BY LoopTypes DEF ScheduleInv
<1>2. Kept
  BY Zenon, <1>1, RecoveryKeeps DEF Wake
<1>3. now' = now /\ wake' = wake /\ saw' = saw
  BY DEF Wake, vars
<1>4. /\ mpc[p] = "asleep" /\ mpc'[p] = "backup"
      /\ \A q \in Procs \ {p} : mpc'[q] = mpc[q]
  BY Zenon, <1>1, OneMoves DEF Wake
<1>5. FoundAt(mpc'[p], saw'[p])
  <2>1. saw[p] <= Len(jobs)
    BY Zenon DEF ScheduleInv, FoundInv
  <2>2. "backup" \in {"asleep", "backup", "accrual"}
    OBVIOUS
  <2> QED BY Zenon, <1>1, <1>3, <1>4, <2>1, <2>2, FoundNothing
<1>6. ASSUME NEW j \in DOMAIN jobs, jobs[j].by = p
      PROVE  PauseAt(jobs[j], mpc'[p], wake'[p], now)
  <2>1. PauseAt(jobs[j], "asleep", wake[p], now)
    BY Zenon, <1>4, <1>6, LoopParts DEF ScheduleInv
  <2>2. jobs[j].created - DbOffset + Sleep <= wake[p]
    BY <2>1 DEF PauseAt
  <2>3. wake[p] <= now /\ jobs[j].created \in Nat /\ wake[p] \in Nat /\ now \in Nat
    BY <1>1, JobSeq, JobFacts DEF Wake
  <2>4. DbOffset \in Nat /\ Sleep \in Nat
    BY SchedulesAssumption
  <2>5. jobs[j].created - DbOffset + Sleep <= now
    BY <2>2, <2>3, <2>4
  <2> QED BY <1>4, <2>5 DEF PauseAt
<1> QED BY Zenon, <1>2, <1>3, <1>4, <1>5, <1>6, LoopMoves

LEMMA NoBackupSteps ==
  ASSUME ScheduleInv, ScheduleTypeOK', NEW p \in Procs, NoBackup(p)
  PROVE  ScheduleInv'
<1>1. /\ jobs \in Seq(Job) /\ FailedInv /\ ScheduleTypeOK
      /\ \A q \in Procs : saw[q] \in Nat
  BY LoopTypes DEF ScheduleInv
<1>2. now' = now /\ wake' = wake /\ saw' = saw /\ jobs' = jobs
  BY DEF NoBackup, vars
<1>3. Kept
  BY Zenon, <1>1, <1>2, UnchangedKept
<1>4. /\ mpc[p] = "backup" /\ mpc'[p] = "accrual"
      /\ \A q \in Procs \ {p} : mpc'[q] = mpc[q]
  BY Zenon, <1>1, OneMoves DEF NoBackup
<1>5. FoundAt(mpc'[p], saw'[p])
  <2>1. saw[p] <= Len(jobs)
    BY Zenon DEF ScheduleInv, FoundInv
  <2>2. "accrual" \in {"asleep", "backup", "accrual"}
    OBVIOUS
  <2> QED BY Zenon, <1>1, <1>2, <1>4, <2>1, <2>2, FoundNothing
<1>6. ASSUME NEW j \in DOMAIN jobs, jobs[j].by = p
      PROVE  PauseAt(jobs[j], mpc'[p], wake'[p], now)
  <2>1. PauseAt(jobs[j], "backup", wake[p], now)
    BY Zenon, <1>4, <1>6, LoopParts DEF ScheduleInv
  <2> QED BY <1>4, <2>1 DEF PauseAt
<1> QED BY Zenon, <1>2, <1>3, <1>4, <1>5, <1>6, LoopMoves

LEMMA FindBackupSteps ==
  ASSUME ScheduleInv, ScheduleTypeOK', NEW p \in Procs, FindBackupDue(p)
  PROVE  ScheduleInv'
<1>1. jobs \in Seq(Job) /\ FailedInv /\ ScheduleTypeOK /\ Len(jobs) \in Nat
  BY LoopTypes DEF ScheduleInv
<1>2. now' = now /\ wake' = wake /\ jobs' = jobs
  BY DEF FindBackupDue, vars
<1>3. Kept
  BY Zenon, <1>1, <1>2, UnchangedKept
<1>4. /\ mpc[p] = "backup" /\ mpc'[p] = "submit backup"
      /\ \A q \in Procs \ {p} : mpc'[q] = mpc[q]
  BY Zenon, <1>1, OneMoves DEF FindBackupDue
<1>5. saw'[p] = Len(jobs) /\ \A q \in Procs \ {p} : saw'[q] = saw[q]
  BY Zenon, <1>1, OneSees DEF FindBackupDue
<1>6. FoundAt(mpc'[p], saw'[p])
  <2>1. Open(BackupStart)
    BY DEF FindBackupDue, BackupDue
  <2>2. Len(jobs) <= Len(jobs)
    BY <1>1
  <2> QED BY <1>4, <1>5, <2>1, <2>2 DEF FoundAt
<1>7. ASSUME NEW j \in DOMAIN jobs, jobs[j].by = p
      PROVE  PauseAt(jobs[j], mpc'[p], wake'[p], now)
  <2>1. PauseAt(jobs[j], "backup", wake[p], now)
    BY Zenon, <1>4, <1>7, LoopParts DEF ScheduleInv
  <2> QED BY <1>4, <2>1 DEF PauseAt
<1> QED BY Zenon, <1>2, <1>3, <1>4, <1>5, <1>6, <1>7, LoopMoves

LEMMA NoAccrualSteps ==
  ASSUME ScheduleInv, ScheduleTypeOK', NEW p \in Procs, NoAccrual(p)
  PROVE  ScheduleInv'
<1>1. /\ jobs \in Seq(Job) /\ FailedInv /\ ScheduleTypeOK
      /\ \A q \in Procs : saw[q] \in Nat
  BY LoopTypes DEF ScheduleInv
<1>2. now' = now /\ saw' = saw /\ jobs' = jobs
  BY DEF NoAccrual, vars
<1>3. Kept
  BY Zenon, <1>1, <1>2, UnchangedKept
<1>4. mpc'[p] = "asleep" /\ \A q \in Procs \ {p} : mpc'[q] = mpc[q]
  BY Zenon, <1>1, OneMoves DEF NoAccrual
<1>5. wake'[p] = now + Sleep /\ \A q \in Procs \ {p} : wake'[q] = wake[q]
  BY Zenon, <1>1, OnePauses DEF NoAccrual, Pause
<1>6. FoundAt(mpc'[p], saw'[p])
  <2>1. saw[p] <= Len(jobs)
    BY Zenon DEF ScheduleInv, FoundInv
  <2>2. "asleep" \in {"asleep", "backup", "accrual"}
    OBVIOUS
  <2> QED BY Zenon, <1>1, <1>2, <1>4, <2>1, <2>2, FoundNothing
<1>7. ASSUME NEW j \in DOMAIN jobs, jobs[j].by = p
      PROVE  PauseAt(jobs[j], mpc'[p], wake'[p], now)
  BY Zenon, <1>4, <1>5, <1>7, PausedAfter
<1> QED BY Zenon, <1>2, <1>3, <1>4, <1>5, <1>6, <1>7, LoopMoves

LEMMA FindAccrualSteps ==
  ASSUME ScheduleInv, ScheduleTypeOK', NEW p \in Procs, FindAccrualDue(p)
  PROVE  ScheduleInv'
<1>1. jobs \in Seq(Job) /\ FailedInv /\ ScheduleTypeOK /\ Len(jobs) \in Nat
  BY LoopTypes DEF ScheduleInv
<1>2. now' = now /\ wake' = wake /\ jobs' = jobs
  BY DEF FindAccrualDue, vars
<1>3. Kept
  BY Zenon, <1>1, <1>2, UnchangedKept
<1>4. /\ mpc[p] = "accrual" /\ mpc'[p] = "submit accrual"
      /\ \A q \in Procs \ {p} : mpc'[q] = mpc[q]
  BY Zenon, <1>1, OneMoves DEF FindAccrualDue
<1>5. saw'[p] = Len(jobs) /\ \A q \in Procs \ {p} : saw'[q] = saw[q]
  BY Zenon, <1>1, OneSees DEF FindAccrualDue
<1>6. FoundAt(mpc'[p], saw'[p])
  <2>1. Open(AccrualStart)
    BY DEF FindAccrualDue, AccrualDue
  <2>2. Len(jobs) <= Len(jobs)
    BY <1>1
  <2>3. \A j \in DOMAIN jobs :
           jobs[j].kind = "accrual" /\ jobs[j].created >= MonthStart => jobs[j].failed
    BY Zenon, <1>1 DEF FindAccrualDue, AccrualDue, FailedInv
  <2> QED BY <1>4, <1>5, <2>1, <2>2, <2>3 DEF FoundAt
<1>7. ASSUME NEW j \in DOMAIN jobs, jobs[j].by = p
      PROVE  PauseAt(jobs[j], mpc'[p], wake'[p], now)
  <2>1. PauseAt(jobs[j], "accrual", wake[p], now)
    BY Zenon, <1>4, <1>7, LoopParts DEF ScheduleInv
  <2> QED BY <1>4, <2>1 DEF PauseAt
<1> QED BY Zenon, <1>2, <1>3, <1>4, <1>5, <1>6, <1>7, LoopMoves

LEMMA CrashSteps ==
  ASSUME ScheduleInv, ScheduleTypeOK', NEW p \in Procs, ProcessCrash(p)
  PROVE  ScheduleInv'
<1>1. jobs \in Seq(Job) /\ FailedInv /\ ScheduleTypeOK /\ Len(jobs) \in Nat
  BY LoopTypes DEF ScheduleInv
<1>2. now' = now
  BY DEF ProcessCrash, Crash, Lose
<1>3. Kept
  BY Zenon, <1>1, RecoveryKeeps DEF ProcessCrash
<1>4. mpc'[p] = "asleep" /\ \A q \in Procs \ {p} : mpc'[q] = mpc[q]
  BY <1>1, LoopTypes DEF ProcessCrash
<1>5. wake'[p] = now + Sleep /\ \A q \in Procs \ {p} : wake'[q] = wake[q]
  BY Zenon, <1>1, OnePauses DEF ProcessCrash, Restart
<1>6. saw'[p] = 0 /\ \A q \in Procs \ {p} : saw'[q] = saw[q]
  BY Zenon, <1>1, OneSees DEF ProcessCrash
<1>7. FoundAt(mpc'[p], saw'[p])
  <2>1. 0 \in Nat /\ 0 <= Len(jobs) /\ "asleep" \in {"asleep", "backup", "accrual"}
    BY <1>1
  <2> QED BY Zenon, <1>1, <1>4, <1>6, <2>1, FoundNothing
<1>8. ASSUME NEW j \in DOMAIN jobs, jobs[j].by = p
      PROVE  PauseAt(jobs[j], mpc'[p], wake'[p], now)
  BY Zenon, <1>4, <1>5, <1>8, PausedAfter
<1> QED BY Zenon, <1>2, <1>3, <1>4, <1>5, <1>6, <1>7, <1>8, LoopMoves

LEMMA SubmitGrows ==
  ASSUME jobs \in Seq(Job), FailedInv, jobs' \in Seq(Job),
         NEW kind, NEW who, NEW window, NEW seen, Submit(kind, who, window, seen)
  PROVE  /\ Grown
         /\ \A j \in DOMAIN jobs' \ DOMAIN jobs :
               /\ jobs'[j].kind = kind /\ jobs'[j].by = who
               /\ jobs'[j].created = now + DbOffset
<1> DEFINE x == [kind |-> kind, status |-> "PENDING", by |-> who,
                 created |-> now + DbOffset, started |-> 0,
                 window |-> window, month |-> MonthStart,
                 saw |-> seen, failed |-> FALSE]
<1>1. jobs' = Append(jobs, x)
  BY DEF Submit
<1>2. x.kind = kind /\ x.by = who /\ x.created = now + DbOffset
  BY Zenon
<1> HIDE DEF x
<1>3. ASSUME NEW s \in Seq(Job), NEW y
      PROVE  /\ Len(s) <= Len(Append(s, y))
             /\ \A j \in DOMAIN s : j \in DOMAIN Append(s, y) /\ Append(s, y)[j] = s[j]
             /\ \A j \in DOMAIN Append(s, y) \ DOMAIN s : Append(s, y)[j] = y
  OBVIOUS
<1>4. \A j \in DOMAIN jobs : SameJob(jobs[j], jobs[j])
  BY Zenon, JobSeq, SameStays DEF FailedInv
<1>5. /\ Len(jobs) <= Len(jobs')
      /\ \A j \in DOMAIN jobs : j \in DOMAIN jobs' /\ jobs'[j] = jobs[j]
      /\ \A j \in DOMAIN jobs' \ DOMAIN jobs : jobs'[j] = x
  BY Zenon, <1>1, <1>3
<1> QED BY Zenon, <1>2, <1>4, <1>5 DEF Grown

(* A window that was open a pause ago is over.                             *)
LEMMA WindowsPass ==
  ASSUME NEW c \in Nat, NEW t \in Nat, NEW b \in Int, NEW d \in Nat, NEW o \in Nat,
         NEW s \in Nat, NEW w \in Nat, w <= s,
         c - d + s <= t, t + o < b + w, b <= c - d + o
  PROVE  FALSE
OBVIOUS

(* A loop past its pause submitted nothing for the window that is open, but *)
(* what it submitted for the backup since.                                 *)
LEMMA NothingEarlier ==
  ASSUME ScheduleInv, NEW j \in DOMAIN jobs, jobs[j].by \in Procs,
         NEW start \in Int, Open(start), mpc[jobs[j].by] # "asleep",
         \/ mpc[jobs[j].by] \notin {"accrual", "submit accrual"}
         \/ jobs[j].kind # "backup"
  PROVE  jobs[j].window # start
<1>1. jobs[j].created \in Nat /\ jobs[j].window \in Int /\ now \in Nat
  <2>1. now \in Nat /\ jobs \in Seq(Job)
    BY LoopTypes DEF ScheduleInv
  <2> QED BY <2>1, JobSeq, JobFacts
<1>2. jobs[j].created - DbOffset + Sleep <= now
  <2>1. PauseAt(jobs[j], mpc[jobs[j].by], wake[jobs[j].by], now)
    BY Zenon, LoopParts DEF ScheduleInv
  <2> QED BY Zenon, <2>1 DEF PauseAt
<1>3. /\ jobs[j].created - DbOffset <= now
      /\ InWindow(jobs[j].window, jobs[j].created - DbOffset)
  BY Zenon DEF ScheduleInv, WindowInv, SubmittedAt
<1>4. now + Offset < start + Window
  BY <1>1, StartFacts DEF Open
<1>5. jobs[j].window <= jobs[j].created - DbOffset + Offset
  BY <1>3 DEF InWindow
<1>6. Sleep \in Nat /\ Window \in Nat /\ Window <= Sleep /\ DbOffset \in Nat /\ Offset \in Nat
  BY SchedulesAssumption
<1>7. SUFFICES ASSUME jobs[j].window = start PROVE FALSE
  OBVIOUS
<1>8. start <= jobs[j].created - DbOffset + Offset
  BY <1>5, <1>7
<1> QED BY Zenon, <1>1, <1>2, <1>4, <1>6, <1>8, WindowsPass

LEMMA SubmitBackupSteps ==
  ASSUME ScheduleInv, ScheduleTypeOK', NEW p \in Procs, SubmitBackup(p)
  PROVE  ScheduleInv'
<1>1. /\ jobs \in Seq(Job) /\ FailedInv /\ ScheduleTypeOK /\ Len(jobs) \in Nat
      /\ now \in Nat /\ saw[p] \in Nat
  BY LoopTypes DEF ScheduleInv
<1>2. now' = now /\ wake' = wake
  BY DEF SubmitBackup, vars
<1>3. Submit("backup", p, BackupStart, saw[p])
  BY DEF SubmitBackup
<1>4. /\ mpc[p] = "submit backup" /\ mpc'[p] = "accrual"
      /\ \A q \in Procs \ {p} : mpc'[q] = mpc[q]
  BY Zenon, <1>1, OneMoves DEF SubmitBackup
<1>5. saw'[p] = 0 /\ \A q \in Procs \ {p} : saw'[q] = saw[q]
  BY Zenon, <1>1, OneSees DEF SubmitBackup
<1>6. Open(BackupStart) /\ BackupStart \in Int
  BY <1>1, <1>4, StartFacts DEF ScheduleInv, FoundInv
<1>7. jobs' \in Seq(Job)
  BY Zenon DEF ScheduleTypeOK
<1>8. /\ Grown
      /\ \A j \in DOMAIN jobs' \ DOMAIN jobs : jobs'[j].kind = "backup" /\ jobs'[j].by = p
  BY Zenon, <1>1, <1>3, <1>7, SubmitGrows
<1>9. WindowInv' /\ FailedInv' /\ OneSchedulePerProcess' /\ SecondAccrualExplained'
  <2>1. ASSUME NEW j \in DOMAIN jobs, jobs[j].by = p, jobs[j].kind = "backup"
        PROVE  jobs[j].window # BackupStart
    <3>1. "submit backup" # "asleep" /\ "submit backup" \notin {"accrual", "submit accrual"}
      OBVIOUS
    <3> QED BY Zenon, <1>4, <1>6, <2>1, <3>1, NothingEarlier
  <2>2. "backup" # "accrual" /\ "backup" \in {"backup", "accrual"} /\ p \in Procs \cup {Admin}
    OBVIOUS
  <2>3. \A j \in DOMAIN jobs :
           p \in Procs /\ jobs[j].by = p /\ jobs[j].kind = "backup"
             => jobs[j].window # BackupStart
    BY Zenon, <2>1
  <2>4. \A j \in DOMAIN jobs :
           p \in Procs /\ "backup" = "accrual" /\ jobs[j].kind = "accrual"
             /\ jobs[j].created >= MonthStart /\ j <= saw[p] => jobs[j].failed
    BY Zenon, <2>2
  <2>5. p \in Procs => Open(BackupStart)
    BY Zenon, <1>6
  <2> QED BY SMT, <1>1, <1>2, <1>3, <1>6, <2>2, <2>3, <2>4, <2>5, SubmitJobs
<1>10. PauseInv' /\ FoundInv'
  <2>1. FoundAt(mpc'[p], saw'[p])
    <3>1. 0 \in Nat /\ 0 <= Len(jobs) /\ "accrual" \in {"asleep", "backup", "accrual"}
      BY <1>1
    <3> QED BY Zenon, <1>1, <1>4, <1>5, <3>1, FoundNothing
  <2>2. ASSUME NEW j \in DOMAIN jobs, jobs[j].by = p
        PROVE  PauseAt(jobs[j], mpc'[p], wake'[p], now)
    <3>1. PauseAt(jobs[j], "submit backup", wake[p], now)
      BY Zenon, <1>4, <2>2, LoopParts DEF ScheduleInv
    <3> QED BY <1>4, <3>1 DEF PauseAt
  <2>3. ASSUME NEW q \in Procs
        PROVE  \/ mpc'[q] = mpc[q] /\ wake'[q] = wake[q] /\ saw'[q] = saw[q]
               \/ /\ FoundAt(mpc'[q], saw'[q])
                  /\ \A j \in DOMAIN jobs :
                        jobs[j].by = q => PauseAt(jobs[j], mpc'[q], wake'[q], now)
    <3>1. CASE q = p
      BY Zenon, <2>1, <2>2, <3>1
    <3> QED BY Zenon, <1>2, <1>4, <1>5, <3>1
  <2>4. ASSUME NEW j \in DOMAIN jobs' \ DOMAIN jobs, jobs'[j].by \in Procs
        PROVE  PauseAt(jobs'[j], mpc'[jobs'[j].by], wake'[jobs'[j].by], now)
    BY <1>4, <1>8, <2>4 DEF PauseAt
  <2> QED BY Zenon, <1>2, <1>8, <2>3, <2>4, LoopSteps
<1> QED BY Zenon, <1>9, <1>10 DEF ScheduleInv

LEMMA SubmitAccrualSteps ==
  ASSUME ScheduleInv, ScheduleTypeOK', NEW p \in Procs, SubmitAccrual(p)
  PROVE  ScheduleInv'
<1>1. /\ jobs \in Seq(Job) /\ FailedInv /\ ScheduleTypeOK /\ Len(jobs) \in Nat
      /\ now \in Nat /\ saw[p] \in Nat
  BY LoopTypes DEF ScheduleInv
<1>2. now' = now
  BY DEF SubmitAccrual, vars
<1>3. Submit("accrual", p, AccrualStart, saw[p])
  BY DEF SubmitAccrual
<1>4. /\ mpc[p] = "submit accrual" /\ mpc'[p] = "asleep"
      /\ \A q \in Procs \ {p} : mpc'[q] = mpc[q]
  BY Zenon, <1>1, OneMoves DEF SubmitAccrual
<1>5. saw'[p] = 0 /\ \A q \in Procs \ {p} : saw'[q] = saw[q]
  BY Zenon, <1>1, OneSees DEF SubmitAccrual
<1>6. wake'[p] = now + Sleep /\ \A q \in Procs \ {p} : wake'[q] = wake[q]
  BY Zenon, <1>1, OnePauses DEF SubmitAccrual, Pause
<1>7. AccrualStart \in Int
  BY <1>1, StartFacts
<1>8. /\ Open(AccrualStart)
      /\ \A j \in DOMAIN jobs :
            j <= saw[p] /\ jobs[j].kind = "accrual" /\ jobs[j].created >= MonthStart
                => jobs[j].failed
  BY Zenon, <1>4 DEF ScheduleInv, FoundInv
<1>9. jobs' \in Seq(Job)
  BY Zenon DEF ScheduleTypeOK
<1>10. /\ Grown
       /\ \A j \in DOMAIN jobs' \ DOMAIN jobs :
             jobs'[j].by = p /\ jobs'[j].created = now + DbOffset
  BY Zenon, <1>1, <1>3, <1>9, SubmitGrows
<1>11. WindowInv' /\ FailedInv' /\ OneSchedulePerProcess' /\ SecondAccrualExplained'
  <2>1. ASSUME NEW j \in DOMAIN jobs, jobs[j].by = p, jobs[j].kind = "accrual"
        PROVE  jobs[j].window # AccrualStart
    <3>1. "submit accrual" # "asleep" /\ "accrual" # "backup"
      OBVIOUS
    <3> QED BY Zenon, <1>4, <1>7, <1>8, <2>1, <3>1, NothingEarlier
  <2>2. "accrual" \in {"backup", "accrual"} /\ p \in Procs \cup {Admin}
    OBVIOUS
  <2>3. \A j \in DOMAIN jobs :
           p \in Procs /\ jobs[j].by = p /\ jobs[j].kind = "accrual"
             => jobs[j].window # AccrualStart
    BY Zenon, <2>1
  <2>4. \A j \in DOMAIN jobs :
           p \in Procs /\ "accrual" = "accrual" /\ jobs[j].kind = "accrual"
             /\ jobs[j].created >= MonthStart /\ j <= saw[p] => jobs[j].failed
    BY Zenon, <1>8
  <2>5. p \in Procs => Open(AccrualStart)
    BY Zenon, <1>8
  <2> QED BY SMT, <1>1, <1>2, <1>3, <1>7, <2>2, <2>3, <2>4, <2>5, SubmitJobs
<1>12. PauseInv' /\ FoundInv'
  <2>1. FoundAt(mpc'[p], saw'[p])
    <3>1. 0 \in Nat /\ 0 <= Len(jobs) /\ "asleep" \in {"asleep", "backup", "accrual"}
      BY <1>1
    <3> QED BY Zenon, <1>1, <1>4, <1>5, <3>1, FoundNothing
  <2>2. ASSUME NEW j \in DOMAIN jobs, jobs[j].by = p
        PROVE  PauseAt(jobs[j], mpc'[p], wake'[p], now)
    BY Zenon, <1>4, <1>6, <2>2, PausedAfter
  <2>3. ASSUME NEW q \in Procs
        PROVE  \/ mpc'[q] = mpc[q] /\ wake'[q] = wake[q] /\ saw'[q] = saw[q]
               \/ /\ FoundAt(mpc'[q], saw'[q])
                  /\ \A j \in DOMAIN jobs :
                        jobs[j].by = q => PauseAt(jobs[j], mpc'[q], wake'[q], now)
    <3>1. CASE q = p
      BY Zenon, <2>1, <2>2, <3>1
    <3> QED BY Zenon, <1>4, <1>5, <1>6, <3>1
  <2>4. ASSUME NEW j \in DOMAIN jobs' \ DOMAIN jobs, jobs'[j].by \in Procs
        PROVE  PauseAt(jobs'[j], mpc'[jobs'[j].by], wake'[jobs'[j].by], now)
    <3>1. jobs'[j].by = p /\ jobs'[j].created = now + DbOffset
      BY Zenon, <1>10
    <3>2. now \in Nat /\ DbOffset \in Nat /\ Sleep \in Nat
      BY <1>1, SchedulesAssumption
    <3>3. jobs'[j].created - DbOffset + Sleep <= now + Sleep
      BY <3>1, <3>2
    <3> QED BY <1>4, <1>6, <3>1, <3>3 DEF PauseAt
  <2> QED BY Zenon, <1>2, <1>10, <2>3, <2>4, LoopSteps
<1> QED BY Zenon, <1>11, <1>12 DEF ScheduleInv

LEMMA ManualSteps ==
  ASSUME ScheduleInv, ScheduleTypeOK', NEW kind \in {"backup", "accrual"}, SubmitManual(kind)
  PROVE  ScheduleInv'
<1>1. jobs \in Seq(Job) /\ FailedInv
  BY LoopTypes DEF ScheduleInv
<1>2. now' = now /\ wake' = wake /\ mpc' = mpc /\ saw' = saw
  BY DEF SubmitManual, vars, loop
<1>3. Submit(kind, Admin, 0, 0)
  BY DEF SubmitManual
<1>4. Admin \notin Procs
  BY SchedulesAssumption
<1>5. WindowInv' /\ FailedInv' /\ OneSchedulePerProcess' /\ SecondAccrualExplained'
  <2>1. 0 \in Int /\ 0 \in Nat /\ Admin \in Procs \cup {Admin}
    OBVIOUS
  <2> QED BY Zenon, <1>2, <1>3, <1>4, <2>1, SubmitJobs
<1>6. jobs' \in Seq(Job)
  BY Zenon DEF ScheduleTypeOK
<1>7. Grown /\ \A j \in DOMAIN jobs' \ DOMAIN jobs : jobs'[j].by = Admin
  BY Zenon, <1>1, <1>3, <1>6, SubmitGrows
<1>8. PauseInv' /\ FoundInv'
  BY Zenon, <1>2, <1>4, <1>7, LoopSteps
<1> QED BY Zenon, <1>5, <1>8 DEF ScheduleInv

(* mysqldump writes.                                                       *)
LEMMA WriteSteps ==
  ASSUME ScheduleInv, ScheduleTypeOK', Write
  PROVE  ScheduleInv'
<1>1. now' = now /\ jobs' = jobs /\ wake' = wake /\ mpc' = mpc /\ saw' = saw
  BY DEF Write, Flush, unmoved, loop
<1>2. jobs \in Seq(Job) /\ FailedInv
  BY LoopTypes DEF ScheduleInv
<1>3. Kept
  BY Zenon, <1>1, <1>2, UnchangedKept
<1> QED BY Zenon, <1>1, <1>3, KeptSteps

(* Time passes: every loop is in its pause.                                *)
LEMMA ClockSteps ==
  ASSUME ScheduleInv, ScheduleTypeOK', Clock
  PROVE  ScheduleInv'
<1>1. jobs \in Seq(Job) /\ FailedInv /\ now \in Nat
  BY LoopTypes DEF ScheduleInv
<1>2. /\ now' = now + 1 /\ jobs' = jobs /\ wake' = wake /\ mpc' = mpc /\ saw' = saw
      /\ \A p \in Procs : mpc[p] = "asleep"
  BY DEF Clock, Tick, loop
<1>3. Kept
  BY Zenon, <1>1, <1>2, UnchangedKept
<1>4. now' \in Nat /\ now <= now'
  BY <1>1, <1>2
<1>5. WindowInv' /\ FailedInv' /\ OneSchedulePerProcess' /\ SecondAccrualExplained'
  BY Zenon, <1>3, <1>4, KeptJobs
<1>6. PauseInv'
  <2>1. ASSUME NEW j \in DOMAIN jobs, jobs[j].by \in Procs
        PROVE  mpc[jobs[j].by] = "asleep" /\ jobs[j].created - DbOffset + Sleep <= wake[jobs[j].by]
    <3>1. PauseAt(jobs[j], "asleep", wake[jobs[j].by], now)
      BY Zenon, <1>2, <2>1, LoopParts DEF ScheduleInv
    <3> QED BY <1>2, <2>1, <3>1 DEF PauseAt
  <2> QED BY Zenon, <1>2, <2>1 DEF PauseInv, SubmittedAt
<1>7. FoundInv'
  <2>1. \A p \in Procs : saw[p] <= Len(jobs)
    BY Zenon DEF ScheduleInv, FoundInv
  <2>2. "asleep" # "submit backup" /\ "asleep" # "submit accrual"
    OBVIOUS
  <2> QED BY Zenon, <1>2, <2>1, <2>2 DEF FoundInv
<1> QED BY Zenon, <1>5, <1>6, <1>7 DEF ScheduleInv

-----------------------------------------------------------------------------
(* The types, and the theorems.                                            *)

LEMMA InitSchedules == ScheduleInit => ScheduleInv
<1> SUFFICES ASSUME ScheduleInit PROVE ScheduleInv
  OBVIOUS
<1>1. TypeOK
  BY InitInv DEF ScheduleInit, BackupInv
<1>2. jobs = <<>> /\ DOMAIN jobs = {} /\ jobs \in Seq(Job)
  BY DEF ScheduleInit
<1>3. ScheduleTypeOK
  <2>1. wake \in [Procs -> Nat]
    <3>1. 0 .. Sleep \subseteq Nat
      OBVIOUS
    <3> QED BY <3>1 DEF ScheduleInit
  <2>2. mpc \in [Procs -> {"asleep", "backup", "submit backup", "accrual", "submit accrual"}]
    BY DEF ScheduleInit
  <2>3. saw \in [Procs -> Nat] /\ cur \in [Procs -> Nat]
    BY DEF ScheduleInit
  <2> QED BY Zenon, <1>1, <1>2, <2>1, <2>2, <2>3 DEF ScheduleTypeOK
<1>4. FoundInv
  <2>1. ASSUME NEW p \in Procs PROVE saw[p] <= Len(jobs) /\ mpc[p] = "asleep"
    BY DEF ScheduleInit
  <2>2. "asleep" # "submit backup" /\ "asleep" # "submit accrual"
    OBVIOUS
  <2> QED BY Zenon, <2>1, <2>2 DEF FoundInv
<1>5. WindowInv /\ PauseInv /\ FailedInv /\ OneSchedulePerProcess /\ SecondAccrualExplained
  BY Zenon, <1>2 DEF WindowInv, PauseInv, FailedInv, OneSchedulePerProcess, SecondAccrualExplained
<1> QED BY <1>3, <1>4, <1>5 DEF ScheduleInv

LEMMA ScheduleTypesStep ==
  ASSUME ScheduleInv, TypeOK', ScheduleNext
  PROVE  ScheduleTypeOK'
<1>1. /\ now \in Nat /\ jobs \in Seq(Job) /\ wake \in [Procs -> Nat]
      /\ saw \in [Procs -> Nat] /\ cur \in [Procs -> Nat]
      /\ mpc \in [Procs -> {"asleep", "backup", "submit backup", "accrual", "submit accrual"}]
      /\ FailedInv /\ Len(jobs) \in Nat /\ DOMAIN jobs = 1 .. Len(jobs)
  <2>1. FailedInv /\ ScheduleTypeOK
    BY Zenon DEF ScheduleInv
  <2> QED BY Zenon, <2>1, LoopTypes, JobSeq DEF ScheduleTypeOK
<1>2. ASSUME NEW kind \in {"backup", "accrual"}, NEW who \in Procs \cup {Admin},
             NEW window \in Int, NEW seen \in Nat, Submit(kind, who, window, seen)
      PROVE  jobs' \in Seq(Job)
  <2>0. now \in Nat /\ DbOffset \in Nat
    BY Zenon, <1>1, SchedulesAssumption
  <2>1. MonthStart \in Int /\ now + DbOffset \in Nat
    BY <2>0, StartFacts
  <2>2. [kind |-> kind, status |-> "PENDING", by |-> who,
         created |-> now + DbOffset, started |-> 0,
         window |-> window, month |-> MonthStart,
         saw |-> seen, failed |-> FALSE] \in Job
    BY <2>1 DEF Job
  <2>3. ASSUME NEW s \in Seq(Job), NEW x \in Job PROVE Append(s, x) \in Seq(Job)
    OBVIOUS
  <2> QED BY Zenon, <1>1, <1>2, <2>2, <2>3 DEF Submit
<1>3. ASSUME Kept PROVE jobs' \in Seq(Job)
  BY <1>3 DEF Kept
<1>4. ASSUME NEW p \in Procs
      PROVE  /\ wake' = [wake EXCEPT ![p] = now + Sleep] => wake' \in [Procs -> Nat]
             /\ \A n \in Nat : saw' = [saw EXCEPT ![p] = n] => saw' \in [Procs -> Nat]
             /\ \A n \in Nat : cur' = [cur EXCEPT ![p] = n] => cur' \in [Procs -> Nat]
             /\ \A to \in {"asleep", "backup", "submit backup", "accrual", "submit accrual"} :
                   mpc' = [mpc EXCEPT ![p] = to]
                     => mpc' \in [Procs -> {"asleep", "backup", "submit backup",
                                            "accrual", "submit accrual"}]
  <2>0. now \in Nat
    BY Zenon, <1>1
  <2>1. now + Sleep \in Nat
    BY <2>0, SchedulesAssumption
  <2>2. ASSUME NEW S, NEW f \in [Procs -> S], NEW x \in S
        PROVE  [f EXCEPT ![p] = x] \in [Procs -> S]
    OBVIOUS
  <2> QED BY ZenonT(30), <1>1, <2>1, <2>2
<1>5. 0 \in Nat /\ \A j \in DOMAIN jobs : j \in Nat
  <2>1. DOMAIN jobs = 1 .. Len(jobs)
    BY Zenon, <1>1
  <2> QED BY <2>1
<1> DEFINE Places == {"asleep", "backup", "submit backup", "accrual", "submit accrual"}
           TypesStep == /\ wake' \in [Procs -> Nat] /\ saw' \in [Procs -> Nat]
                        /\ cur' \in [Procs -> Nat] /\ mpc' \in [Procs -> Places]
                        /\ jobs' \in Seq(Job)
<1>6. ASSUME NEW p \in Procs, Wake(p) PROVE TypesStep
  BY Zenon, <1>1, <1>3, <1>4, <1>6, RecoveryKeeps DEF Wake, Step
<1>7. ASSUME NEW p \in Procs, NoBackup(p) \/ FindBackupDue(p) \/ NoAccrual(p) \/ FindAccrualDue(p)
      PROVE  TypesStep
  BY Zenon, <1>1, <1>4, <1>7 DEF NoBackup, FindBackupDue, NoAccrual, FindAccrualDue, Step, Pause
<1>8. ASSUME NEW p \in Procs, SubmitBackup(p) \/ SubmitAccrual(p) PROVE TypesStep
  <2>1. BackupStart \in Int /\ AccrualStart \in Int /\ saw[p] \in Nat
    BY <1>1, StartFacts
  <2>2. jobs' \in Seq(Job)
    BY Zenon, <1>2, <1>8, <2>1 DEF SubmitBackup, SubmitAccrual
  <2> QED BY Zenon, <1>1, <1>4, <1>5, <1>8, <2>2 DEF SubmitBackup, SubmitAccrual, Step, Pause
<1>9. ASSUME NEW p \in Procs, \E j \in DOMAIN jobs : Claim(p, j) PROVE TypesStep
  <2>1. PICK j \in DOMAIN jobs : Claim(p, j)
    BY Zenon, <1>9
  <2>2. jobs' \in Seq(Job)
    BY Zenon, <1>1, <1>3, <2>1, ClaimKeeps
  <2>3. wake' = wake /\ mpc' = mpc /\ saw' = saw
    BY <2>1 DEF Claim, loop
  <2> QED BY Zenon, <1>1, <1>4, <1>5, <2>1, <2>2, <2>3 DEF Claim
<1>10. ASSUME NEW p \in Procs, NEW status \in {"COMPLETED", "FAILED"}, EndJob(p, status)
       PROVE  TypesStep
  <2>1. jobs' \in Seq(Job)
    BY Zenon, <1>1, <1>3, <1>10, EndKeeps
  <2>2. wake' = wake /\ mpc' = mpc /\ saw' = saw
    BY <1>10 DEF EndJob, loop
  <2> QED BY Zenon, <1>1, <1>4, <1>5, <1>10, <2>1, <2>2 DEF EndJob
<1>11. ASSUME NEW p \in Procs,
              \/ \E status \in {"COMPLETED", "FAILED"} : Accrue(p, status)
              \/ LockTaken(p) \/ BackUp(p) \/ EndBackup(p)
       PROVE  TypesStep
  <2>1. CASE BackUp(p)
    <3>1. wake' = wake /\ mpc' = mpc /\ saw' = saw /\ jobs' = jobs /\ cur' = cur
      BY <2>1 DEF BackUp, loop
    <3> QED BY Zenon, <1>1, <3>1
  <2>2. "FAILED" \in {"COMPLETED", "FAILED"} /\ "COMPLETED" \in {"COMPLETED", "FAILED"}
    OBVIOUS
  <2> QED BY Zenon, <1>10, <1>11, <2>1, <2>2 DEF Accrue, LockTaken, EndBackup
<1>12. ASSUME NEW p \in Procs, ProcessCrash(p) PROVE TypesStep
  <2>1. jobs' \in Seq(Job)
    BY Zenon, <1>1, <1>3, <1>12, RecoveryKeeps DEF ProcessCrash
  <2> QED BY Zenon, <1>1, <1>4, <1>5, <1>12, <2>1 DEF ProcessCrash, Restart
<1>13. ASSUME NEW kind \in {"backup", "accrual"}, SubmitManual(kind) PROVE TypesStep
  <2>1. wake' = wake /\ mpc' = mpc /\ saw' = saw /\ cur' = cur
    BY <1>13 DEF SubmitManual, loop
  <2>2. 0 \in Int /\ Admin \in Procs \cup {Admin}
    OBVIOUS
  <2>3. jobs' \in Seq(Job)
    BY Zenon, <1>2, <1>5, <1>13, <2>2 DEF SubmitManual
  <2> QED BY Zenon, <1>1, <2>1, <2>3
<1>14. ASSUME Clock PROVE TypesStep
  BY <1>1, <1>14 DEF Clock, loop
<1>15. ASSUME Write PROVE TypesStep
  BY <1>1, <1>15 DEF Write, loop
<1>16. Manual \subseteq {"backup", "accrual"}
  BY SchedulesAssumption
<1>17. TypesStep
  BY Zenon, <1>6, <1>7, <1>8, <1>9, <1>11, <1>12, <1>13, <1>14, <1>15, <1>16 DEF ScheduleNext
<1> QED BY Zenon, <1>17 DEF ScheduleTypeOK

(* The steps of one process, of the administrator, and of the clock.       *)
LEMMA SchedulesPreserve ==
  ASSUME ScheduleInv, TypeOK', [ScheduleNext]_scheduleVars
  PROVE  ScheduleInv'
<1>1. CASE ScheduleNext
  <2>1. ScheduleTypeOK'
    BY Zenon, <1>1, ScheduleTypesStep
  <2>2. ASSUME NEW p \in Procs,
               Wake(p) \/ NoBackup(p) \/ FindBackupDue(p) \/ SubmitBackup(p)
        PROVE  ScheduleInv'
    BY Zenon, <2>1, <2>2, WakeSteps, NoBackupSteps, FindBackupSteps, SubmitBackupSteps
  <2>3. ASSUME NEW p \in Procs,
               NoAccrual(p) \/ FindAccrualDue(p) \/ SubmitAccrual(p) \/ ProcessCrash(p)
        PROVE  ScheduleInv'
    BY Zenon, <2>1, <2>3, NoAccrualSteps, FindAccrualSteps, SubmitAccrualSteps, CrashSteps
  <2>4. ASSUME NEW p \in Procs,
               \/ \E j \in DOMAIN jobs : Claim(p, j)
               \/ \E status \in {"COMPLETED", "FAILED"} : Accrue(p, status)
               \/ LockTaken(p) \/ BackUp(p) \/ EndBackup(p)
        PROVE  ScheduleInv'
    BY Zenon, <2>1, <2>4, WorkerSteps
  <2>5. CASE \E kind \in Manual : SubmitManual(kind)
    BY Zenon, <2>1, <2>5, ManualSteps, SchedulesAssumption
  <2>6. CASE Clock
    BY Zenon, <2>1, <2>6, ClockSteps
  <2>7. CASE Write
    BY Zenon, <2>1, <2>7, WriteSteps
  <2> QED BY Zenon, <1>1, <2>2, <2>3, <2>4, <2>5, <2>6, <2>7 DEF ScheduleNext
<1>2. CASE UNCHANGED scheduleVars
  <2>1. /\ now' = now /\ jobs' = jobs /\ wake' = wake /\ mpc' = mpc /\ saw' = saw
        /\ cur' = cur
    BY <1>2 DEF scheduleVars, vars, loop
  <2>2. jobs \in Seq(Job) /\ FailedInv
    BY LoopTypes DEF ScheduleInv
  <2>3. Kept
    BY Zenon, <2>1, <2>2, UnchangedKept
  <2>4. ScheduleTypeOK'
    BY Zenon, <2>1 DEF ScheduleInv, ScheduleTypeOK
  <2> QED BY Zenon, <2>1, <2>3, <2>4, KeptSteps
<1> QED BY <1>1, <1>2

LEMMA ScheduleInvariant == ScheduleSpec => []ScheduleInv
<1>1. ScheduleSpec => []TypeOK
  BY SchedulesBackUp, BackupTypeCorrect, PTL
<1>2. ScheduleInv /\ TypeOK' /\ [ScheduleNext]_scheduleVars => ScheduleInv'
  BY SchedulesPreserve
<1> QED BY <1>1, <1>2, InitSchedules, PTL DEF ScheduleSpec

(* Loops, jobs, claims and backups have their types, whatever the clocks,  *)
(* the windows, the pause and the number of processes.                     *)
THEOREM ScheduleTypeCorrect == ScheduleSpec => []ScheduleTypeOK
<1>1. ScheduleInv => ScheduleTypeOK
  BY DEF ScheduleInv
<1> QED BY <1>1, ScheduleInvariant, PTL

(* The maintenance loop of a process (_maintenance_loop,                   *)
(* _check_scheduled_backup, _check_monthly_penalty_accrual) submits at     *)
(* most one job of a kind in a window, through restarts and whatever the   *)
(* differences of the clocks: of the configuration this needs only that    *)
(* the pause is not shorter than the window.                               *)
THEOREM OneSchedulePerProcessHolds == ScheduleSpec => []OneSchedulePerProcess
<1>1. ScheduleInv => OneSchedulePerProcess
  BY DEF ScheduleInv
<1> QED BY <1>1, ScheduleInvariant, PTL

(* With a database clock that is local, a second accrual of a month is     *)
(* scheduled only after a check that did not see the first, or when an     *)
(* execution of the first failed.                                          *)
THEOREM SecondAccrualExplainedHolds == ScheduleSpec => []SecondAccrualExplained
<1>1. ScheduleInv => SecondAccrualExplained
  BY DEF ScheduleInv
<1> QED BY <1>1, ScheduleInvariant, PTL

(* Under the schedules too, backup runs overlap only where the lock of one *)
(* was not there yet when the other looked, or had become stale.           *)
THEOREM ScheduledOverlapsAreExplained == ScheduleSpec => []OverlapsAreExplained
BY SchedulesBackUp, OverlapsAreExplainedHolds, PTL

(* Under the schedules too, rotations of overlapping runs leave the Keep   *)
(* newest completed dumps, less one for every other process and fault.     *)
THEOREM ScheduledDumpsKept == ScheduleSpec => []NewestDumpsKept
BY SchedulesBackUp, NewestDumpsKeptHolds, PTL
=============================================================================
