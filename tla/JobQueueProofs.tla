--------------------------- MODULE JobQueueProofs ---------------------------
(***************************************************************************)
(* Proofs about JobQueue when one process serves the queue, for any number *)
(* of workers, pools and jobs and any number of crashes and database       *)
(* errors: no job is executed twice at a time, effects are repeated only   *)
(* after a fault, and a terminal status is final.                          *)
(***************************************************************************)
EXTENDS JobQueue, TLAPS

(* The deployment start_worker is written for: one API process.            *)
ASSUME OneProcessOnly == \A p, q \in Procs : p = q

-----------------------------------------------------------------------------
(* The empty queue satisfies the invariant.                                *)
LEMMA InitQueueInv == Init => QueueInv
<1> SUFFICES ASSUME Init PROVE QueueInv
  OBVIOUS
<1>1. TypeOK
  BY DEF Init, TypeOK, Terminal
<1>2. HoldInv /\ VisibleInv
  BY DEF Init, HoldInv, VisibleInv, Holds, Executes
<1>3. EffectInv /\ AppliedInv
  BY DEF Init, EffectInv, AppliedInv, CompletedMeansApplied
<1> QED BY <1>1, <1>2, <1>3 DEF QueueInv

(* A new row is PENDING and nobody holds it.                               *)
LEMMA SubmitPreserves ==
  ASSUME QueueInv, NEW j \in Jobs, Submit(j)
  PROVE  QueueInv'
<1> USE QueueAssumption, OneProcessOnly
    DEF QueueInv, TypeOK, Submit, workers, maintenance, failures, Terminal
<1>1. TypeOK'
  OBVIOUS
<1>2. HoldInv'
  BY DEF HoldInv, VisibleInv, Holds, Executes
<1>3. VisibleInv'
  BY DEF HoldInv, VisibleInv, Holds, Executes
<1>4. EffectInv'
  BY DEF HoldInv, EffectInv, Holds, Executes
<1>5. AppliedInv'
  BY DEF HoldInv, AppliedInv, CompletedMeansApplied, Holds, Executes
<1> QED BY <1>1, <1>2, <1>3, <1>4, <1>5

(* Time passes for a RUNNING job that is not about to be registered.       *)
LEMMA AgeJobPreserves ==
  ASSUME QueueInv, NEW j \in Jobs, AgeJob(j)
  PROVE  QueueInv'
<1> USE QueueAssumption, OneProcessOnly
    DEF QueueInv, TypeOK, AgeJob, workers, maintenance, failures, Terminal
<1>1. TypeOK'
  OBVIOUS
<1>2. HoldInv'
  BY DEF HoldInv, VisibleInv, Holds, Executes
<1>3. VisibleInv'
  BY DEF HoldInv, VisibleInv, Holds, Executes
<1>4. EffectInv'
  BY DEF HoldInv, EffectInv, Holds, Executes
<1>5. AppliedInv'
  BY DEF HoldInv, AppliedInv, CompletedMeansApplied, Holds, Executes
<1> QED BY <1>1, <1>2, <1>3, <1>4, <1>5

(* Looking up a candidate changes no row.                                  *)
LEMMA HintPreserves ==
  ASSUME QueueInv, NEW w \in Workers, Hint(w)
  PROVE  QueueInv'
<1> USE QueueAssumption, OneProcessOnly
    DEF QueueInv, TypeOK, Hint, Waiting, workers, maintenance, failures, Terminal
<1>1. TypeOK'
  OBVIOUS
<1>2. HoldInv'
  BY DEF HoldInv, VisibleInv, Holds, Executes
<1>3. VisibleInv'
  BY DEF HoldInv, VisibleInv, Holds, Executes
<1>4. EffectInv'
  BY DEF HoldInv, EffectInv, Holds, Executes
<1>5. AppliedInv'
  BY DEF HoldInv, AppliedInv, CompletedMeansApplied, Holds, Executes
<1> QED BY <1>1, <1>2, <1>3, <1>4, <1>5

(* A claimed job was PENDING, so nobody held it, and is in no cutoff.      *)
LEMMA ClaimPreserves ==
  ASSUME QueueInv, NEW w \in Workers, Claim(w)
  PROVE  QueueInv'
<1> USE QueueAssumption, OneProcessOnly
    DEF QueueInv, TypeOK, Claim, StartNow, workers, maintenance, failures, Terminal
<1>1. TypeOK'
  OBVIOUS
<1>2. HoldInv'
  BY DEF HoldInv, VisibleInv, Holds, Executes
<1>3. VisibleInv'
  <2>1. cur[w] \in Jobs /\ status[cur[w]] = "PENDING"
    BY DEF HoldInv
  <2>2. \A v \in Workers : Holds(v)' => v = w \/ (Holds(v) /\ cur[v] # cur[w])
    BY <2>1 DEF HoldInv, Holds
  <2>3. mpc' = mpc /\ active' = active /\ beat' = beat /\ cur' = cur
    OBVIOUS
  <2>4. \A p \in Procs : cut'[p] = cut[p] \ {cur[w]}
    OBVIOUS
  <2>5. \A v \in Workers : pc'[v] = IF v = w THEN "claimed" ELSE pc[v]
    OBVIOUS
  <2>6. old' = old \ {cur[w]}
    OBVIOUS
  <2> QED BY <2>2, <2>3, <2>4, <2>5, <2>6 DEF VisibleInv, Holds
<1>4. EffectInv'
  BY DEF HoldInv, EffectInv, Holds, Executes
<1>5. AppliedInv'
  BY DEF HoldInv, AppliedInv, CompletedMeansApplied, Holds, Executes
<1> QED BY <1>1, <1>2, <1>3, <1>4, <1>5

(* A worker that lost the race holds nothing.                              *)
LEMMA ClaimTooLatePreserves ==
  ASSUME QueueInv, NEW w \in Workers, ClaimTooLate(w)
  PROVE  QueueInv'
<1> USE QueueAssumption, OneProcessOnly
    DEF QueueInv, TypeOK, ClaimTooLate, workers, maintenance, failures, Terminal
<1>1. TypeOK'
  OBVIOUS
<1>2. HoldInv'
  BY DEF HoldInv, VisibleInv, Holds, Executes
<1>3. VisibleInv'
  BY DEF HoldInv, VisibleInv, Holds, Executes
<1>4. EffectInv'
  BY DEF HoldInv, EffectInv, Holds, Executes
<1>5. AppliedInv'
  BY DEF HoldInv, AppliedInv, CompletedMeansApplied, Holds, Executes
<1> QED BY <1>1, <1>2, <1>3, <1>4, <1>5

(* A job claimed and lost is RUNNING without a holder.                     *)
LEMMA ClaimLostPreserves ==
  ASSUME QueueInv, NEW w \in Workers, ClaimLost(w)
  PROVE  QueueInv'
<1> USE QueueAssumption, OneProcessOnly
    DEF QueueInv, TypeOK, ClaimLost, StartNow, workers, maintenance, failures, Terminal
<1>1. TypeOK'
  <2>1. cut' \in [Procs -> SUBSET Jobs] /\ old' \in SUBSET Jobs
    OBVIOUS
  <2>2. status' \in [Jobs -> {"NEW", "PENDING", "RUNNING"} \cup Terminal]
    OBVIOUS
  <2> QED BY <2>1, <2>2
<1>2. HoldInv'
  BY DEF HoldInv, VisibleInv, Holds, Executes
<1>3. VisibleInv'
  BY DEF HoldInv, VisibleInv, Holds, Executes
<1>4. EffectInv'
  BY DEF HoldInv, EffectInv, Holds, Executes
<1>5. AppliedInv'
  BY DEF HoldInv, AppliedInv, CompletedMeansApplied, Holds, Executes
<1> QED BY <1>1, <1>2, <1>3, <1>4, <1>5

(* The registry now shows the claimed job.                                 *)
LEMMA RegisterPreserves ==
  ASSUME QueueInv, NEW w \in Workers, Register(w)
  PROVE  QueueInv'
<1> USE QueueAssumption, OneProcessOnly
    DEF QueueInv, TypeOK, Register, workers, maintenance, failures, Terminal
<1>1. TypeOK'
  OBVIOUS
<1>2. HoldInv'
  BY DEF HoldInv, VisibleInv, Holds, Executes
<1>3. VisibleInv'
  BY DEF HoldInv, VisibleInv, Holds, Executes
<1>4. EffectInv'
  BY DEF HoldInv, EffectInv, Holds, Executes
<1>5. AppliedInv'
  BY DEF HoldInv, AppliedInv, CompletedMeansApplied, Holds, Executes
<1> QED BY <1>1, <1>2, <1>3, <1>4, <1>5

(* The effects of a run are added once.                                    *)
LEMMA ApplyPreserves ==
  ASSUME QueueInv, NEW w \in Workers, Apply(w)
  PROVE  QueueInv'
<1> USE QueueAssumption, OneProcessOnly
    DEF QueueInv, TypeOK, Apply, workers, maintenance, failures, Terminal
<1>1. TypeOK'
  <2>1. cur[w] \in Jobs
    BY DEF HoldInv, Holds
  <2>2. effects' \in [Jobs -> Nat]
    BY <2>1
  <2> QED BY <2>2
<1>2. HoldInv'
  BY DEF HoldInv, VisibleInv, Holds, Executes
<1>3. VisibleInv'
  BY DEF HoldInv, VisibleInv, Holds, Executes
<1>4. EffectInv'
  BY DEF HoldInv, EffectInv, Holds, Executes
<1>5. AppliedInv'
  BY DEF HoldInv, AppliedInv, CompletedMeansApplied, Holds, Executes
<1> QED BY <1>1, <1>2, <1>3, <1>4, <1>5

(* A failed run adds no effects.                                           *)
LEMMA FailPreserves ==
  ASSUME QueueInv, NEW w \in Workers, Fail(w)
  PROVE  QueueInv'
<1> USE QueueAssumption, OneProcessOnly
    DEF QueueInv, TypeOK, Fail, workers, maintenance, failures, Terminal
<1>1. TypeOK'
  OBVIOUS
<1>2. HoldInv'
  BY DEF HoldInv, VisibleInv, Holds, Executes
<1>3. VisibleInv'
  BY DEF HoldInv, VisibleInv, Holds, Executes
<1>4. EffectInv'
  BY DEF HoldInv, EffectInv, Holds, Executes
<1>5. AppliedInv'
  BY DEF HoldInv, AppliedInv, CompletedMeansApplied, Holds, Executes
<1> QED BY <1>1, <1>2, <1>3, <1>4, <1>5

(* The outcome is written by the only holder.                              *)
LEMMA FinishPreserves ==
  ASSUME QueueInv, NEW w \in Workers, Finish(w)
  PROVE  QueueInv'
<1> USE QueueAssumption, OneProcessOnly
    DEF QueueInv, TypeOK, Finish, Outcome, workers, maintenance, failures, Terminal
<1>1. TypeOK'
  OBVIOUS
<1>2. HoldInv'
  BY DEF HoldInv, VisibleInv, Holds, Executes
<1>3. VisibleInv'
  BY DEF HoldInv, VisibleInv, Holds, Executes
<1>4. EffectInv'
  BY DEF HoldInv, EffectInv, Holds, Executes
<1>5. AppliedInv'
  BY DEF HoldInv, AppliedInv, CompletedMeansApplied, Holds, Executes
<1> QED BY <1>1, <1>2, <1>3, <1>4, <1>5

(* A lost status write is a fault of the job.                              *)
LEMMA FinishLostPreserves ==
  ASSUME QueueInv, NEW w \in Workers, FinishLost(w)
  PROVE  QueueInv'
<1> USE QueueAssumption, OneProcessOnly
    DEF QueueInv, TypeOK, FinishLost, workers, maintenance, failures, Terminal
<1>1. TypeOK'
  <2>1. cur[w] \in Jobs
    BY DEF HoldInv, Holds
  <2>2. faults' \in [Jobs -> Nat]
    BY <2>1
  <2> QED BY <2>2
<1>2. HoldInv'
  BY DEF HoldInv, VisibleInv, Holds, Executes
<1>3. VisibleInv'
  BY DEF HoldInv, VisibleInv, Holds, Executes
<1>4. EffectInv'
  BY DEF HoldInv, EffectInv, Holds, Executes
<1>5. AppliedInv'
  BY DEF HoldInv, AppliedInv, CompletedMeansApplied, Holds, Executes
<1> QED BY <1>1, <1>2, <1>3, <1>4, <1>5

(* A released job has no holder.                                           *)
LEMMA ReleasePreserves ==
  ASSUME QueueInv, NEW w \in Workers, Release(w)
  PROVE  QueueInv'
<1> USE QueueAssumption, OneProcessOnly
    DEF QueueInv, TypeOK, Release, workers, maintenance, failures, Terminal
<1>1. TypeOK'
  OBVIOUS
<1>2. HoldInv'
  BY DEF HoldInv, VisibleInv, Holds, Executes
<1>3. VisibleInv'
  BY DEF HoldInv, VisibleInv, Holds, Executes
<1>4. EffectInv'
  BY DEF HoldInv, EffectInv, Holds, Executes
<1>5. AppliedInv'
  BY DEF HoldInv, AppliedInv, CompletedMeansApplied, Holds, Executes
<1> QED BY <1>1, <1>2, <1>3, <1>4, <1>5

(* The registry read covers every registered job.                          *)
LEMMA ListPreserves ==
  ASSUME QueueInv, NEW p \in Procs, List(p)
  PROVE  QueueInv'
<1> USE QueueAssumption, OneProcessOnly
    DEF QueueInv, TypeOK, List, Registered, WorkersOf, workers, maintenance, failures, Terminal
<1>1. TypeOK'
  OBVIOUS
<1>2. HoldInv'
  BY DEF HoldInv, VisibleInv, Holds, Executes
<1>3. VisibleInv'
  BY DEF HoldInv, VisibleInv, Holds, Executes
<1>4. EffectInv'
  BY DEF HoldInv, EffectInv, Holds, Executes
<1>5. AppliedInv'
  BY DEF HoldInv, AppliedInv, CompletedMeansApplied, Holds, Executes
<1> QED BY <1>1, <1>2, <1>3, <1>4, <1>5

(* What is requeued is held by nobody.                                     *)
LEMMA ResetPreserves ==
  ASSUME QueueInv, NEW p \in Procs, Reset(p)
  PROVE  QueueInv'
<1> USE QueueAssumption, OneProcessOnly
    DEF QueueInv, TypeOK, Reset, Started, workers, maintenance, failures, Terminal
<1>1. TypeOK'
  OBVIOUS
<1>2. HoldInv'
  BY DEF HoldInv, VisibleInv, Holds, Executes
<1>3. VisibleInv'
  BY DEF HoldInv, VisibleInv, Holds, Executes
<1>4. EffectInv'
  BY DEF HoldInv, EffectInv, Holds, Executes
<1>5. AppliedInv'
  BY DEF HoldInv, AppliedInv, CompletedMeansApplied, Holds, Executes
<1> QED BY <1>1, <1>2, <1>3, <1>4, <1>5

(* A failed recovery requeues nothing.                                     *)
LEMMA ResetFailsPreserves ==
  ASSUME QueueInv, NEW p \in Procs, ResetFails(p)
  PROVE  QueueInv'
<1> USE QueueAssumption, OneProcessOnly
    DEF QueueInv, TypeOK, ResetFails, Started, workers, maintenance, failures, Terminal
<1>1. TypeOK'
  OBVIOUS
<1>2. HoldInv'
  BY DEF HoldInv, VisibleInv, Holds, Executes
<1>3. VisibleInv'
  BY DEF HoldInv, VisibleInv, Holds, Executes
<1>4. EffectInv'
  BY DEF HoldInv, EffectInv, Holds, Executes
<1>5. AppliedInv'
  BY DEF HoldInv, AppliedInv, CompletedMeansApplied, Holds, Executes
<1> QED BY <1>1, <1>2, <1>3, <1>4, <1>5

(* The crash of the process takes every holder with it.                    *)
LEMMA CrashPreserves ==
  ASSUME QueueInv, NEW p \in Procs, Crash(p)
  PROVE  QueueInv'
<1> USE QueueAssumption, OneProcessOnly
    DEF QueueInv, TypeOK, Crash, Hit, WorkersOf, workers, maintenance, failures, Terminal
<1>1. TypeOK'
  OBVIOUS
<1>2. HoldInv'
  BY DEF HoldInv, VisibleInv, Holds, Executes
<1>3. VisibleInv'
  BY DEF HoldInv, VisibleInv, Holds, Executes
<1>4. EffectInv'
  BY DEF HoldInv, EffectInv, Holds, Executes
<1>5. AppliedInv'
  BY DEF HoldInv, AppliedInv, CompletedMeansApplied, Holds, Executes
<1> QED BY <1>1, <1>2, <1>3, <1>4, <1>5

(* No worker runs before the first recovery is over.                       *)
LEMMA RestartPreserves ==
  ASSUME QueueInv, NEW p \in Procs, Restart(p)
  PROVE  QueueInv'
<1> USE QueueAssumption, OneProcessOnly
    DEF QueueInv, TypeOK, Restart, workers, maintenance, failures, Terminal
<1>1. TypeOK'
  OBVIOUS
<1>2. HoldInv'
  BY DEF HoldInv, VisibleInv, Holds, Executes
<1>3. VisibleInv'
  BY DEF HoldInv, VisibleInv, Holds, Executes
<1>4. EffectInv'
  BY DEF HoldInv, EffectInv, Holds, Executes
<1>5. AppliedInv'
  BY DEF HoldInv, AppliedInv, CompletedMeansApplied, Holds, Executes
<1> QED BY <1>1, <1>2, <1>3, <1>4, <1>5

(* Every step preserves the invariant.                                     *)
LEMMA NextQueueInv == QueueInv /\ [Next]_vars => QueueInv'
<1> SUFFICES ASSUME QueueInv, [Next]_vars PROVE QueueInv'
  OBVIOUS
<1>1. CASE UNCHANGED vars
  BY <1>1 DEF vars, QueueInv, TypeOK, HoldInv, VisibleInv, EffectInv, AppliedInv,
              CompletedMeansApplied, Holds, Executes
<1>2. ASSUME NEW j \in Jobs, Submit(j) \/ AgeJob(j) PROVE QueueInv'
  BY <1>2, SubmitPreserves, AgeJobPreserves
<1>3. ASSUME NEW w \in Workers, Hint(w) \/ TryClaim(w) \/ Register(w) PROVE QueueInv'
  BY <1>3, HintPreserves, ClaimPreserves, ClaimTooLatePreserves, ClaimLostPreserves,
     RegisterPreserves DEF TryClaim
<1>4. ASSUME NEW w \in Workers, Handle(w) \/ Write(w) \/ Release(w) PROVE QueueInv'
  BY <1>4, ApplyPreserves, FailPreserves, FinishPreserves, FinishLostPreserves,
     ReleasePreserves DEF Handle, Write
<1>5. ASSUME NEW p \in Procs, Recover(p) \/ Crash(p) \/ Restart(p) PROVE QueueInv'
  BY <1>5, ListPreserves, ResetPreserves, ResetFailsPreserves, CrashPreserves,
     RestartPreserves DEF Recover
<1> QED BY <1>1, <1>2, <1>3, <1>4, <1>5 DEF Next

(* The invariant holds throughout every behaviour.                         *)
LEMMA QueueInvariant == Spec => []QueueInv
<1> QED BY InitQueueInv, NextQueueInv, PTL DEF Spec

-----------------------------------------------------------------------------
(* Every variable keeps its type.                                          *)
THEOREM QueueTypeCorrect == Spec => []TypeOK
<1>1. QueueInv => TypeOK
  BY DEF QueueInv
<1> QED BY <1>1, QueueInvariant, PTL

(* Recovery never requeues a job that a live worker executes: no job is    *)
(* executed by two workers at a time.                                      *)
THEOREM ExecutedByOne == Spec => []NoConcurrentExecution
<1>1. QueueInv => NoConcurrentExecution
  BY DEF QueueInv, HoldInv, NoConcurrentExecution, Holds, Executes
<1> QED BY <1>1, QueueInvariant, PTL

(* Each repetition of a job's effects is paid for by a crash of its worker *)
(* or a lost write of its outcome.                                         *)
THEOREM RepetitionNeedsFault == Spec => []RepeatsOnlyAfterFault
<1>1. QueueInv => RepeatsOnlyAfterFault
  BY DEF QueueInv, EffectInv, RepeatsOnlyAfterFault
<1> QED BY <1>1, QueueInvariant, PTL

(* A job reported as COMPLETED had its effects committed.                  *)
THEOREM CompletedIsApplied == Spec => []CompletedMeansApplied
<1>1. QueueInv => CompletedMeansApplied
  BY DEF QueueInv, AppliedInv
<1> QED BY <1>1, QueueInvariant, PTL

(* A terminal status is never left.                                        *)
THEOREM TerminalStays == Spec => TerminalIsFinal
<1>1. QueueInv /\ [Next]_vars =>
        [\A j \in Jobs : status[j] \in Terminal => status'[j] = status[j]]_vars
  <2> SUFFICES ASSUME QueueInv, [Next]_vars, NEW j \in Jobs, status[j] \in Terminal
               PROVE  status'[j] = status[j] \/ UNCHANGED vars
    BY DEF vars
  <2> USE DEF QueueInv, TypeOK, Terminal, workers, maintenance, failures
  <2>1. ASSUME NEW k \in Jobs, Submit(k) \/ AgeJob(k) PROVE status'[j] = status[j]
    BY <2>1 DEF Submit, AgeJob
  <2>2. ASSUME NEW w \in Workers, Hint(w) \/ Register(w) \/ Handle(w) \/ Release(w)
        PROVE  status'[j] = status[j]
    BY <2>2 DEF Hint, Register, Handle, Apply, Fail, Release
  <2>3. ASSUME NEW w \in Workers, TryClaim(w) PROVE status'[j] = status[j]
    BY <2>3 DEF TryClaim, Claim, ClaimTooLate, ClaimLost, StartNow
  <2>4. ASSUME NEW w \in Workers, Write(w) PROVE status'[j] = status[j]
    BY <2>4 DEF Write, Finish, FinishLost, HoldInv, Executes
  <2>5. ASSUME NEW p \in Procs, Recover(p) \/ Crash(p) \/ Restart(p)
        PROVE  status'[j] = status[j]
    BY <2>5 DEF Recover, List, Reset, ResetFails, Crash, Restart
  <2> QED BY <2>1, <2>2, <2>3, <2>4, <2>5 DEF Next
<1> QED BY <1>1, QueueInvariant, PTL DEF Spec, TerminalIsFinal
=============================================================================
