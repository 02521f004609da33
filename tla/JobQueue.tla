------------------------------ MODULE JobQueue ------------------------------
(***************************************************************************)
(* The database-backed job queue of backend/services/job_service.py.       *)
(*                                                                         *)
(* Worker threads of one or more API processes share the jobs table.  A    *)
(* worker looks up the oldest PENDING job it may take, claims it with one  *)
(* guarded UPDATE, registers it in its process's in-memory heartbeat       *)
(* registry, runs the handler, which commits its effects in a session of   *)
(* its own, and writes the terminal status in yet another session.  Each   *)
(* process's maintenance thread requeues RUNNING jobs that are older than  *)
(* STALE_THRESHOLD_MINUTES and that no live worker of that process has     *)
(* registered.                                                             *)
(*                                                                         *)
(* Abstractions.  started_at is kept as "older than the threshold or not"; *)
(* the step from one to the other is AgeJob.  The submission Event only    *)
(* shortens the wait of an idle worker, which wakes up by itself every     *)
(* ten seconds, so an idle worker simply polls.  Progress updates write    *)
(* columns nothing here reads.  A handler is one transaction.              *)
(***************************************************************************)
EXTENDS Integers, Sequences

CONSTANTS
    Procs,      \* API processes sharing the database
    Workers,    \* worker threads of all processes
    Jobs,       \* jobs that may be submitted
    NoJob,      \* no job
    ProcOf,     \* the process of each worker
    Takes,      \* the jobs each worker's pool handles (FAST or SLOW types)
    MaxCrash,   \* bound: process crashes
    MaxBlip     \* bound: database errors that lose a write or a claim

ASSUME QueueAssumption ==
    /\ NoJob \notin Jobs
    /\ ProcOf \in [Workers -> Procs]
    /\ Takes \in [Workers -> SUBSET Jobs]
    /\ MaxCrash \in Nat /\ MaxBlip \in Nat

VARIABLES
    order,     \* jobs in created_at order
    status,    \* jobs.status; "NEW" before the row exists
    old,       \* RUNNING jobs whose started_at is before the stale cutoff
    effects,   \* how often a handler committed the job's effects
    pc,        \* program counter of each worker
    cur,       \* the job each worker looked up, claimed or runs
    beat,      \* current_job of the worker's running heartbeat, if any
    mpc,       \* maintenance thread of each process
    cut,       \* jobs older than the cutoff the maintenance thread computed
    active,    \* job ids the maintenance thread read from the registry
    crashes, blips,   \* how many failures happened so far
    faults     \* history: failures that hit the job while it was claimed

vars == <<order, status, old, effects, pc, cur, beat, mpc, cut, active,
          crashes, blips, faults>>

workers == <<pc, cur, beat>>
maintenance == <<mpc, cut, active>>
failures == <<crashes, blips, faults>>

Terminal == {"COMPLETED", "FAILED"}
WorkersOf(p) == {w \in Workers : ProcOf[w] = p}

(* The worker holds a job it claimed.                                      *)
Holds(w) == pc[w] \in {"claimed", "running", "applied", "failing", "done"}

(* It runs the job's handler, or has run it and writes the outcome.        *)
Executes(w) == pc[w] \in {"running", "applied", "failing"}

Init ==
    /\ order = <<>>
    /\ status = [j \in Jobs |-> "NEW"]
    /\ old = {}
    /\ effects = [j \in Jobs |-> 0]
    /\ pc = [w \in Workers |-> "poll"]
    /\ cur = [w \in Workers |-> NoJob]
    /\ beat = [w \in Workers |-> NoJob]
    /\ mpc = [p \in Procs |-> "idle"]
    /\ cut = [p \in Procs |-> {}]
    /\ active = [p \in Procs |-> {}]
    /\ crashes = 0 /\ blips = 0
    /\ faults = [j \in Jobs |-> 0]

-----------------------------------------------------------------------------
(* submit_job: insert the row and commit.                                  *)
Submit(j) ==
    /\ status[j] = "NEW"
    /\ status' = [status EXCEPT ![j] = "PENDING"]
    /\ order' = Append(order, j)
    /\ UNCHANGED <<old, effects, workers, maintenance, failures>>

-----------------------------------------------------------------------------
(* Step 1 of _try_claim_job: the oldest PENDING job of the worker's types. *)
Waiting(w) == {i \in DOMAIN order : order[i] \in Takes[w] /\ status[order[i]] = "PENDING"}

Hint(w) ==
    /\ pc[w] = "poll"
    /\ \E i \in Waiting(w) :
          /\ \A k \in Waiting(w) : i <= k
          /\ cur' = [cur EXCEPT ![w] = order[i]]
    /\ pc' = [pc EXCEPT ![w] = "hinted"]
    /\ UNCHANGED <<order, status, old, effects, beat, maintenance, failures>>

(* Step 2: UPDATE ... SET status = RUNNING, started_at = now WHERE id = ?  *)
(* AND status = PENDING.  A new started_at takes the job out of every      *)
(* cutoff computed earlier.                                                *)
StartNow(j) ==
    /\ status' = [status EXCEPT ![j] = "RUNNING"]
    /\ old' = old \ {j}
    /\ cut' = [p \in Procs |-> cut[p] \ {j}]

(* Mutant: the UPDATE without AND status = PENDING.                        *)
ClaimUnguarded(w) ==
    /\ pc[w] = "hinted"
    /\ StartNow(cur[w])
    /\ pc' = [pc EXCEPT ![w] = "claimed"]
    /\ UNCHANGED <<order, effects, cur, beat, mpc, active, failures>>

Claim(w) ==
    /\ pc[w] = "hinted"
    /\ status[cur[w]] = "PENDING"
    /\ StartNow(cur[w])
    /\ pc' = [pc EXCEPT ![w] = "claimed"]
    /\ UNCHANGED <<order, effects, cur, beat, mpc, active, failures>>

(* rowcount = 0: another worker was faster.                                *)
ClaimTooLate(w) ==
    /\ pc[w] = "hinted"
    /\ status[cur[w]] # "PENDING"
    /\ pc' = [pc EXCEPT ![w] = "poll"]
    /\ cur' = [cur EXCEPT ![w] = NoJob]
    /\ UNCHANGED <<order, status, old, effects, beat, maintenance, failures>>

(* The UPDATE is committed and the connection fails before the worker has  *)
(* the job in hand: the job is RUNNING and nobody runs it.                 *)
ClaimLost(w) ==
    /\ pc[w] = "hinted"
    /\ status[cur[w]] = "PENDING"
    /\ blips < MaxBlip
    /\ StartNow(cur[w])
    /\ blips' = blips + 1
    /\ pc' = [pc EXCEPT ![w] = "poll"]
    /\ cur' = [cur EXCEPT ![w] = NoJob]
    /\ UNCHANGED <<order, effects, beat, mpc, active, crashes, faults>>

(* _beat(worker_id, pool, "running", job.id), then _run_job starts.        *)
Register(w) ==
    /\ pc[w] = "claimed"
    /\ beat' = [beat EXCEPT ![w] = cur[w]]
    /\ pc' = [pc EXCEPT ![w] = "running"]
    /\ UNCHANGED <<order, status, old, effects, cur, maintenance, failures>>

(* The handler commits its effects ...                                     *)
Apply(w) ==
    /\ pc[w] = "running"
    /\ effects' = [effects EXCEPT ![cur[w]] = @ + 1]
    /\ pc' = [pc EXCEPT ![w] = "applied"]
    /\ UNCHANGED <<order, status, old, cur, beat, maintenance, failures>>

(* ... or raises, its own session undone.                                  *)
Fail(w) ==
    /\ pc[w] = "running"
    /\ pc' = [pc EXCEPT ![w] = "failing"]
    /\ UNCHANGED <<order, status, old, effects, cur, beat, maintenance, failures>>

Outcome(w) == IF pc[w] = "applied" THEN "COMPLETED" ELSE "FAILED"

(* The last _update_job of a run: by id, whatever the status is by now.    *)
Finish(w) ==
    /\ pc[w] \in {"applied", "failing"}
    /\ status' = [status EXCEPT ![cur[w]] = Outcome(w)]
    /\ old' = old \ {cur[w]}
    /\ pc' = [pc EXCEPT ![w] = "done"]
    /\ UNCHANGED <<order, effects, cur, beat, maintenance, failures>>

(* Both attempts of _update_job fail: the error is logged, nothing else.   *)
FinishLost(w) ==
    /\ pc[w] \in {"applied", "failing"}
    /\ blips < MaxBlip
    /\ blips' = blips + 1
    /\ faults' = [faults EXCEPT ![cur[w]] = @ + 1]
    /\ pc' = [pc EXCEPT ![w] = "done"]
    /\ UNCHANGED <<order, status, old, effects, cur, beat, maintenance, crashes>>

(* Mutant: no idle heartbeat after the job.                                *)
ReleaseKeepsBeat(w) ==
    /\ pc[w] = "done"
    /\ cur' = [cur EXCEPT ![w] = NoJob]
    /\ pc' = [pc EXCEPT ![w] = "poll"]
    /\ UNCHANGED <<order, status, old, effects, beat, maintenance, failures>>

(* _beat(worker_id, pool, "idle"), and the loop starts over.               *)
Release(w) ==
    /\ pc[w] = "done"
    /\ beat' = [beat EXCEPT ![w] = NoJob]
    /\ cur' = [cur EXCEPT ![w] = NoJob]
    /\ pc' = [pc EXCEPT ![w] = "poll"]
    /\ UNCHANGED <<order, status, old, effects, maintenance, failures>>

-----------------------------------------------------------------------------
(* STALE_THRESHOLD_MINUTES pass.  Timing assumption: a worker that has     *)
(* claimed a job registers it within the threshold (one query and one      *)
(* dictionary write lie between the two).                                  *)
AgeJob(j) ==
    /\ status[j] = "RUNNING"
    /\ j \notin old
    /\ \A w \in Workers : pc[w] = "claimed" => cur[w] # j
    /\ old' = old \cup {j}
    /\ UNCHANGED <<order, status, effects, workers, maintenance, failures>>

(* _recover_stale_jobs computes the cutoff and reads the registry of its   *)
(* own process ...                                                         *)
Registered(p) == {beat[w] : w \in WorkersOf(p)} \ {NoJob}

List(p) ==
    /\ mpc[p] = "idle"
    /\ mpc' = [mpc EXCEPT ![p] = "listed"]
    /\ cut' = [cut EXCEPT ![p] = old]
    /\ active' = [active EXCEPT ![p] = Registered(p)]
    /\ UNCHANGED <<order, status, old, effects, workers, failures>>

(* Workers start only after the recovery that start_worker runs first.     *)
Started(p) ==
    [w \in Workers |-> IF ProcOf[w] = p /\ pc[w] = "down" THEN "poll" ELSE pc[w]]

(* Mutant: recovery by age alone.                                          *)
ResetByAge(p) ==
    LET stale == {j \in cut[p] : status[j] = "RUNNING"}
    IN  /\ mpc[p] = "listed"
        /\ status' = [j \in Jobs |-> IF j \in stale THEN "PENDING" ELSE status[j]]
        /\ old' = old \ stale
        /\ mpc' = [mpc EXCEPT ![p] = "idle"]
        /\ cut' = [cut EXCEPT ![p] = {}]
        /\ active' = [active EXCEPT ![p] = {}]
        /\ pc' = Started(p)
        /\ UNCHANGED <<order, effects, cur, beat, failures>>

(* ... and requeues what is RUNNING, older than the cutoff and not among   *)
(* the ids it read.                                                        *)
Reset(p) ==
    LET stale == {j \in cut[p] \ active[p] : status[j] = "RUNNING"}
    IN  /\ mpc[p] = "listed"
        /\ status' = [j \in Jobs |-> IF j \in stale THEN "PENDING" ELSE status[j]]
        /\ old' = old \ stale
        /\ mpc' = [mpc EXCEPT ![p] = "idle"]
        /\ cut' = [cut EXCEPT ![p] = {}]
        /\ active' = [active EXCEPT ![p] = {}]
        /\ pc' = Started(p)
        /\ UNCHANGED <<order, effects, cur, beat, failures>>

(* The recovery query fails: logged, tried again in the next cycle.        *)
ResetFails(p) ==
    /\ mpc[p] = "listed"
    /\ blips < MaxBlip
    /\ blips' = blips + 1
    /\ mpc' = [mpc EXCEPT ![p] = "idle"]
    /\ cut' = [cut EXCEPT ![p] = {}]
    /\ active' = [active EXCEPT ![p] = {}]
    /\ pc' = Started(p)
    /\ UNCHANGED <<order, status, old, effects, cur, beat, crashes, faults>>

(* The process dies: threads, registry and maintenance thread are gone.    *)
Hit(p) == {cur[w] : w \in {v \in WorkersOf(p) : Holds(v)}}

Crash(p) ==
    /\ mpc[p] # "down"
    /\ crashes < MaxCrash
    /\ crashes' = crashes + 1
    /\ faults' = [j \in Jobs |-> faults[j] + IF j \in Hit(p) THEN 1 ELSE 0]
    /\ pc' = [w \in Workers |-> IF ProcOf[w] = p THEN "down" ELSE pc[w]]
    /\ cur' = [w \in Workers |-> IF ProcOf[w] = p THEN NoJob ELSE cur[w]]
    /\ beat' = [w \in Workers |-> IF ProcOf[w] = p THEN NoJob ELSE beat[w]]
    /\ mpc' = [mpc EXCEPT ![p] = "down"]
    /\ cut' = [cut EXCEPT ![p] = {}]
    /\ active' = [active EXCEPT ![p] = {}]
    /\ UNCHANGED <<order, status, old, effects, blips>>

(* A new process: start_worker begins with _recover_stale_jobs.            *)
Restart(p) ==
    /\ mpc[p] = "down"
    /\ mpc' = [mpc EXCEPT ![p] = "listed"]
    /\ cut' = [cut EXCEPT ![p] = old]
    /\ UNCHANGED <<order, status, old, effects, workers, active, failures>>

-----------------------------------------------------------------------------
Handle(w) == Apply(w) \/ Fail(w)
Write(w) == Finish(w) \/ FinishLost(w)
TryClaim(w) == Claim(w) \/ ClaimTooLate(w) \/ ClaimLost(w)
Recover(p) == List(p) \/ Reset(p) \/ ResetFails(p)

Next ==
    \/ \E j \in Jobs : Submit(j) \/ AgeJob(j)
    \/ \E w \in Workers :
          Hint(w) \/ TryClaim(w) \/ Register(w) \/ Handle(w) \/ Write(w) \/ Release(w)
    \/ \E p \in Procs : Recover(p) \/ Crash(p) \/ Restart(p)

Spec == Init /\ [][Next]_vars

(* Threads and clocks keep going, a handler ends, and a dead process is    *)
(* started again (run_api_supervisor.py, the container's restart policy).  *)
(* Nothing forces a submission, a crash or an error.                       *)
FairSpec ==
    /\ Spec
    /\ \A j \in Jobs : WF_vars(AgeJob(j))
    /\ \A w \in Workers :
          /\ WF_vars(Hint(w)) /\ WF_vars(TryClaim(w)) /\ WF_vars(Register(w))
          /\ WF_vars(Handle(w)) /\ WF_vars(Write(w)) /\ WF_vars(Release(w))
    /\ \A p \in Procs : WF_vars(Recover(p)) /\ WF_vars(Restart(p))

-----------------------------------------------------------------------------
(* Types of all variables.                                                 *)
TypeOK ==
    /\ order \in Seq(Jobs)
    /\ status \in [Jobs -> {"NEW", "PENDING", "RUNNING"} \cup Terminal]
    /\ old \in SUBSET Jobs
    /\ effects \in [Jobs -> Nat]
    /\ pc \in [Workers -> {"down", "poll", "hinted", "claimed", "running",
                           "applied", "failing", "done"}]
    /\ cur \in [Workers -> Jobs \cup {NoJob}]
    /\ beat \in [Workers -> Jobs \cup {NoJob}]
    /\ mpc \in [Procs -> {"idle", "listed", "down"}]
    /\ cut \in [Procs -> SUBSET Jobs]
    /\ active \in [Procs -> SUBSET Jobs]
    /\ crashes \in Nat /\ blips \in Nat
    /\ faults \in [Jobs -> Nat]

(* A job is never executed by two workers at a time, however long it runs  *)
(* and however recovery falls between the worker's steps.                  *)
NoConcurrentExecution ==
    \A v, w \in Workers : Executes(v) /\ Executes(w) /\ cur[v] = cur[w] => v = w

(* The effects of a job are repeated only when a crash or a lost status    *)
(* write hit an earlier run of it: never because of its age or of races.   *)
RepeatsOnlyAfterFault ==
    \A j \in Jobs : effects[j] <= 1 + faults[j]

(* A job reported as COMPLETED has had its effects committed.              *)
CompletedMeansApplied ==
    \A j \in Jobs : status[j] = "COMPLETED" => effects[j] > 0

(* What the submitter was told, COMPLETED or FAILED, is never taken back.  *)
TerminalIsFinal ==
    [][\A j \in Jobs : status[j] \in Terminal => status'[j] = status[j]]_vars

(* Every submitted job ends COMPLETED or FAILED, in spite of crashes and   *)
(* database errors, as long as these are finitely many.                    *)
EveryJobSettles ==
    \A j \in Jobs : status[j] = "PENDING" ~> status[j] \in Terminal
-----------------------------------------------------------------------------
(* The inductive invariant behind the safety properties, for one process.  *)

(* A job that a worker holds is not PENDING, and it is RUNNING until the   *)
(* worker has written its outcome; no two workers hold the same job.       *)
HoldInv ==
    \A w \in Workers :
        /\ pc[w] = "hinted" => cur[w] \in Jobs
        /\ Holds(w) => cur[w] \in Jobs /\ status[cur[w]] \notin {"NEW", "PENDING"}
        /\ Executes(w) \/ pc[w] = "claimed" => status[cur[w]] = "RUNNING"
        /\ \A v \in Workers : Holds(v) /\ Holds(w) /\ cur[v] = cur[w] => v = w

(* Recovery can always tell that a held job is held: it was claimed after  *)
(* the cutoff, or its worker is in the registry, and was when the          *)
(* maintenance thread read it.                                             *)
VisibleInv ==
    \A w \in Workers :
        /\ pc[w] # "down" => \A p \in Procs : mpc[p] # "down"
        /\ pc[w] = "claimed" =>
              cur[w] \notin old /\ \A p \in Procs : cur[w] \notin cut[p]
        /\ Holds(w) /\ pc[w] # "claimed" => beat[w] = cur[w]
        /\ Holds(w) => \A p \in Procs :
              mpc[p] = "listed" /\ cur[w] \in cut[p] => cur[w] \in active[p]

(* An unfinished job has had its effects no more often than faults hit it, *)
(* except while the worker that just applied them still has to say so.     *)
EffectInv ==
    \A j \in Jobs :
        /\ effects[j] <= 1 + faults[j]
        /\ \/ status[j] \in Terminal
           \/ \E w \in Workers : pc[w] = "applied" /\ cur[w] = j
           \/ effects[j] <= faults[j]

(* Who says COMPLETED has applied the effects.                             *)
AppliedInv ==
    /\ \A w \in Workers : pc[w] = "applied" => effects[cur[w]] > 0
    /\ CompletedMeansApplied

QueueInv == TypeOK /\ HoldInv /\ VisibleInv /\ EffectInv /\ AppliedInv
=============================================================================
