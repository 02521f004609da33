----------------------------- MODULE Schedules -----------------------------
(***************************************************************************)
(* The schedules of backend/services/job_service.py: each API process has  *)
(* a maintenance loop that sleeps, requeues stale jobs, checks whether the *)
(* daily backup is due and whether the monthly penalty accrual is, and     *)
(* sleeps again.  Each check is a query in one session and a submission in *)
(* another; nothing is remembered in between or across restarts.           *)
(*                                                                         *)
(* Three clocks matter.  The checks use the local time, Offset ahead of    *)
(* UTC.  backup_history.timestamp is written in UTC.  jobs.created_at is   *)
(* the database's CURRENT_TIMESTAMP, DbOffset ahead of UTC.  All are naive *)
(* and are compared as they are.                                           *)
(*                                                                         *)
(* Abstractions.  Time is a counter of ticks; the steps of the loop take   *)
(* none, what they take together is the loop's delay, at most MaxWork.     *)
(* The steps of the loop that touch neither jobs nor backups (keys, tokens,*)
(* dashboard) are part of that delay.  Weekly and disabled schedules only  *)
(* have fewer windows.  The slow worker of a process claims and executes   *)
(* as in JobQueue; what it does for a backup job is a run of BackupLock,   *)
(* whose variables and steps this module extends: the rows of that run are *)
(* what the next check of the schedule looks at.  A run's end and its      *)
(* job's are one step here (JobQueue has the lost terminal write).         *)
(***************************************************************************)
EXTENDS BackupLock

CONSTANTS
    Admin,      \* who submits jobs by hand
    Offset,     \* local time is ahead of UTC by this much
    DbOffset,   \* the database's clock is ahead of UTC by this much
    Day,        \* the backup's period
    Month,      \* the accrual's period
    BackupAt,   \* when the backup's window opens, in the local day
    AccrualAt,  \* when the accrual's opens, in the local month
    Window,     \* width of both windows (5 minutes)
    Sleep,      \* pause of the loop (300 seconds)
    MaxWork,    \* longest delay of the loop between two pauses
    StaleJob,   \* a RUNNING job older than this may be requeued (10 minutes)
    MaxManual,  \* bound: manual submissions
    Manual,     \* bound: kinds of jobs submitted by hand
    MaxJobs     \* bound: no job is submitted when there are this many

ASSUME SchedulesAssumption ==
    /\ Admin \notin Procs
    /\ {Offset, DbOffset, BackupAt, AccrualAt, MaxWork, StaleJob} \subseteq Nat
    /\ {MaxManual, MaxJobs} \subseteq Nat /\ Manual \subseteq {"backup", "accrual"}
    /\ {Day, Month, Window, Sleep} \subseteq Nat \ {0}
    /\ Window <= Sleep /\ Window <= StaleJob

VARIABLES
    wake,    \* when each loop's pause is over
    mpc,     \* where the loop is
    saw,     \* history: jobs there were when it last found a schedule due
    jobs,    \* backup and accrual jobs, in order of submission
    cur      \* the job each process's slow worker executes, 0 for none

loop == <<wake, mpc, saw>>
scheduleVars == <<vars, loop, jobs, cur>>

ScheduleInit ==
    /\ Init
    /\ wake \in [Procs -> 0 .. Sleep]
    /\ mpc = [p \in Procs |-> "asleep"]
    /\ saw = [p \in Procs |-> 0]
    /\ jobs = <<>>
    /\ cur = [p \in Procs |-> 0]

-----------------------------------------------------------------------------
(* Clocks and windows.                                                     *)

Local == now + Offset
LastStart(t, period, opens) == (t \div period) * period + opens

(* The window of the current period, open or not: when it starts.          *)
BackupStart == LastStart(Local, Day, BackupAt)
AccrualStart == LastStart(Local, Month, AccrualAt)
MonthStart == LastStart(Local, Month, 0)

Open(start) == start <= Local /\ Local < start + Window

-----------------------------------------------------------------------------
(* The maintenance loop.                                                   *)

Step(p, from, to) ==
    /\ mpc[p] = from
    /\ mpc' = [mpc EXCEPT ![p] = to]

(* _recover_stale_jobs, in a process whose worker holds the job held (0    *)
(* for none).                                                              *)
Recovered(held) ==
    [j \in DOMAIN jobs |->
        IF /\ jobs[j].status = "RUNNING"
           /\ jobs[j].started + StaleJob < now
           /\ j # held
        THEN [jobs[j] EXCEPT !.status = "PENDING", !.started = 0]
        ELSE jobs[j]]

Wake(p) ==
    /\ wake[p] <= now
    /\ Step(p, "asleep", "backup")
    /\ jobs' = Recovered(cur[p])
    /\ UNCHANGED <<vars, wake, saw, cur>>

Some(kind, statuses) ==
    \E j \in DOMAIN jobs : jobs[j].kind = kind /\ jobs[j].status \in statuses

(* The queries of _check_scheduled_backup.                                 *)
BackupDue ==
    /\ Open(BackupStart)
    /\ \A i \in DOMAIN rows : rows[i].status = "DONE" => rows[i].ts < BackupStart
    /\ ~Some("backup", {"PENDING", "RUNNING"})

(* Mutant: only a completed accrual counts.                                *)
AccrualDueUnlessCompleted ==
    /\ Open(AccrualStart)
    /\ \A j \in DOMAIN jobs :
          jobs[j].kind = "accrual" /\ jobs[j].created >= MonthStart
              => jobs[j].status # "COMPLETED"

(* The query of _check_monthly_penalty_accrual.                            *)
AccrualDue ==
    /\ Open(AccrualStart)
    /\ \A j \in DOMAIN jobs :
          jobs[j].kind = "accrual" /\ jobs[j].created >= MonthStart
              => jobs[j].status = "FAILED"

(* Mutant: a fixed period instead of a pause after the work.               *)
PauseFromPlan(p) == wake' = [wake EXCEPT ![p] = @ + Sleep]

Pause(p) == wake' = [wake EXCEPT ![p] = now + Sleep]

NoBackup(p) ==
    /\ ~BackupDue
    /\ Step(p, "backup", "accrual")
    /\ UNCHANGED <<vars, wake, saw, jobs, cur>>

FindBackupDue(p) ==
    /\ BackupDue
    /\ Step(p, "backup", "submit backup")
    /\ saw' = [saw EXCEPT ![p] = Len(jobs)]
    /\ UNCHANGED <<vars, wake, jobs, cur>>

NoAccrual(p) ==
    /\ ~AccrualDue
    /\ Step(p, "accrual", "asleep")
    /\ Pause(p)
    /\ UNCHANGED <<vars, saw, jobs, cur>>

FindAccrualDue(p) ==
    /\ AccrualDue
    /\ Step(p, "accrual", "submit accrual")
    /\ saw' = [saw EXCEPT ![p] = Len(jobs)]
    /\ UNCHANGED <<vars, wake, jobs, cur>>

(* submit_job.  The last four fields are history: the window the job is    *)
(* for, 0 for a manual one, and when the month began; the jobs its         *)
(* submitter had seen; whether an execution of it failed.                  *)
Submit(kind, who, window, seen) ==
    /\ Len(jobs) < MaxJobs
    /\ jobs' = Append(jobs, [kind |-> kind, status |-> "PENDING", by |-> who,
                             created |-> now + DbOffset, started |-> 0,
                             window |-> window, month |-> MonthStart,
                             saw |-> seen, failed |-> FALSE])

SubmitBackup(p) ==
    /\ Step(p, "submit backup", "accrual")
    /\ Submit("backup", p, BackupStart, saw[p])
    /\ saw' = [saw EXCEPT ![p] = 0]
    /\ UNCHANGED <<vars, wake, cur>>

SubmitAccrual(p) ==
    /\ Step(p, "submit accrual", "asleep")
    /\ Submit("accrual", p, AccrualStart, saw[p])
    /\ saw' = [saw EXCEPT ![p] = 0]
    /\ Pause(p)
    /\ UNCHANGED <<vars, cur>>

(* The administrator's routes, which look at nothing first.                *)
SubmitManual(kind) ==
    /\ Cardinality({j \in DOMAIN jobs : jobs[j].by = Admin}) < MaxManual
    /\ Submit(kind, Admin, 0, 0)
    /\ UNCHANGED <<vars, loop, cur>>

-----------------------------------------------------------------------------
(* The slow worker.                                                        *)

Claim(p, j) ==
    /\ cur[p] = 0
    /\ jobs[j].status = "PENDING"
    /\ \A i \in 1 .. j - 1 : jobs[i].status # "PENDING"
    /\ jobs' = [jobs EXCEPT ![j].status = "RUNNING", ![j].started = now]
    /\ cur' = [cur EXCEPT ![p] = j]
    /\ UNCHANGED <<vars, loop>>

Executes(p, kind) == cur[p] # 0 /\ jobs[cur[p]].kind = kind

EndJob(p, status) ==
    /\ jobs' = [jobs EXCEPT ![cur[p]].status = status, ![cur[p]].started = 0,
                            ![cur[p]].failed = @ \/ status = "FAILED"]
    /\ cur' = [cur EXCEPT ![p] = 0]
    /\ UNCHANGED loop

(* The handler of an accrual ends.                                         *)
Accrue(p, status) ==
    /\ Executes(p, "accrual")
    /\ EndJob(p, status)
    /\ UNCHANGED vars

(* _handle_backup, when run_hybrid_backup finds another backup running.    *)
LockTaken(p) ==
    /\ Executes(p, "backup") /\ pc[p] = "idle"
    /\ \E i \in DOMAIN rows : rows[i].status = "RUNNING" /\ ~Stale(rows[i].ts, now)
    /\ EndJob(p, "FAILED")
    /\ UNCHANGED vars

(* _handle_backup, step by step; a run's result decides its job's, also    *)
(* when the release of its lock failed.                                    *)
BackUp(p) ==
    /\ Executes(p, "backup")
    /\ \/ FindNoLock(p) \/ TakeLock(p)
       \/ OpenDump(p) \/ CompleteDump(p) \/ DumpFails(p)
       \/ Verify(p) \/ Rotate(p)
    /\ UNCHANGED <<loop, jobs, cur>>

EndBackup(p) ==
    /\ Executes(p, "backup")
    /\ \/ Succeed(p) /\ EndJob(p, "COMPLETED")
       \/ Fail(p) /\ EndJob(p, "FAILED")
       \/ ReleaseFails(p) /\ EndJob(p, "FAILED")
       \/ ReleaseFails(p) /\ pc[p] = "rotated" /\ EndJob(p, "COMPLETED")

Write == Flush /\ UNCHANGED <<loop, jobs, cur>>

-----------------------------------------------------------------------------
(* Crashes and time.                                                       *)

(* The loop of the new process starts with its pause; stale jobs are       *)
(* recovered before it.                                                    *)
Restart(p) == wake' = [wake EXCEPT ![p] = now + Sleep]

ProcessCrash(p) ==
    /\ Crash(p)
    /\ mpc' = [mpc EXCEPT ![p] = "asleep"]
    /\ saw' = [saw EXCEPT ![p] = 0]
    /\ cur' = [cur EXCEPT ![p] = 0]
    /\ jobs' = Recovered(0)
    /\ Restart(p)

(* Time passes while no loop is between its pauses; a loop may be late by  *)
(* MaxWork.                                                                *)
Clock ==
    /\ \A p \in Procs : mpc[p] = "asleep" /\ now < wake[p] + MaxWork
    /\ Tick
    /\ UNCHANGED <<loop, jobs, cur>>

ScheduleNext ==
    \/ \E p \in Procs :
          \/ Wake(p)
          \/ NoBackup(p) \/ FindBackupDue(p) \/ SubmitBackup(p)
          \/ NoAccrual(p) \/ FindAccrualDue(p) \/ SubmitAccrual(p)
          \/ \E j \in DOMAIN jobs : Claim(p, j)
          \/ \E status \in {"COMPLETED", "FAILED"} : Accrue(p, status)
          \/ LockTaken(p) \/ BackUp(p) \/ EndBackup(p)
          \/ ProcessCrash(p)
    \/ \E kind \in Manual : SubmitManual(kind)
    \/ Write
    \/ Clock

ScheduleSpec == ScheduleInit /\ [][ScheduleNext]_scheduleVars

-----------------------------------------------------------------------------
(* Types of all variables.                                                 *)
Job == [kind : {"backup", "accrual"},
        status : {"PENDING", "RUNNING", "COMPLETED", "FAILED"},
        by : Procs \cup {Admin}, created : Nat, started : Nat,
        window : Int, month : Int, saw : Nat, failed : BOOLEAN]

ScheduleTypeOK ==
    /\ TypeOK
    /\ wake \in [Procs -> Nat]
    /\ mpc \in [Procs -> {"asleep", "backup", "submit backup",
                          "accrual", "submit accrual"}]
    /\ saw \in [Procs -> Nat]
    /\ jobs \in Seq(Job)
    /\ cur \in [Procs -> Nat]

(* A process schedules at most one job of a kind in a window: not because  *)
(* it remembers, which the comparison of different clocks prevents, but    *)
(* because its loop always pauses for a window's width in between, also    *)
(* after a restart.                                                        *)
OneSchedulePerProcess ==
    \A j, k \in DOMAIN jobs :
        /\ jobs[j].by # Admin
        /\ jobs[j].by = jobs[k].by
        /\ jobs[j].kind = jobs[k].kind
        /\ jobs[j].window = jobs[k].window
        => j = k

(* Where the database's clock is local, an accrual is scheduled in a month *)
(* that has one already, scheduled or by hand, only by a process that had  *)
(* looked before the other was there, or after an execution of it failed   *)
(* (replicas may execute one job twice, and the second may complete it).   *)
SecondAccrualExplained ==
    DbOffset = Offset =>
        \A j, k \in DOMAIN jobs :
            /\ j < k
            /\ jobs[j].kind = "accrual" /\ jobs[k].kind = "accrual"
            /\ jobs[k].by # Admin
            /\ jobs[j].created >= jobs[k].month
            => jobs[k].saw < j \/ jobs[j].failed
-----------------------------------------------------------------------------
(* The inductive invariant behind these properties.                        *)

SubmittedAt(j) == jobs[j].created - DbOffset
InWindow(w, t) == w <= t + Offset /\ t + Offset < w + Window

(* Scheduled jobs were submitted in their windows.                         *)
WindowInv ==
    \A j \in DOMAIN jobs :
        jobs[j].by \in Procs =>
            SubmittedAt(j) <= now /\ InWindow(jobs[j].window, SubmittedAt(j))

(* What a process scheduled before its loop's last pause is that old: the  *)
(* loop looks again a pause after it submitted, and the accrual is         *)
(* submitted last.                                                         *)
PauseInv ==
    \A j \in DOMAIN jobs :
        LET p == jobs[j].by
        IN  p \in Procs =>
              \/ mpc[p] = "asleep" /\ SubmittedAt(j) + Sleep <= wake[p]
              \/ mpc[p] # "asleep" /\ SubmittedAt(j) + Sleep <= now
              \/ mpc[p] \in {"accrual", "submit accrual"} /\ jobs[j].kind = "backup"

(* No time passes between a check and its submission.                      *)
FoundInv ==
    \A p \in Procs :
        /\ saw[p] <= Len(jobs)
        /\ mpc[p] = "submit backup" => Open(BackupStart)
        /\ mpc[p] = "submit accrual" =>
              /\ Open(AccrualStart)
              /\ \A j \in DOMAIN jobs :
                    j <= saw[p] /\ jobs[j].kind = "accrual" /\ jobs[j].created >= MonthStart
                        => jobs[j].failed

FailedInv == \A j \in DOMAIN jobs : jobs[j].status = "FAILED" => jobs[j].failed

ScheduleInv ==
    /\ ScheduleTypeOK /\ WindowInv /\ PauseInv /\ FoundInv /\ FailedInv
    /\ OneSchedulePerProcess /\ SecondAccrualExplained
=============================================================================
