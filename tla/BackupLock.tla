----------------------------- MODULE BackupLock -----------------------------
(***************************************************************************)
(* run_hybrid_backup of backend/services/backup_service.py: the lock, a    *)
(* RUNNING row of backup_history, the local dump, its verification, the    *)
(* rotation of old dumps, and the release of the lock with the result.     *)
(*                                                                         *)
(* Several API processes share the database and the backup directory.      *)
(* Each executes one backup at a time, on its only slow worker, whenever   *)
(* there is a job for it: Schedules composes it with their submission.     *)
(* The lock is a query, then an insert in the same session.                *)
(*                                                                         *)
(* A dump is in the directory from the moment its run opens the file, and  *)
(* mysqldump writes it for minutes: rotations of other runs see it.  Its   *)
(* name is the second in which the run opened it, so two runs may write    *)
(* one file.                                                               *)
(*                                                                         *)
(* Abstractions.  Time is a counter of ticks, in UTC, of many seconds.     *)
(* USB and cloud copies come after the rotation: their failure without an  *)
(* exception only chooses between SYNCED, CLOUD_ONLY, USB_ONLY and         *)
(* LOCAL_ONLY, one status here, DONE; an exception is Fail.  A run names   *)
(* its dump and opens it in one step, and a rotation lists and removes in  *)
(* one.  A run that finds the lock taken changes nothing here and is left  *)
(* out.                                                                    *)
(***************************************************************************)
EXTENDS Integers, Sequences, FiniteSets

CONSTANTS
    Procs,       \* API processes
    StaleLock,   \* a RUNNING row older than this is abandoned (30 minutes)
    Keep,        \* local dumps kept by the rotation (7)
    Existing,    \* dumps in the directory at the start
    MaxRuns,     \* bound: no run looks for a lock when there are this many rows
    MaxFault,    \* bound: crashes, lost releases and partial dumps not removed
    MaxTime      \* bound: ticks

ASSUME BackupLockAssumption ==
    /\ IsFiniteSet(Procs)
    /\ StaleLock \in Nat /\ Keep \in Nat /\ Existing \in Nat
    /\ MaxRuns \in Nat /\ MaxFault \in Nat /\ MaxTime \in Nat

VARIABLES
    now,     \* the clock
    rows,    \* backup_history, in order of insertion
    made,    \* how many names dumps were given: they are 1 .. made
    fresh,   \* is it still the second of the last name
    later,   \* the dumps in the directory: for each those modified later
    since,   \* history: the completed dumps, for each those completed later
    shared,  \* history: names that were opened twice
    strays,  \* history: partial dumps whose run is over
    pc,      \* what each process's slow worker is doing
    file,    \* the dump of its run, 0 before it has one
    at,      \* when its run found no lock
    before,  \* history: how many lock rows there were then
    lock,    \* the lock row of its run, 0 before it has one
    orphans, \* history: rows whose run ended without releasing them
    faults   \* how many crashes, lost releases and failed removals happened

files == <<made, fresh, later, since, shared, strays>>
run == <<pc, file, at, before, lock>>
vars == <<now, rows, files, run, orphans, faults>>

Idle == [p \in Procs |-> 0]

Init ==
    /\ now = 0
    /\ rows = <<>>
    /\ made = Existing /\ fresh = FALSE
    /\ later = [d \in 1 .. made |-> d + 1 .. made] /\ since = later
    /\ shared = {} /\ strays = {}
    /\ pc = [p \in Procs |-> "idle"] /\ file = Idle
    /\ at = Idle /\ before = Idle /\ lock = Idle
    /\ orphans = {}
    /\ faults = 0

Move(p, from, to) ==
    /\ pc[p] \in from
    /\ pc' = [pc EXCEPT ![p] = to]

-----------------------------------------------------------------------------
(* _acquire_backup_lock.                                                   *)

(* Mutant: the comparisons of the query and the update are swapped.        *)
StaleAtCutoff(ts, t) == ts + StaleLock <= t

(* timestamp < stale_cutoff, at time t.                                    *)
Stale(ts, t) == ts + StaleLock < t

(* The query finds no RUNNING row that is not stale.                       *)
FindNoLock(p) ==
    /\ Len(rows) < MaxRuns
    /\ Move(p, {"idle"}, "free")
    /\ \A i \in DOMAIN rows : rows[i].status = "RUNNING" => Stale(rows[i].ts, now)
    /\ at' = [at EXCEPT ![p] = now]
    /\ before' = [before EXCEPT ![p] = Len(rows)]
    /\ UNCHANGED <<now, rows, files, file, lock, orphans, faults>>

(* The rows that were stale at time t are given up.                        *)
Abandon(t) ==
    [i \in DOMAIN rows |->
        IF rows[i].status = "RUNNING" /\ Stale(rows[i].ts, t)
        THEN [rows[i] EXCEPT !.status = "ABANDONED"] ELSE rows[i]]

(* Stale rows are abandoned, the run's own is inserted and committed.      *)
TakeLock(p) ==
    /\ Move(p, {"free"}, "locked")
    /\ rows' = Append(Abandon(at[p]), [status |-> "RUNNING", ts |-> now])
    /\ lock' = [lock EXCEPT ![p] = Len(rows) + 1]
    /\ UNCHANGED <<now, files, file, at, before, orphans, faults>>

-----------------------------------------------------------------------------
(* The body of the run.                                                    *)

(* Orders are functions: f[d] is what comes after d.  n is put last; the   *)
(* members of R are taken out.                                             *)
Behind(f, n) == [d \in DOMAIN f \cup {n} |-> IF d = n THEN {} ELSE f[d] \cup {n}]
Without(f, R) == [d \in DOMAIN f \ R |-> f[d] \ R]

unmoved == <<now, rows, at, before, lock, orphans>>

(* The file is created, or emptied when there is one of that second.       *)
OpenDump(p) ==
    /\ Move(p, {"locked"}, "dumping")
    /\ \E n \in {made + 1} \cup (IF fresh THEN {made} ELSE {}) :
          /\ made' = n
          /\ file' = [file EXCEPT ![p] = n]
          /\ later' = Behind(later, n)
          /\ shared' = IF n = made THEN shared \cup {n} ELSE shared
    /\ fresh' = TRUE
    /\ UNCHANGED <<unmoved, since, strays, faults>>

Writers == {p \in Procs : pc[p] = "dumping"}
Partial == strays \cup {file[p] : p \in Writers}

(* mysqldump has written something, also one that outlives its process;    *)
(* some systems note the time only when the file is closed.                *)
Flush ==
    /\ \E n \in Partial \cap DOMAIN later : later' = Behind(later, n)
    /\ UNCHANGED <<unmoved, made, fresh, since, shared, strays, pc, file, faults>>

(* mysqldump succeeds; another run may have removed the file's name.       *)
CompleteDump(p) ==
    /\ Move(p, {"dumping"}, "dumped")
    /\ IF file[p] \in DOMAIN later
       THEN later' = Behind(later, file[p]) /\ since' = Behind(since, file[p])
       ELSE UNCHANGED <<later, since>>
    /\ UNCHANGED <<unmoved, made, fresh, shared, strays, file, faults>>

(* It fails or takes too long: the partial file is removed, unless that    *)
(* fails too, which is passed over.                                        *)
DumpFails(p) ==
    /\ Move(p, {"dumping"}, "failed")
    /\ \/ /\ later' = Without(later, {file[p]})
          /\ UNCHANGED <<strays, faults>>
       \/ /\ faults < MaxFault
          /\ faults' = faults + 1
          /\ strays' = strays \cup {file[p]}
          /\ UNCHANGED later
    /\ UNCHANGED <<unmoved, made, fresh, since, shared, file>>

(* The checksum, the completion marker and the restore test read the file. *)
Verify(p) ==
    /\ Move(p, {"dumped"}, "verified")
    /\ file[p] \in DOMAIN later
    /\ UNCHANGED <<unmoved, files, file, faults>>

(* Mutant: the loop runs once too often (len(files) >= keep).              *)
SuperfluousAtLimit(n) == {d \in DOMAIN later : Cardinality(later[d]) >= n - 1}

(* All files but the n modified last.                                      *)
Superfluous(n) == {d \in DOMAIN later : Cardinality(later[d]) >= n}

(* _rotate_backups; a file that cannot be removed is passed over.          *)
Rotate(p) ==
    /\ Move(p, {"verified"}, "rotated")
    /\ \E stuck \in SUBSET Superfluous(Keep) :
          later' = Without(later, Superfluous(Keep) \ stuck)
    /\ UNCHANGED <<unmoved, made, fresh, since, shared, strays, file, faults>>

-----------------------------------------------------------------------------
(* The end of the run.                                                     *)

Forget(p) ==
    /\ at' = [at EXCEPT ![p] = 0]
    /\ before' = [before EXCEPT ![p] = 0]
    /\ lock' = [lock EXCEPT ![p] = 0]
    /\ file' = [file EXCEPT ![p] = 0]

(* _release_backup_lock, in the finally block: the run's own row, even an  *)
(* abandoned one, gets the final status.                                   *)
Release(p, status) ==
    /\ rows' = [rows EXCEPT ![lock[p]].status = status]
    /\ Forget(p)
    /\ UNCHANGED <<now, files, orphans, faults>>

Succeed(p) ==
    /\ Move(p, {"rotated"}, "idle")
    /\ Release(p, "DONE")

(* There is no mysqldump, it fails, the verification fails (the file       *)
(* stays), or any step raises.                                             *)
Fail(p) ==
    /\ Move(p, {"locked", "failed", "dumped", "verified", "rotated"}, "idle")
    /\ Release(p, "FAILED")

(* The run ends without a release.                                         *)
Lose(p) ==
    /\ faults < MaxFault
    /\ faults' = faults + 1
    /\ orphans' = IF lock[p] = 0 THEN orphans ELSE orphans \cup {lock[p]}
    /\ Forget(p)
    /\ UNCHANGED <<now, rows, made, fresh, later, since, shared>>

(* The release fails: the error is logged and the run's result stands.     *)
ReleaseFails(p) ==
    /\ Move(p, {"locked", "failed", "dumped", "verified", "rotated"}, "idle")
    /\ Lose(p)
    /\ UNCHANGED strays

(* The process dies; a dump it was writing is left behind.                 *)
Crash(p) ==
    /\ pc' = [pc EXCEPT ![p] = "idle"]
    /\ Lose(p)
    /\ strays' = IF p \in Writers THEN strays \cup {file[p]} ELSE strays

Tick ==
    /\ now < MaxTime
    /\ now' = now + 1
    /\ fresh' = FALSE
    /\ UNCHANGED <<rows, made, later, since, shared, strays, run, orphans, faults>>

Next ==
    \/ \E p \in Procs :
          \/ FindNoLock(p) \/ TakeLock(p)
          \/ OpenDump(p) \/ CompleteDump(p) \/ DumpFails(p)
          \/ Verify(p) \/ Rotate(p)
          \/ Succeed(p) \/ Fail(p) \/ ReleaseFails(p) \/ Crash(p)
    \/ Flush
    \/ Tick

Spec == Init /\ [][Next]_vars

-----------------------------------------------------------------------------
(* Types of all variables.                                                 *)
Row == [status : {"RUNNING", "ABANDONED", "DONE", "FAILED"}, ts : Nat]

Holding == {"locked", "dumping", "failed", "dumped", "verified", "rotated"}

(* What comes after each of some dumps.                                    *)
IsOrder(f) ==
    /\ DOMAIN f \subseteq 1 .. made
    /\ f \in [DOMAIN f -> SUBSET DOMAIN f]

TypeOK ==
    /\ now \in Nat
    /\ rows \in Seq(Row)
    /\ made \in Nat /\ fresh \in BOOLEAN
    /\ IsOrder(later) /\ IsOrder(since)
    /\ shared \subseteq 1 .. made /\ strays \subseteq 1 .. made
    /\ pc \in [Procs -> {"idle", "free"} \cup Holding]
    /\ file \in [Procs -> 0 .. made]
    /\ at \in [Procs -> Nat]
    /\ before \in [Procs -> Nat]
    /\ lock \in [Procs -> Nat]
    /\ orphans \subseteq Nat
    /\ faults \in Nat

(* Two backups run at the same time only if the later one looked for a     *)
(* lock before the earlier had inserted its own, or found it stale: the    *)
(* unguarded insert loses mutual exclusion in no other way, whatever       *)
(* crashes, and whichever rows other runs abandon or overwrite meanwhile.  *)
OverlapsAreExplained ==
    \A p, q \in Procs :
        lock[p] # 0 /\ lock[q] # 0 /\ lock[p] < lock[q] =>
            \/ before[q] < lock[p]
            \/ rows[lock[p]].ts + StaleLock < at[q]

(* A lock row is RUNNING only while its run is: whoever took the lock      *)
(* gives it a final status, however the run ends, unless the process died  *)
(* or the release failed.                                                  *)
LocksAreReleased ==
    \A i \in DOMAIN rows :
        rows[i].status = "RUNNING" /\ i \notin orphans => \E p \in Procs : lock[p] = i

(* A completed dump disappears only when Keep newer ones were completed,   *)
(* less one for every other run that may have been writing a dump which    *)
(* the rotation counted, and for every fault, whose partial dump it        *)
(* counted; or another run opened a file in the same second.  However the  *)
(* dumps, failures and rotations of overlapping runs mix.                  *)
NewestDumpsKept ==
    \A d \in DOMAIN since :
        \/ d \in DOMAIN later
        \/ d \in shared
        \/ Cardinality(since[d]) + (Cardinality(Procs) - 1) + faults >= Keep
-----------------------------------------------------------------------------
(* The inductive invariant behind these properties.                        *)

(* A run has a lock row of its own from the insert to its end, and it      *)
(* looked for a lock before that.                                          *)
RunInv ==
    \A p \in Procs :
        /\ pc[p] \in Holding <=> lock[p] # 0
        /\ lock[p] # 0 => lock[p] \in DOMAIN rows /\ before[p] < lock[p]
        /\ pc[p] = "free" => before[p] <= Len(rows) /\ at[p] <= now
        /\ \A q \in Procs : lock[p] # 0 /\ lock[q] = lock[p] => q = p

(* Only its own run gives a lock row a final status, and only a stale one  *)
(* is abandoned.                                                           *)
HeldInv ==
    \A p \in Procs :
        lock[p] # 0 =>
            \/ rows[lock[p]].status = "RUNNING"
            \/ rows[lock[p]].status = "ABANDONED" /\ Stale(rows[lock[p]].ts, now)

(* A run that found no lock: the locks held now came later or were stale.  *)
FreeInv ==
    \A p, q \in Procs :
        pc[q] = "free" /\ lock[p] # 0 =>
            before[q] < lock[p] \/ Stale(rows[lock[p]].ts, at[q])

(* A partial dump is written by one run, or its name is shared, or its run *)
(* is over by a fault.                                                     *)
PartialInv ==
    /\ \A p \in Writers : file[p] # 0 /\ (file[p] \in strays => file[p] \in shared)
    /\ \A p, q \in Writers : file[p] = file[q] => p = q \/ file[p] \in shared
    /\ IsFiniteSet(strays) /\ Cardinality(strays) <= faults
    /\ fresh => made # 0

(* What is modified after a completed dump was completed after it, or is   *)
(* partial: the order that rotations see against the one that matters.     *)
OrderInv ==
    \A d \in DOMAIN since \ shared :
        /\ d \notin Partial
        /\ d \in DOMAIN later => later[d] \subseteq since[d] \cup Partial

BackupInv ==
    /\ TypeOK /\ RunInv /\ HeldInv /\ FreeInv /\ PartialInv /\ OrderInv
    /\ OverlapsAreExplained /\ LocksAreReleased /\ NewestDumpsKept
=============================================================================
