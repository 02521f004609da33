# TLA+ verification of the MTO treasury system

This directory holds a formal model of the parts of the Municipal Treasury
Office system where a mistake would be expensive and a test would hardly find
it: money, the audit trail, retries, background jobs, backups, logins, property
records, the daily collections report, the public snapshot and the desktop's
credentials, under overlapping requests, crashes and lost answers. The models
are written from the code under `backend/`, `frontend/`, `api_clients/`, `utils/` and
`ui/`, and line numbers in `PROJECT.json` ("map") name the code each definition
stands for.

Run a model with `tlc -config MCxxx.cfg MCxxx.tla`, a proof with
`tlapm XxxProofs.tla`.

## 1. The system

A FastAPI server (three replicas in `k8s/deployment.yaml`, one supervised
process on the office server) on one MariaDB database. A request has one
SQLAlchemy session, hence one connection and one transaction at a time; worker
threads in the same processes run jobs stored in a table; a desktop client and
a public portal call the API.

| component | state | operations | who touches it | hard behaviour | modelled |
|---|---|---|---|---|---|
| sealed audit chain (`audit_integrity_service`, `history_service`) | `audit_logs`, one `audit_chain_state` row | append inside the caller's transaction, verify | every audited write | two writers, snapshot against locking reads, rollback, rows inserted around it | `AuditChain` |
| job queue (`job_service`) | `jobs`, in-memory heartbeat registry per process | submit, claim, run, finish, recover, sweep | routes, 4 workers, maintenance thread, every replica | claim races, crash after effects, lost status writes, recovery of live jobs | `JobQueue` |
| payments and billing balances (`payment_service`, `billing_service`, `property_service._sync_financial_records`) | `payments`, `payment_billings`, `property_billings.amount_paid` | post, edit, delete, batch delete | cashiers in parallel | sums from an old snapshot, duplicate receipts, partial batches | `PaymentLedger`, `PaymentReads` |
| money arithmetic (`routes/compute.py`, `billing_service`, `payment_adjustments`) | none: computed | quote, discount, penalty, balance, shares of a receipt | posting form, statements, reports | rounding, one split written three times, years that must stay settled | `BillingAmounts` |
| idempotent operations (`idempotency_service`) | `idempotency_keys` | claim, replay, refuse, complete, sweep | payment and property routes | simultaneous first attempts, lost answers, expiry, stale lookups | `Idempotency`, `OnceOnly` |
| property records (`property_service`) | `properties`, named locks, connection pool | create, edit, authorize a duplicate TD, soft delete, restore, undo | assessors in parallel | check-then-write on a snapshot, stale forms, locks on pooled connections | `PropertyRegistry` |
| users, logins, refresh sessions (`auth_service`) | `users`, `refresh_tokens`, access tokens | log in, lock out, upgrade a legacy hash, refresh, revoke, administer, prune | every client | lost increments of the failure counter, revocation against logins and refreshes under way, rights carried by tokens | `Sessions` |
| backups (`backup_service`) | sentinel row in `backup_history`, the dump directory | lock, dump, rotate, release | workers, scripts | check-then-insert lock, staleness shorter than a backup, rotations of overlapping runs | `BackupLock` |
| schedules (`job_service`'s maintenance loop) | `jobs`, `backup_history`, the loop's pause | check, submit, by hand | every replica | five-minute windows, three clocks, check in one session and submission in another | `Schedules` |
| RCD register and daily report (`rcd_register_service`, `daily_rcd_service`, `rcd_stock`, `rcd_remittance`, `ui/rcd_daily.py`) | officers, booklets, the register's revision; the window's preview, stock and check review | register under a row lock, preview, review, export | cashiers, while payments are posted and edited | a report reviewed on one state and exported on another, receipts owned or dated twice, checks split into funds | `RcdReport` |
| printed rows of the report (`daily_rcd_service`, `rcd_stock`) | none: computed | group receipts into ranges and stock into rows | the report | one run per column and row, booklet boundaries, six rows | `StockRows` |
| the desktop client's credentials (`api_clients/api_helper.py`, `auth_service.py`, `clients/desktop`) | two tokens of the process, a refresh lock | call, refresh, repeat, log in, log out, return to the login window | worker threads and the user interface | one refresh for many threads, a refresh finishing after a logout, an outage during a refresh | `ClientSession` |
| portal publication (`portalPublication.ts`, `portalSnapshot.ts`, `guarded_portal_publish_service`) | served file and staging files in blob storage, a cache per website instance, the publication lock | prepare, upload, commit, read back, inspect | scheduled task, operator's job, website instances, visitors | compare-and-swap over awaited calls, late and repeated commits, a killed child, caches no one invalidates | `PortalPublication` |
| import, retention, billing-year sync, settings, statistics, search, reports, rate limits, the client's other windows, scripts | see `PROJECT.json` | | | | no |

What the components share, and what all models therefore build in:

* **REPEATABLE READ.** Nothing changes MariaDB's default isolation, and the first
  SELECT of a request is `get_current_user`'s (`deps.py`). Plain reads see the
  snapshot of that moment; `FOR UPDATE`, unique indexes and `UPDATE ... WHERE`
  see the newest committed rows and wait for row locks. In the models a session
  has a view taken by its `Begin` (`Arrive` in `Idempotency`), and the committed
  state is separate.
* **One transaction per request.** Business rows, billing rows, the idempotency
  claim and the audit event are committed or rolled back together.
* **The audit head as a gate.** An audited transaction is refused unless its
  snapshot has the newest event. `AuditChain` shows what this gate gives;
  `PaymentLedger` and `PropertyRegistry` use it (`Audited`) and show that several
  guarantees of theirs come from it and from nothing else.

## 2. Modules

| module | models | state and actions |
|---|---|---|
| `AuditChain` | `append_audit_event` in caller-owned transactions | `log`, `head`, `value` are committed tables, `pend`, `view`, `seen` belong to sessions. `Begin`, `Append_`, `Reject`, `Commit`, `Rollback`, `RawInsert` |
| `AuditChainProofs` | `AuditChain`, `RcdReport` and `StockRows` | an inductive invariant and seven theorems about the chain; an inductive invariant and six theorems about the report; what the loops of `StockRows` compute, with three theorems about the printed rows |
| `JobQueue` | worker pool, recovery, crashes | `status`, `order` are the table, `beat` the registry, `pc`/`cur` the worker loops, `mpc`/`cut`/`active` the maintenance thread. One action per step between two database commits |
| `JobQueueProofs` | | inductive invariant and five theorems |
| `Idempotency` | claim protocol and sweep | `row` is the table with its unique index, `lock` the index record's holder, `view`/`mine`/`dropped` the session. `Arrive` ... `Answer`, `Fail`, `Expire`, `SweepSelect`, `SweepDelete` |
| `OnceOnly` | abstract specification of the service | `done`, `memo`, `answers`; `Perform`, `Forget`, `Answer` |
| `IdempotencyProofs` | | inductive invariant, four invariance theorems, the refinement theorem |
| `BillingAmounts` | the arithmetic of money | operators only: `Quote`, `Balance`, `split_amount_across_years`, `equal_adjustment_shares`, `AdjustmentShare` (the SQL expression) |
| `BillingAmountsProofs` | | induction over numbers and finite sets, sums, rounded parts; five theorems about the arithmetic |
| `PaymentLedger` | posting, editing, deleting | `key`, `alloc`, `paid` committed; row locks; `vkey`, `valloc`, `own`, `dirty` of the session |
| `PaymentReads` | what statements and balances read back | no state of its own: two sums over the links of `PaymentLedger` |
| `PaymentLedgerProofs` | | two inductive invariants (locks and snapshots; amounts), six theorems |
| `PropertyRegistry` | saves, deletion, restore, undo, named lock, pool | `rows`, `log` committed, `named`/`depth`/`pool` of the server and the pool, `view`, `form`, `want` of the session |
| `PropertyRegistryProofs` | both `PropertyRegistry` and `PortalPublication` | an inductive invariant and five theorems about each |
| `Sessions` | accounts, logins, refresh sessions, access tokens | `account`, `rows` committed, `req` what each request is doing and on which snapshot, `latest`/`mark`/`roleAt`/`tries` history. A login is two transactions, hence two actions |
| `SessionsProofs` | both `Sessions` and `ClientSession` | an inductive invariant and seven theorems about the server, an inductive invariant and four theorems about the client |
| `BackupLock` | the backup's lock row, dump, rotation, release | `rows` is `backup_history`; `later` the files of the directory in order of modification, unfinished ones included; `pc`/`file`/`at`/`lock` the slow worker of each process; `since`, `shared`, `strays` history. `OpenDump`, `Flush`, `CompleteDump`, `DumpFails`, `Verify`, `Rotate` |
| `Schedules` | when backups and accruals are submitted, and who executes them; composes `BackupLock` | `mpc`/`wake` each maintenance loop, `jobs`, `cur` the slow workers, and all of `BackupLock`, whose steps are what a worker does for a backup job |
| `BackupLockProofs` | both | inductive invariant and four theorems about `BackupLock`; `Schedules` implements it; its own inductive invariant and five theorems |
| `RcdReport` | register, daily report, review and export | `register`, `ledger`, `row`, `rates`, `audits` committed; `sel`, `job`, `view` and the reviewed report of each window; `exports` the released reports |
| `StockRows` | the report's printed rows | operators only: `Ranges`, `Buckets`, `StockRows` |
| `ClientSession` | tokens in the desktop process | `access`, `refresh` the process's tokens, `pc` and the token each thread sent, `lock` the refresh lock, `screen`/`own` the window and its login, `live`/`minted` the server's sessions. One action per stretch of code between two waits |
| `PortalPublication` | publication of the public snapshot | `phase`, `ticket`, `baseline`, `staging` belong to an office run, `posts` is the history of the served file, `at`/`of` the commit under way on an instance (one action per awaited storage call), `cache`/`loading` the instance's reader |
| `MCxxx` | | constants and symmetry for TLC |

`PaymentLedger`, `PropertyRegistry` and `Sessions` compose with `AuditChain`
through its result instead of its variables: the chain is the number of audited
commits (the events themselves in `PropertyRegistry`, which undoes them), and
`Audited` is `HeadMatches` under the row lock; in `RcdReport` the export is such a
transaction and payments edited or deleted by others are what it must not miss.
`Schedules` extends `BackupLock` and shares its variables: the loops submit jobs, a
job's execution is a run of `BackupLock`, and the rows of that run are what the
next check looks at (`SchedulesBackUp` in section 5: the composition implements
`BackupLock`, so its theorems hold of it). How a slow worker gets its job and
loses it is `JobQueue`. `RcdReport` extends `StockRows`: what is printed is the rows
of the report that was released.

Operators named `...Always`, `...Unlocked`, `...ByAge` and the like, commented
"Mutant", are plausible mistakes. `PROJECT.json` ("mutants") says which property
each of them breaks when it replaces the real definition; they are used nowhere
else.

## 3. Runs

All runs explore the full state space under their bounds.

| run | instance | shows |
|---|---|---|
| `audit_chain` | 3 sessions, 2 records, 2 events per transaction, 4 ids, rows inserted around the service | until such a row comes the chain verifies; the trail explains the values, a refused session was overtaken, the head's lock is given back |
| `job_queue` | 1 process, 2 workers, 2 jobs, 1 crash, 1 lost write | one execution at a time, repetition only after a fault, every job settles |
| `payment_ledger` | 2 sessions, 2 receipt keys, 2 years, 3 payments | balances go wrong only around a posting some snapshot missed, shares read back from the links are those of the posting |
| `payment_ledger_race` | 2 postings | **violation**: the balance loses one of two overlapping postings |
| `payment_statement` | 1 posting over 2 years | **violation**: the statement repeats a receipt's whole penalty on each of its years |
| `idempotency` | 2 sessions reused, 1 key, 2 payloads, 4 claims | exact memory, true answers, refinement of `OnceOnly`, every request ends |
| `property_registry` | 2 sessions of 2 users, 2 properties, 2 TDs, 2 connections, 3 commits | a session that saves a TD holds its named lock, edits replace what their form showed, no event is undone twice, only bringing back a deleted property makes active properties share a TD unmarked |
| `portal_publication` | 2 website instances, 2 office runs | the served snapshot never goes back, a commit replaces what its ticket saw, VERIFIED means published, every instance ends up with the last snapshot |
| `sessions` | 2 requests, 1 account, 1 session row, 2 audited commits, 2 wrong passwords, 3 ticks | a reset shuts out every older session, an old password returns only by the upgrade of a legacy hash, a role change arrives within a token's life, no early lockout |
| `schedules` | 2 processes, 1 manual accrual, 2 jobs, 2 backup runs, 1 old dump, 2 dumps kept, 1 crash, lost release or partial dump left behind, 2 ticks around both windows | one job of a kind per process and window; a second accrual of a month has an explanation; overlapping backups are explained; a completed dump is removed only when enough newer ones were completed, although rotations count unfinished ones |
| `rcd_report` | 1 window, 2 officers, booklets of 2 serials, 2 days, 2 payments, 3 audited commits, up to 3 checks a receipt | a released report is the reviewed one and its printed rows balance, it misses postings only, a receipt has one owner and one day, checks keep every centavo |
| `client_session` | 1 worker and the user interface, 2 logins, 2 access tokens, tokens that go stale and dead | one effect per call, no session lost that the server honours, refreshes only when needed, every call ends, a dead session ends at the login window |

The module of `payment_ledger` also evaluates `SplitsAgree` and `QuotesSettle`:
the arithmetic of `BillingAmounts` over totals up to 60 centavos and 7 years,
and quotes of 0 to 60 pesos in 43 months. `PrintedAsReviewed` of `rcd_report`
evaluates `StockRows` over every part of two adjoining booklets of four receipts
and every issued part of it, with room for three rows.

Several safety properties have a theorem and no run: `SealedOnCurrentState`,
`UnsealedTailBlocks`, `CompletedMeansApplied`, `TerminalIsFinal`, `NoDuplicateReceipt`,
`OneWriterPerBill`, `OneEffectPerKey`, `CandidateKept`, `RevokedStaysRevoked`,
`ChangesFollowTheTrail`, `LocksAreReleased`, and the type invariants of the modules
with proofs. They are parts of the inductive invariants or follow from them in
a step; the runs are kept for what only TLC can say and for the statements
worth seeing on an instance.

Why these bounds are enough to be interesting: two sessions are what every
stale read, lock wait and lost update here needs, and a third in `audit_chain`
adds a commit between a reader and a rejected writer; sessions are reused, so
histories are longer than the number of sessions. Two years let an amount spill
from one year to the next and a payment move. Three audited commits let a form
be opened, overtaken and submitted, or an event be made and undone from two
sessions. One session row is enough for a login or refresh to be overtaken by a
reset; thresholds of one and two ticks are as good as five minutes and seven
days, because only their order against the steps matters. Two backups on two
processes let a stale run overlap a fresh one and rotations mix: with an old dump
and two to keep, a rotation counts the dump the other run is still writing, which
then succeeds, fails or is left behind, or shares its second and its name. (Backups
submitted by hand are the same runs and multiply the states several times; they, and more
dumps and processes, are the business of the theorems.) The ticks
of `schedules` cover the accrual's window, then the backup's, and one more in which a
lock or a job may be stale; a loop may be late by a whole pause. Two office runs are an older and a newer
candidate, two instances let both be committed, or one be committed twice, at
once, while either instance serves from a stale cache. In `client_session` one
worker and the user interface already race for the lock, the tokens and the
logout; its safety properties were also explored with two workers (1.65 million
states). Where a theorem exists it covers every
instance; the run is then the cheap check that the statement is not vacuous and
that its mutant breaks it.

Bounds cap counters in guards, or the values a step or the initial state chooses
from: `MaxId`, `MaxAppend` (events),
`MaxCrash`, `MaxBlip`, `MaxFault` (faults), `MaxPay`, `MaxAmount`, `MaxAdjustment`,
`MaxCommit`, `MaxHead` (audited commits), `Existing` (properties, and dumps, at the
start), `MaxDepth` (one lock taken by one connection), `MaxSid`, `MaxTries`, `MaxTime`, `MaxRuns`, `MaxJobs`,
`MaxManual`, `Manual`, `MaxRun`, `MaxSession`, `MaxToken`, `MaxAge` (logins, access tokens and their
ageing), and those of `RcdReport` (`MaxPay`, `MaxAudit`,
`MaxLegs`, `MaxCancelled`, `Receipts`, `Registrable`). `MaxWork` is not a bound but an assumption, see section 6.
Deadlock is not checked in `property_registry` (no form is opened after the last
bounded commit), `schedules` (the clock stops) and `rcd_report` (a window may be left
alone for good).

### Fairness

* `AuditChain!FairSpec`: a session that is in a transaction leaves it (`get_db`
  closes the session in a `finally` block; InnoDB rolls back dead connections).
* `JobQueue!FairSpec`: worker loops and the maintenance loop are infinite loops
  that survive every exception, a dead process is restarted by its supervisor,
  time passes. No fairness on submissions, crashes or lost writes; their number
  is bounded because without a bound nothing need ever finish.
* `Idempotency!FairSpec`: weak fairness of a session's own steps, strong
  fairness where it waits for an index record, which InnoDB grants in order of
  request.
* `PortalPublication!PortalFairSpec`: a load that was begun ends and a cache runs out
  after its thirty seconds. Nothing obliges the office to publish or a visitor
  to come.
* `ClientSession!FairClientSpec`: a running thread takes its next step, a waiting one gets
  the refresh lock when it is free again and again (strong fairness), a request
  is answered or times out (every call passes a timeout), and as long as a
  dashboard is open it calls the server (the watchdog and the polls of
  `dashboard.py`). No fairness on logins, logouts, expiry or revocation.

## 4. What the models say about the code

Two disagreements between the code and what the repository says about it are
reproduced by the violation runs and listed in `PROJECT.json` ("findings"):

1. **Lost balance updates** (`payment_ledger_race`). A posting is not audited, so
   nothing refuses it, and `recalculate_billing_balances` sums a snapshot.
2. **A statement that charges a penalty once per year** (`payment_statement`).
   Balances and the delinquent list split a receipt's penalty and discount over
   its years; `get_property_billing_history` (statement, delinquency notice, tax
   bill) and `get_collections_worklist` add the whole of it to each. A settled
   receipt over two years with a penalty shows a balance on both of them.

Others the models show without a run of their own:

* *Concurrent execution across replicas.* The registry of live workers is in the
  memory of one process (`job_service.py:778`), the deployment has three: another
  process requeues a job that runs for more than ten minutes and executes it
  beside the first. `NoConcurrentExecution` fails in `JobQueue` with two processes and no
  fault; its theorem therefore assumes `OneProcessOnly`.
* *A token that outlives the logout* (`LoggedOutHasNoToken` in `ClientSession` fails).
  A refresh under way while the user logs out stores its token after
  `clear_tokens` ran (`api_helper.py:226`); what waits for the next login is the
  former user's access token.
* *An outage that ends the login* (`TemporaryFailureKeepsRefreshToken` fails). The
  comment at `api_helper.py:231` says that a temporary refresh failure should not erase a
  still-valid refresh token, but the call that asked for the refresh then ends
  with its 401 at line 427, which clears both tokens.
* *A poll that outlives its window* carries on after another login: its 401, for no
  token or the former user's, clears the new user's tokens.
  `HonouredSessionIsKept` is limited to the first login because of it.
* *The offline indicator.* 502 to 504 are meant to count as failures, but
  `record_connection_success`, called for every answer, has reset the counter before
  (`api_helper.py:431`).
* *A cancelled receipt that is paid* (`CancelledHasNoPayment` in `RcdReport` fails).
  `validate_stock_history` looks for payments of the receipts declared cancelled in
  the export's snapshot; one posted before the export commits is missed, as
  `ExportMissesOnlyPostings` allows.
* *Spurious audit rejections.* `_locked_chain_state` compares a locking read (head)
  with a snapshot read (`MAX(id)`). Any audited commit between a request's
  authentication and its own append makes it fail and asks the operator to run
  the integrity verifier (`RejectedOnlyWhenOvertaken` says exactly when). The same
  comparison is what keeps overlapping audited updates from losing each other
  (`ChangesFollowTheTrail`, `UndoneOnce`, `SharedUnverifiedOnlyByRestore` and
  `BalanceErrsOnlyAroundPostings` fail without it): it should be reported as a
  conflict to be retried, not removed.
* *Bringing back a deleted property looks at no TD.* Delete, create with the same
  TD, restore (or undo the deletion) gives active properties with one TD and no
  marker; `SharedUnverifiedOnlyByRestore` says that nothing else does. The undo of a
  deletion or of an update also leaves the row's version as it is, so
  `EditsReplaceWhatTheySaw` speaks of saves.
* *The TD lock outlives the save* when the pool hands RELEASE_LOCK another
  connection. The next saves of that TD then fail until the connection comes
  round. What does hold is `SaversHoldTheirLock`.
* *A reset undone.* A login that verified a legacy hash before a reset writes the
  upgraded old password after it; `OnlyLegacyUpgradeUndoesReset` says this is the
  only way, and a login that verified the old password before the reset still
  opens a session after it (`AcceptedPostdateReset` speaks of sessions that were
  there).
* *A missed schedule.* `_check_scheduled_backup`'s docstring says "runs once per
  day" (`job_service.py:620`), but a schedule is due only while a check falls into its
  five-minute window and the loop comes back after five minutes plus its own
  work: one check before the window, the next after it, and nothing catches up.
  No interleaving is needed. What prevents the opposite, a second submission in
  one window, is the pause alone: `backup_history.timestamp` is UTC and is
  compared with the local window, so "a backup was made recently" is never true
  in its own window. Replicas do submit one backup each; `BackupLock` then decides.
* *Backups overlap* when two processes pass the check before either inserts its
  row, or when one takes longer than thirty minutes.
* *A rotation counts unfinished dumps.* `backup_service.py:472` creates the file before
  mysqldump writes it, for up to five minutes, and `_rotate_backups` of an overlapping
  run counts it among the seven it keeps: one of the seven newest completed dumps
  goes, and if the unfinished one then fails and is removed, six are left.
  `NewestDumpsKept` says how bad it can get: one less for every other process and
  for every partial dump a crash left behind, with three replicas and no fault at
  least five. Without that allowance it fails in the run of `schedules`. Two runs
  that open a file in one second share it, the later emptying what the earlier
  wrote (`shared`); of those nothing is promised.
* *Centavos.* `QuoteSettles` needs the two rates, rounded apart, to come to no less
  than their sum rounded once. With whole-percent rates that is so for assessed
  values in whole pesos; with centavos in the value a quoted payment can leave
  one centavo unpaid, on which penalties then accrue.
* *A BLOCKED publication* is shown as "existing website data retained", though
  the commit of a killed child may still land: in `PortalPublication` the `Store` of
  a run's snapshot can follow its `GiveUp`.

## 5. Proofs

Eight modules hold theorems; all are about the specifications above, for every
value of the constants, under each module's named assumption only.

**AuditChainProofs.** With and without rows inserted around the service: what
such a row destroys is stated as `Untouched => ...`, the rest holds after it too
(`RawTailBlocks`: who sees it cannot append). The invariant is a conjunction of named parts: a session that has inserted
events holds the row lock (`LockInv`); ids grow (`IdInv`); uncommitted events form
a chain from the committed head (`PendInv`); a snapshot that has the newest event
equals the committed state (`SnapshotInv`), which is the step from "the head
matches" to "the change is computed on current values"; `RejectInv`, `ChainInv` and
`TrailInv` give the properties. `ChainAlwaysVerifies` is not inductive alone
because an append links to the head as read: without `LockInv` that head could
be old.

The report's invariant, `RcdInv`, speaks of more than was exported: of every
release there may yet be, the waiting exports included (`Releases`), so that a
commit adds nothing and only a new export has something to show. `ReleaseInv` holds
three facts of them. Each receipt is in one booklet, of the officer: registered
booklets do not overlap (`BooksInv`, from `Overlaps` under the register's lock), and they are
only added. Each receipt still has a payment on the report's day until one of its
payments is edited or deleted (`StillDated`), which is what makes `OneDayPerReceipt` go
through: a report of another day would have found that payment (`Reused`) and
refused. `OneDayPerReceipt` is not inductive alone, because it forgets where
the payment is. `JobInv` says that a waiting export is current but for postings as
long as its head is the newest; an audited commit in between makes the head old
instead, and only `Export` ends an export with an event (`ExportingIsExport`), hence
`ExportMissesOnlyPostings` and `ExportedAsReviewed`.

`ChecksKeepEveryCent` needs one more invariant, `PriceInv`: the policy of a waiting
export's report was the current one when it was computed, hence a policy with
a positive second rate, and its receipts have positive amounts. The rest is arithmetic. The part of
a check that goes to the basic fund is the difference of two rounded parts of
the running total; the differences telescope (`SumTelescopes`), a rounded part grows
with its amount (`PartGrows`) and never by more than the amount does
(`PartFits`), so no part is negative, none exceeds its check, and checks that
cover the receipt split exactly as the receipt does.

What is printed is a fold over the serials in ascending order, whose meaning is
proved from the community modules' definition (`RangesIter`, `BucketsIter`: the
result for a set is one step from the result without its maximum). For the
ranges the invariant of the loop is `Grouped`, which says that the ranges are the
maximal runs of the serials so far and the last one ends at the newest; the
next serial extends that run or begins one. For the stock rows it is `Walked`:
every row so far can be printed in one line, and it says where the rows start.
That no division into fewer rows exists (`NoFewerRows`) is an argument about
greed: if a division had no start after one row's first serial and up to the next
row's, a line of it would hold both and, between them, what kept the loop from
adding the second (`Blocked`): a gap, a boundary, or a second run of its column
(`RowBetween`). So each row of the loop has a start of the division to itself, an
injection.

**JobQueueProofs.** The assumption `OneProcessOnly` is the deployment the docstring
describes; without it `NoConcurrentExecution` fails (section 4). `HoldInv` (a held job is RUNNING
and held once), `VisibleInv` (a held job is younger than the cutoff or in the
registry copy the maintenance thread took), `EffectInv` (effects at most faults,
plus one while the outcome is unwritten) and `AppliedInv`. `VisibleInv` rests on the
modelled timing assumption that a worker registers a claimed job within the
ten-minute threshold (`AgeJob`).

**IdempotencyProofs.** `OwnerInv` (a session with an uncommitted claim holds the
key), `FreshInv` (claim ids are new), `ViewInv` (what a snapshot shows was committed
and performed), `SweepInv` (the sweep holds expired ids only). They give exact
memory, true answers and one effect per unexpired key, and with them every step
of `Idempotency` is a step of `OnceOnly` under the mapping `memo[k]` = id of the
committed claim (`ServiceKeepsPromise`). `OwnerInv` also shows that a committed claim
is always COMPLETED, so the answer "already being processed" is unreachable:
a second request waits for the first instead.

**SessionsProofs.** One named part per question. `MarkInv`: an unrevoked session is
younger than its account's last reset, because the reset revokes the newest
rows and not those of its snapshot. `PasswordInv`: a legacy hash, stored or in a
login's hands, is the first password's. `CounterInv`: what a login read is not
above the wrong passwords given, so overlapping logins lose counts and never
invent them. `RoleInv`: a token with an old role is not younger than the change of
role. `TrailInv`: a snapshot that has the newest event shows the current rights.
`RequestInv` says what a request carries at each point.

The client's proof has its own invariant, `ClientInv`, because the client knows the
server only by its answers. `Undone` carries `AtMostOneEffect`: a call that will be
sent, or sent again, has had no effect, and what was refused stays refused
(sessions end, tokens die; neither comes back). `Needed` gives `GrantsAreNeeded`: the
comparison of tokens under the lock rules out a refresh of a good token, and no
step in between can make the token good, except a login's, whose session no
refresh under way is about (`LoginInv`). `HonouredSessionIsKept` needs `Unrefused`:
while the first session is honoured no thread of the dashboard holds a refusal,
so nobody is on a path that clears the tokens; that there is nobody left from an
earlier login is `OpenedInv` and `LoginInv` (before the first dashboard no worker has a
call). With a second login the property is false (section 4), and the proof
shows where: `LoggedOut` leaves other threads' calls as they are. `FairClientSpec`, which
the run uses, implies `ClientSpec`.

**PropertyRegistryProofs.** `ConnInv` and `LockInv` follow connections between pool and
sessions; with them a `RELEASE_LOCK` on a foreign connection cannot release a
lock someone saves under (`SaversExclude`). `SnapshotInv` and `AuditInv` turn "the
head matches" into "the view is current", `FormInv` carries the version a form
showed across the commits in between, and `StagedInv` says what a pending commit
may do to the groups of a TD.

The publication's theorems are in the same module. `OrderInv` says what the lock gives: runs generate and
prepare one after the other, so when a ticket is issued everything in the
served file's history is of an earlier run (`posts[k] < n` up to the ticket's
baseline), and each entry of the history was written on the version in its own
ticket (`CommitReplacesItsBaseline`, from the conditional write).
`NeverBackInTime` follows from the two: the entry at position k has baseline k - 1,
so everything before it is older. Neither half is enough, and `NeverBackInTime`
alone is not inductive: it says nothing of the commits that are still under way.
`ContentInv` follows a snapshot from its staging file through the served file
into loads and caches; with it a cached answer can only name something that was
published, which is why a read-back through a cache is good evidence
(`PortalVerifiedMeansPublished`) although its absence is none. The lengths and
hashes of the tickets enter only as "these are the bytes" (`PayloadAccepted`).

**BackupLockProofs.** `FreeInv` is what the check really gives: at the moment a run
found no lock, every lock held now came later or was stale. The invariant has two
halves, `LockInv` and `FileInv`, which most steps disturb one of. The dumps need a
counting argument. A rotation sees the order of modification, the claim is about the
order of completion: `OrderInv` says that what was modified after a completed dump was
completed after it or is partial, and `PartialInv` that a partial dump belongs to one
running run, or to a fault, or has a shared name. So what a rotation counts beyond the
dumps completed since is at most one for every other process and one for every fault
(`RotationCounts`); what was completed since only grows (`StillExplained`). `SchedulesBackUp`: every step
of the loops, workers and administrators is a step of `BackupLock` or leaves it
alone, so `ScheduleSpec => Spec` and all four theorems hold of the composition.

`ScheduleInv` is what the schedules add. The difficulty of `OneSchedulePerProcess`
is that nothing in the loop remembers a submission across its check; what the
proof needs instead is arithmetic of the clocks. `WindowInv`: a scheduled job was
submitted inside its window. `PauseInv`: whatever a process submitted before its
last pause is at least a pause old when it looks again, with the one exception
of the backup submitted in the same round as the accrual. A window is no longer than
the pause, hence two submissions of a process and kind in one window are one
(`SchedulesAssumption` states how the lengths compare; the offsets of the three
clocks are free). `FoundInv`: no time passes between a check and its submission,
and the accruals of the month the check saw had failed;
`FailedInv` keeps that true of jobs recovered and executed again. Both are needed
for `SecondAccrualExplained`: the last check alone does not say that a job it saw
failed stays one that failed once.

**BillingAmountsProofs.** The induction the other proofs need. The library states
it for an operator, which no backend here can instantiate; `NatInd` and `SetInd`
state it for a set, of the numbers or the subsets that have the property, and
follow from the library's theorem that an injection of a finite set into itself
is onto. Over them come sums (`SumOver`: one element more, one value changed,
equal parts), integer division and half-up rounding. `PythonSplitsAgree`: the two
Python functions give every year the same share, though one hands out the
remainder centavo by centavo in a loop and the other computes who gets one.
`SharesAddUp`: the shares the SQL expression computes one by one add up to the
total, for any number of years; `RemainderFits` is why the centavos run out before the years do.
`SettledStaysSettled` and `QuoteSettles` come from "penalties accrue on unpaid
principal alone".

**PaymentLedgerProofs.** `HoldInv` and `ViewInv`: while the chain head is that of its
snapshot a session misses nothing but postings. For
`BalancesErrOnlyAroundPostings` no fact about sums is needed, only that two sums are
equal when what is summed is: a session that missed nothing sums the same
allocations as are stored after its commit. `UniqueInv` extends the unique index
to pending rows. `Amounts`, the second invariant, says that allocations and balances
are amounts, of sessions and committed, which with the first gives `TypeOK`. Its
step for a posting is `YearsArePaidInOrder`: what the allocation over the years
computes, from the sum of the dues before a year. `EveryCentIsKept` needs no
invariant: the links of a receipt are some finite set of years, and for each such
set `SharesAddUp` and `PythonSplitsAgree` say what it claims.

Every safety property of the passing runs, invariant or action property, has a
theorem. Only model-checked is liveness (`HeadLockReleased`, `EveryJobSettles`,
`EveryRequestEnds`, `EveryInstanceCatchesUp`, `EveryCallEnds`,
`DeadSessionEndsAtLogin`), which the prover does not reach.

## 6. Abstractions and what is left out

* A SHA-256 digest names what it digests; collisions are excluded. Payloads,
  snapshots of rows and responses are versions or ids.
* A job handler is one committing step. Handlers that commit several times
  (imports) can do part of their effects more than once; a repeated effect here
  stands for that too. A payload that is not JSON is not modelled.
* `started_at` is "old or not"; the ten-second wait of idle workers and the
  submission event are not modelled.
* A receipt's penalty and discount are stored with it and touch nothing until they
  are read: `PaymentReads` states its properties for every choice of them. Amounts
  are centavos, rates hundredths of a percent; decimal arithmetic is exact up to
  `quantize`, and SQL's `ROUND` is taken to round as Python does. Legacy payments
  without allocation links are not modelled.
* Row locks of one ledger operation are taken in one step; a deadlock is InnoDB's
  rollback of one side, which `Rollback` may do at any time.
* In `PropertyRegistry` the columns other than TD, version, liveness and marker
  ride along; purge, the bulk update of barangays, predecessor links and search
  are not modelled. An update sends the version its form showed: the server skips the
  comparison for an explicit `version: null` (`property_service.py:964`), which no
  form has and `EditsReplaceWhatTheySaw` does not cover.
* `Sessions`: authentication routes are asynchronous and one process runs each to
  its end, so what interleaves there are replicas. Expired access tokens are
  forgotten, because no check accepts them. CSRF and the websocket manager are
  not modelled.
* `Schedules`: time stands still during the steps of a loop; what they take
  together is at most `MaxWork`. The accrual's handler only reports, so a manual
  dry run counts as the month's accrual. A job that one replica saw fail may be
  COMPLETED by another, hence "failed" is about executions.
* `RcdReport`: money is centavos, a receipt's number its serial, a rate one of a few
  policies. Tax-year rates, remittance details, the second funds and the
  workbooks (`daily_rcd_excel`, `rcd_office_form`) are not modelled. The register's
  rows are only added, as the code only adds them. A registration is one step, which the
  locked read of the control row (`rcd_register_service.py:96`) makes it: what would
  happen without that lock the model does not show. Payments of one receipt and day
  are listed one by one, where `daily_rcd_service.py:186-205` adds them up into one
  line first; ownership and days are those of the receipt either way, and the
  arithmetic of the checks is that of any amount. The size checks on entered stock
  (`rcd_stock.py:84-94`) and the export without a review
  (`routes/daily_rcd.py:142-171`, no stock, no checks) are not modelled.
* `StockRows`: a booklet's opening and received stock differ in the column alone.
* `ClientSession`: an access token carries its session; a clock that ages tokens is
  two choices, stale to the client and dead to the server, in either order. The
  connection indicator and the cache of GET answers are not modelled.
* `BackupLock`: USB and cloud copies choose between final statuses; restoring a
  backup and encryption are not modelled, checksum and verification only as reads of
  the file that can fail. A run names its dump and opens it in one step, a rotation
  lists and removes in one; a mysqldump whose process died may go on writing. A tick
  is many seconds, so names repeat only within one; the runs of a second have one
  name, the last.
* `PortalPublication`: the helper that runs in the office's child process is
  installed outside the repository and known from how it is called (it takes the
  lock, prepares, uploads, commits, reads back); a run prepares once. An instance
  has one commit and one load under way at a time; several instances overlap
  freely. Reads of the file are as fresh as the storage service promises for
  `useCache: false`. What one visitor sees may still go back when two instances
  answer in turn; nothing in the code promises otherwise. `inspect` writes
  nothing. The older publish route (`portal-snapshot/publish/route.ts`) writes
  without a condition; scripts still name it as the configured URL but nothing in
  the repository sends to it. A client that did would break
  `CommitReplacesItsBaseline`.

Not modelled at all, with the reasons in `PROJECT.json`: parsing and generating
documents (import of workbooks, COA reports, tax bills), statistics and
analytics (recomputed aggregates), search, settings and file storage, the rate
limiter (a library), the desktop client's other windows (their retries are the
repeated requests of `Idempotency`, their forms the versions of `PropertyRegistry`).
They are most of
the repository's lines and hold little of its control: a model of them would
restate queries and layouts.

## 7. What could follow

1. The import's commit as a job whose repetition repeats receipts, composed with
   `JobQueue` and the unique index of `PaymentLedger`.
2. The circuit breaker's three states and the supervisor's restart budget.
3. Retention: batches archived and purged by a job that may be repeated.
4. `purge` in `PropertyRegistry`, and allocation across several receipts:
   `allocate_payment_amount` fills a year up to its total without looking at what
   earlier receipts paid, and a partial payment that records the full penalty
   is charged penalty again on the principal that remains.
