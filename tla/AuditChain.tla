----------------------------- MODULE AuditChain -----------------------------
(***************************************************************************)
(* The sealed audit chain of backend/services/audit_integrity_service.py   *)
(* and the transactions that append to it.                                 *)
(*                                                                         *)
(* Every audited write of the API (property saves, payment edits and       *)
(* deletions, imports, user administration) runs in one database           *)
(* transaction:                                                            *)
(*   - the first read, get_current_user's, fixes the transaction's         *)
(*     snapshot (InnoDB REPEATABLE READ; no code changes the isolation);   *)
(*   - the business rows are computed from that snapshot;                  *)
(*   - append_audit_event locks the single audit_chain_state row (FOR      *)
(*     UPDATE reads the newest committed row, not the snapshot), compares  *)
(*     its head with MAX(audit_logs.id), which IS read from the snapshot,  *)
(*     inserts the event and advances the head;                            *)
(*   - everything is committed or rolled back together.                    *)
(*                                                                         *)
(* Abstractions.  A hash is represented by the id of the event it seals:   *)
(* SHA-256 over (previous hash, payload with a fresh UUID) is taken as     *)
(* collision free, so a digest names one event.  0 stands for the genesis  *)
(* hash and for "no event".  The before/after snapshots of an event are    *)
(* one number per record: the record's version, which save_property reads  *)
(* from the snapshot and writes back incremented.                          *)
(***************************************************************************)
EXTENDS Integers, Sequences

CONSTANTS
    Requests,     \* sessions that run audited transactions
    NoReq,        \* no session holds the row lock
    Records,      \* audited records (properties, payments, users ...)
    NoRec,        \* the record of a row inserted around the service
    RawInserts,   \* TRUE: rows may be inserted around the service
    MaxAppend,    \* bound: events appended by one transaction
    MaxId         \* bound: audit_logs ids handed out

ASSUME ConstantsAssumption ==
    /\ NoReq \notin Requests
    /\ NoRec \notin Records
    /\ RawInserts \in BOOLEAN
    /\ MaxAppend \in Nat \ {0}
    /\ MaxId \in Nat

VARIABLES
    log,      \* committed audit_logs rows, in id order
    head,     \* committed audit_chain_state row: head_audit_id, head_hash
    value,    \* committed business rows
    nextId,   \* AUTO_INCREMENT of audit_logs: never rolled back
    holder,   \* session that holds the X lock on the audit_chain_state row
    pc,       \* what each session is doing
    seen,     \* MAX(audit_logs.id) as the session's transaction sees it
    view,     \* the business rows as the session's transaction sees them
    pend      \* events the session inserted and has not committed

vars == <<log, head, value, nextId, holder, pc, seen, view, pend>>

Genesis == 0

Event == [id : Nat \ {0}, sealed : BOOLEAN, prev : Nat, hash : Nat,
          rec : Records \cup {NoRec}, old : Nat, new : Nat]

LastId(s) == IF s = <<>> THEN 0 ELSE s[Len(s)].id

Init ==
    /\ log = <<>>
    /\ head = [id |-> 0, hash |-> Genesis]
    /\ value = [x \in Records |-> 0]
    /\ nextId = 1
    /\ holder = NoReq
    /\ pc = [r \in Requests |-> "idle"]
    /\ seen = [r \in Requests |-> 0]
    /\ view = [r \in Requests |-> [x \in Records |-> 0]]
    /\ pend = [r \in Requests |-> <<>>]

-----------------------------------------------------------------------------
(* A request reaches get_current_user: its first SELECT opens the          *)
(* transaction and fixes the snapshot all its plain reads will use.        *)
Begin(r) ==
    /\ pc[r] = "idle"
    /\ pc' = [pc EXCEPT ![r] = "open"]
    /\ seen' = [seen EXCEPT ![r] = LastId(log)]
    /\ view' = [view EXCEPT ![r] = value]
    /\ UNCHANGED <<log, head, value, nextId, holder, pend>>

(* The chain head as session r reads it under the row lock: its own        *)
(* uncommitted update, else the newest committed row.                      *)
LockedHead(r) ==
    IF pend[r] = <<>> THEN head
    ELSE [id |-> pend[r][Len(pend[r])].id, hash |-> pend[r][Len(pend[r])].hash]

(* Mutant: MAX(audit_logs.id) as a locking, current read.                  *)
HeadMatchesCurrentRead(r) == pend[r] # <<>> \/ LastId(log) = LockedHead(r).id

(* _locked_chain_state's comparison: the latest row the snapshot shows     *)
(* must be the head.                                                       *)
HeadMatches(r) == seen[r] = LockedHead(r).id

NewEvent(r, x) ==
    [id |-> nextId, sealed |-> TRUE, prev |-> LockedHead(r).hash,
     hash |-> nextId, rec |-> x, old |-> view[r][x], new |-> view[r][x] + 1]

(* Mutant: the head is read without FOR UPDATE.                            *)
AppendUnlocked(r, x) ==
    /\ pc[r] = "open"
    /\ HeadMatches(r)
    /\ nextId <= MaxId
    /\ Len(pend[r]) < MaxAppend
    /\ pend' = [pend EXCEPT ![r] = Append(@, NewEvent(r, x))]
    /\ view' = [view EXCEPT ![r][x] = @ + 1]
    /\ seen' = [seen EXCEPT ![r] = nextId]
    /\ nextId' = nextId + 1
    /\ UNCHANGED <<log, head, value, pc, holder>>

(* The session writes record x and calls append_audit_event: it waits for  *)
(* the row lock, passes the head comparison, inserts the sealed row and    *)
(* advances the head, all still uncommitted.                               *)
Append_(r, x) ==
    /\ pc[r] = "open"
    /\ holder \in {NoReq, r}
    /\ HeadMatches(r)
    /\ nextId <= MaxId
    /\ Len(pend[r]) < MaxAppend
    /\ holder' = r
    /\ pend' = [pend EXCEPT ![r] = Append(@, NewEvent(r, x))]
    /\ view' = [view EXCEPT ![r][x] = @ + 1]
    /\ seen' = [seen EXCEPT ![r] = nextId]
    /\ nextId' = nextId + 1
    /\ UNCHANGED <<log, head, value, pc>>

(* The same call when the comparison fails: RuntimeError("Audit chain head *)
(* does not match the latest audit record"), re-raised by log_data_change. *)
Reject(r) ==
    /\ pc[r] = "open"
    /\ holder \in {NoReq, r}
    /\ ~HeadMatches(r)
    /\ holder' = r
    /\ pc' = [pc EXCEPT ![r] = "rejected"]
    /\ UNCHANGED <<log, head, value, nextId, seen, view, pend>>

Written(r) == {pend[r][i].rec : i \in DOMAIN pend[r]}

(* db_session.commit(): rows, events and head become visible at once and   *)
(* the row lock is released.  A transaction without events (a read, or a   *)
(* write that is not audited) leaves the chain alone.                      *)
Commit(r) ==
    /\ pc[r] = "open"
    /\ log' = log \o pend[r]
    /\ head' = LockedHead(r)
    /\ value' = [x \in Records |-> IF x \in Written(r) THEN view[r][x] ELSE value[x]]
    /\ holder' = IF holder = r THEN NoReq ELSE holder
    /\ pc' = [pc EXCEPT ![r] = "idle"]
    /\ pend' = [pend EXCEPT ![r] = <<>>]
    /\ UNCHANGED <<nextId, seen, view>>

(* Mutant: the head row is updated outside the caller's transaction.       *)
RollbackKeepsHead(r) ==
    /\ pc[r] \in {"open", "rejected"}
    /\ head' = LockedHead(r)
    /\ holder' = IF holder = r THEN NoReq ELSE holder
    /\ pc' = [pc EXCEPT ![r] = "idle"]
    /\ pend' = [pend EXCEPT ![r] = <<>>]
    /\ UNCHANGED <<log, value, nextId, seen, view>>

(* Mutant: a rejected request keeps its transaction open.                  *)
RollbackOpenOnly(r) ==
    /\ pc[r] = "open"
    /\ holder' = IF holder = r THEN NoReq ELSE holder
    /\ pc' = [pc EXCEPT ![r] = "idle"]
    /\ pend' = [pend EXCEPT ![r] = <<>>]
    /\ UNCHANGED <<log, head, value, nextId, seen, view>>

(* db_session.rollback(), or the connection is lost or the process dies:   *)
(* everything uncommitted is undone, except the ids already handed out.    *)
Rollback(r) ==
    /\ pc[r] \in {"open", "rejected"}
    /\ holder' = IF holder = r THEN NoReq ELSE holder
    /\ pc' = [pc EXCEPT ![r] = "idle"]
    /\ pend' = [pend EXCEPT ![r] = <<>>]
    /\ UNCHANGED <<log, head, value, nextId, seen, view>>

(* A row inserted by SQL around the service, as test_audit_integrity.py    *)
(* does: unsealed, head not advanced.  Taken while no other insert is      *)
(* uncommitted, which keeps log in id order.                               *)
RawInsert ==
    /\ RawInserts
    /\ \A r \in Requests : pend[r] = <<>>
    /\ nextId <= MaxId
    /\ log' = Append(log, [id |-> nextId, sealed |-> FALSE, prev |-> 0,
                           hash |-> 0, rec |-> NoRec, old |-> 0, new |-> 0])
    /\ nextId' = nextId + 1
    /\ UNCHANGED <<head, value, holder, pc, seen, view, pend>>

Next ==
    \/ \E r \in Requests :
          \/ Begin(r)
          \/ \E x \in Records : Append_(r, x)
          \/ Reject(r)
          \/ Commit(r)
          \/ Rollback(r)
    \/ RawInsert

Spec == Init /\ [][Next]_vars

(* A request that runs to its end: whoever entered the transaction leaves  *)
(* it, by commit or by rollback (get_db closes the session in a finally    *)
(* block, and InnoDB rolls back a dead connection).                        *)
Leave(r) == Commit(r) \/ Rollback(r)
FairSpec == Spec /\ \A r \in Requests : WF_vars(Leave(r))

-----------------------------------------------------------------------------
(* Types of all variables.                                                 *)
TypeOK ==
    /\ log \in Seq(Event)
    /\ head \in [id : Nat, hash : Nat]
    /\ value \in [Records -> Nat]
    /\ nextId \in Nat \ {0}
    /\ holder \in Requests \cup {NoReq}
    /\ pc \in [Requests -> {"idle", "open", "rejected"}]
    /\ seen \in [Requests -> Nat]
    /\ view \in [Requests -> [Records -> Nat]]
    /\ pend \in [Requests -> Seq(Event)]

(* What verify_audit_chain accepts: every row sealed, each row's           *)
(* previous_hash the hash of the row before it, no event twice, and the    *)
(* stored head the last row.                                               *)
Linked(s) ==
    \A i \in DOMAIN s :
        /\ s[i].sealed
        /\ s[i].prev = IF i = 1 THEN Genesis ELSE s[i - 1].hash
        /\ i > 1 => s[i].id > s[i - 1].id

ChainVerified ==
    /\ Linked(log)
    /\ head.id = LastId(log)
    /\ head.hash = IF log = <<>> THEN Genesis ELSE log[Len(log)].hash

(* No row was inserted around the service.                                 *)
Untouched == \A i \in DOMAIN log : log[i].sealed

(* As long as only append_audit_event writes rows the verifier accepts the *)
(* chain, whatever the sessions do and however they are interrupted.       *)
VerifiedWhileUntouched == Untouched => ChainVerified

(* Once a session has appended, no other transaction's events were         *)
(* committed since its snapshot: what it computed from the snapshot is     *)
(* computed from the newest audited state (first committer wins).          *)
SealedOnCurrentState ==
    \A r \in Requests :
        pend[r] # <<>> =>
            /\ holder = r
            /\ pend[r][1].prev = head.hash
            /\ \A x \in Records \ Written(r) : view[r][x] = value[x]

(* After its first n events the trail s says that record x holds v: the    *)
(* latest event about x wrote v, or there is none and x is untouched.      *)
Leaves(s, n, x, v) ==
    \/ v = 0 /\ \A i \in 1 .. n : s[i].rec # x
    \/ \E i \in 1 .. n : /\ s[i].rec = x /\ s[i].new = v
                         /\ \A k \in i + 1 .. n : s[k].rec # x

(* Every event of s starts from the value the events before it left.       *)
Replays(s) ==
    \A j \in DOMAIN s : s[j].sealed => Leaves(s, j - 1, s[j].rec, s[j].old)

(* An auditor can replay the trail: every event's old value is the value   *)
(* the previous event about that record left, and the records hold what    *)
(* the last event about them says.  No update is lost and none is          *)
(* unexplained.                                                            *)
TrailExplainsValues ==
    /\ Replays(log)
    /\ \A x \in Records : Leaves(log, Len(log), x, value[x])

(* A request is rejected only when another event was committed after its   *)
(* snapshot was taken, so somebody made progress, or when a row was        *)
(* inserted around the service.                                            *)
RejectedOnlyWhenOvertaken ==
    \A r \in Requests :
        pc[r] = "rejected" => ~Untouched \/ \E i \in DOMAIN log : log[i].id > seen[r]

(* A session whose snapshot ends in an unsealed row never gets its first   *)
(* event accepted.                                                         *)
UnsealedTailBlocks ==
    [][\A r \in Requests : pend[r] = <<>> /\ pend'[r] # <<>> =>
          \A i \in DOMAIN log : log[i].id = seen[r] => log[i].sealed]_vars

(* No commit ever sets a record back to an older version, however long ago *)
(* its session read it.                                                    *)
VersionsNeverStepBack ==
    [][\A x \in Records : value'[x] >= value[x]]_vars

(* The chain head is never held for ever: a session that locked it gives   *)
(* it up, so no audited writer waits for it without end.                   *)
HeadLockReleased == \A r \in Requests : holder = r ~> holder # r
-----------------------------------------------------------------------------
(* The inductive invariant behind VerifiedWhileUntouched,                  *)
(* SealedOnCurrentState, RejectedOnlyWhenOvertaken and UnsealedTailBlocks. *)

(* Only the holder of the row lock has appended, and it saw what it        *)
(* appended.                                                               *)
LockInv ==
    \A r \in Requests :
        /\ holder = r => pc[r] # "idle"
        /\ pend[r] # <<>> => /\ holder = r
                            /\ pc[r] = "open"
                            /\ seen[r] = pend[r][Len(pend[r])].id

(* The counter is ahead of all ids in use, the committed rows stay behind  *)
(* the last one, and no snapshot shows more than is committed.             *)
IdInv ==
    /\ head.id <= LastId(log)
    /\ LastId(log) < nextId
    /\ \A i \in DOMAIN log : log[i].id <= LastId(log)
    /\ \A r \in Requests :
          /\ pend[r] = <<>> /\ pc[r] # "idle" => seen[r] <= LastId(log)
          /\ \A i \in DOMAIN pend[r] : pend[r][i].id < nextId

(* The uncommitted events of a session continue the committed chain.       *)
PendInv ==
    \A r \in Requests : \A i \in DOMAIN pend[r] :
        /\ pend[r][i].sealed
        /\ pend[r][i].prev = IF i = 1 THEN head.hash ELSE pend[r][i - 1].hash
        /\ pend[r][i].id > LastId(log)
        /\ pend[r][i].id <= LastId(pend[r])
        /\ i > 1 => pend[r][i].id > pend[r][i - 1].id

(* The head is no row that was inserted around the service.                *)
HeadInv == \A i \in DOMAIN log : log[i].id = head.id => log[i].sealed

(* A snapshot whose latest event is still the head shows the current       *)
(* records; a session that appended has current records but its own.       *)
SnapshotInv ==
    \A r \in Requests :
        pc[r] = "open" /\ seen[r] = LockedHead(r).id =>
            \A x \in Records : /\ x \notin Written(r) => view[r][x] = value[x]
                              /\ view[r][x] >= value[x]

(* A rejected session's snapshot ends before the head, or else saw or met  *)
(* a row inserted around the service.                                      *)
RejectInv ==
    \A r \in Requests :
        pc[r] = "rejected" => pend[r] = <<>> /\ (Untouched => seen[r] < head.id)

ChainInv ==
    /\ TypeOK /\ VerifiedWhileUntouched /\ LockInv /\ IdInv
    /\ PendInv /\ HeadInv /\ SnapshotInv /\ RejectInv

(* Added for TrailExplainsValues: the trail still replays when the         *)
(* uncommitted events of a session are put behind it.                      *)
TrailInv ==
    \A r \in Requests :
        pend[r] # <<>> =>
            /\ Replays(log \o pend[r])
            /\ \A x \in Records :
                  Leaves(log \o pend[r], Len(log) + Len(pend[r]), x, view[r][x])
=============================================================================
