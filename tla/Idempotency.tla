----------------------------- MODULE Idempotency ----------------------------
(***************************************************************************)
(* backend/services/idempotency_service.py: one financial mutation per     *)
(* (user, UUID) key, claimed and completed in the transaction of the       *)
(* mutation itself, with clients that retry and double-submit, requests    *)
(* that fail or crash anywhere, answers that get lost, and keys that       *)
(* expire and are swept.                                                   *)
(*                                                                         *)
(* A session is one request of the API.  Its snapshot is fixed by          *)
(* get_current_user's read, before the claim is looked up (REPEATABLE      *)
(* READ), so the first, non-locking lookup may be stale; inserts, deletes  *)
(* and FOR UPDATE reads act on the newest committed rows and wait for the  *)
(* sessions that hold them.                                                *)
(*                                                                         *)
(* Abstractions.  A fingerprint (method, path, hashed payload) is a member *)
(* of Ops; SHA-256 is taken as collision free.  The business change and    *)
(* its response are named by the id of the claim they commit with.  The    *)
(* unique index on idempotency_keys.key is the one row per key of "row".   *)
(***************************************************************************)
EXTENDS Integers, FiniteSets

CONSTANTS
    Sessions,    \* requests the API serves at once
    Keys,        \* idempotency keys: user and UUID
    Ops,         \* request fingerprints
    NoRow,       \* no idempotency_keys row
    NoSession,   \* nobody holds the key's index record
    MaxId        \* bound: idempotency_keys ids handed out

Row == [id : Nat \ {0}, op : Ops, state : {"PROCESSING", "COMPLETED"}]

ASSUME ConstantsAssumption ==
    /\ NoRow \notin Row
    /\ NoRow \notin Nat
    /\ NoSession \notin Sessions
    /\ MaxId \in Nat

VARIABLES
    row,       \* committed idempotency_keys row of each key
    expired,   \* ids of rows whose expires_at has passed
    lock,      \* session whose uncommitted insert or delete holds the key
    nextId,    \* AUTO_INCREMENT of idempotency_keys
    pc,        \* what each session is doing
    key,       \* the X-Idempotency-Key of its request
    op,        \* the fingerprint of its request
    view,      \* the key's row in its snapshot
    dropped,   \* its transaction deleted the key's committed row
    mine,      \* the row its transaction inserted
    sweep,     \* ids the maintenance thread selected for deletion
    done,      \* committed business effects
    answers    \* success answers sent

session == <<pc, key, op, view, dropped, mine>>
vars == <<row, expired, lock, nextId, session, sweep, done, answers>>

Init ==
    /\ row = [k \in Keys |-> NoRow]
    /\ expired = {}
    /\ lock = [k \in Keys |-> NoSession]
    /\ nextId = 1
    /\ pc = [s \in Sessions |-> "idle"]
    /\ key \in [Sessions -> Keys]
    /\ op \in [Sessions -> Ops]
    /\ view = [s \in Sessions |-> NoRow]
    /\ dropped = [s \in Sessions |-> FALSE]
    /\ mine = [s \in Sessions |-> NoRow]
    /\ sweep = {}
    /\ done = {}
    /\ answers = {}

-----------------------------------------------------------------------------
Active == {s \in Sessions : pc[s] # "idle"}

(* No other session's uncommitted write is in the way of s.                *)
Free(s) == lock[key[s]] \in {NoSession, s}

Unlocked(s) == [lock EXCEPT ![key[s]] = IF @ = s THEN NoSession ELSE @]

(* A request with key k and fingerprint o is authenticated, which fixes    *)
(* its snapshot, and looks its key up without a lock.  Clients repeat and  *)
(* overlap requests at will, with the same data or with changed data.      *)
Arrive(s, k, o) ==
    /\ pc[s] = "idle"
    /\ nextId + Cardinality(Active) <= MaxId
    /\ pc' = [pc EXCEPT ![s] = "arrived"]
    /\ key' = [key EXCEPT ![s] = k]
    /\ op' = [op EXCEPT ![s] = o]
    /\ view' = [view EXCEPT ![s] = row[k]]
    /\ UNCHANGED <<row, expired, lock, nextId, dropped, mine, sweep, done, answers>>

SeesExpired(s) == view[s] # NoRow /\ view[s].id \in expired

(* The row found has expired: delete it by primary key and flush.  Nothing *)
(* is deleted when it has gone, or was replaced, since the snapshot.       *)
Drop(s) ==
    /\ pc[s] = "arrived"
    /\ SeesExpired(s)
    /\ Free(s)
    /\ dropped' = [dropped EXCEPT ![s] = row[key[s]] = view[s]]
    /\ lock' = IF row[key[s]] = view[s] THEN [lock EXCEPT ![key[s]] = s] ELSE lock
    /\ pc' = [pc EXCEPT ![s] = "inserting"]
    /\ UNCHANGED <<row, expired, nextId, key, op, view, mine, sweep, done, answers>>

(* The INSERT of the candidate row reaches the unique index.  (MaxId never *)
(* blocks it: Arrive leaves an id for every session.)                      *)
Inserting(s) ==
    /\ \/ pc[s] = "inserting"
       \/ pc[s] = "arrived" /\ view[s] = NoRow
    /\ Free(s)
    /\ nextId <= MaxId

Candidate(s) == [id |-> nextId, op |-> op[s], state |-> "PROCESSING"]

(* Mutant: no unique index, the lookup alone decides.                      *)
InsertUnindexed(s) ==
    /\ Inserting(s)
    /\ mine' = [mine EXCEPT ![s] = Candidate(s)]
    /\ lock' = [lock EXCEPT ![key[s]] = s]
    /\ nextId' = nextId + 1
    /\ pc' = [pc EXCEPT ![s] = "claimed"]
    /\ UNCHANGED <<row, expired, key, op, view, dropped, sweep, done, answers>>

(* The key is free: the session now owns the operation.                    *)
Insert(s) ==
    /\ Inserting(s)
    /\ row[key[s]] = NoRow \/ dropped[s]
    /\ mine' = [mine EXCEPT ![s] = Candidate(s)]
    /\ lock' = [lock EXCEPT ![key[s]] = s]
    /\ nextId' = nextId + 1
    /\ pc' = [pc EXCEPT ![s] = "claimed"]
    /\ UNCHANGED <<row, expired, key, op, view, dropped, sweep, done, answers>>

(* IntegrityError: another request's claim is committed.  The transaction  *)
(* is rolled back and the key is about to be read again with FOR UPDATE.   *)
Collide(s) ==
    /\ Inserting(s)
    /\ row[key[s]] # NoRow
    /\ ~dropped[s]
    /\ nextId' = nextId + 1
    /\ pc' = [pc EXCEPT ![s] = "reloading"]
    /\ UNCHANGED <<row, expired, lock, key, op, view, dropped, mine, sweep, done, answers>>

(* The row the session decides on: the snapshot's, or after a collision    *)
(* the newest committed one.                                               *)
Found(s) == IF pc[s] = "reloading" THEN row[key[s]] ELSE view[s]

Decides(s) ==
    \/ pc[s] = "arrived" /\ view[s] # NoRow /\ view[s].id \notin expired
    \/ pc[s] = "reloading" /\ Free(s)

(* Mutant: the stored fingerprint is not compared.                         *)
ReplayableAnyOp(s) == Found(s) # NoRow

(* Same request data, and completed.                                       *)
Replayable(s) ==
    /\ Found(s) # NoRow
    /\ Found(s).op = op[s]
    /\ Found(s).state = "COMPLETED"

Acknowledge(s, i) == answers' = answers \cup {[key |-> key[s], op |-> op[s], id |-> i]}

(* The stored response is returned and nothing is executed.                *)
Replay(s) ==
    /\ Decides(s)
    /\ Replayable(s)
    /\ Acknowledge(s, Found(s).id)
    /\ pc' = [pc EXCEPT ![s] = "idle"]
    /\ UNCHANGED <<row, expired, lock, nextId, key, op, view, dropped, mine, sweep, done>>

(* Mutant: after a collision the lookup is repeated until it finds a row.  *)
RefuseFoundOnly(s) ==
    /\ Decides(s)
    /\ Found(s) # NoRow
    /\ ~Replayable(s)
    /\ pc' = [pc EXCEPT ![s] = "idle"]
    /\ UNCHANGED <<row, expired, lock, nextId, key, op, view, dropped, mine,
                   sweep, done, answers>>

(* 409: the key is gone again, was used for other data or for another      *)
(* operation, or is still being processed.                                 *)
Refuse(s) ==
    /\ Decides(s)
    /\ ~Replayable(s)
    /\ pc' = [pc EXCEPT ![s] = "idle"]
    /\ UNCHANGED <<row, expired, lock, nextId, key, op, view, dropped, mine,
                   sweep, done, answers>>

(* The business change is staged, then the transaction hook                *)
(* (claim.complete) stores the response in the claim.                      *)
Work(s) ==
    /\ pc[s] = "claimed"
    /\ mine' = [mine EXCEPT ![s].state = "COMPLETED"]
    /\ pc' = [pc EXCEPT ![s] = "worked"]
    /\ UNCHANGED <<row, expired, lock, nextId, key, op, view, dropped, sweep, done, answers>>

(* db_session.commit(): claim, response and business change at once.       *)
Commit(s) ==
    /\ pc[s] = "worked"
    /\ row' = [row EXCEPT ![key[s]] = mine[s]]
    /\ done' = done \cup {[key |-> key[s], op |-> op[s], id |-> mine[s].id]}
    /\ lock' = Unlocked(s)
    /\ dropped' = [dropped EXCEPT ![s] = FALSE]
    /\ pc' = [pc EXCEPT ![s] = "committed"]
    /\ UNCHANGED <<expired, nextId, key, op, view, mine, sweep, answers>>

(* The route returns the result.                                           *)
Answer(s) ==
    /\ pc[s] = "committed"
    /\ Acknowledge(s, mine[s].id)
    /\ mine' = [mine EXCEPT ![s] = NoRow]
    /\ pc' = [pc EXCEPT ![s] = "idle"]
    /\ UNCHANGED <<row, expired, lock, nextId, key, op, view, dropped, sweep, done>>

(* The request ends without a success answer: the business change raises,  *)
(* a lock wait times out or deadlocks, the process or the connection dies. *)
(* Before the commit everything is rolled back; after it only the answer   *)
(* is lost.                                                                *)
Fail(s) ==
    /\ pc[s] # "idle"
    /\ lock' = Unlocked(s)
    /\ dropped' = [dropped EXCEPT ![s] = FALSE]
    /\ mine' = [mine EXCEPT ![s] = NoRow]
    /\ pc' = [pc EXCEPT ![s] = "idle"]
    /\ UNCHANGED <<row, expired, nextId, key, op, view, sweep, done, answers>>

-----------------------------------------------------------------------------
(* 24 hours pass since the claim of key k was made.                        *)
Expire(k) ==
    /\ row[k] # NoRow
    /\ row[k].id \notin expired
    /\ expired' = expired \cup {row[k].id}
    /\ UNCHANGED <<row, lock, nextId, session, sweep, done, answers>>

Selected == {k \in Keys : row[k] # NoRow /\ row[k].id \in expired}

(* The maintenance thread selects expired rows (non-locking).              *)
SweepSelect ==
    /\ sweep = {}
    /\ sweep' = {row[k].id : k \in Selected}
    /\ UNCHANGED <<row, expired, lock, nextId, session, done, answers>>

(* Mutant: the delete names the keys of the selected rows, not their ids.  *)
SweepDeleteByKey ==
    /\ sweep # {}
    /\ \A k \in Keys : row[k] # NoRow => lock[k] = NoSession
    /\ row' = [k \in Keys |-> IF \E d \in done : d.key = k /\ d.id \in sweep
                              THEN NoRow ELSE row[k]]
    /\ sweep' = {}
    /\ UNCHANGED <<expired, lock, nextId, session, done, answers>>

(* It deletes them by id and commits, waiting for rows others hold.        *)
SweepDelete ==
    /\ sweep # {}
    /\ \A k \in Keys : row[k] # NoRow /\ row[k].id \in sweep => lock[k] = NoSession
    /\ row' = [k \in Keys |-> IF row[k] # NoRow /\ row[k].id \in sweep
                              THEN NoRow ELSE row[k]]
    /\ sweep' = {}
    /\ UNCHANGED <<expired, lock, nextId, session, done, answers>>

-----------------------------------------------------------------------------
Next ==
    \/ \E s \in Sessions :
          \/ \E k \in Keys, o \in Ops : Arrive(s, k, o)
          \/ Drop(s)
          \/ Insert(s)
          \/ Collide(s)
          \/ Replay(s)
          \/ Refuse(s)
          \/ Work(s)
          \/ Commit(s)
          \/ Answer(s)
          \/ Fail(s)
    \/ \E k \in Keys : Expire(k)
    \/ SweepSelect
    \/ SweepDelete

Spec == Init /\ [][Next]_vars

(* A request's own steps are taken by its server thread; a wait for a row  *)
(* lock ends because InnoDB grants locks in the order they were requested. *)
Fairness ==
    \A s \in Sessions :
        /\ SF_vars(Drop(s) \/ Insert(s) \/ Collide(s) \/ Replay(s) \/ Refuse(s))
        /\ WF_vars(Work(s) \/ Commit(s) \/ Answer(s))

FairSpec == Spec /\ Fairness

-----------------------------------------------------------------------------
Effect == [key : Keys, op : Ops, id : Nat \ {0}]

TypeOK ==
    /\ row \in [Keys -> Row \cup {NoRow}]
    /\ expired \subseteq Nat \ {0}
    /\ lock \in [Keys -> Sessions \cup {NoSession}]
    /\ nextId \in Nat \ {0}
    /\ pc \in [Sessions -> {"idle", "arrived", "inserting", "reloading",
                            "claimed", "worked", "committed"}]
    /\ key \in [Sessions -> Keys]
    /\ op \in [Sessions -> Ops]
    /\ view \in [Sessions -> Row \cup {NoRow}]
    /\ dropped \in [Sessions -> BOOLEAN]
    /\ mine \in [Sessions -> Row \cup {NoRow}]
    /\ sweep \subseteq Nat \ {0}
    /\ done \subseteq Effect
    /\ answers \subseteq Effect

(* However requests are repeated, overlapped or cut off, two effects of    *)
(* one key exist only when the claim of one of them has expired.           *)
OneEffectPerKey ==
    \A d, e \in done :
        d.key = e.key /\ d # e => d.id \in expired \/ e.id \in expired

(* The table and the business data tell the same story: a committed row is *)
(* completed and its effect is committed, and an effect whose retention    *)
(* period has not ended still has its row.                                 *)
MemoryIsExact ==
    /\ \A k \in Keys : row[k] # NoRow =>
          /\ row[k].state = "COMPLETED"
          /\ [key |-> k, op |-> row[k].op, id |-> row[k].id] \in done
    /\ \A d \in done : d.id \notin expired =>
          row[d.key] # NoRow /\ row[d.key].id = d.id

(* A success answer, the first or a replay, is for the very data of the    *)
(* request and for an effect that is committed.                            *)
AnswersAreTrue == answers \subseteq done

Memo == [k \in Keys |-> IF row[k] # NoRow /\ row[k].id \notin expired
                        THEN row[k].id ELSE NoRow]

Promise == INSTANCE OnceOnly WITH Ids <- 1..MaxId, Nothing <- NoRow, memo <- Memo

(* The service implements its promise: seen through the unexpired rows,    *)
(* every step performs once, forgets by time, acknowledges, or stutters.   *)
KeepsPromise == Promise!Spec

(* Every request ends, whoever else holds its key: no claim outlives the   *)
(* transaction that made it.                                               *)
EveryRequestEnds == \A s \in Sessions : pc[s] # "idle" ~> pc[s] = "idle"

-----------------------------------------------------------------------------
(* What makes OneEffectPerKey and MemoryIsExact inductive.                 *)
Owning == {"claimed", "worked"}

Done(s) == [key |-> key[s], op |-> op[s], id |-> mine[s].id]

(* An uncommitted claim or delete is under the key's lock, and a claim is  *)
(* only made where the key remembers nothing that has not expired.         *)
OwnerInv ==
    \A s \in Sessions :
        /\ mine[s] # NoRow <=> pc[s] \in Owning \cup {"committed"}
        /\ pc[s] \in Owning => /\ lock[key[s]] = s
                               /\ mine[s].op = op[s]
                               /\ dropped[s] \/ row[key[s]] = NoRow
        /\ dropped[s] => /\ pc[s] \in Owning \cup {"inserting"}
                         /\ lock[key[s]] = s
                         /\ row[key[s]] # NoRow
                         /\ row[key[s]].id \in expired
        /\ pc[s] = "worked" => mine[s].state = "COMPLETED"
        /\ pc[s] = "committed" => Done(s) \in done

(* Ids are never reused: an uncommitted claim's id names no effect, no     *)
(* expired row and no other claim.                                         *)
FreshInv ==
    /\ nextId <= MaxId + 1
    /\ \A i \in expired : i < nextId
    /\ \A d, e \in done : d.id < nextId /\ (d.id = e.id => d = e)
    /\ \A s \in Sessions : pc[s] \in Owning =>
          /\ mine[s].id < nextId
          /\ mine[s].id \notin expired
          /\ \A d \in done : d.id # mine[s].id
          /\ \A t \in Sessions : pc[t] \in Owning /\ t # s => mine[t].id # mine[s].id

(* What a snapshot shows was committed, with its effect.                   *)
ViewInv ==
    \A s \in Sessions : view[s] # NoRow =>
        /\ view[s].state = "COMPLETED"
        /\ [key |-> key[s], op |-> view[s].op, id |-> view[s].id] \in done

SweepInv == sweep \subseteq expired

IInv ==
    /\ TypeOK
    /\ OwnerInv
    /\ FreshInv
    /\ ViewInv
    /\ SweepInv
    /\ MemoryIsExact
    /\ AnswersAreTrue
=============================================================================
