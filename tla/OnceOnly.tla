------------------------------ MODULE OnceOnly ------------------------------
(***************************************************************************)
(* What backend/services/idempotency_service.py promises its callers: an   *)
(* operation under a key is performed once and remembered, the key is      *)
(* forgotten only by the passage of time, and only operations that were    *)
(* performed are ever acknowledged.  Nothing is said of sessions, rows,    *)
(* locks or snapshots.                                                     *)
(***************************************************************************)
CONSTANTS
    Keys,      \* client-supplied idempotency keys, scoped to a user
    Ops,       \* fingerprints: method, path and canonical payload
    Ids,       \* identities of performed operations
    Nothing    \* a key that remembers no operation

VARIABLES
    done,      \* operations whose effect is in the database
    memo,      \* the operation each key remembers
    answers    \* operations acknowledged to a client

vars == <<done, memo, answers>>

Operation == [key : Keys, op : Ops, id : Ids]

Init ==
    /\ done = {}
    /\ memo = [k \in Keys |-> Nothing]
    /\ answers = {}

(* The effect of o under key k, possible only while k remembers nothing.   *)
Perform(k, o, i) ==
    /\ memo[k] = Nothing
    /\ \A d \in done : d.id # i
    /\ done' = done \cup {[key |-> k, op |-> o, id |-> i]}
    /\ memo' = [memo EXCEPT ![k] = i]
    /\ UNCHANGED answers

(* The retention period of what k remembers ends.                          *)
Forget(k) ==
    /\ memo[k] # Nothing
    /\ memo' = [memo EXCEPT ![k] = Nothing]
    /\ UNCHANGED <<done, answers>>

(* A performed operation is acknowledged, at first or on a retry.          *)
Answer(d) ==
    /\ d \in done
    /\ answers' = answers \cup {d}
    /\ UNCHANGED <<done, memo>>

Next ==
    \/ \E k \in Keys, o \in Ops, i \in Ids : Perform(k, o, i)
    \/ \E k \in Keys : Forget(k)
    \/ \E d \in Operation : Answer(d)

Spec == Init /\ [][Next]_vars
=============================================================================
